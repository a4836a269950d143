------------------------------ MODULE Ccontrol ------------------------------
(***************************************************************************)
(* A build that runs under ccontrol: every cc, c++, ld and make of one     *)
(* user is a ccontrol process that reads the config file, takes a lock,    *)
(* and becomes (execv) or starts (fork) the program that does the work,    *)
(* which may call ccontrol again.  The processes share the config file,    *)
(* record locks on its bytes (or on the bytes of lock-file), one semaphore *)
(* (the slow lock, see SlowLock), pipes, and what a child inherits: its    *)
(* environment and its open descriptors.                                   *)
(*                                                                         *)
(* main and grab_lock are modelled step by step; between two steps any     *)
(* other process may run.  make, the compiler, ld, ccache, distcc and the  *)
(* kernel are external: a program starts the commands Spawns allows, waits *)
(* and ends; an exit releases record locks and undoes the semaphore.       *)
(***************************************************************************)
EXTENDS Integers, FiniteSets

CONSTANTS
  Pid,          \* process slots
  NoPid,
  Dir,          \* directories, each with its section of the config file
  File,         \* the config file and what lock-file may name
  Configs,      \* what the config file may contain: [Dir -> Section]
  FirstConfigs, \* what it may contain at the start
  UserCmd,      \* the commands the user types
  Spawns,       \* the commands each program starts
  DistccLimit,  \* DISTCC_LIMIT (20)
  MakeLimit,    \* MAKE_LIMIT (3)
  MaxCalls,     \* bound on the commands one program starts
  MaxDepth,     \* bound on how deep makes call each other: CCONTROL_LOCK is
                \* a char, which is full at 'A' + 62
  MaxEdits,     \* bound on the edits of the config file
  Mortal        \* the commands whose process may be killed at any moment

\* "pre" is a compile with -E, "cclink" one that distcc cannot distribute.
Cmd == {"cc", "cxx", "cclink", "pre", "ld", "make", "other"}

Section == [ccache : BOOLEAN, distcc : BOOLEAN, distcc_hosts : BOOLEAN,
            distcplusplus_hosts : BOOLEAN, cpus : Nat \ {0}, lock_file : File]

Callers == {"make", "compile", "distcc", "other"}

ASSUME ConstantsOK ==
  /\ IsFiniteSet(Pid) /\ NoPid \notin Pid
  /\ Dir # {} /\ File # {}
  /\ Configs \subseteq [Dir -> Section] /\ FirstConfigs \subseteq Configs
  /\ FirstConfigs # {}
  /\ UserCmd \subseteq Cmd
  /\ Spawns \in [Callers -> SUBSET Cmd] /\ "make" \notin Spawns["distcc"]
  /\ DistccLimit \in Nat \ {0} /\ MakeLimit \in Nat \ {0}
  /\ MaxCalls \in Nat /\ MaxEdits \in Nat /\ MaxDepth \in 0 .. 62
  /\ Mortal \subseteq Cmd

VARIABLES
  proc,    \* the process in each slot
  locks,   \* record locks: <<file, byte, owner>>
  semval,  \* value of the semaphore
  semadj,  \* per process: what its exit adds to semval (SEM_UNDO)
  semcap,  \* the value the semaphore was given, 0 before
  semmode, \* whether it is there, and whether semop is permitted on it
  config,  \* the content of the config file
  stamp,   \* its ctime, mtime and inode
  edits    \* how often it has been edited

sem == <<semval, semadj, semcap, semmode>>
file == <<config, stamp, edits>>
vars == <<proc, locks, sem, file>>

\* CCONTROL_LOCK: unset, '0', '1', or 'A' + depth, which undo_decrement_envvar
\* may turn into '@'.  It is a char, which LockIsChar says is enough.
Unset == 0
Slow == 48
Fast == 49
Level(depth) == 65 + depth
Depth(lock) == lock - 65 + 1

Env == [lock : Int,                 \* CCONTROL_LOCK
        by : Pid \cup {NoPid},      \* who set it to '0' (history)
        lockfd : Pid \cup {NoPid},  \* CCONTROL_LOCK_FD: whose pipe
        prefix : BOOLEAN,           \* CCACHE_PREFIX=ccontrol
        fallback0 : BOOLEAN]        \* DISTCC_FALLBACK=0

CleanEnv == [lock |-> Unset, by |-> NoPid, lockfd |-> NoPid,
             prefix |-> FALSE, fallback0 |-> FALSE]

\* Where main is; the program the process has become; or neither.
SemCalls == {"sem", "setperm", "setval"}
MainLabel == SemCalls \cup
             {"main", "again", "fstat", "grab", "fcntl", "restat", "run",
              "pipe", "collect", "wait", "crash"}
Program == {"make", "compile", "link", "ccache", "cached", "ccached",
            "distcc", "other"}
Label == MainLabel \cup Program \cup {"free", "zombie"}

NoSection == [ccache |-> FALSE, distcc |-> FALSE, distcc_hosts |-> FALSE,
              distcplusplus_hosts |-> FALSE, cpus |-> 1,
              lock_file |-> CHOOSE f \in File : TRUE]

Idle == [pc |-> "free", cmd |-> "cc", dir |-> CHOOSE d \in Dir : TRUE,
         parent |-> NoPid, env |-> CleanEnv,
         wfd |-> {},           \* pipes whose write end is open here
         sec |-> NoSection,    \* main's locals, from here on
         nodistcc |-> FALSE, noccache |-> FALSE, ccache_then_distcc |-> FALSE,
         st |-> 0, undo |-> "none", want |-> 0,
         told |-> FALSE,       \* a '#' is in its pipe
         status |-> "none",
         calls |-> 0]          \* commands this program has started

Process ==
  [pc : Label, cmd : Cmd, dir : Dir, parent : Pid \cup {NoPid}, env : Env,
   wfd : SUBSET Pid, sec : Section, nodistcc : BOOLEAN, noccache : BOOLEAN,
   ccache_then_distcc : BOOLEAN, st : Nat,
   undo : {"none", "nothing", "decrement", "unset", "drop"}, want : Int,
   told : BOOLEAN, status : {"none", "done", "nodist", "killed"},
   calls : 0 .. MaxCalls]

Init ==
  /\ proc = [p \in Pid |-> Idle]
  /\ locks = {}
  /\ semval = 0
  /\ semadj = [p \in Pid |-> 0]
  /\ semcap = 0
  /\ semmode = "none"
  /\ config \in FirstConfigs
  /\ stamp = 0
  /\ edits = 0

-----------------------------------------------------------------------------
(* Processes: fork, exec, exit.                                            *)

At(p, label) == proc[p].pc = label
Children(p) == {q \in Pid : proc[q].parent = p}

\* A slot that no descriptor and no environment still refers to.
Usable(q) ==
  /\ At(q, "free")
  /\ \A r \in Pid : /\ q \notin proc[r].wfd
                    /\ q \notin {proc[r].env.lockfd, proc[r].env.by}

\* execv keeps the environment and the descriptors, and drops the locals.
Exec(r, label) ==
  [Idle EXCEPT !.pc = label, !.cmd = r.cmd, !.dir = r.dir,
               !.parent = r.parent, !.env = r.env, !.wfd = r.wfd]

\* exit and death: children are orphaned, and a parent that waits for its
\* child in main finds a status (the programs collect theirs at once).
Awaited(p) ==
  \E r \in Pid : /\ r = proc[p].parent
                 /\ proc[r].pc \in {"pipe", "collect", "wait"}

Ended(p, status) ==
  [q \in Pid |->
    IF q = p /\ Awaited(p)
      THEN [Idle EXCEPT !.pc = "zombie", !.parent = proc[p].parent,
                        !.status = status]
    ELSE IF q = p \/ (proc[q].parent = p /\ At(q, "zombie")) THEN Idle
    ELSE IF proc[q].parent = p THEN [proc[q] EXCEPT !.parent = NoPid]
    ELSE proc[q]]

\* The kernel drops p's record locks and applies its semaphore adjustment.
Exit(p, status) ==
  /\ proc' = Ended(p, status)
  /\ locks' = {l \in locks : l[3] # p}
  /\ semval' = semval + semadj[p]
  /\ semadj' = [semadj EXCEPT ![p] = 0]
  /\ UNCHANGED <<semcap, semmode, file>>

\* fork: p goes on as r, with a child that runs image.  Where nobody can be
\* forked any more, main says fatal("failed to fork"), and ccache fails too.
Spawn(p, r, image) ==
  \E q \in Pid :
    /\ Usable(q)
    /\ proc' = [proc EXCEPT ![p] = r, ![q] = [image EXCEPT !.parent = p]]
    /\ UNCHANGED <<locks, sem, file>>

Fork(p, r, image) ==
  \/ Spawn(p, r, image)
  \/ /\ \A q \in Pid : ~Usable(q)
     /\ Exit(p, "done")

\* A step of main that changes nothing but the process.
Local(p, r) ==
  /\ proc' = [proc EXCEPT ![p] = r]
  /\ UNCHANGED <<locks, sem, file>>

-----------------------------------------------------------------------------
(* main: what to run, and how.                                             *)

TypeOf(cmd) == CASE cmd \in {"cc", "cclink", "pre"} -> "CC"
                 [] cmd = "cxx" -> "CPLUSPLUS"
                 [] cmd = "ld" -> "LD"
                 [] cmd = "make" -> "MAKE"
                 [] OTHER -> "OTHER"

\* What can_distcc answers is a class of commands here; its loop over the
\* arguments is in CommandLine.
can_distcc(cmd) == cmd \in {"cc", "cxx"}

\* Mutant: main tells the owner of the pipe whatever it was called for.
PreprocessTells(cmd) == FALSE
is_preprocess(cmd) == cmd = "pre"

\* CCONTROL_LOCK_FD is set: ccache runs us as its CCACHE_PREFIX.
Preprocess(p) ==
  /\ At(p, "main")
  /\ proc[p].env.lockfd # NoPid
  /\ is_preprocess(proc[p].cmd)
  /\ Local(p, Exec(proc[p], "compile"))

\* The compile proper: main goes on without ccache.
Compiling(r) ==
  [r EXCEPT !.pc = "again", !.noccache = TRUE, !.env.prefix = FALSE,
            !.env.lockfd = NoPid]

\* Tell the process at the other end of the pipe to drop its lock.
TellOwner(p) ==
  LET owner == proc[p].env.lockfd
      told == [proc EXCEPT ![owner].told = TRUE]
  IN  /\ At(p, "main")
      /\ owner \in Pid
      /\ ~is_preprocess(proc[p].cmd)
      /\ ~At(owner, "free") /\ ~At(owner, "zombie")
      /\ proc' = [told EXCEPT ![p] = Compiling(told[p])]
      /\ UNCHANGED <<locks, sem, file>>

\* That process is gone.  Its end of the pipe is not: both ends are inherited,
\* and nobody closes the one to read from, so the write succeeds all the same.
TellNobody(p) ==
  LET owner == proc[p].env.lockfd IN
  /\ At(p, "main")
  /\ owner \in Pid
  /\ ~is_preprocess(proc[p].cmd)
  /\ At(owner, "free") \/ At(owner, "zombie")
  /\ Local(p, Compiling(proc[p]))

Main(p) ==
  /\ At(p, "main")
  /\ proc[p].env.lockfd = NoPid
  /\ Local(p, [proc[p] EXCEPT !.pc = "again"])

\* Whether sec.distcc survives main's checks, so that the compile goes straight
\* to distcc, and whether it goes there through ccache.
DistccDirectly(r, s) ==
  /\ s.distcc /\ ~r.nodistcc
  /\ TypeOf(r.cmd) \notin {"LD", "MAKE"}
  /\ ~(s.ccache /\ ~r.noccache)
  /\ TypeOf(r.cmd) = "CC" => s.distcc_hosts
  /\ TypeOf(r.cmd) = "CPLUSPLUS" => s.distcplusplus_hosts
  /\ can_distcc(r.cmd)

DistccByCcache(r, s) ==
  /\ s.distcc /\ ~r.nodistcc
  /\ TypeOf(r.cmd) \notin {"LD", "MAKE"}
  /\ s.ccache /\ ~r.noccache

\* again: open and read the config file, and see what of it applies.  The
\* variable ccache_then_distcc is set here and never cleared.
ReadConfig(p) ==
  LET r == proc[p]
      s == config[r.dir]
      sec == [s EXCEPT !.ccache = s.ccache /\ ~r.noccache,
                       !.distcc = DistccDirectly(r, s)]
  IN  /\ At(p, "again")
      /\ TypeOf(r.cmd) = "OTHER" => s.ccache
      /\ Local(p, [r EXCEPT
           !.pc = "fstat", !.sec = sec,
           !.ccache_then_distcc = @ \/ DistccByCcache(r, s)])

\* sec.names has no slot for TYPE_OTHER: names[4] is the memory of sec.ccache,
\* and resolve_path dereferences it.
NoName(p) ==
  /\ At(p, "again")
  /\ TypeOf(proc[p].cmd) = "OTHER"
  /\ ~config[proc[p].dir].ccache
  /\ Local(p, [proc[p] EXCEPT !.pc = "crash"])

Fstat(p) ==
  /\ At(p, "fstat")
  /\ Local(p, [proc[p] EXCEPT !.pc = "grab", !.st = stamp])

-----------------------------------------------------------------------------
(* grab_lock.                                                              *)

IsMake(r) == TypeOf(r.cmd) = "MAKE"
Grabbing(p) == At(p, "grab") /\ proc[p].env.lock # Slow

FastBytes(s) == 1 .. s.cpus * DistccLimit
\* Mutants: all depths of make share one range; the ranges overlap by one.
MakeBytesShared(s, depth) ==
  LET base == 1 + s.cpus * DistccLimit IN base .. base + s.cpus * MakeLimit - 1
MakeBytesWide(s, depth) ==
  LET base == 1 + s.cpus * DistccLimit + depth * s.cpus * MakeLimit
  IN  base .. base + s.cpus * MakeLimit
MakeBytes(s, depth) ==
  LET base == 1 + s.cpus * DistccLimit + depth * s.cpus * MakeLimit
  IN  base .. base + s.cpus * MakeLimit - 1

AlreadyGotIt(p) ==
  /\ At(p, "grab")
  /\ proc[p].env.lock = Slow
  /\ Local(p, [proc[p] EXCEPT !.pc = "restat", !.undo = "nothing"])

\* No locks for top-level make.
GrabTopMake(p) ==
  /\ Grabbing(p)
  /\ IsMake(proc[p])
  /\ proc[p].env.lock = Unset
  /\ Local(p, [proc[p] EXCEPT !.pc = "restat", !.undo = "decrement",
                              !.env.lock = Level(0)])

\* grab_fcntl_lock picks its byte at random before it sleeps.
PickMakeByte(p) ==
  /\ Grabbing(p)
  /\ IsMake(proc[p])
  /\ proc[p].env.lock # Unset
  /\ \E b \in MakeBytes(proc[p].sec, Depth(proc[p].env.lock)) :
       Local(p, [proc[p] EXCEPT !.pc = "fcntl", !.want = b])

NeedSlow(p) ==
  /\ Grabbing(p)
  /\ ~IsMake(proc[p])
  /\ ~proc[p].sec.distcc
  /\ Local(p, [proc[p] EXCEPT !.pc = "sem"])

PickFastByte(p) ==
  /\ Grabbing(p)
  /\ ~IsMake(proc[p])
  /\ proc[p].sec.distcc
  /\ proc[p].env.lock # Fast
  /\ \E b \in FastBytes(proc[p].sec) :
       Local(p, [proc[p] EXCEPT !.pc = "fcntl", !.want = b])

CalledMyself(p) ==
  /\ Grabbing(p)
  /\ ~IsMake(proc[p])
  /\ proc[p].sec.distcc
  /\ proc[p].env.lock = Fast
  /\ Exit(p, "done")

\* fcntl(F_SETLKW) sleeps while another process owns the byte.
\* Mutant: with a read lock it would not.
ByteShared(p) == TRUE
ByteFree(p) ==
  \A l \in locks :
    l[1] = proc[p].sec.lock_file /\ l[2] = proc[p].want => l[3] = p

LockByte(p) ==
  LET r == proc[p] IN
  /\ At(p, "fcntl")
  /\ ByteFree(p)
  /\ locks' = locks \cup {<<r.sec.lock_file, r.want, p>>}
  /\ proc' = [proc EXCEPT ![p] =
       [r EXCEPT !.pc = "restat", !.want = 0,
                 !.undo = IF IsMake(r) THEN "decrement" ELSE "unset",
                 !.env = [r.env EXCEPT !.lock =
                   IF IsMake(r) THEN Level(Depth(r.env.lock)) ELSE Fast]]]
  /\ UNCHANGED <<sem, file>>

\* make_semaphore, in three calls.  Whoever finds no semaphore and is the first
\* to create one (IPC_EXCL) sets its permissions and then its value, which is
\* the creator's cpus; SETVAL clears all adjustments.  The others go on to
\* semop, some of them by way of byte 0 of the lock file, where they can only
\* wait for the creator (SlowLock has these calls, too).
CreateSem(p) ==
  /\ At(p, "sem")
  /\ semmode = "none"
  /\ semmode' = "denied"
  /\ proc' = [proc EXCEPT ![p].pc = "setperm"]
  /\ UNCHANGED <<locks, semval, semadj, semcap, file>>

SetPerm(p) ==
  /\ At(p, "setperm")
  /\ semmode' = "granted"
  /\ proc' = [proc EXCEPT ![p].pc = "setval"]
  /\ UNCHANGED <<locks, semval, semadj, semcap, file>>

SetVal(p) ==
  /\ At(p, "setval")
  /\ semval' = proc[p].sec.cpus
  /\ semcap' = proc[p].sec.cpus
  /\ semadj' = [q \in Pid |-> 0]
  /\ proc' = [proc EXCEPT ![p].pc = "sem"]
  /\ UNCHANGED <<locks, semmode, file>>

\* semop fails until the permissions are set: "cannot decrement semaphore".
SemDenied(p) ==
  /\ At(p, "sem")
  /\ semmode = "denied"
  /\ Exit(p, "done")

\* semop(-1, SEM_UNDO) sleeps while the value is 0.
GrabSem(p) ==
  /\ At(p, "sem")
  /\ semmode = "granted"
  /\ semval > 0
  /\ semval' = semval - 1
  /\ semadj' = [semadj EXCEPT ![p] = @ + 1]
  /\ proc' = [proc EXCEPT ![p] =
       [proc[p] EXCEPT !.pc = "restat", !.undo = "drop",
                       !.env = [proc[p].env EXCEPT !.lock = Slow, !.by = p]]]
  /\ UNCHANGED <<locks, semcap, semmode, file>>

-----------------------------------------------------------------------------
(* main again: undo, restat, run.                                          *)

\* undo(): what it does to the environment and to the semaphore.
\* Mutant: drop_slow_lock forgets to unset CCONTROL_LOCK.
UndoEnvKeeps(r) ==
  CASE r.undo = "decrement" -> [r.env EXCEPT !.lock = @ - 1]
    [] r.undo = "unset" -> [r.env EXCEPT !.lock = Unset, !.by = NoPid]
    [] OTHER -> r.env
UndoEnv(r) ==
  CASE r.undo = "decrement" -> [r.env EXCEPT !.lock = @ - 1]
    [] r.undo \in {"unset", "drop"} -> [r.env EXCEPT !.lock = Unset,
                                                     !.by = NoPid]
    [] OTHER -> r.env

\* Mutant: every undo raises the semaphore.
UndoSemAlways(p) ==
  /\ semval' = semval + 1
  /\ semadj' = [semadj EXCEPT ![p] = @ - 1]
  /\ UNCHANGED <<semcap, semmode>>
UndoSem(p) ==
  /\ semval' = IF proc[p].undo = "drop" THEN semval + 1 ELSE semval
  /\ semadj' = IF proc[p].undo = "drop"
               THEN [semadj EXCEPT ![p] = @ - 1] ELSE semadj
  /\ UNCHANGED <<semcap, semmode>>

\* close(sec.lock_fd) drops every lock p has on that file.
\* Mutant: the descriptor is left open.
CloseLockFileNot(p) == locks' = locks
CloseLockFile(p) ==
  locks' = {l \in locks : ~(l[1] = proc[p].sec.lock_file /\ l[3] = p)}

\* p undoes its lock and goes back to again or again_restore_args.
\* Mutant: it forgets that distcc failed.
RestartForgets(r, nodistcc) ==
  [r EXCEPT !.pc = "again", !.env = UndoEnv(r), !.undo = "none",
            !.sec = NoSection, !.st = 0]
Restart(r, nodistcc) ==
  [r EXCEPT !.pc = "again", !.nodistcc = nodistcc, !.env = UndoEnv(r),
            !.undo = "none", !.sec = NoSection, !.st = 0]

\* The config file changed since fstat: let go of everything, start again.
Altered(p) ==
  /\ At(p, "restat")
  /\ stamp # proc[p].st
  /\ proc' = [proc EXCEPT ![p] = Restart(proc[p], FALSE)]
  /\ CloseLockFile(p)
  /\ UndoSem(p)
  /\ UNCHANGED file

Unaltered(p) ==
  /\ At(p, "restat")
  /\ stamp = proc[p].st
  /\ Local(p, [proc[p] EXCEPT !.pc = "run"])

\* adjust_args_and_environment: what argv[0] is in the end.
Target(r) ==
  CASE TypeOf(r.cmd) = "MAKE" -> "make"
    [] TypeOf(r.cmd) = "LD" -> "link"
    [] TypeOf(r.cmd) = "OTHER" -> "other"
    [] OTHER -> IF r.sec.ccache THEN "ccache"
                ELSE IF r.sec.distcc THEN "distcc" ELSE "compile"

\* Without distcc the process becomes the program, and keeps its lock.
RunExec(p) ==
  /\ At(p, "run")
  /\ ~proc[p].ccache_then_distcc
  /\ ~proc[p].sec.distcc
  /\ Local(p, Exec(proc[p], Target(proc[p])))

RunCcache(p) ==
  LET r == [proc[p] EXCEPT !.env.lockfd = p, !.env.prefix = TRUE]
  IN  /\ At(p, "run")
      /\ r.ccache_then_distcc
      /\ Fork(p, [r EXCEPT !.pc = "pipe"],
              Exec([r EXCEPT !.wfd = @ \cup {p}], Target(r)))

\* Mutant: DISTCC_FALLBACK stays as it is.
MayFallBack(env) == env
NoFallback(env) == [env EXCEPT !.fallback0 = TRUE]

RunDistcc(p) ==
  LET r == [proc[p] EXCEPT !.env = NoFallback(@)]
  IN  /\ At(p, "run")
      /\ ~r.ccache_then_distcc
      /\ r.sec.distcc
      /\ Fork(p, [r EXCEPT !.pc = "wait"], Exec(r, Target(r)))

\* read() on the pipe returns a '#', or end of file.
\* Mutant: the parent forgets to close its own write end.
PipeTold(p) == proc[p].told
PipeReadable(p) == proc[p].told \/ \A q \in Pid : p \notin proc[q].wfd

ReadPipe(p) ==
  /\ At(p, "pipe")
  /\ PipeReadable(p)
  /\ proc' = [proc EXCEPT ![p] =
       [proc[p] EXCEPT !.pc = "collect", !.env = UndoEnv(proc[p]),
                       !.undo = "none"]]
  /\ UndoSem(p)
  /\ UNCHANGED <<locks, file>>

\* exit(wait_for_child())
Collect(p) ==
  /\ At(p, "collect")
  /\ \E q \in Children(p) : At(q, "zombie") /\ Exit(p, proc[q].status)

\* distcc distributed the compile, or failed otherwise than for want of a
\* host: main returns what it returned.
DistccReturned(p) ==
  /\ At(p, "wait")
  /\ \E q \in Children(p) :
       /\ At(q, "zombie")
       /\ proc[q].status # "nodist"
       /\ Exit(p, proc[q].status)

\* distcc could not distribute: once more, without it.
DistccFailed(p) ==
  /\ At(p, "wait")
  /\ \E q \in Children(p) :
       /\ At(q, "zombie")
       /\ proc[q].status = "nodist"
       /\ proc' = [proc EXCEPT ![q] = Idle, ![p] =
            [Restart(proc[p], TRUE) EXCEPT !.env.prefix = FALSE]]
  /\ CloseLockFile(p)
  /\ UndoSem(p)
  /\ UNCHANGED file

-----------------------------------------------------------------------------
(* The programs.                                                           *)

NoChild(p) == Children(p) = {}

\* make runs its commands in parallel and may cd; the others wait for each.
\* Of the compiles, only one that links calls anything (ld).
ProgramCalls(p) ==
  /\ proc[p].pc \in Callers
  /\ proc[p].calls < MaxCalls
  /\ At(p, "make") \/ NoChild(p)
  /\ At(p, "compile") => proc[p].cmd = "cclink"
  /\ \E c \in Spawns[proc[p].pc], d \in Dir :
       /\ At(p, "make") \/ d = proc[p].dir
       /\ c = "make" => proc[p].env.lock < Level(MaxDepth)
       /\ Spawn(p, [proc[p] EXCEPT !.calls = @ + 1],
                Exec([proc[p] EXCEPT !.cmd = c, !.dir = d], "main"))

ProgramEnds(p) ==
  /\ proc[p].pc \in {"make", "compile", "link", "ccached", "other"}
  /\ NoChild(p)
  /\ Exit(p, "done")

\* ccache preprocesses, by way of CCACHE_PREFIX if it is set.
CcacheStarts(p) ==
  LET r == [proc[p] EXCEPT !.pc = "cached"] IN
  /\ At(p, "ccache")
  /\ IF r.env.prefix
     THEN Fork(p, r, Exec([r EXCEPT !.cmd = "pre"], "main"))
     ELSE Local(p, r)

CcacheHit(p) ==
  /\ At(p, "cached")
  /\ NoChild(p)
  /\ Exit(p, "done")

\* The compile proper, again by way of CCACHE_PREFIX.
CcacheMiss(p) ==
  /\ At(p, "cached")
  /\ NoChild(p)
  /\ IF proc[p].env.prefix
     THEN Fork(p, [proc[p] EXCEPT !.pc = "ccached"], Exec(proc[p], "main"))
     ELSE Local(p, [proc[p] EXCEPT !.pc = "compile"])

DistccWorks(p) ==
  /\ At(p, "distcc")
  /\ NoChild(p)
  /\ Exit(p, "done")

\* No host takes the compile: distcc compiles here unless told not to.
DistccHasNoHost(p) ==
  /\ At(p, "distcc")
  /\ NoChild(p)
  /\ IF proc[p].env.fallback0
     THEN Exit(p, "nodist")
     ELSE Local(p, [proc[p] EXCEPT !.pc = "compile"])

Crash(p) ==
  /\ At(p, "crash")
  /\ Exit(p, "killed")

Kill(p) ==
  /\ proc[p].cmd \in Mortal
  /\ proc[p].pc \notin {"free", "zombie"}
  /\ Exit(p, "killed")

-----------------------------------------------------------------------------
(* The user.                                                               *)

Start(p) ==
  /\ Usable(p)
  /\ \E c \in UserCmd, d \in Dir :
       Local(p, [Idle EXCEPT !.pc = "main", !.cmd = c, !.dir = d])

\* ccontrol-init, the applet or an editor changes the config file.
Edit ==
  /\ edits < MaxEdits
  /\ config' \in Configs \ {config}
  /\ stamp' = stamp + 1
  /\ edits' = edits + 1
  /\ UNCHANGED <<proc, locks, sem>>

Step(p) ==
  \/ Preprocess(p) \/ TellOwner(p) \/ TellNobody(p) \/ Main(p)
  \/ ReadConfig(p) \/ NoName(p) \/ Fstat(p)
  \/ AlreadyGotIt(p) \/ GrabTopMake(p) \/ PickMakeByte(p) \/ NeedSlow(p)
  \/ PickFastByte(p) \/ CalledMyself(p)
  \/ LockByte(p) \/ CreateSem(p) \/ SetPerm(p) \/ SetVal(p) \/ SemDenied(p)
  \/ GrabSem(p)
  \/ Altered(p) \/ Unaltered(p) \/ RunExec(p) \/ RunCcache(p) \/ RunDistcc(p)
  \/ ReadPipe(p) \/ Collect(p) \/ DistccReturned(p) \/ DistccFailed(p)

ProgramProgress(p) ==
  \/ ProgramEnds(p) \/ CcacheStarts(p) \/ CcacheHit(p) \/ CcacheMiss(p)
  \/ DistccWorks(p) \/ DistccHasNoHost(p) \/ Crash(p)

Next ==
  \/ \E p \in Pid :
       Step(p) \/ ProgramCalls(p) \/ ProgramProgress(p) \/ Start(p) \/ Kill(p)
  \/ Edit

Spec == Init /\ [][Next]_vars

(***************************************************************************)
(* Fairness.  The kernel runs every process that can run; it queues the    *)
(* sleepers of fcntl and semop, so whoever could be served again and again *)
(* is served; a program that can end again and again ends, and the others  *)
(* of its steps do not go on for ever.  Nothing makes a user start a       *)
(* command, edit the config file or kill a process.                        *)
(***************************************************************************)
Fairness ==
  \A p \in Pid :
    /\ WF_vars(Step(p))
    /\ SF_vars(LockByte(p) \/ GrabSem(p))
    /\ SF_vars(ProgramProgress(p))

FairSpec == Spec /\ Fairness

-----------------------------------------------------------------------------
(* Properties.                                                             *)

TypeOK ==
  /\ proc \in [Pid -> Process]
  /\ locks \subseteq File \X Int \X Pid
  /\ semval \in Nat
  /\ semadj \in [Pid -> {0, 1}]
  /\ semcap \in Nat
  /\ semmode \in {"none", "denied", "granted"}
  /\ config \in Configs
  /\ stamp \in Nat
  /\ edits \in 0 .. MaxEdits

\* CCONTROL_LOCK=0 tells the truth: whoever inherits it runs on behalf of a
\* process that still holds the slow lock, which is why it need not take a
\* lock itself ("If we already have slow lock, don't grab again (gcc calls
\* ld)", ccontrol-lock.c:168).
SlowMeansHeld ==
  \A p \in Pid :
    proc[p].env.lock = Slow => /\ proc[p].env.by \in Pid
                               /\ semadj[proc[p].env.by] = 1

\* The compiles and links at work on this machine.
LocalJobs == {p \in Pid : proc[p].pc \in {"compile", "link"} /\ NoChild(p)}

\* As many run at a time as the slow lock has units: ccontrol restricts the
\* "number of parallel processes" (ccontrol-lock.c:1), also when distcc fails.
JobsBounded == Cardinality(LocalJobs) <= semcap

\* Whoever sleeps in grab_lock holds nothing others could wait for.
NoHoldAndWait ==
  \A p \in Pid :
    proc[p].pc \in {"grab", "fcntl", "sem"} =>
      semadj[p] = 0 /\ \A l \in locks : l[3] # p

\* The processes that wait, directly or not, for the end of p: what every set
\* has that holds p's parent and, with a process, its parent.
Ancestors(p) ==
  {a \in Pid : \A S \in SUBSET Pid :
     /\ proc[p].parent \in Pid => proc[p].parent \in S
     /\ \A q \in S : proc[q].parent \in Pid => proc[q].parent \in S
     => a \in S}

\* What ccache preprocesses runs under the slow lock of the ccontrol that
\* started it: "We need to hold slow lock until either ccache pulls from cache
\* and exits, OR ccontrol is invoked from ccache" (ccontrol.c:409).
PreprocessLocked ==
  \A p \in Pid : At(p, "compile") /\ proc[p].cmd = "pre" =>
    proc[p].env.by \in Pid /\ semadj[proc[p].env.by] = 1

\* Nobody waits for a byte an ancestor holds, which would wait for its
\* descendant: the bytes of compiles and of each depth of make are separate
\* ranges ("Next range is used by distcc-able builds. Then a series of ranges
\* for each makefile depth", ccontrol-lock.c:175).
NoWaitOnAncestor ==
  \A p \in Pid : At(p, "fcntl") =>
    \A l \in locks :
      l[1] = proc[p].sec.lock_file /\ l[2] = proc[p].want
        => l[3] \notin Ancestors(p)

\* distcc runs with DISTCC_FALLBACK=0, whatever configs main has read before:
\* "We have to wait, to make sure distcc actually distributes, otherwise we end
\* up running 20 compiles locally" (ccontrol.c:435).
DistccGuarded == \A p \in Pid : At(p, "distcc") => proc[p].env.fallback0

\* The fast locks limit what runs under them: nested makes per depth, and
\* compiles in the hands of distcc.
MaxCpus == CHOOSE n \in {s[d].cpus : s \in Configs, d \in Dir} :
             \A s \in Configs, d \in Dir : s[d].cpus <= n
FastLimits ==
  /\ \A depth \in 1 .. Cardinality(Pid) :
       Cardinality({p \in Pid : At(p, "make") /\ proc[p].env.lock = Level(depth)})
         <= MaxCpus * MakeLimit
  /\ Cardinality({p \in Pid : At(p, "distcc")}) <= MaxCpus * DistccLimit

\* A semaphore that has no value and will get none: its creator was killed
\* before SETVAL.
Orphaned ==
  /\ semmode = "granted"
  /\ semcap = 0
  /\ \A p \in Pid : ~At(p, "setval")

\* A command ends, whoever is killed: it is not left with a pipe, a child, a
\* byte or a unit to wait for.  The one exception is a death inside
\* make_semaphore, after which all who need the slow lock sleep for ever, and
\* with them all who wait for their end.
Stuck(p) ==
  Orphaned /\ \E q \in Pid : At(q, "sem") /\ p \in {q} \cup Ancestors(q)
Finishes(p) == ~At(p, "free") ~> At(p, "free") \/ Stuck(p)

\* main uses the slow lock as a counting lock: it never takes a unit twice,
\* never gives back one it does not hold, and each change of the semaphore is
\* one step of CountingLock.
SlowHolders == {p \in Pid : semadj[p] # 0}
Lock == INSTANCE CountingLock WITH Proc <- Pid, holders <- SlowHolders,
                                   cap <- semcap
SlowLockUse == Lock!Spec

(***************************************************************************)
(* The inductive invariant the theorems rest on.                           *)
(***************************************************************************)

\* Before a process has taken its lock it has none: what again and
\* again_restore_args come back to is what main starts with.
Unlocked == {"free", "zombie", "main", "again", "fstat", "grab", "fcntl",
             "crash"} \cup SemCalls
NothingHeld ==
  \A p \in Pid : proc[p].pc \in Unlocked =>
    semadj[p] = 0 /\ \A l \in locks : l[3] # p

\* While main runs on with its lock, it knows how to let go of it: undo gives
\* back the slow lock, and close(sec.lock_fd) the byte.
Locked == {"restat", "run", "pipe", "wait"}
UndoKnows ==
  \A p \in Pid : proc[p].pc \in Locked =>
    /\ semadj[p] = 1 <=> proc[p].undo = "drop"
    /\ \A l \in locks : l[3] = p => l[1] = proc[p].sec.lock_file

\* The processes hold the units the semaphore lacks.
UnitsConserved == semval + Cardinality(SlowHolders) = semcap

\* Between its creation and its value the semaphore belongs to one process.
Creating == {p \in Pid : proc[p].pc \in {"setperm", "setval"}}
OneCreator ==
  /\ semmode = "none" => semcap = 0
  /\ \A p \in Creating : semmode # "none" /\ semcap = 0
  /\ \A p, q \in Creating : p = q

IndInv ==
  /\ TypeOK
  /\ NothingHeld
  /\ UndoKnows
  /\ UnitsConserved
  /\ OneCreator

\* CCONTROL_LOCK stays in a char, for makes that nest no deeper than MaxDepth:
\* a make that may still raise it is not at the last depth, however often it
\* starts again, and undo() does not lower it below '@'.
LockFits(r) ==
  /\ r.env.lock \in 0 .. Level(MaxDepth)
  /\ r.undo = "decrement" => r.env.lock > 0
  /\ r.cmd = "make" /\ r.pc \notin Program =>
       \/ r.env.lock < Level(MaxDepth)
       \/ r.pc \in Locked /\ r.undo = "decrement"
  /\ r.cmd = "make" => r.pc \notin {"ccache", "cached", "ccached"}
LockIsChar == \A p \in Pid : LockFits(proc[p])
=============================================================================
