--------------------------- MODULE CcontrolOrder ---------------------------
(***************************************************************************)
(* What makes the locks of Ccontrol do their work, process by process: why *)
(* the slow lock bounds local jobs, and why no wait for a byte closes a    *)
(* circle.  Both hold where the config file and the programs are as        *)
(* Orderly, and Ranked, say; the invariants here are inductive there.      *)
(***************************************************************************)
EXTENDS Ccontrol

(***************************************************************************)
(* Why local jobs are bounded, and where.  A slow lock is inherited: one   *)
(* process holds the unit, and those that work on its behalf form a line,  *)
(* each of them waiting for the next.  That is so when no section has both *)
(* ccache and distcc (whose pipe passes the unit on before the compile),   *)
(* when only make calls make, and when nobody dies and leaves children.    *)
(***************************************************************************)
Orderly ==
  /\ \A s \in Configs, d \in Dir : ~(s[d].ccache /\ s[d].distcc)
  /\ \A l \in Callers \ {"make"} : "make" \notin Spawns[l]
  /\ Mortal = {}

\* What a process then is by itself.
Proper(r) ==
  /\ ~r.env.prefix /\ r.env.lockfd = NoPid /\ ~r.ccache_then_distcc
  /\ r.pc \notin {"pipe", "collect", "ccached"}
  /\ r.pc \in {"free", "zombie"} => r.env.lock = Unset
  /\ r.sec.distcc => ~r.sec.ccache /\ r.cmd \in {"cc", "cxx"}
  /\ r.cmd = "make" => r.env.lock = Unset \/ r.env.lock >= Level(-1)
  /\ r.undo = "decrement" => r.cmd = "make" /\ r.env.lock >= Level(0)
  /\ r.pc = "fcntl" =>
       r.sec.distcc \/ (r.cmd = "make" /\ r.env.lock # Unset)
  /\ r.pc \in SemCalls => r.cmd # "make"
  /\ r.pc \in {"restat", "run"} =>
       r.cmd = "make" \/ r.sec.distcc \/ r.env.lock = Slow
  /\ r.pc = "make" => r.cmd = "make"
  /\ r.pc \in Program \ {"make", "distcc"} => r.env.lock = Slow
  /\ r.pc = "distcc" => r.env.fallback0

\* Only those that wait have children, and only make has several.
FewChildren ==
  \A p \in Pid : proc[p].parent \in Pid =>
    /\ proc[proc[p].parent].pc \in Callers \cup {"wait"}
    /\ \A q \in Pid \ {p} : proc[q].parent = proc[p].parent =>
         At(proc[p].parent, "make")

\* Nobody is its own ancestor: every set of processes has one whose parent is
\* elsewhere.
Acyclic ==
  \A S \in SUBSET Pid : S # {} => \E p \in S : proc[p].parent \notin S

\* CCONTROL_LOCK=0 comes with the unit, or from a parent that has it.
HoldsUnit(p) == proc[p].env.by = p /\ semadj[p] = 1
SlowInherited ==
  \A p \in Pid : proc[p].env.lock = Slow =>
    \/ HoldsUnit(p)
    \/ /\ proc[p].parent \in Pid
       /\ proc[proc[p].parent].env.lock = Slow
       /\ proc[proc[p].parent].env.by = proc[p].env.by

LineInv ==
  /\ \A p \in Pid : Proper(proc[p])
  /\ FewChildren
  /\ Acyclic
  /\ SlowInherited

(***************************************************************************)
(* Why no circle of waits can close over the bytes, and where.  A process  *)
(* that waits for a byte descends from makes only, and each make holds a   *)
(* byte of a lower range.  That is so where, besides, distcc calls nothing *)
(* and the ranges of all sections are the same.                            *)
(***************************************************************************)
AnySection ==
  LET content == CHOOSE s \in Configs : TRUE
  IN  content[CHOOSE d \in Dir : TRUE]
Ranked ==
  /\ Orderly
  /\ Spawns["distcc"] = {}
  /\ \A s \in Configs, d \in Dir : s[d].cpus = AnySection.cpus

\* The range of a byte r waits for, or has, as a make of that depth or a
\* compile.
InRange(r, byte, depth) ==
  IF r.cmd = "make" THEN byte \in MakeBytes(AnySection, depth)
                    ELSE byte \in FastBytes(AnySection)

\* What a process is by itself.
InOrder(r) ==
  /\ r.pc \in {"fstat", "grab", "fcntl"} => r.sec.cpus = AnySection.cpus
  /\ r.pc = "fcntl" => InRange(r, r.want, Depth(r.env.lock))
  /\ r.pc \in {"fcntl"} \cup SemCalls => r.env.lock # Slow
  /\ r.pc \in {"restat", "run", "make"} /\ r.cmd = "make" =>
       r.env.lock >= Level(0)
  /\ r.undo \in {"unset", "drop"} => r.cmd # "make"

\* What its parent makes of it: a make is deeper than the make that called it,
\* and what else is called has no lock to wait for.
Follows(r, parent) ==
  /\ r.cmd = "make" =>
       /\ parent.pc = "make"
       /\ r.env.lock >= parent.env.lock
       /\ r.undo = "decrement" => r.env.lock > parent.env.lock
  /\ parent.pc # "make" =>
       \/ r.pc \in {"zombie", "distcc"}
       \/ r.env.lock = Slow /\ r.undo \in {"none", "nothing"}

ByteInv ==
  /\ \A p \in Pid :
       /\ InOrder(proc[p])
       /\ proc[p].parent \in Pid => Follows(proc[p], proc[proc[p].parent])
  /\ \A l \in locks :
       InRange(proc[l[3]], l[2], Depth(proc[l[3]].env.lock) - 1)

(***************************************************************************)
(* Why the bytes count what runs under them, and where.  Each byte is of   *)
(* one owner, and whoever runs as a nested make, or waits for its distcc,  *)
(* owns one.  That is so where, besides, all sections lock in one file and *)
(* only make calls what distcc takes: a compile that runs under somebody   *)
(* else's slow lock goes to distcc without a byte of its own.              *)
(***************************************************************************)
Counted ==
  /\ Ranked
  /\ \A l \in Callers \ {"make"} : Spawns[l] \cap {"cc", "cxx"} = {}
  /\ \A s \in Configs, d \in Dir : s[d].lock_file = AnySection.lock_file

\* What a process is by itself: one that distcc may take has its own lock.
Counts(r) ==
  /\ r.pc \in {"fstat", "grab", "fcntl"} =>
       r.sec.lock_file = AnySection.lock_file
  /\ r.pc \in SemCalls => ~r.sec.distcc
  /\ r.pc = "wait" => r.sec.distcc
  /\ can_distcc(r.cmd) =>
       /\ r.pc \in {"main", "again", "fstat", "grab"} => r.env.lock # Slow
       /\ r.pc \in {"restat", "run", "wait"} => r.undo \in {"unset", "drop"}
  /\ r.pc \in {"restat", "run", "wait"} /\ r.sec.distcc => r.undo # "drop"

\* Who runs under a byte.
UnderByte(r) ==
  \/ r.undo = "unset"
  \/ /\ r.pc \in {"restat", "run", "make"} /\ r.cmd = "make"
     /\ r.env.lock >= Level(1)

HeldInv ==
  /\ \A l, m \in locks : l[1] = m[1] /\ l[2] = m[2] => l[3] = m[3]
  /\ \A l \in locks : l[1] = AnySection.lock_file
  /\ \A p \in Pid :
       /\ Counts(proc[p])
       /\ UnderByte(proc[p]) => \E l \in locks : l[3] = p
       /\ At(p, "distcc") => /\ proc[p].parent \in Pid
                             /\ At(proc[p].parent, "wait")

(***************************************************************************)
(* Why the preprocessor of ccache runs under the slow lock, and where.     *)
(* Between the ccontrol that holds the unit, at one end of a pipe, and     *)
(* those that could tell it to let go stands one process, ccache, and it   *)
(* runs the preprocessor or the compile, one after the other.  That is so  *)
(* where only make calls make and compilers, and when nobody dies and      *)
(* leaves children.                                                        *)
(***************************************************************************)
Compiles == {"cc", "cxx", "cclink", "pre"}
Layered ==
  /\ \A l \in Callers \ {"make"} :
       Spawns[l] \cap (Compiles \cup {"make"}) = {}
  /\ Mortal = {}

\* Only those that wait have children, and only make has several.
Waiting == Callers \cup {"wait", "pipe", "collect", "cached", "ccached"}
OneChild ==
  \A p \in Pid : proc[p].parent \in Pid =>
    /\ proc[proc[p].parent].pc \in Waiting
    /\ \A q \in Pid \ {p} : proc[q].parent = proc[p].parent =>
         At(proc[p].parent, "make")

\* What p is by itself: a compile takes a lock of its own, unless it is told
\* not to call ccache once more; and who has a pipe is not in main any more.
Piped(p, r) ==
  /\ r.env.prefix <=> r.env.lockfd # NoPid
  /\ r.env.lockfd = p <=> r.pc \in {"pipe", "collect"}
  /\ r.env.lockfd # NoPid =>
       r.pc \in ({"main", "pipe", "collect"} \cup Program) \ {"make"}
  /\ r.told => r.pc \in {"pipe", "collect"}
  /\ r.pc = "main" => ~r.sec.ccache /\ ~r.sec.distcc /\ ~r.ccache_then_distcc
  /\ r.pc \in Unlocked => r.undo = "none"
  /\ r.cmd = "make" => r.env.lock = Unset \/ r.env.lock >= Level(-1)
  /\ r.undo = "decrement" => r.cmd = "make" /\ r.env.lock >= Level(0)
  /\ r.pc \in {"make", "other"} => r.cmd = r.pc
  /\ r.pc = "distcc" => can_distcc(r.cmd)
  /\ r.ccache_then_distcc => r.cmd \notin {"ld", "make"}
  /\ r.noccache =>
       r.cmd # "pre" /\ ~r.sec.ccache /\ ~r.ccache_then_distcc
  /\ r.sec.distcc => ~r.sec.ccache /\ can_distcc(r.cmd)
  /\ r.pc = "fcntl" =>
       r.sec.distcc \/ (r.cmd = "make" /\ r.env.lock # Unset)
  /\ r.pc \in SemCalls => r.cmd # "make"
  /\ r.undo = "unset" => r.sec.distcc
  /\ r.undo = "drop" => r.env.by = p
  /\ r.cmd \in Compiles /\ ~r.noccache =>
       /\ r.pc \in {"main", "again", "fstat", "grab"} =>
            r.env.lock # Slow \/ r.env.lockfd # NoPid
       /\ r.pc \in {"restat", "run", "wait"} => r.undo \in {"unset", "drop"}

\* A preprocessor that has no pipe has the slow lock itself.
PreAlone(p, r) ==
  r.cmd = "pre" /\ r.pc \in Program /\ r.env.lockfd = NoPid =>
    r.env.by = p /\ semadj[p] = 1

\* What ccache preprocesses, and ccache until then.
Preprocesses(r) == r.pc \in {"ccache", "cached"} \/ r.cmd = "pre"

\* A process that has somebody else's pipe is the program that one waits for,
\* or what this program has just called; and where it preprocesses, the one at
\* the other end has the slow lock and cannot have been told to let go.
Below(p, r) ==
  LET owner == r.env.lockfd
      above == r.parent
  IN  owner \in Pid \ {p} =>
        /\ proc[owner].pc \in {"pipe", "collect"}
        /\ \/ above = owner /\ r.pc \in Program
           \/ /\ above \in Pid /\ above # owner
              /\ proc[above].parent = owner /\ proc[above].env.lockfd = owner
              /\ \/ r.pc = "main"
                 \/ r.pc = "compile" /\ r.cmd = "pre"
              /\ IF r.cmd = "pre"
                 THEN \/ proc[above].pc = "cached"
                      \/ proc[above].pc = "ccached" /\ proc[above].cmd = "pre"
                 ELSE /\ proc[above].pc \in Program \ {"ccache", "cached"}
                      /\ proc[above].cmd # "pre"
        /\ Preprocesses(r) =>
             /\ proc[owner].pc = "pipe" /\ proc[owner].undo = "drop"
             /\ ~proc[owner].told
             /\ owner \in r.wfd /\ r.env.by = owner

PipeInv ==
  /\ OneChild
  /\ \A p \in Pid : /\ Piped(p, proc[p])
                    /\ PreAlone(p, proc[p])
                    /\ Below(p, proc[p])
=============================================================================
