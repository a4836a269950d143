------------------------------ MODULE PipeProofs ------------------------------
(***************************************************************************)
(* Proofs that what ccache preprocesses runs under the slow lock, for any  *)
(* number of processes, any config files and any failures of distcc: the   *)
(* one who holds the unit lets go of it when its pipe says so, and while   *)
(* somebody preprocesses nobody can have written to that pipe, nor have    *)
(* they all closed it.                                                     *)
(***************************************************************************)
EXTENDS CcontrolProofs

-----------------------------------------------------------------------------
(* Processes, and those below them.                                        *)

\* A process of this kind has no child.
LEMMA NoneBelow ==
  ASSUME OneChild, NEW p \in Pid, proc[p].pc \notin Waiting
  PROVE  NoChild(p)
BY DEF OneChild, NoChild, Children

\* Nobody has the pipe of a process without children but itself.
LEMMA OnesOwnPipe ==
  ASSUME PipeInv, NEW p \in Pid, NoChild(p), NEW q \in Pid \ {p}
  PROVE  proc[q].env.lockfd # p
<1> SUFFICES ASSUME proc[q].env.lockfd = p PROVE FALSE
  OBVIOUS
<1>1. Below(q, proc[q])
  BY DEF PipeInv
<1>2. \/ proc[q].parent = p
      \/ proc[q].parent \in Pid /\ proc[proc[q].parent].parent = p
  BY <1>1 DEF Below
<1>3. QED
  BY <1>2 DEF NoChild, Children

\* What an unused slot is.
LEMMA IdlePiped ==
  ASSUME NEW p \in Pid, NEW label \in {"free", "zombie"}, NEW r,
         r.pc = label, r.cmd = "cc", r.env = CleanEnv, r.sec = NoSection,
         ~r.noccache, ~r.ccache_then_distcc, r.undo = "none", ~r.told
  PROVE  Piped(p, r) /\ PreAlone(p, r) /\ Below(p, r)
<1>1. ~NoSection.distcc /\ ~NoSection.ccache
  BY DEF NoSection
<1>2. r.env.lockfd = NoPid /\ ~r.env.prefix /\ p # NoPid /\ NoPid \notin Pid
  BY ConstantsOK DEF CleanEnv
<1>3. QED
  BY <1>1, <1>2 DEF Piped, PreAlone, Below, Program

\* A step of a process that has no children.
LEMMA AlonePipe ==
  ASSUME TypeOK, PipeInv, NEW p \in Pid, NoChild(p), NEW r,
         proc' = [proc EXCEPT ![p] = r],
         r.parent = proc[p].parent \/ r.parent = NoPid,
         \A q \in Pid \ {p} : semadj'[q] = semadj[q],
         Piped(p, r), PreAlone(p, r)', Below(p, r)
  PROVE  PipeInv'
<1>1. /\ proc'[p] = r /\ \A q \in Pid \ {p} : proc'[q] = proc[q]
  BY DEF TypeOK
<1>2. \A q \in Pid : proc[q].parent # p
  BY DEF NoChild, Children
<1>3. OneChild'
  <2>1. ASSUME NEW q \in Pid, proc'[q].parent \in Pid
        PROVE  proc'[q].parent = proc[q].parent /\ proc'[q].parent # p
    <3>1. CASE q = p
      BY <2>1, <3>1, <1>1, <1>2, ConstantsOK
    <3>2. CASE q # p
      BY <3>2, <1>1, <1>2
    <3>3. QED
      BY <3>1, <3>2
  <2>2. \A q \in Pid : proc'[q].parent \in Pid =>
          proc'[proc'[q].parent] = proc[proc[q].parent]
    BY <1>1, <2>1
  <2>3. QED
    BY <2>1, <2>2 DEF OneChild, PipeInv, At
<1>4. ASSUME NEW q \in Pid
      PROVE  Piped(q, proc[q])' /\ PreAlone(q, proc[q])' /\ Below(q, proc[q])'
  <2>1. CASE q = p
    <3>1. Below(p, r)'
      <4> DEFINE o == r.env.lockfd
                 a == r.parent
      <4>1. o \in Pid \ {p} => proc'[o] = proc[o]
        BY <1>1
      <4>2. a \in Pid => a # p
        BY <1>2, ConstantsOK
      <4>3. a \in Pid => proc'[a] = proc[a]
        BY <1>1, <4>2
      <4>4. QED
        BY <4>1, <4>3 DEF Below
    <3>2. QED
      BY <2>1, <3>1, <1>1
  <2>2. CASE q # p
    <3>1. /\ proc'[q] = proc[q] /\ semadj'[q] = semadj[q]
          /\ proc[q].env.lockfd # p
      BY <2>2, <1>1, OnesOwnPipe
    <3>2. Piped(q, proc[q])' /\ PreAlone(q, proc[q])'
      BY <3>1 DEF PipeInv, PreAlone
    <3>3. Below(q, proc[q])
      BY DEF PipeInv
    <3>4. Below(q, proc[q])'
      <4> DEFINE o == proc[q].env.lockfd
                 a == proc[q].parent
      <4>1. o \in Pid \ {q} => proc'[o] = proc[o]
        BY <1>1, <3>1
      <4>2. a \in Pid => proc'[a] = proc[a]
        BY <1>1, <1>2
      <4>3. QED
        BY <3>1, <3>3, <4>1, <4>2 DEF Below
    <3>5. QED
      BY <3>2, <3>4
  <2>3. QED
    BY <2>1, <2>2
<1>5. QED
  BY <1>3, <1>4 DEF PipeInv, Piped

\* The same, where nothing else changes.
LEMMA LocalPipe ==
  ASSUME TypeOK, PipeInv, NEW p \in Pid, NoChild(p), NEW r, Local(p, r),
         r.parent = proc[p].parent,
         Piped(p, r), PreAlone(p, r), Below(p, r)
  PROVE  PipeInv'
<1>1. proc' = [proc EXCEPT ![p] = r] /\ semadj' = semadj
  BY DEF Local, sem
<1>2. PreAlone(p, r)'
  BY <1>1 DEF PreAlone
<1>3. QED
  BY <1>1, <1>2, AlonePipe

\* The exit of a process whose children have all ended.
LEMMA ExitPipe ==
  ASSUME TypeOK, PipeInv, NEW p \in Pid,
         NEW status \in {"none", "done", "nodist", "killed"},
         Exit(p, status), \A q \in Children(p) : At(q, "zombie")
  PROVE  PipeInv'
<1>1. /\ proc' = Ended(p, status)
      /\ \A q \in Pid \ {p} : semadj'[q] = semadj[q]
  BY DEF Exit, TypeOK
<1>a. PICK z : z = [Idle EXCEPT !.pc = "zombie", !.parent = proc[p].parent,
                                !.status = status]
  OBVIOUS
<1>2. ASSUME NEW q \in Pid
      PROVE  /\ Piped(q, Idle) /\ PreAlone(q, Idle)' /\ Below(q, Idle)'
             /\ Piped(q, z) /\ PreAlone(q, z)' /\ Below(q, z)'
  <2>1. /\ Idle.pc = "free" /\ Idle.cmd = "cc" /\ Idle.env = CleanEnv
        /\ Idle.sec = NoSection /\ ~Idle.noccache /\ ~Idle.ccache_then_distcc
        /\ Idle.undo = "none" /\ ~Idle.told
        /\ z.pc = "zombie" /\ z.cmd = "cc" /\ z.env = CleanEnv
        /\ z.sec = NoSection /\ ~z.noccache /\ ~z.ccache_then_distcc
        /\ z.undo = "none" /\ ~z.told
    BY <1>a DEF Idle
  <2>2. Piped(q, Idle) /\ Piped(q, z)
    BY <2>1, IdlePiped
  <2>3. CleanEnv.lockfd = NoPid /\ NoPid \notin Pid
    BY ConstantsOK DEF CleanEnv
  <2>4. PreAlone(q, Idle)' /\ Below(q, Idle)' /\ PreAlone(q, z)' /\ Below(q, z)'
    BY <2>1, <2>3 DEF PreAlone, Below, Program
  <2>5. QED
    BY <2>2, <2>4
<1>3. Idle.parent = NoPid /\ z.parent = proc[p].parent
  BY <1>a DEF Idle
<1>4. proc'[p] = z \/ proc'[p] = Idle
  BY <1>1, <1>a DEF Ended
<1>5. ASSUME NEW q \in Pid \ {p}
      PROVE  \/ proc'[q] = Idle /\ At(q, "zombie")
             \/ proc'[q] = proc[q] /\ proc[q].parent # p
  BY <1>1 DEF Ended, Children
<1>6. ASSUME NEW q \in Pid \ {p}, proc[q].pc \in Waiting
      PROVE  proc'[q] = proc[q]
  BY <1>5, <1>6 DEF At, Waiting, Callers
<1>7. OneChild'
  <2>1. ASSUME NEW q \in Pid, proc'[q].parent \in Pid
        PROVE  /\ proc'[q].parent = proc[q].parent
               /\ proc[q].parent # p
    <3>1. CASE q = p
      <4>1. proc[p].parent = p => proc[p].pc = "zombie"
        BY DEF Children, At
      <4>2. proc[p].parent = p => proc[p].pc \in Waiting
        BY DEF PipeInv, OneChild
      <4>3. proc[p].parent # p
        BY <4>1, <4>2 DEF Waiting, Callers
      <4>4. QED
        BY <2>1, <3>1, <4>3, <1>3, <1>4, ConstantsOK
    <3>2. CASE q # p
      BY <2>1, <3>2, <1>3, <1>5, ConstantsOK
    <3>3. QED
      BY <3>1, <3>2
  <2>2. ASSUME NEW q \in Pid, proc'[q].parent \in Pid
        PROVE  proc'[proc'[q].parent] = proc[proc[q].parent]
    BY <2>1, <2>2, <1>6 DEF PipeInv, OneChild
  <2>3. QED
    BY <2>1, <2>2 DEF OneChild, PipeInv, At
<1>8. ASSUME NEW q \in Pid
      PROVE  Piped(q, proc[q])' /\ PreAlone(q, proc[q])' /\ Below(q, proc[q])'
  <2>1. CASE proc'[q] = Idle \/ proc'[q] = z
    BY <2>1, <1>2
  <2>2. CASE q # p /\ proc'[q] = proc[q] /\ proc[q].parent # p
    <3>1. Piped(q, proc[q]) /\ PreAlone(q, proc[q]) /\ Below(q, proc[q])
      BY DEF PipeInv
    <3>2. PreAlone(q, proc[q])'
      BY <1>1, <2>2, <3>1 DEF PreAlone
    <3> DEFINE o == proc[q].env.lockfd
               a == proc[q].parent
    <3>3. ASSUME o \in Pid \ {q}, a # o
          PROVE  /\ a \in Pid /\ a # p /\ proc'[a] = proc[a]
                 /\ proc[a].parent = o
      <4>1. /\ a \in Pid /\ proc[a].parent = o
            /\ proc[a].pc \in Program \cup {"cached"}
        BY <3>1, <3>3 DEF Below, Program
      <4>2. QED
        BY <4>1, <2>2, <1>5 DEF At, Program
    <3>4. ASSUME o \in Pid \ {q}
          PROVE  o # p /\ proc'[o] = proc[o]
      <4>1. proc[o].pc \in {"pipe", "collect"}
        BY <3>1, <3>4 DEF Below
      <4>2. CASE a = o
        BY <2>2, <4>1, <4>2, <1>6, <3>4 DEF Waiting
      <4>3. CASE a # o
        <5>1. a \in Pid /\ proc[a].parent = o /\ proc[a].env.lockfd = o
          BY <3>1, <3>4, <4>3 DEF Below
        <5>2. o # p
          <6> SUFFICES ASSUME o = p PROVE FALSE
            OBVIOUS
          <6>1. proc[a].pc = "zombie"
            BY <5>1 DEF Children, At
          <6>2. proc[a].pc \in {"main", "pipe", "collect"} \cup Program
            BY <5>1, <3>4, ConstantsOK DEF PipeInv, Piped
          <6>3. QED
            BY <6>1, <6>2 DEF Program
        <5>3. QED
          BY <4>1, <5>2, <1>6, <3>4 DEF Waiting
      <4>4. QED
        BY <4>2, <4>3
    <3>5. Below(q, proc[q])'
      BY <2>2, <3>1, <3>3, <3>4 DEF Below
    <3>6. QED
      BY <2>2, <3>1, <3>2, <3>5
  <2>3. QED
    BY <2>1, <2>2, <1>4, <1>5
<1>9. QED
  BY <1>7, <1>8 DEF PipeInv, Piped

\* A program, or main, starts a child: either nobody of this pipe, or ccache,
\* or what that runs.
LEMMA SpawnPipe ==
  ASSUME TypeOK, PipeInv, NEW p \in Pid, NEW r, NEW image \in Process,
         Spawn(p, r, image), proc[p].pc # "free",
         NoChild(p) \/ (r.pc = "make" /\ proc[p].pc = "make"),
         r.pc \in Waiting, r.parent = proc[p].parent,
         Piped(p, r), PreAlone(p, r), Below(p, r),
         \A q \in Pid : q # image.env.lockfd =>
           Piped(q, [image EXCEPT !.parent = p]) /\ PreAlone(q, image),
         \/ image.env.lockfd = NoPid
         \/ /\ image.env.lockfd = p /\ image.pc \in Program /\ r.pc = "pipe"
            /\ Preprocesses(image) =>
                 /\ r.undo = "drop" /\ ~r.told
                 /\ p \in image.wfd /\ image.env.by = p
         \/ /\ r.parent = r.env.lockfd /\ r.env.lockfd \in Pid \ {p}
            /\ image.env = r.env /\ image.wfd = r.wfd /\ image.pc = "main"
            /\ r.env.lockfd = proc[p].env.lockfd
            /\ IF image.cmd = "pre"
               THEN r.pc = "cached" \/ (r.pc = "ccached" /\ r.cmd = "pre")
               ELSE r.pc \in Program \ {"ccache", "cached"} /\ r.cmd # "pre"
  PROVE  PipeInv'
<1>1. PICK q \in Pid, c \in {[image EXCEPT !.parent = p]} :
        /\ Usable(q) /\ c = [image EXCEPT !.parent = p]
        /\ proc' = [proc EXCEPT ![p] = r, ![q] = c]
  BY DEF Spawn
<1>2. /\ q # p /\ proc[q].pc = "free" /\ NoChild(q)
      /\ \A x \in Pid : proc[x].env.lockfd # q
  <2>1. proc[q].pc = "free" /\ \A x \in Pid : proc[x].env.lockfd # q
    BY <1>1 DEF Usable, At
  <2>2. NoChild(q)
    BY <2>1, NoneBelow DEF PipeInv, Waiting, Callers
  <2>3. QED
    BY <2>1, <2>2
<1>3. /\ c.parent = p /\ c.pc = image.pc /\ c.cmd = image.cmd
      /\ c.env = image.env /\ c.wfd = image.wfd /\ semadj' = semadj
  BY <1>1 DEF Process, Spawn, sem
<1>4. /\ proc'[p] = r /\ proc'[q] = c
      /\ \A x \in Pid \ {p, q} : proc'[x] = proc[x]
  BY <1>1, <1>2 DEF TypeOK
<1>5. \A x \in Pid : proc[x].parent # q
  BY <1>2 DEF NoChild, Children
<1>6. OneChild'
  <2>1. ASSUME NEW x \in Pid, proc'[x].parent \in Pid
        PROVE  proc'[proc'[x].parent].pc \in Waiting
    <3>1. CASE x = q
      BY <3>1, <1>3, <1>4
    <3>2. CASE x # q
      <4>1. proc'[x].parent = proc[x].parent
        BY <3>2, <1>4
      <4>2. proc[proc[x].parent].pc \in Waiting
        BY <2>1, <4>1 DEF PipeInv, OneChild
      <4>3. QED
        BY <2>1, <4>1, <4>2, <1>4, <1>5
    <3>3. QED
      BY <3>1, <3>2
  <2>2. ASSUME NEW x \in Pid, NEW y \in Pid \ {x}, proc'[x].parent \in Pid,
               proc'[y].parent = proc'[x].parent
        PROVE  proc'[proc'[x].parent].pc = "make"
    <3>1. CASE x # q /\ y # q
      <4>1. /\ proc'[x].parent = proc[x].parent
            /\ proc'[y].parent = proc[y].parent
        BY <3>1, <1>4
      <4>2. proc[proc[x].parent].pc = "make"
        BY <2>2, <4>1 DEF PipeInv, OneChild, At
      <4>3. proc[x].parent # p \/ r.pc = "make"
        BY DEF NoChild, Children
      <4>4. QED
        BY <2>2, <4>1, <4>2, <4>3, <1>4, <1>5
    <3>2. CASE x = q \/ y = q
      <4>1. PICK w \in {x, y} :
              w # q /\ proc[w].parent = p /\ proc'[x].parent = p
        BY <2>2, <3>2, <1>3, <1>4
      <4>2. r.pc = "make"
        BY <4>1 DEF NoChild, Children
      <4>3. QED
        BY <4>1, <4>2, <1>4
    <3>3. QED
      BY <3>1, <3>2
  <2>3. QED
    BY <2>1, <2>2 DEF OneChild, At
<1>7. ASSUME NEW x \in Pid
      PROVE  Piped(x, proc[x])' /\ PreAlone(x, proc[x])' /\ Below(x, proc[x])'
  <2>1. CASE x = q
    <3>1. image.env.lockfd # q
      <4>1. image.env.lockfd \in {NoPid, p, proc[p].env.lockfd}
        OBVIOUS
      <4>2. QED
        BY <4>1, <1>2, ConstantsOK
    <3>2. Piped(q, c) /\ PreAlone(q, image)
      BY <3>1, <1>1
    <3>3. PreAlone(q, c)'
      BY <3>2, <1>3 DEF PreAlone
    <3>4. Below(q, c)'
      <4>1. CASE image.env.lockfd = NoPid
        BY <4>1, <1>3, ConstantsOK DEF Below
      <4>2. CASE /\ image.env.lockfd = p
                 /\ image.pc \in Program /\ r.pc = "pipe"
                 /\ Preprocesses(image) =>
                      /\ r.undo = "drop" /\ ~r.told /\ p \in image.wfd
                      /\ image.env.by = p
        BY <4>2, <1>3, <1>4 DEF Below, Preprocesses
      <4>3. CASE /\ r.parent = r.env.lockfd /\ r.env.lockfd \in Pid \ {p}
                 /\ image.env = r.env /\ image.wfd = r.wfd /\ image.pc = "main"
                 /\ r.env.lockfd = proc[p].env.lockfd
                 /\ IF image.cmd = "pre"
                    THEN r.pc = "cached" \/ (r.pc = "ccached" /\ r.cmd = "pre")
                    ELSE /\ r.pc \in Program \ {"ccache", "cached"}
                         /\ r.cmd # "pre"
        <5> DEFINE o == r.env.lockfd
        <5>1. o # q /\ proc'[o] = proc[o]
          BY <4>3, <1>2, <1>4
        <5>2. proc[o].pc \in {"pipe", "collect"}
          BY <4>3 DEF Below
        <5>3. c.cmd = "pre" => Preprocesses(r)
          BY <4>3, <1>3 DEF Preprocesses
        <5>4. c.cmd = "pre" =>
                /\ proc[o].pc = "pipe" /\ proc[o].undo = "drop"
                /\ ~proc[o].told /\ o \in r.wfd /\ r.env.by = o
          BY <4>3, <5>3 DEF Below
        <5>5. /\ c.env.lockfd = o /\ c.parent = p /\ c.pc = "main"
              /\ o \in Pid /\ p # o
              /\ c.wfd = r.wfd /\ c.env.by = r.env.by /\ c.cmd = image.cmd
              /\ proc'[p] = r
          BY <4>3, <1>3, <1>4
        <5>6. Preprocesses(c) <=> c.cmd = "pre"
          BY <5>5 DEF Preprocesses
        <5> HIDE DEF o
        <5>7. r.parent = o /\ r.env.lockfd = o
          BY <4>3 DEF o
        <5>8. IF c.cmd = "pre"
              THEN r.pc = "cached" \/ (r.pc = "ccached" /\ r.cmd = "pre")
              ELSE r.pc \in Program \ {"ccache", "cached"} /\ r.cmd # "pre"
          BY <4>3, <5>5
        <5>9. QED
          BY <5>1, <5>2, <5>4, <5>5, <5>6, <5>7, <5>8 DEF Below
      <4>4. QED
        BY <4>1, <4>2, <4>3
    <3>5. QED
      BY <2>1, <3>2, <3>3, <3>4, <1>4 DEF Piped
  <2>2. CASE x = p
    <3>1. PreAlone(p, r)'
      BY <1>3 DEF PreAlone
    <3>2. Below(p, r)'
      <4> DEFINE o == r.env.lockfd
                 a == r.parent
      <4>1. ASSUME o \in Pid \ {p}
            PROVE  /\ proc'[o] = proc[o]
                   /\ a \in Pid => a # p /\ proc'[a] = proc[a]
        <5>1. proc[o].pc # "free" /\ o # q
          BY <4>1, <1>2 DEF Below
        <5>2. a # q
          BY <1>5
        <5>3. a # p
          <6> SUFFICES ASSUME proc[p].parent = p PROVE FALSE
            OBVIOUS
          <6>1. proc[p].pc = "make"
            BY DEF NoChild, Children
          <6>2. proc[p].env.lockfd = NoPid /\ r.env.lockfd = NoPid
            BY <6>1 DEF PipeInv, Piped, NoChild, Children
          <6>3. QED
            BY <4>1, <6>2, ConstantsOK
        <5>4. QED
          BY <4>1, <5>1, <5>2, <5>3, <1>4
      <4>2. QED
        BY <4>1 DEF Below
    <3>3. QED
      BY <2>2, <3>1, <3>2, <1>4 DEF Piped
  <2>3. CASE x \notin {p, q}
    <3>1. Piped(x, proc[x]) /\ PreAlone(x, proc[x]) /\ Below(x, proc[x])
      BY DEF PipeInv
    <3>2. proc'[x] = proc[x]
      BY <2>3, <1>4
    <3>3. PreAlone(x, proc[x])'
      BY <3>1, <3>2, <1>3 DEF PreAlone
    <3> DEFINE o == proc[x].env.lockfd
               a == proc[x].parent
    <3>4. ASSUME o \in Pid \ {x}
          PROVE  /\ proc'[o] = proc[o]
                 /\ a # o => a \in Pid /\ proc'[a] = proc[a]
      <4>1. /\ proc[o].pc \in {"pipe", "collect"}
            /\ a # o => /\ a \in Pid /\ proc[a].parent = o
                        /\ proc[a].env.lockfd = o
        BY <3>1, <3>4 DEF Below
      <4>2. o # q /\ a # q
        BY <1>2, <1>5
      <4>3. CASE NoChild(p)
        <5>1. o # p
          BY <2>3, <4>3, OnesOwnPipe
        <5>2. a # p
          BY <4>3 DEF NoChild, Children
        <5>3. QED
          BY <3>4, <4>1, <4>2, <5>1, <5>2, <1>4
      <4>4. CASE proc[p].pc = "make"
        <5>1. o # p
          BY <4>1, <4>4
        <5>2. proc[p].env.lockfd = NoPid
          BY <4>4 DEF PipeInv, Piped
        <5>3. a # o => a # p
          BY <3>4, <4>1, <5>2, ConstantsOK
        <5>4. QED
          BY <3>4, <4>1, <4>2, <5>1, <5>3, <1>4
      <4>5. QED
        BY <4>3, <4>4
    <3>5. Below(x, proc[x])'
      BY <3>1, <3>2, <3>4 DEF Below
    <3>6. QED
      BY <3>1, <3>2, <3>3, <3>5 DEF Piped
  <2>4. QED
    BY <2>1, <2>2, <2>3
<1>8. QED
  BY <1>6, <1>7 DEF PipeInv

-----------------------------------------------------------------------------
(* main, up to the lock and from there on.                                 *)

\* What a process of main is that has no pipe.
LEMMA NoPipe ==
  ASSUME PipeInv, NEW p \in Pid,
         proc[p].pc \notin {"main", "pipe", "collect"} \cup Program
  PROVE  proc[p].env.lockfd = NoPid
BY DEF PipeInv, Piped

\* main, up to the lock, and from it to run.
LEMMA MainPipe ==
  ASSUME TypeOK, PipeInv, NEW p \in Pid,
         \/ Main(p) \/ ReadConfig(p) \/ NoName(p) \/ Fstat(p)
         \/ PickMakeByte(p) \/ NeedSlow(p) \/ PickFastByte(p)
         \/ AlreadyGotIt(p) \/ GrabTopMake(p) \/ Unaltered(p)
  PROVE  PipeInv'
<1>a. /\ proc[p] \in Process /\ proc[p].env \in Env /\ Piped(p, proc[p])
      /\ proc[p].pc \in {"main", "again", "fstat", "grab", "restat"}
  BY OwnType DEF PipeInv, Main, ReadConfig, NoName, Fstat, PickMakeByte,
     NeedSlow, PickFastByte, AlreadyGotIt, GrabTopMake, Unaltered, Grabbing, At
<1>b. NoChild(p) /\ proc[p].env.lockfd = NoPid
  <2>1. proc[p].env.lockfd = NoPid
    BY <1>a DEF Piped, Program, Main, ReadConfig, NoName, Fstat, PickMakeByte,
       NeedSlow, PickFastByte, AlreadyGotIt, GrabTopMake, Unaltered, Grabbing,
       At
  <2>2. QED
    BY <1>a, <2>1, NoneBelow DEF PipeInv, Waiting, Callers
<1>c. NoPid \notin Pid
  BY ConstantsOK
<1>d. ASSUME NEW r, Local(p, r), r.parent = proc[p].parent, Piped(p, r),
             r.env.lockfd = NoPid, r.pc \notin Program
      PROVE  PipeInv'
  <2>1. PreAlone(p, r) /\ Below(p, r)
    BY <1>c, <1>d DEF PreAlone, Below
  <2>2. QED
    BY <1>b, <1>d, <2>1, LocalPipe
<1> USE DEF At, Grabbing
<1>1. CASE \/ Main(p) \/ NoName(p) \/ Fstat(p) \/ PickMakeByte(p)
           \/ NeedSlow(p) \/ PickFastByte(p) \/ Unaltered(p)
  <2>1. PICK label, r :
          /\ label \in {"again", "crash", "grab", "fcntl", "sem", "run"}
          /\ Local(p, r)
          /\ r.pc = label /\ r.cmd = proc[p].cmd /\ r.env = proc[p].env
          /\ r.undo = proc[p].undo /\ r.sec = proc[p].sec
          /\ r.told = proc[p].told /\ r.noccache = proc[p].noccache
          /\ r.ccache_then_distcc = proc[p].ccache_then_distcc
          /\ r.parent = proc[p].parent
          /\ label = "fcntl" =>
               \/ proc[p].sec.distcc
               \/ proc[p].cmd = "make" /\ proc[p].env.lock # Unset
          /\ label = "sem" => proc[p].cmd # "make"
          /\ label = "run" <=> proc[p].pc = "restat"
          /\ label \in {"again", "grab"} => proc[p].pc \in {"main", "fstat"}
    <3>1. CASE Main(p) \/ NoName(p) \/ NeedSlow(p) \/ Unaltered(p)
      <4>1. PICK label \in {"again", "crash", "sem", "run"} :
              /\ Local(p, [proc[p] EXCEPT !.pc = label])
              /\ label = "again" => proc[p].pc = "main"
              /\ label = "sem" => proc[p].cmd # "make"
              /\ label = "run" <=> proc[p].pc = "restat"
        BY <3>1 DEF Main, NoName, NeedSlow, Unaltered, IsMake, TypeOf
      <4> DEFINE r == [proc[p] EXCEPT !.pc = label]
      <4>2. /\ r.pc = label /\ r.cmd = proc[p].cmd /\ r.env = proc[p].env
            /\ r.undo = proc[p].undo /\ r.sec = proc[p].sec
            /\ r.told = proc[p].told /\ r.noccache = proc[p].noccache
            /\ r.ccache_then_distcc = proc[p].ccache_then_distcc
            /\ r.parent = proc[p].parent
        BY <1>a DEF Process
      <4>3. Local(p, r)
        BY <4>1
      <4> HIDE DEF r
      <4>4. QED
        BY <4>1, <4>2, <4>3
    <3>2. CASE Fstat(p)
      <4> DEFINE r == [proc[p] EXCEPT !.pc = "grab", !.st = stamp]
      <4>1. /\ r.pc = "grab" /\ r.cmd = proc[p].cmd /\ r.env = proc[p].env
            /\ r.undo = proc[p].undo /\ r.sec = proc[p].sec
            /\ r.told = proc[p].told /\ r.noccache = proc[p].noccache
            /\ r.ccache_then_distcc = proc[p].ccache_then_distcc
            /\ r.parent = proc[p].parent
        BY <1>a DEF Process
      <4>2. Local(p, r) /\ proc[p].pc = "fstat"
        BY <3>2 DEF Fstat
      <4> HIDE DEF r
      <4>3. QED
        BY <4>1, <4>2
    <3>3. CASE PickMakeByte(p) \/ PickFastByte(p)
      <4>1. PICK b : Local(p, [proc[p] EXCEPT !.pc = "fcntl", !.want = b])
        BY <3>3 DEF PickMakeByte, PickFastByte
      <4>2. /\ proc[p].pc = "grab"
            /\ \/ proc[p].sec.distcc
               \/ proc[p].cmd = "make" /\ proc[p].env.lock # Unset
        BY <1>a, <3>3 DEF PickMakeByte, PickFastByte, IsMake, TypeOf, Process
      <4> DEFINE r == [proc[p] EXCEPT !.pc = "fcntl", !.want = b]
      <4>3. /\ r.pc = "fcntl" /\ r.cmd = proc[p].cmd /\ r.env = proc[p].env
            /\ r.undo = proc[p].undo /\ r.sec = proc[p].sec
            /\ r.told = proc[p].told /\ r.noccache = proc[p].noccache
            /\ r.ccache_then_distcc = proc[p].ccache_then_distcc
            /\ r.parent = proc[p].parent
        BY <1>a DEF Process
      <4>4. Local(p, r)
        BY <4>1
      <4> HIDE DEF r
      <4>5. QED
        BY <4>2, <4>3, <4>4
    <3>4. QED
      BY <1>1, <3>1, <3>2, <3>3
  <2>2. Piped(p, r)
    BY <1>a, <1>b, <1>c, <2>1 DEF Piped, Program, Unlocked, SemCalls
  <2>3. r.env.lockfd = NoPid /\ r.pc \notin Program
    BY <1>b, <2>1 DEF Program
  <2>4. QED
    BY <1>d, <2>1, <2>2, <2>3
<1>2. CASE ReadConfig(p)
  <2> DEFINE s == config[proc[p].dir]
             t == [s EXCEPT !.ccache = s.ccache /\ ~proc[p].noccache,
                            !.distcc = DistccDirectly(proc[p], s)]
             also == proc[p].ccache_then_distcc \/ DistccByCcache(proc[p], s)
             r == [proc[p] EXCEPT !.pc = "fstat", !.sec = t,
                     !.ccache_then_distcc = also]
  <2>1. s \in Section
    BY <1>a, ConstantsOK DEF TypeOK, Process
  <2>2. /\ t.ccache = (s.ccache /\ ~proc[p].noccache)
        /\ t.distcc = DistccDirectly(proc[p], s)
    BY <2>1 DEF Section
  <2>3. Local(p, r) /\ proc[p].pc = "again"
    BY <1>2 DEF ReadConfig
  <2>4. /\ proc[p].noccache => ~t.ccache
        /\ proc[p].noccache /\ ~proc[p].ccache_then_distcc => ~also
        /\ t.distcc => ~t.ccache /\ can_distcc(proc[p].cmd)
    BY <2>2 DEF DistccDirectly, DistccByCcache
  <2>5. also => proc[p].cmd \notin {"ld", "make"}
    BY <1>a DEF Piped, DistccByCcache, TypeOf
  <2> HIDE DEF also, t, s
  <2>6. /\ r.pc = "fstat" /\ r.cmd = proc[p].cmd /\ r.env = proc[p].env
        /\ r.undo = proc[p].undo /\ r.sec = t
        /\ r.told = proc[p].told /\ r.noccache = proc[p].noccache
        /\ r.ccache_then_distcc = also /\ r.parent = proc[p].parent
    BY <1>a DEF Process
  <2> HIDE DEF r
  <2>7. Piped(p, r)
    BY <1>a, <1>b, <1>c, <2>3, <2>4, <2>5, <2>6 DEF Piped, Program, Unlocked, SemCalls
  <2>8. QED
    BY <1>b, <1>d, <2>3, <2>6, <2>7 DEF Program
<1>3. CASE AlreadyGotIt(p)
  <2> DEFINE r == [proc[p] EXCEPT !.pc = "restat", !.undo = "nothing"]
  <2>1. proc[p].cmd \in Compiles => proc[p].noccache
    BY <1>a, <1>b, <1>3 DEF AlreadyGotIt, Piped
  <2>2. /\ r.pc = "restat" /\ r.cmd = proc[p].cmd /\ r.env = proc[p].env
        /\ r.undo = "nothing" /\ r.sec = proc[p].sec
        /\ r.told = proc[p].told /\ r.noccache = proc[p].noccache
        /\ r.ccache_then_distcc = proc[p].ccache_then_distcc
        /\ r.parent = proc[p].parent
    BY <1>a DEF Process
  <2>3. Local(p, r) /\ proc[p].pc = "grab"
    BY <1>3 DEF AlreadyGotIt
  <2> HIDE DEF r
  <2>4. Piped(p, r)
    BY <1>a, <1>b, <1>c, <2>1, <2>2, <2>3 DEF Piped, Program, Unlocked, SemCalls
  <2>5. QED
    BY <1>b, <1>d, <2>2, <2>3, <2>4 DEF Program
<1>4. CASE GrabTopMake(p)
  <2> DEFINE env == [proc[p].env EXCEPT !.lock = Level(0)]
             r == [proc[p] EXCEPT !.pc = "restat", !.undo = "decrement",
                                  !.env = env]
  <2>1. proc[p].cmd = "make" /\ proc[p].pc = "grab"
    BY <1>a, <1>4 DEF GrabTopMake, IsMake, TypeOf, Process
  <2>2. Local(p, r)
    BY <1>4 DEF GrabTopMake
  <2>3. /\ env.lock = Level(0) /\ env.prefix = proc[p].env.prefix
        /\ env.lockfd = proc[p].env.lockfd
    BY <1>a DEF Env
  <2> HIDE DEF env
  <2>4. /\ r.pc = "restat" /\ r.cmd = proc[p].cmd /\ r.env = env
        /\ r.undo = "decrement" /\ r.sec = proc[p].sec
        /\ r.told = proc[p].told /\ r.noccache = proc[p].noccache
        /\ r.ccache_then_distcc = proc[p].ccache_then_distcc
        /\ r.parent = proc[p].parent
    BY <1>a DEF Process
  <2> HIDE DEF r
  <2>5. Piped(p, r)
    BY <1>a, <1>b, <1>c, <2>1, <2>3, <2>4
       DEF Piped, Program, Unlocked, SemCalls, Compiles, Level
  <2>6. QED
    BY <1>b, <1>d, <2>2, <2>3, <2>4, <2>5 DEF Program
<1>5. QED
  BY <1>1, <1>2, <1>3, <1>4

\* What undo does to the environment.
LEMMA UndoFields ==
  ASSUME NEW r \in Process
  PROVE  /\ UndoEnv(r).prefix = r.env.prefix
         /\ UndoEnv(r).lockfd = r.env.lockfd
         /\ r.undo = "decrement" => UndoEnv(r).lock = r.env.lock - 1
         /\ r.undo \in {"unset", "drop"} => UndoEnv(r).lock = Unset
         /\ r.undo \in {"none", "nothing"} => UndoEnv(r) = r.env
<1>1. r.env \in Env
  BY DEF Process
<1>2. CASE r.undo = "decrement"
  <2>1. UndoEnv(r) = [r.env EXCEPT !.lock = r.env.lock - 1]
    BY <1>2 DEF UndoEnv
  <2>2. QED
    BY <1>1, <1>2, <2>1 DEF Env
<1>3. CASE r.undo \in {"unset", "drop"}
  <2>1. UndoEnv(r) = [r.env EXCEPT !.lock = Unset, !.by = NoPid]
    BY <1>3 DEF UndoEnv
  <2>2. QED
    BY <1>1, <1>3, <2>1 DEF Env
<1>4. CASE r.undo \in {"none", "nothing"}
  <2>1. UndoEnv(r) = r.env
    BY <1>4 DEF UndoEnv
  <2>2. QED
    BY <1>4, <2>1
<1>5. QED
  BY <1>2, <1>3, <1>4 DEF Process

\* Other units stay where they are.
LEMMA OthersUnits ==
  ASSUME TypeOK, NEW p \in Pid,
         UndoSem(p) \/ LockByte(p) \/ GrabSem(p) \/ UNCHANGED sem
  PROVE  \A q \in Pid \ {p} : semadj'[q] = semadj[q]
BY DEF TypeOK, UndoSem, LockByte, GrabSem, sem

\* The lock itself.
LEMMA LocksPipe ==
  ASSUME TypeOK, PipeInv, NEW p \in Pid, LockByte(p) \/ GrabSem(p)
  PROVE  PipeInv'
<1>a. /\ proc[p] \in Process /\ proc[p].env \in Env /\ Piped(p, proc[p])
      /\ proc[p].pc \in {"fcntl", "sem"}
  BY OwnType DEF PipeInv, LockByte, GrabSem, At
<1>b. NoChild(p) /\ proc[p].env.lockfd = NoPid
  BY <1>a, NoneBelow, NoPipe DEF PipeInv, Waiting, Callers, Program
<1>c. p # NoPid /\ \A q \in Pid \ {p} : semadj'[q] = semadj[q]
  BY ConstantsOK, OthersUnits
<1>1. CASE LockByte(p)
  <2> DEFINE env == [proc[p].env EXCEPT !.lock =
                IF IsMake(proc[p]) THEN Level(Depth(proc[p].env.lock))
                                   ELSE Fast]
  <2>0. PICK r : r = [proc[p] EXCEPT !.pc = "restat", !.want = 0,
                        !.undo = IF IsMake(proc[p]) THEN "decrement"
                                                    ELSE "unset",
                        !.env = env]
    OBVIOUS
  <2>1. proc' = [proc EXCEPT ![p] = r] /\ proc[p].pc = "fcntl"
    BY <1>1, <2>0 DEF LockByte, At
  <2>2. /\ env.prefix = proc[p].env.prefix /\ env.lockfd = proc[p].env.lockfd
        /\ env.lock = IF IsMake(proc[p]) THEN Level(Depth(proc[p].env.lock))
                                         ELSE Fast
    BY <1>a DEF Env
  <2> HIDE DEF env
  <2>3. IsMake(proc[p]) <=> proc[p].cmd = "make"
    BY <1>a DEF IsMake, TypeOf, Process
  <2>4. /\ r.parent = proc[p].parent /\ r.env = env /\ r.cmd = proc[p].cmd
        /\ r.pc = "restat" /\ r.sec = proc[p].sec
        /\ r.undo = IF proc[p].cmd = "make" THEN "decrement" ELSE "unset"
        /\ r.told = proc[p].told /\ r.noccache = proc[p].noccache
        /\ r.ccache_then_distcc = proc[p].ccache_then_distcc
    BY <1>a, <2>0, <2>3 DEF Process
  <2>5. proc[p].cmd = "make" => env.lock >= 65 /\ env.lock \in Int
    <3>1. proc[p].cmd = "make" /\ proc[p].env.lock # Unset =>
            proc[p].env.lock >= 64
      BY <1>a DEF Piped, Level
    <3>2. proc[p].env.lock \in Int
      BY <1>a DEF Env
    <3>3. proc[p].sec.distcc => proc[p].cmd # "make"
      BY <1>a DEF Piped, can_distcc
    <3>4. proc[p].cmd = "make" => proc[p].env.lock # Unset
      BY <1>a, <2>1, <3>3 DEF Piped
    <3>5. QED
      BY <2>2, <2>3, <3>1, <3>2, <3>4 DEF Level, Depth
  <2>6. proc[p].cmd # "make" => proc[p].sec.distcc
    BY <1>a, <2>1 DEF Piped
  <2>7. /\ proc[p].cmd = "make" => r.undo = "decrement" /\ env.lock >= Level(-1)
                                  /\ env.lock >= Level(0)
        /\ proc[p].cmd # "make" => r.undo = "unset"
    BY <2>4, <2>5 DEF Level
  <2>8. Piped(p, r)
    BY <1>a, <1>b, <1>c, <2>1, <2>2, <2>4, <2>6, <2>7
       DEF Piped, Program, Unlocked, SemCalls, Compiles
  <2>9. PreAlone(p, r)' /\ Below(p, r)
    BY <1>b, <2>2, <2>4, ConstantsOK DEF PreAlone, Below, Program
  <2>10. QED
    BY <1>b, <1>c, <2>1, <2>4, <2>8, <2>9, AlonePipe
<1>2. CASE GrabSem(p)
  <2> DEFINE env == [proc[p].env EXCEPT !.lock = Slow, !.by = p]
  <2>0. PICK r :
          r = [proc[p] EXCEPT !.pc = "restat", !.undo = "drop", !.env = env]
    OBVIOUS
  <2>1. proc' = [proc EXCEPT ![p] = r] /\ proc[p].pc = "sem"
    BY <1>2, <2>0 DEF GrabSem, At
  <2>2. /\ env.prefix = proc[p].env.prefix /\ env.lockfd = proc[p].env.lockfd
        /\ env.lock = Slow /\ env.by = p
    BY <1>a DEF Env
  <2> HIDE DEF env
  <2>3. /\ r.parent = proc[p].parent /\ r.env = env /\ r.cmd = proc[p].cmd
        /\ r.pc = "restat" /\ r.sec = proc[p].sec /\ r.undo = "drop"
        /\ r.told = proc[p].told /\ r.noccache = proc[p].noccache
        /\ r.ccache_then_distcc = proc[p].ccache_then_distcc
    BY <1>a, <2>0 DEF Process
  <2>4. Piped(p, r)
    BY <1>a, <1>b, <1>c, <2>1, <2>2, <2>3
       DEF Piped, Program, Unlocked, SemCalls, Compiles
  <2>5. PreAlone(p, r)' /\ Below(p, r)
    BY <1>b, <2>2, <2>3, ConstantsOK DEF PreAlone, Below, Program
  <2>6. QED
    BY <1>b, <1>c, <2>1, <2>3, <2>4, <2>5, AlonePipe
<1>3. QED
  BY <1>1, <1>2

\* What execv keeps and what it drops.
LEMMA ExecKeeps ==
  ASSUME NEW r \in Process, NEW label \in Label
  PROVE  /\ Exec(r, label) \in Process /\ Exec(r, label).wfd = r.wfd
         /\ ~Exec(r, label).noccache /\ ~Exec(r, label).told
         /\ Exec(r, label).cmd = r.cmd /\ Exec(r, label).env = r.env
         /\ Exec(r, label).parent = r.parent /\ Exec(r, label).pc = label
         /\ Exec(r, label).sec = NoSection /\ Exec(r, label).undo = "none"
         /\ ~Exec(r, label).ccache_then_distcc
BY ExecType, ExecFields DEF Exec, Idle

\* What a process must be after execv.
LEMMA ExecPiped ==
  ASSUME NEW q \in Pid, NEW label \in Program \cup {"main"},
         NEW r, r.pc = label, r.sec = NoSection, r.undo = "none",
         ~r.noccache, ~r.told, ~r.ccache_then_distcc,
         r.env.prefix <=> r.env.lockfd # NoPid, r.env.lockfd # q,
         label = "make" => r.env.lockfd = NoPid,
         label \in {"make", "other"} => r.cmd = label,
         label = "distcc" => can_distcc(r.cmd),
         r.cmd = "make" => r.env.lock = Unset \/ r.env.lock >= Level(-1),
         label = "main" /\ r.cmd \in Compiles =>
           r.env.lock # Slow \/ r.env.lockfd # NoPid
  PROVE  Piped(q, r)
<1>1. ~NoSection.distcc /\ ~NoSection.ccache
  BY DEF NoSection
<1>2. QED
  BY <1>1 DEF Piped, Program, Unlocked, SemCalls

\* What main runs is what the command says.
LEMMA TargetLabel ==
  ASSUME NEW r \in Process
  PROVE  /\ Target(r) \in Program \cap Label
         /\ Target(r) \in {"make", "other"} => r.cmd = Target(r)
         /\ Target(r) = "distcc" => r.sec.distcc
         /\ Target(r) = "ccache" => r.sec.ccache /\ r.cmd \in Compiles
         /\ can_distcc(r.cmd) /\ r.sec.distcc /\ ~r.sec.ccache =>
              Target(r) = "distcc"
<1>1. r.cmd \in Cmd
  BY DEF Process
<1>2. CASE r.cmd = "make"
  BY <1>2 DEF Target, TypeOf, Program, Label, can_distcc
<1>3. CASE r.cmd = "ld"
  BY <1>3 DEF Target, TypeOf, Program, Label, can_distcc
<1>4. CASE r.cmd = "other"
  BY <1>4 DEF Target, TypeOf, Program, Label, can_distcc
<1>5. CASE r.cmd \in Compiles
  <2>1. Target(r) = IF r.sec.ccache THEN "ccache"
                    ELSE IF r.sec.distcc THEN "distcc" ELSE "compile"
    BY <1>5 DEF Target, TypeOf, Compiles
  <2>2. QED
    BY <1>5, <2>1 DEF Program, Label
<1>6. QED
  BY <1>1, <1>2, <1>3, <1>4, <1>5 DEF Cmd, Compiles

\* main lets go of its lock and starts again.
LEMMA RestartPiped ==
  ASSUME TypeOK, PipeInv, NEW p \in Pid, proc[p].pc \in {"restat", "wait"},
         NEW nodistcc, NEW r, r.pc = "again",
         r.cmd = proc[p].cmd, r.sec = NoSection,
         r.undo = "none", r.told = proc[p].told,
         r.noccache = proc[p].noccache,
         r.ccache_then_distcc = proc[p].ccache_then_distcc,
         r.env.lock = UndoEnv(proc[p]).lock, r.env.lockfd = proc[p].env.lockfd,
         r.env.prefix = proc[p].env.prefix \/ ~r.env.prefix
  PROVE  /\ Piped(p, r) /\ r.env.lockfd = NoPid
         /\ PreAlone(p, r)' /\ Below(p, r)
<1>1. /\ proc[p] \in Process /\ Piped(p, proc[p]) /\ proc[p].env.lockfd = NoPid
      /\ NoPid \notin Pid /\ proc[p].env.lock \in Int
  BY OwnType, NoPipe, ConstantsOK DEF PipeInv, Program, Env
<1>2. ~NoSection.distcc /\ ~NoSection.ccache
  BY DEF NoSection
<1>3. r.cmd = "make" => r.env.lock = Unset \/ r.env.lock >= 64
  BY <1>1, UndoFields DEF Piped, Level, Process
<1>4. r.cmd \in Compiles /\ ~r.noccache => r.env.lock = Unset
  BY <1>1, UndoFields DEF Piped
<1>5. Piped(p, r)
  BY <1>1, <1>2, <1>3, <1>4 DEF Piped, Program, Unlocked, SemCalls, Level, Unset, Slow
<1>6. QED
  BY <1>1, <1>5 DEF PreAlone, Below, Program

\* The config file changed.
LEMMA AlteredPipe ==
  ASSUME TypeOK, PipeInv, NEW p \in Pid, Altered(p)
  PROVE  PipeInv'
<1>1. PICK r : r = Restart(proc[p], FALSE)
  OBVIOUS
<1>2. /\ proc' = [proc EXCEPT ![p] = r] /\ UndoSem(p) /\ proc[p].pc = "restat"
      /\ proc[p] \in Process
  BY <1>1, OwnType DEF Altered, At
<1>3. /\ r.pc = "again" /\ r.cmd = proc[p].cmd /\ r.sec = NoSection
      /\ r.undo = "none" /\ r.told = proc[p].told
      /\ r.noccache = proc[p].noccache /\ r.parent = proc[p].parent
      /\ r.ccache_then_distcc = proc[p].ccache_then_distcc
      /\ r.env = UndoEnv(proc[p])
  BY <1>1, <1>2 DEF Restart, Process
<1>4. r.env.lockfd = proc[p].env.lockfd /\ r.env.prefix = proc[p].env.prefix
  BY <1>2, <1>3, UndoFields
<1>5. Piped(p, r) /\ PreAlone(p, r)' /\ Below(p, r)
  BY <1>2, <1>3, <1>4, RestartPiped
<1>6. NoChild(p)
  BY <1>2, NoneBelow DEF PipeInv, Waiting, Callers
<1>7. \A q \in Pid \ {p} : semadj'[q] = semadj[q]
  BY <1>2, OthersUnits
<1>8. QED
  BY <1>2, <1>3, <1>5, <1>6, <1>7, AlonePipe

\* distcc could not: the zombie is gone, and main starts again.
LEMMA DistccFailedPipe ==
  ASSUME TypeOK, PipeInv, NEW p \in Pid, DistccFailed(p)
  PROVE  PipeInv'
<1>1. PICK r, s : /\ s = Restart(proc[p], TRUE)
                  /\ r = [s EXCEPT !.env.prefix = FALSE]
  OBVIOUS
<1>2. PICK q \in Children(p) : /\ At(q, "zombie")
                               /\ proc' = [proc EXCEPT ![q] = Idle, ![p] = r]
  BY <1>1 DEF DistccFailed
<1>3. /\ UndoSem(p) /\ proc[p].pc = "wait" /\ proc[p] \in Process
      /\ q \in Pid /\ q # p /\ proc[q].pc = "zombie" /\ proc[q].parent = p
  BY <1>2, OwnType DEF DistccFailed, At, Children
<1>4. /\ s.pc = "again" /\ s.cmd = proc[p].cmd /\ s.sec = NoSection
      /\ s.undo = "none" /\ s.told = proc[p].told
      /\ s.noccache = proc[p].noccache /\ s.parent = proc[p].parent
      /\ s.ccache_then_distcc = proc[p].ccache_then_distcc
      /\ s.env = UndoEnv(proc[p])
  BY <1>1, <1>3 DEF Restart, Process
<1>t. s \in Process /\ s.env \in Env
  <2>1. TRUE \in BOOLEAN
    OBVIOUS
  <2>2. s \in Process
    BY <1>1, <1>3, <2>1, RestartType
  <2>3. QED
    BY <1>3, <1>4, <2>2, UndoType
<1>5. /\ r.pc = "again" /\ r.cmd = proc[p].cmd /\ r.sec = NoSection
      /\ r.undo = "none" /\ r.told = proc[p].told
      /\ r.noccache = proc[p].noccache /\ r.parent = proc[p].parent
      /\ r.ccache_then_distcc = proc[p].ccache_then_distcc
      /\ r.env = [s.env EXCEPT !.prefix = FALSE]
  BY <1>1, <1>4, <1>t DEF Process
<1>6. /\ r.env.lockfd = proc[p].env.lockfd /\ ~r.env.prefix
      /\ r.env.lock = UndoEnv(proc[p]).lock
  BY <1>3, <1>4, <1>5, <1>t, UndoFields DEF Env
<1>7. /\ Piped(p, r) /\ PreAlone(p, r)' /\ Below(p, r) /\ r.env.lockfd = NoPid
  BY <1>3, <1>5, <1>6, RestartPiped
<1>8. /\ proc'[p] = r /\ proc'[q] = Idle
      /\ \A x \in Pid \ {p, q} : proc'[x] = proc[x] /\ semadj'[x] = semadj[x]
  BY <1>2, <1>3, OthersUnits DEF TypeOK
<1>9. /\ Idle.pc = "free" /\ Idle.cmd = "cc" /\ Idle.env = CleanEnv
      /\ Idle.sec = NoSection /\ ~Idle.noccache /\ ~Idle.ccache_then_distcc
      /\ Idle.undo = "none" /\ ~Idle.told /\ Idle.parent = NoPid
      /\ CleanEnv.lockfd = NoPid /\ NoPid \notin Pid
  BY ConstantsOK DEF Idle, CleanEnv
<1>10. ASSUME NEW x \in Pid \ {q}
       PROVE  proc[x].parent # q /\ proc[x].parent # p
  <2>1. proc[x].parent # q
    BY <1>3 DEF PipeInv, OneChild, Waiting, Callers
  <2>2. proc[x].parent # p
    BY <1>3 DEF PipeInv, OneChild, At
  <2>3. QED
    BY <2>1, <2>2
<1>11. ASSUME NEW x \in Pid, proc'[x].parent \in Pid
       PROVE  /\ proc'[x].parent = proc[x].parent /\ x # q
              /\ proc'[proc[x].parent] = proc[proc[x].parent]
  <2>1. x # q
    BY <1>8, <1>9, <1>11
  <2>2. proc'[x].parent = proc[x].parent
    BY <1>5, <1>8, <2>1
  <2>3. QED
    BY <1>8, <1>10, <1>11, <2>1, <2>2
<1>12. OneChild'
  BY <1>11 DEF PipeInv, OneChild, At
<1>13. ASSUME NEW x \in Pid
       PROVE  Piped(x, proc[x])' /\ PreAlone(x, proc[x])' /\ Below(x, proc[x])'
  <2>1. CASE x = p
    <3>1. Below(p, r)'
      BY <1>7, <1>9 DEF Below
    <3>2. QED
      BY <1>7, <1>8, <2>1, <3>1 DEF Piped
  <2>2. CASE x = q
    <3>1. Piped(q, Idle)
      BY <1>9, <1>3, IdlePiped
    <3>2. PreAlone(q, Idle)' /\ Below(q, Idle)'
      BY <1>9 DEF PreAlone, Below, Program
    <3>3. QED
      BY <1>8, <2>2, <3>1, <3>2 DEF Piped
  <2>3. CASE x \notin {p, q}
    <3>1. Piped(x, proc[x]) /\ PreAlone(x, proc[x]) /\ Below(x, proc[x])
      BY DEF PipeInv
    <3>2. proc'[x] = proc[x] /\ semadj'[x] = semadj[x]
      BY <1>8, <2>3
    <3>3. PreAlone(x, proc[x])'
      BY <3>1, <3>2 DEF PreAlone
    <3> DEFINE o == proc[x].env.lockfd
               a == proc[x].parent
    <3>4. proc[q].env.lockfd = NoPid /\ proc[p].env.lockfd = NoPid
      BY <1>3, NoPipe DEF Program
    <3>5. ASSUME o \in Pid \ {x}
          PROVE  /\ proc'[o] = proc[o]
                 /\ a # o => a \in Pid /\ proc'[a] = proc[a]
      <4>1. /\ proc[o].pc \in {"pipe", "collect"}
            /\ a # o => a \in Pid /\ proc[a].env.lockfd = o
        BY <3>1, <3>5 DEF Below
      <4>2. o \notin {p, q} /\ (a # o => a \notin {p, q})
        BY <1>3, <1>9, <3>4, <3>5, <4>1
      <4>3. QED
        BY <1>8, <3>5, <4>1, <4>2
    <3>6. Below(x, proc[x])'
      BY <3>1, <3>2, <3>5 DEF Below
    <3>7. QED
      BY <3>1, <3>2, <3>3, <3>6 DEF Piped
  <2>4. QED
    BY <2>1, <2>2, <2>3
<1>14. QED
  BY <1>12, <1>13 DEF PipeInv

\* main becomes the program, or forks it.
LEMMA RunPipe ==
  ASSUME IndInv, PipeInv, NEW p \in Pid,
         RunExec(p) \/ RunCcache(p) \/ RunDistcc(p)
  PROVE  PipeInv'
<1>a. /\ TypeOK /\ proc[p] \in Process /\ proc[p].env \in Env
      /\ Piped(p, proc[p]) /\ proc[p].pc = "run" /\ p # NoPid
  BY OwnType, ConstantsOK DEF IndInv, PipeInv, RunExec, RunCcache, RunDistcc, At
<1>b. NoChild(p) /\ proc[p].env.lockfd = NoPid /\ ~proc[p].env.prefix
  <2>1. NoChild(p)
    BY <1>a, NoneBelow DEF PipeInv, Waiting, Callers
  <2>2. proc[p].env.lockfd = NoPid
    BY <1>a, NoPipe DEF Program
  <2>3. QED
    BY <1>a, <2>1, <2>2 DEF Piped
<1>1. CASE RunExec(p)
  <2>1. PICK r, label : label = Target(proc[p]) /\ r = Exec(proc[p], label)
    OBVIOUS
  <2>2. Local(p, r) /\ ~proc[p].sec.distcc
    BY <1>1, <2>1 DEF RunExec
  <2>3. /\ label \in Program \cap Label
        /\ label \in {"make", "other"} => proc[p].cmd = label
        /\ label # "distcc"
    BY <1>a, <2>1, <2>2, TargetLabel
  <2>4. /\ r.cmd = proc[p].cmd /\ r.env = proc[p].env /\ r.pc = label
        /\ r.parent = proc[p].parent /\ r.sec = NoSection /\ r.undo = "none"
        /\ ~r.ccache_then_distcc /\ ~r.noccache /\ ~r.told
    BY <1>a, <2>1, <2>3, ExecKeeps
  <2>5. proc[p].cmd = "make" =>
          proc[p].env.lock = Unset \/ proc[p].env.lock >= Level(-1)
    BY <1>a DEF Piped
  <2>6. Piped(p, r)
    <3>1. label # "main"
      BY <2>3 DEF Program
    <3>2. QED
      BY <1>a, <1>b, <2>3, <2>4, <2>5, <3>1, ExecPiped
  <2>7. PreAlone(p, r)
    <3>1. proc[p].cmd = "pre" => proc[p].undo = "drop" /\ proc[p].env.by = p
      BY <1>a, <2>2 DEF Piped, Compiles
    <3>2. proc[p].undo = "drop" => semadj[p] = 1
      BY <1>a DEF IndInv, UndoKnows, Locked
    <3>3. QED
      BY <2>4, <3>1, <3>2 DEF PreAlone
  <2>8. Below(p, r)
    BY <1>b, <2>4, ConstantsOK DEF Below
  <2>9. QED
    BY <1>a, <1>b, <2>2, <2>4, <2>6, <2>7, <2>8, LocalPipe
<1>2. CASE RunDistcc(p)
  <2>0. PICK env, r, s, image :
          /\ env = NoFallback(proc[p].env)
          /\ r = [proc[p] EXCEPT !.env = env]
          /\ s = [r EXCEPT !.pc = "wait"]
          /\ image = Exec(r, Target(r))
    OBVIOUS
  <2>1. Fork(p, s, image) /\ proc[p].sec.distcc
    BY <1>a, <1>2, <2>0 DEF RunDistcc, Process
  <2>2. /\ env \in Env /\ env.lockfd = proc[p].env.lockfd
        /\ env.prefix = proc[p].env.prefix /\ env.lock = proc[p].env.lock
        /\ env.by = proc[p].env.by
    BY <1>a, <2>0 DEF NoFallback, Env
  <2>3. /\ r \in Process /\ r.sec = proc[p].sec /\ r.cmd = proc[p].cmd
        /\ r.undo = proc[p].undo /\ r.env = env /\ r.parent = proc[p].parent
        /\ r.told = proc[p].told /\ r.noccache = proc[p].noccache
        /\ r.ccache_then_distcc = proc[p].ccache_then_distcc
    BY <1>a, <2>0, <2>2 DEF Process
  <2>4. /\ s.sec = proc[p].sec /\ s.cmd = proc[p].cmd /\ s.undo = proc[p].undo
        /\ s.env = env /\ s.parent = proc[p].parent /\ s.pc = "wait"
        /\ s.told = proc[p].told /\ s.noccache = proc[p].noccache
        /\ s.ccache_then_distcc = proc[p].ccache_then_distcc
    BY <2>0, <2>3 DEF Process
  <2>5. Piped(p, s)
    BY <1>a, <1>b, <2>2, <2>4 DEF Piped, Program, Unlocked, SemCalls
  <2>6. PreAlone(p, s) /\ Below(p, s)
    BY <1>b, <2>2, <2>4, ConstantsOK DEF PreAlone, Below, Program
  <2>7. Target(r) = "distcc" /\ "distcc" \in Label /\ can_distcc(proc[p].cmd)
    <3>1. can_distcc(proc[p].cmd) /\ ~proc[p].sec.ccache
      BY <1>a, <2>1 DEF Piped
    <3>2. QED
      BY <2>1, <2>3, <3>1, TargetLabel DEF Label, Program
  <2>8. /\ image \in Process /\ image.pc = "distcc" /\ image.undo = "none"
        /\ image.cmd = proc[p].cmd /\ image.env = env /\ image.sec = NoSection
        /\ ~image.ccache_then_distcc /\ ~image.noccache /\ ~image.told
    <3>1. image = Exec(r, "distcc")
      BY <2>0, <2>7
    <3>2. QED
      BY <2>3, <2>7, <3>1, ExecKeeps
  <2>9. ASSUME NEW q \in Pid
        PROVE  Piped(q, [image EXCEPT !.parent = p]) /\ PreAlone(q, image)
    <3>1. PICK c : c = [image EXCEPT !.parent = p]
      OBVIOUS
    <3>2. /\ c.pc = "distcc" /\ c.undo = "none" /\ c.cmd = proc[p].cmd
          /\ c.env = env /\ c.sec = NoSection
          /\ ~c.ccache_then_distcc /\ ~c.noccache /\ ~c.told
      BY <2>8, <3>1 DEF Process
    <3>3. c.cmd # "make" /\ c.cmd # "pre"
      BY <2>7, <3>2 DEF can_distcc
    <3>4. env.lockfd # q /\ (env.prefix <=> env.lockfd # NoPid)
      BY <1>b, <2>2, ConstantsOK
    <3>5. Piped(q, c)
      BY <2>7, <3>2, <3>3, <3>4, ExecPiped DEF Program
    <3>6. PreAlone(q, image)
      BY <2>8, <3>2, <3>3 DEF PreAlone
    <3>7. QED
      BY <3>1, <3>5, <3>6
  <2>10. CASE Spawn(p, s, image)
    <3>1. image.env.lockfd = NoPid /\ s.pc \in Waiting /\ proc[p].pc # "free"
      BY <1>a, <1>b, <2>2, <2>4, <2>8 DEF Waiting
    <3>2. QED
      BY <1>a, <1>b, <2>4, <2>5, <2>6, <2>8, <2>9, <2>10, <3>1, SpawnPipe
  <2>11. CASE Exit(p, "done")
    BY <1>a, <1>b, <2>11, ExitPipe DEF NoChild
  <2>12. QED
    BY <2>1, <2>10, <2>11 DEF Fork
<1>3. CASE RunCcache(p)
  <2>0. PICK env, r, s, t, label, image :
          /\ env = [proc[p].env EXCEPT !.lockfd = p, !.prefix = TRUE]
          /\ r = [proc[p] EXCEPT !.env = env]
          /\ s = [r EXCEPT !.pc = "pipe"]
          /\ t = [r EXCEPT !.wfd = r.wfd \cup {p}]
          /\ label = Target(r)
          /\ image = Exec(t, label)
    OBVIOUS
  <2>1. Fork(p, s, image) /\ proc[p].ccache_then_distcc
    <3>1. r = [proc[p] EXCEPT !.env.lockfd = p, !.env.prefix = TRUE]
      BY <1>a, <2>0 DEF Process, Env
    <3>2. r.ccache_then_distcc = proc[p].ccache_then_distcc
      BY <1>a, <2>0 DEF Process
    <3>3. QED
      BY <1>3, <2>0, <3>1, <3>2 DEF RunCcache
  <2>2. /\ env \in Env /\ env.lockfd = p /\ env.prefix = TRUE
        /\ env.lock = proc[p].env.lock /\ env.by = proc[p].env.by
    BY <1>a, <2>0 DEF Env
  <2>3. /\ r \in Process /\ r.sec = proc[p].sec /\ r.cmd = proc[p].cmd
        /\ r.undo = proc[p].undo /\ r.env = env /\ r.parent = proc[p].parent
        /\ r.told = proc[p].told /\ r.noccache = proc[p].noccache
        /\ r.ccache_then_distcc = proc[p].ccache_then_distcc
    BY <1>a, <2>0, <2>2 DEF Process
  <2>4. /\ s.sec = proc[p].sec /\ s.cmd = proc[p].cmd /\ s.undo = proc[p].undo
        /\ s.env = env /\ s.parent = proc[p].parent /\ s.pc = "pipe"
        /\ s.told = proc[p].told /\ s.noccache = proc[p].noccache
        /\ s.ccache_then_distcc = proc[p].ccache_then_distcc
    BY <2>0, <2>3 DEF Process
  <2>5. Piped(p, s)
    BY <1>a, <1>b, <2>2, <2>4 DEF Piped, Program, Unlocked, SemCalls
  <2>6. PreAlone(p, s) /\ Below(p, s)
    BY <2>2, <2>4 DEF PreAlone, Below, Program
  <2>7. /\ t \in Process /\ t.cmd = proc[p].cmd /\ t.env = env /\ p \in t.wfd
    BY <2>0, <2>3 DEF Process
  <2>8. /\ proc[p].cmd \notin {"ld", "make"} /\ ~proc[p].noccache
        /\ proc[p].sec.distcc => ~proc[p].sec.ccache /\ can_distcc(proc[p].cmd)
        /\ ~proc[p].told
    BY <1>a, <2>1 DEF Piped
  <2>9. /\ label \in Program \cap Label /\ label # "make"
        /\ label = "other" => proc[p].cmd = "other"
        /\ label = "distcc" => can_distcc(proc[p].cmd)
        /\ label = "ccache" => proc[p].sec.ccache /\ proc[p].cmd \in Compiles
    BY <2>0, <2>3, <2>8, TargetLabel
  <2>10. label = "ccache" \/ proc[p].cmd = "pre" => proc[p].undo = "drop"
    <3>1. label = "ccache" \/ proc[p].cmd = "pre" =>
            proc[p].cmd \in Compiles /\ ~proc[p].sec.distcc
      BY <2>8, <2>9 DEF Compiles, can_distcc
    <3>2. QED
      BY <1>a, <2>8, <3>1 DEF Piped
  <2>11. /\ image \in Process /\ image.pc = label /\ image.undo = "none"
         /\ image.cmd = proc[p].cmd /\ image.env = env /\ image.sec = NoSection
         /\ ~image.ccache_then_distcc /\ ~image.noccache /\ ~image.told
         /\ image.wfd = t.wfd
    <3>1. image = Exec(t, label) /\ t \in Process /\ label \in Label
      BY <2>0, <2>7, <2>9
    <3>2. QED
      BY <2>7, <3>1, ExecKeeps
  <2>12. ASSUME NEW q \in Pid, q # image.env.lockfd
         PROVE  Piped(q, [image EXCEPT !.parent = p]) /\ PreAlone(q, image)
    <3>1. PICK c : c = [image EXCEPT !.parent = p]
      OBVIOUS
    <3>2. /\ c.pc = label /\ c.undo = "none" /\ c.cmd = proc[p].cmd
          /\ c.env = env /\ c.sec = NoSection
          /\ ~c.ccache_then_distcc /\ ~c.noccache /\ ~c.told
      BY <2>11, <3>1 DEF Process
    <3>3. c.cmd # "make" /\ label # "main"
      BY <2>8, <2>9, <3>2 DEF Program
    <3>4. env.lockfd # q /\ (env.prefix <=> env.lockfd # NoPid)
      BY <1>a, <2>2, <2>11, <2>12
    <3>5. Piped(q, c)
      BY <2>9, <3>2, <3>3, <3>4, ExecPiped
    <3>6. PreAlone(q, image)
      BY <1>a, <2>2, <2>11 DEF PreAlone
    <3>7. QED
      BY <3>1, <3>5, <3>6
  <2>13. CASE Spawn(p, s, image)
    <3>1. Preprocesses(image) => label = "ccache" \/ proc[p].cmd = "pre"
                                 \/ label = "cached"
      BY <2>11 DEF Preprocesses
    <3>2. label # "cached"
      BY <2>0, <2>3 DEF Target
    <3>3. proc[p].undo = "drop" => proc[p].env.by = p
      BY <1>a DEF Piped
    <3>4. /\ image.env.lockfd = p /\ image.pc \in Program /\ s.pc = "pipe"
          /\ Preprocesses(image) =>
               s.undo = "drop" /\ ~s.told /\ p \in image.wfd /\ image.env.by = p
      BY <2>2, <2>4, <2>7, <2>8, <2>9, <2>10, <2>11, <3>1, <3>2, <3>3
    <3>5. s.pc \in Waiting /\ proc[p].pc # "free"
      BY <1>a, <2>4 DEF Waiting
    <3>6. QED
      BY <1>a, <1>b, <2>4, <2>5, <2>6, <2>11, <2>12, <2>13, <3>4, <3>5,
         SpawnPipe
  <2>14. CASE Exit(p, "done")
    BY <1>a, <1>b, <2>14, ExitPipe DEF NoChild
  <2>15. QED
    BY <2>1, <2>13, <2>14 DEF Fork
<1>4. QED
  BY <1>1, <1>2, <1>3

-----------------------------------------------------------------------------
(* The pipe.                                                               *)

\* The ccontrol that ccache runs to preprocess runs the compiler at once.
LEMMA PreprocessPipe ==
  ASSUME TypeOK, PipeInv, NEW p \in Pid, Preprocess(p)
  PROVE  PipeInv'
<1>1. /\ proc[p] \in Process /\ Piped(p, proc[p]) /\ Below(p, proc[p])
      /\ proc[p].pc = "main" /\ proc[p].cmd = "pre"
      /\ proc[p].env.lockfd # NoPid
  BY OwnType DEF PipeInv, Preprocess, At, is_preprocess
<1>2. PICK r : r = Exec(proc[p], "compile")
  OBVIOUS
<1>3. Local(p, r)
  BY <1>2 DEF Preprocess
<1>4. /\ r.cmd = "pre" /\ r.env = proc[p].env /\ r.pc = "compile"
      /\ r.parent = proc[p].parent /\ r.sec = NoSection /\ r.undo = "none"
      /\ ~r.ccache_then_distcc /\ ~r.noccache /\ ~r.told
      /\ r.wfd = proc[p].wfd
  BY <1>1, <1>2, ExecKeeps DEF Label, Program
<1>5. Piped(p, r)
  <2>1. /\ proc[p].env.lockfd # p
        /\ proc[p].env.prefix <=> proc[p].env.lockfd # NoPid
    BY <1>1 DEF Piped
  <2>2. QED
    BY <1>1, <1>4, <2>1, ExecPiped DEF Program
<1>6. PreAlone(p, r)
  BY <1>1, <1>4 DEF PreAlone
<1>7. Below(p, r)
  BY <1>1, <1>4 DEF Below, Preprocesses, Program
<1>8. NoChild(p)
  BY <1>1, NoneBelow DEF PipeInv, Waiting, Callers
<1>9. QED
  BY <1>3, <1>4, <1>5, <1>6, <1>7, <1>8, LocalPipe

\* main tells the owner of the pipe that the compile proper has come: ccache
\* has nobody else left who preprocesses.
LEMMA TellOwnerPipe ==
  ASSUME TypeOK, PipeInv, NEW p \in Pid, TellOwner(p)
  PROVE  PipeInv'
<1>1. PICK o : o = proc[p].env.lockfd
  OBVIOUS
<1>2. /\ proc[p] \in Process /\ proc[p].env \in Env
      /\ Piped(p, proc[p]) /\ Below(p, proc[p])
      /\ proc[p].pc = "main" /\ proc[p].cmd # "pre"
      /\ o \in Pid /\ o # p /\ proc[o] \in Process /\ NoPid \notin Pid
  <2>1. proc[p].pc = "main" /\ proc[p].cmd # "pre" /\ o \in Pid
    BY <1>1 DEF TellOwner, At, is_preprocess
  <2>2. Piped(p, proc[p]) /\ Below(p, proc[p])
    BY DEF PipeInv
  <2>3. QED
    BY <1>1, <2>1, <2>2, OwnType, ConstantsOK DEF Piped
<1>3. PICK r, t, env :
        /\ env = [proc[p].env EXCEPT !.prefix = FALSE, !.lockfd = NoPid]
        /\ r = [proc[p] EXCEPT !.pc = "again", !.noccache = TRUE, !.env = env]
        /\ t = [proc[o] EXCEPT !.told = TRUE]
  OBVIOUS
<1>4. /\ proc'[p] = r /\ proc'[o] = t /\ semadj' = semadj
      /\ \A x \in Pid \ {p, o} : proc'[x] = proc[x]
  <2>1. r = [proc[p] EXCEPT !.pc = "again", !.noccache = TRUE,
               !.env.prefix = FALSE, !.env.lockfd = NoPid]
    BY <1>2, <1>3 DEF Process, Env
  <2>2. proc' = [[proc EXCEPT ![o] = t] EXCEPT ![p] =
           [[proc EXCEPT ![o] = t][p] EXCEPT !.pc = "again", !.noccache = TRUE,
              !.env.prefix = FALSE, !.env.lockfd = NoPid]]
    BY <1>1, <1>3 DEF TellOwner, Compiling
  <2>3. [proc EXCEPT ![o] = t][p] = proc[p]
    BY <1>2 DEF TypeOK
  <2>4. proc' = [[proc EXCEPT ![o] = t] EXCEPT ![p] = r]
    BY <2>1, <2>2, <2>3
  <2>5. QED
    BY <1>2, <2>4 DEF TypeOK, TellOwner, sem
<1>5. /\ env.lockfd = NoPid /\ env.prefix = FALSE /\ env.lock = proc[p].env.lock
  BY <1>2, <1>3 DEF Env
<1>6. /\ r.pc = "again" /\ r.noccache /\ r.env = env /\ r.cmd = proc[p].cmd
      /\ r.parent = proc[p].parent /\ r.sec = proc[p].sec
      /\ r.told = proc[p].told
      /\ r.undo = proc[p].undo
      /\ r.ccache_then_distcc = proc[p].ccache_then_distcc
  BY <1>2, <1>3 DEF Process
<1>7. /\ t.pc = proc[o].pc /\ t.env = proc[o].env /\ t.cmd = proc[o].cmd
      /\ t.parent = proc[o].parent /\ t.sec = proc[o].sec /\ t.told
      /\ t.undo = proc[o].undo /\ t.noccache = proc[o].noccache
      /\ t.ccache_then_distcc = proc[o].ccache_then_distcc
      /\ t.wfd = proc[o].wfd
  BY <1>2, <1>3 DEF Process
<1>8. PICK a : a = proc[p].parent
  OBVIOUS
<1>9. /\ proc[o].pc \in {"pipe", "collect"} /\ a \in Pid /\ a # o
      /\ proc[a].parent = o /\ proc[a].env.lockfd = o
      /\ proc[a].pc \in Program \ {"ccache", "cached"} /\ proc[a].cmd # "pre"
  <2>1. proc[p].env.lockfd \in Pid \ {p} /\ proc[p].pc \notin Program
    BY <1>1, <1>2 DEF Program
  <2>2. QED
    BY <1>1, <1>2, <1>8, <2>1 DEF Below
<1>10. NoChild(p)
  BY <1>2, NoneBelow DEF PipeInv, Waiting, Callers
<1>11. \A x \in Pid : proc'[x].parent = proc[x].parent /\ proc[x].parent # p
  BY <1>4, <1>6, <1>7, <1>10 DEF NoChild, Children
<1>12. OneChild'
  <2>1. \A x \in Pid \ {p} : proc'[x].pc = proc[x].pc
    BY <1>4, <1>7
  <2>2. QED
    BY <1>11, <2>1 DEF PipeInv, OneChild, At
<1>13. ASSUME NEW x \in Pid \ {p}, proc[x].env.lockfd = o, x # o
       PROVE  ~Preprocesses(proc[x])
  <2>1. Below(x, proc[x])
    BY DEF PipeInv
  <2>2. CASE proc[x].parent = o
    <3>1. proc[o].pc # "make"
      BY <1>9
    <3>2. x = a
      BY <1>2, <1>9, <2>2, <3>1 DEF PipeInv, OneChild, At
    <3>3. QED
      BY <1>9, <3>2 DEF Preprocesses
  <2>3. CASE proc[x].parent # o
    <3>1. proc[x].parent \in Pid /\ proc[proc[x].parent].parent = o
      BY <1>2, <1>13, <2>1, <2>3 DEF Below
    <3>2. proc[x].parent = a
      BY <1>2, <1>9, <3>1 DEF PipeInv, OneChild, At
    <3>3. proc[a].pc = "make"
      BY <1>8, <1>9, <3>2 DEF PipeInv, OneChild, At
    <3>4. proc[a].env.lockfd = NoPid
      BY <1>9, <3>3 DEF PipeInv, Piped
    <3>5. QED
      BY <1>2, <1>9, <3>4
  <2>4. QED
    BY <2>2, <2>3
<1>14. ASSUME NEW x \in Pid
       PROVE  Piped(x, proc[x])' /\ PreAlone(x, proc[x])' /\ Below(x, proc[x])'
  <2>1. CASE x = p
    <3>1. Piped(p, r)
      BY <1>2, <1>5, <1>6 DEF Piped, Program, Unlocked, SemCalls
    <3>2. PreAlone(p, r)' /\ Below(p, r)'
      BY <1>2, <1>5, <1>6 DEF PreAlone, Below, Program
    <3>3. QED
      BY <1>4, <2>1, <3>1, <3>2 DEF Piped
  <2>2. CASE x # p
    <3>1. PICK z : z = proc'[x]
      OBVIOUS
    <3>2. /\ z.pc = proc[x].pc /\ z.env = proc[x].env /\ z.cmd = proc[x].cmd
          /\ z.parent = proc[x].parent /\ z.sec = proc[x].sec
          /\ z.undo = proc[x].undo /\ z.noccache = proc[x].noccache
          /\ z.ccache_then_distcc = proc[x].ccache_then_distcc
          /\ z.wfd = proc[x].wfd
          /\ z.told => proc[x].told \/ x = o
      BY <1>4, <1>7, <2>2, <3>1
    <3>3. Piped(x, proc[x]) /\ PreAlone(x, proc[x]) /\ Below(x, proc[x])
      BY DEF PipeInv
    <3>4. Piped(x, z)
      BY <1>9, <3>2, <3>3 DEF Piped
    <3>5. PreAlone(x, z)'
      BY <1>4, <3>2, <3>3 DEF PreAlone
    <3> DEFINE w == proc[x].env.lockfd
               b == proc[x].parent
    <3>6. Below(x, z)'
      <4>1. w # p
        BY <1>10, <2>2, OnesOwnPipe
      <4>2. ASSUME w \in Pid \ {x}
            PROVE  /\ proc'[w].pc = proc[w].pc /\ proc'[w].undo = proc[w].undo
                   /\ w # o => proc'[w].told = proc[w].told
        BY <1>4, <1>7, <4>1, <4>2
      <4>3. b \in Pid => /\ proc'[b].pc = proc[b].pc
                         /\ proc'[b].cmd = proc[b].cmd
                         /\ proc'[b].parent = proc[b].parent
                         /\ proc'[b].env = proc[b].env
        BY <1>4, <1>7, <1>11
      <4>4. Preprocesses(z) <=> Preprocesses(proc[x])
        BY <3>2 DEF Preprocesses
      <4>5. w \in Pid \ {x} /\ Preprocesses(z) => w # o
        BY <1>13, <2>2, <4>4
      <4>6. QED
        BY <3>2, <3>3, <4>2, <4>3, <4>4, <4>5 DEF Below
    <3>7. QED
      BY <3>1, <3>4, <3>5, <3>6 DEF Piped
  <2>3. QED
    BY <2>1, <2>2
<1>15. QED
  BY <1>12, <1>14 DEF PipeInv

\* main lets go of its lock when the pipe says so: whoever preprocesses holds
\* the other end of the pipe open, and has said nothing yet.
LEMMA ReadPipePipe ==
  ASSUME TypeOK, PipeInv, NEW p \in Pid, ReadPipe(p)
  PROVE  PipeInv'
<1>1. /\ proc[p] \in Process /\ proc[p].env \in Env
      /\ Piped(p, proc[p]) /\ proc[p].pc = "pipe" /\ PipeReadable(p)
      /\ proc[p].env.lockfd = p /\ proc[p].env.lock \in Int /\ NoPid \notin Pid
  BY OwnType, ConstantsOK DEF PipeInv, Piped, ReadPipe, At, Env
<1>2. PICK r : r = [proc[p] EXCEPT !.pc = "collect", !.env = UndoEnv(proc[p]),
                                   !.undo = "none"]
  OBVIOUS
<1>3. /\ proc'[p] = r
      /\ \A x \in Pid \ {p} : proc'[x] = proc[x] /\ semadj'[x] = semadj[x]
  BY <1>2, OthersUnits DEF ReadPipe, TypeOK
<1>4. /\ r.pc = "collect" /\ r.undo = "none" /\ r.env = UndoEnv(proc[p])
      /\ r.cmd = proc[p].cmd /\ r.parent = proc[p].parent /\ r.sec = proc[p].sec
      /\ r.told = proc[p].told /\ r.noccache = proc[p].noccache
      /\ r.ccache_then_distcc = proc[p].ccache_then_distcc
  BY <1>1, <1>2 DEF Process
<1>5. r.env.lockfd = p /\ r.env.prefix = proc[p].env.prefix
  BY <1>1, <1>4, UndoFields
<1>6. r.cmd = "make" => r.env.lock = Unset \/ r.env.lock >= 64
  BY <1>1, <1>4, UndoFields DEF Piped, Level, Process
<1>7. Piped(p, r)
  BY <1>1, <1>4, <1>5, <1>6 DEF Piped, Program, Unlocked, SemCalls, Level
<1>8. PreAlone(p, r)' /\ Below(p, r)'
  BY <1>1, <1>4, <1>5 DEF PreAlone, Below, Program
<1>9. OneChild'
  <2>1. \A x \in Pid : proc'[x].parent = proc[x].parent
    BY <1>3, <1>4
  <2>2. \A x \in Pid : x # p => proc'[x].pc = proc[x].pc
    BY <1>3
  <2>3. proc'[p].pc \in Waiting
    BY <1>3, <1>4 DEF Waiting
  <2>4. QED
    BY <1>1, <2>1, <2>2, <2>3 DEF PipeInv, OneChild, At
<1>10. ASSUME NEW x \in Pid \ {p}
       PROVE  Piped(x, proc[x])' /\ PreAlone(x, proc[x])' /\ Below(x, proc[x])'
  <2>1. Piped(x, proc[x]) /\ PreAlone(x, proc[x]) /\ Below(x, proc[x])
    BY DEF PipeInv
  <2>2. proc'[x] = proc[x] /\ semadj'[x] = semadj[x]
    BY <1>3
  <2>3. PreAlone(x, proc[x])'
    BY <2>1, <2>2 DEF PreAlone
  <2> DEFINE o == proc[x].env.lockfd
             a == proc[x].parent
  <2>4. ASSUME o = p
        PROVE  ~Preprocesses(proc[x])
    <3>1. Preprocesses(proc[x]) => ~proc[p].told /\ p \in proc[x].wfd
      BY <2>1, <2>4 DEF Below
    <3>2. QED
      BY <1>1, <3>1 DEF PipeReadable
  <2>5. o \in Pid /\ o # p => proc'[o] = proc[o]
    BY <1>3
  <2>6. a \in Pid => /\ proc'[a].parent = proc[a].parent
                     /\ proc'[a].env.lockfd = proc[a].env.lockfd
                     /\ proc'[a].cmd = proc[a].cmd
                     /\ a # p => proc'[a].pc = proc[a].pc
    BY <1>1, <1>3, <1>4, <1>5
  <2>7. Below(x, proc[x])'
    <3>1. CASE o = p
      <4>1. proc'[o].pc \in {"pipe", "collect"}
        BY <1>3, <1>4, <3>1
      <4>2. a # o => a # p
        BY <3>1
      <4>3. QED
        BY <2>1, <2>2, <2>4, <2>6, <3>1, <4>1, <4>2 DEF Below
    <3>2. CASE o # p
      <4>1. ASSUME o \in Pid \ {x}, a # o
            PROVE  a # p
        <5>1. proc[a].env.lockfd = o
          BY <2>1, <4>1 DEF Below
        <5>2. QED
          BY <1>1, <3>2, <5>1
      <4>2. QED
        BY <2>1, <2>2, <2>5, <2>6, <3>2, <4>1 DEF Below
    <3>3. QED
      BY <3>1, <3>2
  <2>8. QED
    BY <2>1, <2>2, <2>3, <2>7 DEF Piped
<1>11. QED
  BY <1>3, <1>7, <1>8, <1>9, <1>10 DEF PipeInv, Piped

\* Whoever has a pipe has its owner at the other end.
LEMMA SomebodyThere ==
  ASSUME PipeInv, NEW p \in Pid
  PROVE  ~TellNobody(p)
<1>1. Piped(p, proc[p]) /\ Below(p, proc[p])
  BY DEF PipeInv
<1>2. QED
  BY <1>1 DEF TellNobody, At, Piped, Below

\* make_semaphore.
LEMMA SemCallsPipe ==
  ASSUME IndInv, PipeInv, NEW p \in Pid,
         CreateSem(p) \/ SetPerm(p) \/ SetVal(p)
  PROVE  PipeInv'
<1>a. /\ TypeOK /\ proc[p] \in Process
      /\ Piped(p, proc[p]) /\ PreAlone(p, proc[p]) /\ Below(p, proc[p])
  BY OwnType DEF IndInv, PipeInv
<1>1. PICK label \in SemCalls :
        proc' = [proc EXCEPT ![p] = [proc[p] EXCEPT !.pc = label]]
  BY SemCallsStep
<1>2. proc[p].pc \in SemCalls /\ semadj' = semadj
  BY SemCallsStep
<1>3. NoChild(p)
  BY <1>2, NoneBelow DEF SemCalls, Waiting, Callers, PipeInv
<1>b. PICK r : r = [proc[p] EXCEPT !.pc = label]
  OBVIOUS
<1>4. /\ r.pc = label /\ r.parent = proc[p].parent /\ r.env = proc[p].env
      /\ r.cmd = proc[p].cmd /\ r.sec = proc[p].sec /\ r.undo = proc[p].undo
      /\ r.told = proc[p].told /\ r.noccache = proc[p].noccache
      /\ r.ccache_then_distcc = proc[p].ccache_then_distcc
      /\ r.wfd = proc[p].wfd
  BY <1>a, <1>b DEF Process
<1>5. proc' = [proc EXCEPT ![p] = r]
  BY <1>1, <1>b
<1>6. Piped(p, r)
  BY <1>a, <1>2, <1>4 DEF Piped, SemCalls, Program, Unlocked
<1>7. PreAlone(p, r)'
  BY <1>2, <1>4 DEF PreAlone, SemCalls, Program
<1>8. Below(p, r)
  BY <1>a, <1>2, <1>4, <1>6, ConstantsOK
  DEF Below, Piped, SemCalls, Program, Preprocesses, Process, Env
<1>9. QED
  BY <1>a, <1>2, <1>3, <1>4, <1>5, <1>6, <1>7, <1>8, AlonePipe

\* What main and the programs end with.
LEMMA ExitsPipe ==
  ASSUME TypeOK, PipeInv, Layered, NEW p \in Pid,
         \/ CalledMyself(p) \/ SemDenied(p) \/ Collect(p) \/ DistccReturned(p)
         \/ ProgramEnds(p) \/ CcacheHit(p) \/ DistccWorks(p) \/ Crash(p)
         \/ Kill(p)
  PROVE  PipeInv'
<1>1. CASE Collect(p) \/ DistccReturned(p)
  <2>1. PICK q \in Children(p) : At(q, "zombie") /\ Exit(p, proc[q].status)
    BY <1>1 DEF Collect, DistccReturned
  <2>2. /\ q \in Pid /\ proc[q].parent = p /\ proc[p].pc \in {"collect", "wait"}
        /\ proc[q].status \in {"none", "done", "nodist", "killed"}
    BY <1>1, <2>1 DEF Collect, DistccReturned, At, Children, TypeOK, Process
  <2>3. ASSUME NEW x \in Children(p)
        PROVE  x = q
    BY <2>2 DEF Children, PipeInv, OneChild, At
  <2>4. \A x \in Children(p) : At(x, "zombie")
    BY <2>1, <2>3
  <2>5. QED
    BY <2>1, <2>2, <2>4, ExitPipe
<1>2. CASE \/ CalledMyself(p) \/ SemDenied(p) \/ ProgramEnds(p)
           \/ CcacheHit(p) \/ DistccWorks(p) \/ Crash(p)
  <2>1. PICK status \in {"none", "done", "nodist", "killed"} : Exit(p, status)
    BY <1>2 DEF CalledMyself, SemDenied, ProgramEnds, CcacheHit, DistccWorks,
       Crash
  <2>2. NoChild(p)
    <3>1. CASE ProgramEnds(p) \/ CcacheHit(p) \/ DistccWorks(p)
      BY <3>1 DEF ProgramEnds, CcacheHit, DistccWorks
    <3>2. CASE CalledMyself(p) \/ SemDenied(p) \/ Crash(p)
      <4>1. proc[p].pc \in {"grab", "sem", "crash"}
        BY <3>2 DEF CalledMyself, SemDenied, Crash, Grabbing, At
      <4>2. QED
        BY <4>1, NoneBelow DEF PipeInv, Waiting, Callers
    <3>3. QED
      BY <1>2, <3>1, <3>2
  <2>3. QED
    BY <2>1, <2>2, ExitPipe DEF NoChild
<1>3. CASE Kill(p)
  BY <1>3 DEF Kill, Layered
<1>4. QED
  BY <1>1, <1>2, <1>3

\* What a child of a program is, that runs ccontrol.
LEMMA CalledPiped ==
  ASSUME TypeOK, PipeInv, NEW p \in Pid, NEW r \in Process, NEW image,
         image = Exec(r, "main"), r.env = proc[p].env,
         proc[p].pc \in Program,
         r.cmd = "make" => r.env.lock = Unset \/ r.env.lock >= Level(-1),
         r.cmd \in Compiles => r.env.lock # Slow \/ r.env.lockfd # NoPid
  PROVE  /\ image \in Process /\ image.pc = "main" /\ image.cmd = r.cmd
         /\ image.env = r.env /\ image.wfd = r.wfd
         /\ \A q \in Pid : q # image.env.lockfd =>
              Piped(q, [image EXCEPT !.parent = p]) /\ PreAlone(q, image)
<1>1. "main" \in Label
  BY DEF Label, MainLabel, SemCalls
<1>2. /\ image \in Process /\ image.pc = "main" /\ image.cmd = r.cmd
      /\ image.env = r.env /\ image.wfd = r.wfd
      /\ image.sec = NoSection /\ image.undo = "none"
      /\ ~image.noccache /\ ~image.told /\ ~image.ccache_then_distcc
  BY <1>1, ExecKeeps
<1>3. ASSUME NEW q \in Pid, q # image.env.lockfd
      PROVE  Piped(q, [image EXCEPT !.parent = p]) /\ PreAlone(q, image)
  <2>1. PICK c : c = [image EXCEPT !.parent = p]
    OBVIOUS
  <2>2. /\ c.pc = "main" /\ c.cmd = r.cmd /\ c.env = r.env
        /\ c.sec = NoSection /\ c.undo = "none"
        /\ ~c.noccache /\ ~c.told /\ ~c.ccache_then_distcc
    BY <1>2, <2>1 DEF Process
  <2>3. r.env.prefix <=> r.env.lockfd # NoPid
    BY DEF PipeInv, Piped
  <2>4. Piped(q, c)
    BY <1>2, <1>3, <2>2, <2>3, ExecPiped
  <2>5. PreAlone(q, image)
    BY <1>2 DEF PreAlone, Program
  <2>6. QED
    BY <2>1, <2>4, <2>5
<1>4. QED
  BY <1>2, <1>3

-----------------------------------------------------------------------------
(* The programs and the user.                                              *)

\* A program that goes on as another.
LEMMA GoesOnPiped ==
  ASSUME TypeOK, PipeInv, NEW p \in Pid, NEW label, NEW r,
         r = [proc[p] EXCEPT !.pc = label],
         \/ proc[p].pc = "ccache" /\ label = "cached"
         \/ proc[p].pc = "cached" /\ label \in {"ccached", "compile"}
         \/ proc[p].pc = "distcc" /\ label = "compile"
  PROVE  /\ Piped(p, r) /\ PreAlone(p, r) /\ Below(p, r) /\ r.pc = label
         /\ r.parent = proc[p].parent /\ r.env = proc[p].env
         /\ r.wfd = proc[p].wfd /\ r.cmd = proc[p].cmd /\ r \in Process
         /\ proc[p].env.lockfd \in Pid \ {p} => r.parent = proc[p].env.lockfd
<1>1. /\ proc[p] \in Process
      /\ Piped(p, proc[p]) /\ PreAlone(p, proc[p]) /\ Below(p, proc[p])
      /\ proc[p].pc \in {"ccache", "cached", "distcc"}
      /\ label \in Program \cap Label
  BY OwnType DEF PipeInv, Program, Label
<1>2. /\ r.pc = label /\ r.env = proc[p].env /\ r.cmd = proc[p].cmd
      /\ r.parent = proc[p].parent /\ r.sec = proc[p].sec
      /\ r.undo = proc[p].undo /\ r.noccache = proc[p].noccache
      /\ r.ccache_then_distcc = proc[p].ccache_then_distcc
      /\ r.wfd = proc[p].wfd /\ r.told = proc[p].told /\ r \in Process
  BY <1>1 DEF Process
<1>3. Piped(p, r)
  BY <1>1, <1>2 DEF Piped, Program, Unlocked, SemCalls
<1>4. PreAlone(p, r)
  BY <1>1, <1>2 DEF PreAlone, Program
<1>5. Preprocesses(r) => Preprocesses(proc[p])
  BY <1>2 DEF Preprocesses
<1>6. Below(p, r)
  BY <1>1, <1>2, <1>5 DEF Below
<1>7. proc[p].env.lockfd \in Pid \ {p} => r.parent = proc[p].env.lockfd
  BY <1>1, <1>2 DEF Below
<1>8. QED
  BY <1>2, <1>3, <1>4, <1>6, <1>7

\* ccache starts what preprocesses, and then what compiles.
LEMMA CcachePipe ==
  ASSUME TypeOK, PipeInv, NEW p \in Pid, CcacheStarts(p) \/ CcacheMiss(p)
  PROVE  PipeInv'
<1>a. /\ proc[p] \in Process /\ Piped(p, proc[p]) /\ PreAlone(p, proc[p])
      /\ proc[p].pc \in {"ccache", "cached"} /\ NoPid \notin Pid
      /\ proc[p].env.prefix <=> proc[p].env.lockfd # NoPid
      /\ proc[p].env.lockfd # p /\ proc[p].env.lockfd \in Pid \cup {NoPid}
      /\ proc[p].cmd = "make" =>
           proc[p].env.lock = Unset \/ proc[p].env.lock >= Level(-1)
  BY OwnType, ConstantsOK DEF PipeInv, Piped, CcacheStarts, CcacheMiss, At, Env
<1>b. NoChild(p)
  BY NoneBelow DEF PipeInv, CcacheStarts, CcacheMiss, At, Waiting, Callers
<1>1. CASE ~proc[p].env.prefix
  <2>1. PICK label, r : /\ r = [proc[p] EXCEPT !.pc = label]
                        /\ Local(p, r)
                        /\ \/ proc[p].pc = "ccache" /\ label = "cached"
                           \/ proc[p].pc = "cached" /\ label = "compile"
    BY <1>1, <1>a DEF CcacheStarts, CcacheMiss, At
  <2>2. /\ Piped(p, r) /\ PreAlone(p, r) /\ Below(p, r)
        /\ r.parent = proc[p].parent
    BY <2>1, GoesOnPiped
  <2>3. QED
    BY <1>b, <2>1, <2>2, LocalPipe
<1>2. CASE CcacheStarts(p) /\ proc[p].env.prefix
  <2>1. PICK r, b, image : /\ r = [proc[p] EXCEPT !.pc = "cached"]
                           /\ b = [r EXCEPT !.cmd = "pre"]
                           /\ image = Exec(b, "main")
    OBVIOUS
  <2>2. /\ Piped(p, r) /\ PreAlone(p, r) /\ Below(p, r) /\ r.pc = "cached"
        /\ r.parent = proc[p].parent /\ r.env = proc[p].env
        /\ r.wfd = proc[p].wfd /\ r.cmd = proc[p].cmd /\ r \in Process
        /\ proc[p].env.lockfd \in Pid \ {p} => r.parent = proc[p].env.lockfd
    BY <1>2, <2>1, GoesOnPiped DEF CcacheStarts, At
  <2>3. Fork(p, r, image)
    <3>1. r.env.prefix
      BY <1>2, <2>2
    <3>2. QED
      BY <1>2, <2>1, <3>1 DEF CcacheStarts
  <2>4. b \in Process /\ b.env = r.env /\ b.wfd = r.wfd /\ b.cmd = "pre"
    BY <2>1, <2>2 DEF Process, Cmd
  <2>5. /\ image \in Process /\ image.pc = "main" /\ image.cmd = "pre"
        /\ image.env = r.env /\ image.wfd = r.wfd
        /\ \A q \in Pid : q # image.env.lockfd =>
             Piped(q, [image EXCEPT !.parent = p]) /\ PreAlone(q, image)
    <3>1. /\ image = Exec(b, "main") /\ b \in Process
          /\ b.env = proc[p].env /\ proc[p].pc \in Program
          /\ b.cmd # "make" /\ b.env.lockfd # NoPid
      BY <1>2, <1>a, <2>1, <2>2, <2>4 DEF Program
    <3>2. /\ image \in Process /\ image.pc = "main" /\ image.cmd = b.cmd
          /\ image.env = b.env /\ image.wfd = b.wfd
          /\ \A q \in Pid : q # image.env.lockfd =>
               Piped(q, [image EXCEPT !.parent = p]) /\ PreAlone(q, image)
      BY <3>1, CalledPiped
    <3>3. QED
      BY <2>4, <3>2
  <2>6. CASE Spawn(p, r, image)
    <3>1. r.pc \in Waiting /\ proc[p].pc # "free"
      BY <1>a, <2>2 DEF Waiting
    <3>2. /\ r.parent = r.env.lockfd /\ r.env.lockfd \in Pid \ {p}
          /\ r.env.lockfd = proc[p].env.lockfd
      BY <1>2, <1>a, <2>2
    <3>3. QED
      BY <1>b, <2>2, <2>5, <2>6, <3>1, <3>2, SpawnPipe
  <2>7. CASE Exit(p, "done")
    BY <1>b, <2>7, ExitPipe DEF NoChild
  <2>8. QED
    BY <2>3, <2>6, <2>7 DEF Fork
<1>3. CASE CcacheMiss(p) /\ proc[p].env.prefix
  <2>1. PICK r, image : /\ r = [proc[p] EXCEPT !.pc = "ccached"]
                        /\ image = Exec(proc[p], "main")
    OBVIOUS
  <2>2. /\ Piped(p, r) /\ PreAlone(p, r) /\ Below(p, r) /\ r.pc = "ccached"
        /\ r.parent = proc[p].parent /\ r.env = proc[p].env
        /\ r.wfd = proc[p].wfd /\ r.cmd = proc[p].cmd /\ r \in Process
        /\ proc[p].env.lockfd \in Pid \ {p} => r.parent = proc[p].env.lockfd
    BY <1>3, <2>1, GoesOnPiped DEF CcacheMiss, At
  <2>3. Fork(p, r, image)
    BY <1>3, <2>1 DEF CcacheMiss
  <2>4. /\ image \in Process /\ image.pc = "main" /\ image.cmd = r.cmd
        /\ image.env = r.env /\ image.wfd = r.wfd
        /\ \A q \in Pid : q # image.env.lockfd =>
             Piped(q, [image EXCEPT !.parent = p]) /\ PreAlone(q, image)
    <3>1. proc[p].env.lockfd # NoPid /\ proc[p].pc \in Program
      BY <1>3, <1>a DEF Program
    <3>2. QED
      BY <1>a, <2>1, <2>2, <3>1, CalledPiped
  <2>5. CASE Spawn(p, r, image)
    <3>1. r.pc \in Waiting /\ proc[p].pc # "free"
      BY <1>a, <2>2 DEF Waiting
    <3>2. /\ r.parent = r.env.lockfd /\ r.env.lockfd \in Pid \ {p}
          /\ r.env.lockfd = proc[p].env.lockfd
      BY <1>3, <1>a, <2>2
    <3>3. IF image.cmd = "pre"
          THEN r.pc = "cached" \/ (r.pc = "ccached" /\ r.cmd = "pre")
          ELSE r.pc \in Program \ {"ccache", "cached"} /\ r.cmd # "pre"
      BY <2>2, <2>4 DEF Program
    <3>4. QED
      BY <1>b, <2>2, <2>4, <2>5, <3>1, <3>2, <3>3, SpawnPipe
  <2>6. CASE Exit(p, "done")
    BY <1>b, <2>6, ExitPipe DEF NoChild
  <2>7. QED
    BY <2>3, <2>5, <2>6 DEF Fork
<1>4. QED
  BY <1>1, <1>2, <1>3

\* distcc compiles here, or fails.
LEMMA NoHostPipe ==
  ASSUME TypeOK, PipeInv, NEW p \in Pid, DistccHasNoHost(p)
  PROVE  PipeInv'
<1>1. NoChild(p) /\ proc[p].pc = "distcc"
  BY DEF DistccHasNoHost, At
<1>2. CASE Exit(p, "nodist")
  BY <1>1, <1>2, ExitPipe DEF NoChild
<1>3. CASE Local(p, [proc[p] EXCEPT !.pc = "compile"])
  <2>1. PICK r : r = [proc[p] EXCEPT !.pc = "compile"] /\ Local(p, r)
    BY <1>3
  <2>2. /\ Piped(p, r) /\ PreAlone(p, r) /\ Below(p, r)
        /\ r.parent = proc[p].parent
    BY <1>1, <2>1, GoesOnPiped
  <2>3. QED
    BY <1>1, <2>1, <2>2, LocalPipe
<1>4. QED
  BY <1>2, <1>3 DEF DistccHasNoHost

\* make, the linking compile, distcc and the others call commands.
LEMMA CallsPipe ==
  ASSUME TypeOK, PipeInv, Layered, NEW p \in Pid, ProgramCalls(p)
  PROVE  PipeInv'
<1>1. /\ proc[p] \in Process /\ proc[p].env \in Env /\ NoPid \notin Pid
      /\ Piped(p, proc[p]) /\ PreAlone(p, proc[p]) /\ Below(p, proc[p])
      /\ proc[p].pc \in Callers /\ proc[p].pc \in Program
      /\ proc[p].pc = "make" \/ NoChild(p)
      /\ proc[p].pc = "compile" => proc[p].cmd = "cclink"
  BY OwnType, ConstantsOK DEF PipeInv, ProgramCalls, At, Callers, Program
<1>2. PICK c, d, r, b, image :
        /\ c \in Spawns[proc[p].pc] /\ d \in Dir
        /\ r = [proc[p] EXCEPT !.calls = @ + 1]
        /\ b = [proc[p] EXCEPT !.cmd = c, !.dir = d]
        /\ image = Exec(b, "main")
        /\ Spawn(p, r, image)
  BY DEF ProgramCalls
<1>a. c \in Spawns[proc[p].pc] /\ d \in Dir
  BY <1>2
<1>3. c \in Cmd /\ (proc[p].pc # "make" => c \notin Compiles \cup {"make"})
  BY <1>1, <1>a, ConstantsOK DEF Layered
<1>4. /\ b \in Process /\ b.cmd = c /\ b.env = proc[p].env
      /\ b.wfd = proc[p].wfd
  BY <1>1, <1>2, <1>3 DEF Process
<1>5. /\ r.pc = proc[p].pc /\ r.env = proc[p].env /\ r.cmd = proc[p].cmd
      /\ r.parent = proc[p].parent /\ r.sec = proc[p].sec
      /\ r.undo = proc[p].undo /\ r.noccache = proc[p].noccache
      /\ r.ccache_then_distcc = proc[p].ccache_then_distcc
      /\ r.wfd = proc[p].wfd /\ r.told = proc[p].told
  BY <1>1, <1>2 DEF Process
<1>6. Piped(p, r)
  BY <1>1, <1>5 DEF Piped
<1>7. PreAlone(p, r) /\ Below(p, r)
  BY <1>1, <1>5 DEF PreAlone, Below, Preprocesses
<1>8. proc[p].pc = "make" => /\ proc[p].env.lockfd = NoPid
                             /\ proc[p].env.lock # Slow
                             /\ \/ proc[p].env.lock = Unset
                                \/ proc[p].env.lock >= Level(-1)
  <2>1. proc[p].pc = "make" => /\ proc[p].env.lockfd = NoPid
                               /\ \/ proc[p].env.lock = Unset
                                  \/ proc[p].env.lock >= Level(-1)
    BY <1>1 DEF Piped
  <2>2. QED
    BY <2>1 DEF Unset, Level, Slow
<1>9. /\ image \in Process /\ image.pc = "main" /\ image.cmd = c
      /\ image.env = r.env /\ image.wfd = r.wfd
      /\ \A q \in Pid : q # image.env.lockfd =>
           Piped(q, [image EXCEPT !.parent = p]) /\ PreAlone(q, image)
  <2>1. b.cmd = "make" => b.env.lock = Unset \/ b.env.lock >= Level(-1)
    BY <1>3, <1>4, <1>8
  <2>2. b.cmd \in Compiles => b.env.lock # Slow
    BY <1>3, <1>4, <1>8
  <2>3. image = Exec(b, "main")
    BY <1>2
  <2>4. /\ image \in Process /\ image.pc = "main" /\ image.cmd = b.cmd
        /\ image.env = b.env /\ image.wfd = b.wfd
        /\ \A q \in Pid : q # image.env.lockfd =>
             Piped(q, [image EXCEPT !.parent = p]) /\ PreAlone(q, image)
    BY <1>1, <1>4, <2>1, <2>2, <2>3, CalledPiped
  <2>5. QED
    BY <1>4, <1>5, <2>4
<1>10. r.pc \in Waiting /\ proc[p].pc # "free"
  BY <1>1, <1>5 DEF Waiting, Callers
<1>11. CASE proc[p].env.lockfd = NoPid
  <2>1. image.env.lockfd = NoPid
    BY <1>5, <1>9, <1>11
  <2>2. QED
    BY <1>1, <1>2, <1>5, <1>6, <1>7, <1>9, <1>10, <2>1, SpawnPipe
<1>12. CASE proc[p].env.lockfd # NoPid
  <2>1. /\ proc[p].env.lockfd \in Pid \ {p}
        /\ proc[p].pc \in {"compile", "distcc", "other"}
    BY <1>1, <1>8, <1>12 DEF Piped, Env, Callers
  <2>2. proc[p].cmd # "pre" /\ c # "pre"
    BY <1>1, <1>3, <2>1 DEF Piped, can_distcc, Compiles
  <2>3. proc[p].parent = proc[p].env.lockfd
    BY <1>1, <2>1, <2>2 DEF Below
  <2>4. /\ r.parent = r.env.lockfd /\ r.env.lockfd \in Pid \ {p}
        /\ r.pc \in Program \ {"ccache", "cached"} /\ r.cmd # "pre"
    BY <1>1, <1>5, <2>1, <2>2, <2>3
  <2>5. QED
    BY <1>1, <1>2, <1>5, <1>6, <1>7, <1>9, <1>10, <2>2, <2>4, SpawnPipe
<1>13. QED
  BY <1>11, <1>12

\* The user.
LEMMA StartPipe ==
  ASSUME TypeOK, PipeInv, NEW p \in Pid, Start(p)
  PROVE  PipeInv'
<1>1. PICK c, d, r :
        r = [Idle EXCEPT !.pc = "main", !.cmd = c, !.dir = d] /\ Local(p, r)
  BY DEF Start
<1>2. /\ r.pc = "main" /\ r.cmd = c /\ r.parent = NoPid /\ r.env = CleanEnv
      /\ r.sec = NoSection /\ r.undo = "none"
      /\ ~r.noccache /\ ~r.told /\ ~r.ccache_then_distcc
  BY <1>1 DEF Idle
<1>3. /\ ~CleanEnv.prefix /\ CleanEnv.lockfd = NoPid /\ CleanEnv.lock = Unset
      /\ NoPid \notin Pid
  BY ConstantsOK DEF CleanEnv
<1>4. Unset # Slow
  BY DEF Unset, Slow
<1>5. Piped(p, r)
  BY <1>2, <1>3, <1>4, ExecPiped
<1>6. PreAlone(p, r)' /\ Below(p, r)
  BY <1>2, <1>3 DEF PreAlone, Below, Program
<1>7. NoChild(p) /\ \A q \in Pid \ {p} : semadj'[q] = semadj[q]
  BY <1>1, NoneBelow
     DEF PipeInv, Start, Usable, At, Waiting, Callers, Local, sem
<1>8. proc' = [proc EXCEPT ![p] = r]
  BY <1>1 DEF Local
<1>9. QED
  BY <1>2, <1>5, <1>6, <1>7, <1>8, AlonePipe

LEMMA InitPipe == Init => PipeInv
<1> SUFFICES ASSUME Init PROVE PipeInv
  OBVIOUS
<1>1. \A p \in Pid : proc[p] = Idle
  BY DEF Init
<1>2. /\ Idle.pc = "free" /\ Idle.cmd = "cc" /\ Idle.env = CleanEnv
      /\ Idle.sec = NoSection /\ ~Idle.noccache /\ ~Idle.ccache_then_distcc
      /\ Idle.undo = "none" /\ ~Idle.told /\ Idle.parent = NoPid
      /\ NoPid \notin Pid
  BY ConstantsOK DEF Idle
<1>3. OneChild
  BY <1>1, <1>2 DEF OneChild
<1>4. ASSUME NEW p \in Pid
      PROVE  Piped(p, proc[p]) /\ PreAlone(p, proc[p]) /\ Below(p, proc[p])
  <2>1. Piped(p, Idle) /\ PreAlone(p, Idle) /\ Below(p, Idle)
    BY <1>2, IdlePiped
  <2>2. QED
    BY <1>1, <2>1
<1>5. QED
  BY <1>3, <1>4 DEF PipeInv

\* Every step keeps PipeInv.
LEMMA NextPipe ==
  ASSUME Layered, IndInv, PipeInv, [Next]_vars
  PROVE  PipeInv'
<1>a. TypeOK
  BY DEF IndInv
<1>1. ASSUME UNCHANGED <<proc, semadj>>
      PROVE  PipeInv'
  BY <1>1 DEF PipeInv, OneChild, Piped, PreAlone, Below, At
<1>2. CASE UNCHANGED vars
  BY <1>1, <1>2 DEF vars, sem
<1>3. CASE Edit
  BY <1>1, <1>3 DEF Edit, sem
<1>4. ASSUME NEW p \in Pid,
             \/ Step(p) \/ ProgramCalls(p) \/ ProgramProgress(p)
             \/ Start(p) \/ Kill(p)
      PROVE  PipeInv'
  <2>1. CASE CreateSem(p) \/ SetPerm(p) \/ SetVal(p)
    BY <2>1, SemCallsPipe
  <2>2. CASE \/ Main(p) \/ ReadConfig(p) \/ NoName(p) \/ Fstat(p)
             \/ PickMakeByte(p) \/ NeedSlow(p) \/ PickFastByte(p)
             \/ AlreadyGotIt(p) \/ GrabTopMake(p) \/ Unaltered(p)
    BY <1>a, <2>2, MainPipe
  <2>3. CASE LockByte(p) \/ GrabSem(p)
    BY <1>a, <2>3, LocksPipe
  <2>4. CASE RunExec(p) \/ RunCcache(p) \/ RunDistcc(p)
    BY <2>4, RunPipe
  <2>5. CASE Preprocess(p) \/ TellOwner(p)
    BY <1>a, <2>5, PreprocessPipe, TellOwnerPipe
  <2>6. CASE Altered(p) \/ DistccFailed(p) \/ ReadPipe(p)
    BY <1>a, <2>6, AlteredPipe, DistccFailedPipe, ReadPipePipe
  <2>7. CASE \/ CalledMyself(p) \/ SemDenied(p) \/ Collect(p)
             \/ DistccReturned(p) \/ ProgramEnds(p) \/ CcacheHit(p)
             \/ DistccWorks(p) \/ Crash(p) \/ Kill(p)
    BY <1>a, <2>7, ExitsPipe
  <2>8. CASE ProgramCalls(p)
    BY <1>a, <2>8, CallsPipe
  <2>9. CASE CcacheStarts(p) \/ CcacheMiss(p)
    BY <1>a, <2>9, CcachePipe
  <2>10. CASE DistccHasNoHost(p) \/ Start(p)
    BY <1>a, <2>10, NoHostPipe, StartPipe
  <2>11. ~TellNobody(p)
    BY SomebodyThere
  <2>12. QED
    BY <1>4, <2>11, <2>1, <2>2, <2>3, <2>4, <2>5, <2>6, <2>7, <2>8, <2>9, <2>10
    DEF Step, ProgramProgress
<1>5. QED
  BY <1>2, <1>3, <1>4 DEF Next

(***************************************************************************)
(* Who stands on either side of a pipe: the owner waits in read or has     *)
(* read, below it is ccache or what ccache became, and below that at most  *)
(* one that preprocesses or compiles; the owner of a pipe below which      *)
(* somebody preprocesses has the slow lock and has been told nothing.      *)
(***************************************************************************)
THEOREM PipeInvariance ==
  ASSUME Layered
  PROVE  Spec => [](IndInv /\ PipeInv)
<1>1. Init => IndInv /\ PipeInv
  BY InitInv, InitPipe
<1>2. IndInv /\ PipeInv /\ [Next]_vars => (IndInv /\ PipeInv)'
  BY NextKeeps, NextPipe
<1>3. QED
  BY <1>1, <1>2, PTL DEF Spec

(***************************************************************************)
(* What ccache preprocesses runs under the slow lock of the ccontrol that  *)
(* started it, and a compile with -E that ccache has no part in under its  *)
(* own (ccontrol.c:409 and 447).                                           *)
(***************************************************************************)
THEOREM PreprocessorIsLocked ==
  ASSUME Layered
  PROVE  Spec => []PreprocessLocked
<1>1. IndInv /\ PipeInv => PreprocessLocked
  <2> SUFFICES ASSUME IndInv, PipeInv, NEW p \in Pid,
                      proc[p].pc = "compile", proc[p].cmd = "pre"
               PROVE  proc[p].env.by \in Pid /\ semadj[proc[p].env.by] = 1
    BY DEF PreprocessLocked, At
  <2>1. /\ Piped(p, proc[p]) /\ PreAlone(p, proc[p]) /\ Below(p, proc[p])
        /\ proc[p].env \in Env
    BY OwnType DEF IndInv, PipeInv
  <2>2. CASE proc[p].env.lockfd = NoPid
    BY <2>1, <2>2 DEF PreAlone, Program
  <2>3. CASE proc[p].env.lockfd # NoPid
    <3>1. proc[p].env.lockfd \in Pid \ {p}
      BY <2>1, <2>3 DEF Piped, Env
    <3>2. PICK o \in Pid : o = proc[p].env.lockfd
      BY <3>1
    <3>3. /\ proc[o].pc = "pipe" /\ proc[o].undo = "drop"
          /\ proc[p].env.by = o
      BY <2>1, <3>1, <3>2 DEF Below, Preprocesses
    <3>4. semadj[o] = 1
      BY <3>3 DEF IndInv, UndoKnows, Locked
    <3>5. QED
      BY <3>3, <3>4
  <2>4. QED
    BY <2>2, <2>3
<1>2. QED
  BY <1>1, PipeInvariance, PTL
=============================================================================
