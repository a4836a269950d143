----------------------------- MODULE MCCcontrol -----------------------------
(* Instances of Ccontrol for TLC.                                          *)
EXTENDS CcontrolOrder, TLC

CONSTANTS p1, p2, p3, p4, d1, d2, f1

\* A section of the config file.
Sec(ccache, distcc, cpus) ==
  [ccache |-> ccache, distcc |-> distcc, distcc_hosts |-> distcc,
   distcplusplus_hosts |-> FALSE, cpus |-> cpus, lock_file |-> f1]
Everywhere(s) == [d \in Dir |-> s]

\* What make and the compiler start.
Building == [l \in Callers |->
  CASE l = "make" -> {"cc", "cclink", "make"}
    [] l = "compile" -> {"ld"}
    [] OTHER -> {}]

\* Less of it, of a user whose distcc calls the compiler's link to ccontrol.
Mistaken == [l \in Callers |->
  CASE l = "make" -> {"cc", "make"}
    [] l = "distcc" -> {"cc"}
    [] OTHER -> {}]

\* That of a user who has ccontrol call other tools, too.
Linking == [Building EXCEPT !["other"] = {"ld", "other"}]

Both1 == Everywhere(Sec(TRUE, TRUE, 1))
Local1 == Everywhere(Sec(FALSE, FALSE, 1))
Distcc1 == Everywhere(Sec(FALSE, TRUE, 1))
DistccOnOff == {Local1, Distcc1}
OnlyBoth == {Both1}
OnlyDistcc == {Distcc1}
WithDistcc == {Both1, Distcc1}
AllWays == {Both1, Distcc1, Everywhere(Sec(TRUE, FALSE, 1))}
\* One section says cpus = 1, another cpus = 2.
Mixed == [d \in Dir |-> Sec(FALSE, TRUE, IF d = d1 THEN 1 ELSE 2)]
OnlyMixed == {Mixed}

Slots == Permutations(Pid)

\* Nothing tells the slots apart, so the commands of one stand for all: every
\* command ends, whichever compile or link is killed at whatever moment, unless
\* a death inside make_semaphore leaves a semaphore without a value.
EveryCommandEnds == Finishes(p1)
=============================================================================
