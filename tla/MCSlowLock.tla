----------------------------- MODULE MCSlowLock -----------------------------
(* Instances of SlowLock for TLC.                                          *)
EXTENDS SlowLock

CONSTANTS p1, p2, p3, config, lockfile

\* One lock file, as when no section sets lock-file; p2 runs in a section
\* that says cpus = 2, the others in one that leaves the default of 1.
OneFile == [p \in Proc |-> config]
\* p1 runs in a section with a lock-file of its own.
TwoFiles == [p \in Proc |-> IF p = p1 THEN lockfile ELSE config]
MixedCpus == [p \in Proc |-> IF p = p2 THEN 2 ELSE 1]
=============================================================================
