---------------------------- MODULE CountingLock ----------------------------
(***************************************************************************)
(* What the "slow lock" of ccontrol-lock.c promises, and nothing about how *)
(* it keeps the promise: a lock that at most `cap' processes hold at a     *)
(* time.  Its capacity is fixed once, before the first process gets it.    *)
(***************************************************************************)
EXTENDS Integers, FiniteSets

CONSTANT Proc

VARIABLES holders,  \* the processes that hold the lock
          cap       \* how many may hold it together; 0 until it is opened

vars == <<holders, cap>>

Init ==
  /\ holders = {}
  /\ cap = 0

Open ==
  /\ cap = 0
  /\ cap' \in Nat \ {0}
  /\ UNCHANGED holders

Acquire(p) ==
  /\ p \notin holders
  /\ Cardinality(holders) < cap
  /\ holders' = holders \cup {p}
  /\ UNCHANGED cap

Release(p) ==
  /\ p \in holders
  /\ holders' = holders \ {p}
  /\ UNCHANGED cap

Next ==
  \/ Open
  \/ \E p \in Proc : Acquire(p) \/ Release(p)

Spec == Init /\ [][Next]_vars
=============================================================================
