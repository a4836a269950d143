--------------------------- MODULE SlowLockProofs ---------------------------
(***************************************************************************)
(* The slow lock, for any number of processes, any lock files and any cpus *)
(* values: it is a counting lock, it loses no unit and makes none, and it  *)
(* is initialized once.  Everything follows from IndInv (SlowLock).        *)
(***************************************************************************)
EXTENDS SlowLock, FiniteSetTheorems, TLAPS

(***************************************************************************)
(* How the set of holders and its size follow a change of one pc.          *)
(***************************************************************************)
LEMMA HoldersFinite ==
  /\ IsFiniteSet(Holders)
  /\ Cardinality(Holders) \in Nat
<1>1. Holders \subseteq Proc
  BY DEF Holders
<1>2. IsFiniteSet(Holders)
  BY <1>1, ConstantsOK, FS_Subset
<1>3. QED
  BY <1>2, FS_CardinalityType

LEMMA HoldersJoin ==
  ASSUME NEW p \in Proc, TypeOK, pc[p] # "held",
         pc' = [pc EXCEPT ![p] = "held"]
  PROVE  /\ Holders' = Holders \cup {p}
         /\ Cardinality(Holders') = Cardinality(Holders) + 1
<1>1. Holders' = Holders \cup {p} /\ p \notin Holders
  BY DEF Holders, TypeOK
<1>2. QED
  BY <1>1, HoldersFinite, FS_AddElement

LEMMA HoldersLeave ==
  ASSUME NEW p \in Proc, TypeOK, pc[p] = "held",
         NEW to, to # "held", pc' = [pc EXCEPT ![p] = to]
  PROVE  /\ Holders' = Holders \ {p}
         /\ Cardinality(Holders') = Cardinality(Holders) - 1
<1>1. Holders' = Holders \ {p} /\ p \in Holders
  BY DEF Holders, TypeOK
<1>2. QED
  BY <1>1, HoldersFinite, FS_RemoveElement

LEMMA HoldersSame ==
  ASSUME NEW p \in Proc, TypeOK, pc[p] # "held",
         NEW to, to # "held", pc' = [pc EXCEPT ![p] = to]
  PROVE  Holders' = Holders
BY DEF Holders, TypeOK

(***************************************************************************)
(* A semaphore without a value has no holder.                              *)
(***************************************************************************)
LEMMA NoValueNoHolder ==
  ASSUME IndInv, cap = 0
  PROVE  val = 0 /\ Holders = {}
<1>1. val = 0 /\ Cardinality(Holders) = 0
  BY HoldersFinite DEF IndInv, Conservation, TypeOK
<1>2. QED
  BY <1>1, HoldersFinite, FS_EmptySet

(***************************************************************************)
(* IndInv is inductive.                                                    *)
(***************************************************************************)
LEMMA InitInv == Init => IndInv
<1> SUFFICES ASSUME Init PROVE IndInv
  OBVIOUS
<1>1. TypeOK
  BY DEF Init, TypeOK, Label
<1>2. Holders = {}
  BY DEF Init, Holders
<1>3. Conservation
  BY <1>2, FS_EmptySet DEF Init, Conservation
<1>4. UndoMatches /\ OneCreator
  BY <1>2 DEF Init, UndoMatches, OneCreator, Creating
<1>5. QED
  BY <1>1, <1>3, <1>4 DEF Init, IndInv

\* A step that moves one process between labels that neither hold nor
\* create, and touches no semaphore.
LEMMA QuietStep ==
  ASSUME NEW p \in Proc, IndInv,
         NEW to \in Label \ {"held", "setperm", "setval"},
         pc[p] \notin {"held", "setperm", "setval"},
         pc' = [pc EXCEPT ![p] = to],
         initLock' \in [File -> Proc \cup {NoProc}],
         UNCHANGED <<exists, mode, val, semadj, cap>>
  PROVE  IndInv'
<1> USE DEF IndInv
<1>1. Holders' = Holders
  BY HoldersSame
<1>2. TypeOK'
  BY DEF TypeOK
<1>3. Conservation'
  BY <1>1 DEF Conservation
<1>4. UndoMatches'
  BY <1>1 DEF UndoMatches
<1>5. OneCreator'
  BY DEF OneCreator, Creating, TypeOK
<1>6. QED
  BY <1>2, <1>3, <1>4, <1>5

\* The exit of a process, wherever it is.
LEMMA VanishStep ==
  ASSUME NEW p \in Proc, IndInv, Vanish(p)
  PROVE  IndInv'
<1> USE DEF IndInv, Vanish, Undo, Unlocked
<1>1. OneCreator'
  BY DEF OneCreator, Creating, TypeOK
<1>2. initLock' \in [File -> Proc \cup {NoProc}]
  BY DEF TypeOK
<1>3. semadj[p] = IF pc[p] = "held" THEN 1 ELSE 0
  BY DEF UndoMatches, Holders
<1>4. TypeOK'
  BY <1>2, <1>3 DEF TypeOK, Label
<1>5. CASE pc[p] = "held"
  <2>1. /\ Holders' = Holders \ {p}
        /\ Cardinality(Holders') = Cardinality(Holders) - 1
    BY <1>5, HoldersLeave
  <2>2. Conservation'
    BY <2>1, <1>3, <1>5, HoldersFinite DEF Conservation, TypeOK
  <2>3. UndoMatches'
    BY <2>1 DEF UndoMatches, TypeOK
  <2>4. QED
    BY <1>1, <1>4, <2>2, <2>3
<1>6. CASE pc[p] # "held"
  <2>1. Holders' = Holders /\ p \notin Holders
    BY <1>6, HoldersSame DEF Holders
  <2>2. Conservation'
    BY <2>1, <1>3, <1>6 DEF Conservation, TypeOK
  <2>3. UndoMatches'
    BY <2>1 DEF UndoMatches, TypeOK
  <2>4. QED
    BY <1>1, <1>4, <2>2, <2>3
<1>7. QED
  BY <1>5, <1>6

LEMMA NextInv == IndInv /\ [Next]_vars => IndInv'
<1> SUFFICES ASSUME IndInv, [Next]_vars PROVE IndInv'
  OBVIOUS
<1>0. CASE UNCHANGED vars
  BY <1>0 DEF vars, IndInv, TypeOK, Conservation, UndoMatches, OneCreator,
              Creating, Holders
<1> SUFFICES ASSUME NEW p \in Proc,
                    \/ Start(p) \/ Step(p)
                    \/ DropSlowLock(p) \/ Retry(p) \/ Exit(p) \/ Kill(p)
             PROVE  IndInv'
  BY <1>0 DEF Next
<1> USE DEF Goto
<1>a. TypeOK
  BY DEF IndInv
<1>1. CASE Start(p)
  BY <1>1, <1>a, QuietStep DEF Start, Label, TypeOK
<1>2. CASE Lookup(p)
  BY <1>2, <1>a, QuietStep DEF Lookup, Label, TypeOK
<1>3. CASE LockInit(p)
  <2>1. initLock' \in [File -> Proc \cup {NoProc}]
    BY <1>3, <1>a DEF LockInit, TypeOK
  <2>2. QED
    BY <1>3, <2>1, QuietStep DEF LockInit, Label
<1>4. CASE Create(p)
  <2>1. CASE exists
    BY <1>4, <2>1, <1>a, QuietStep DEF Create, Label, TypeOK
  <2>2. CASE ~exists
    <3>1. cap = 0
      BY <2>2 DEF IndInv, OneCreator
    <3>2. Holders' = Holders
      BY <1>4, <2>2, <1>a, HoldersSame DEF Create
    <3>3. OneCreator'
      BY <1>4, <2>2, <3>1, <1>a DEF Create, IndInv, OneCreator, Creating, TypeOK
    <3>4. TypeOK'
      BY <1>4, <2>2, <1>a DEF Create, TypeOK, Label
    <3>5. Conservation' /\ UndoMatches'
      BY <1>4, <3>2 DEF Create, IndInv, Conservation, UndoMatches
    <3>6. QED
      BY <3>3, <3>4, <3>5 DEF IndInv
  <2>3. QED
    BY <2>1, <2>2
<1>5. CASE SetPerm(p)
  <2>1. Holders' = Holders
    BY <1>5, <1>a, HoldersSame DEF SetPerm
  <2>2. OneCreator'
    BY <1>5, <1>a DEF SetPerm, IndInv, OneCreator, Creating, TypeOK
  <2>3. TypeOK'
    BY <1>5, <1>a DEF SetPerm, TypeOK, Label
  <2>4. Conservation' /\ UndoMatches'
    BY <1>5, <2>1 DEF SetPerm, IndInv, Conservation, UndoMatches
  <2>5. QED
    BY <2>2, <2>3, <2>4 DEF IndInv
<1>6. CASE SetVal(p)
  <2>1. exists /\ cap = 0
    BY <1>6 DEF SetVal, IndInv, OneCreator, Creating
  <2>2. Holders = {}
    BY <2>1, NoValueNoHolder
  <2>3. Holders' = {}
    BY <1>6, <1>a, <2>2, HoldersSame DEF SetVal
  <2>4. Cpus[p] \in Nat
    BY ConstantsOK
  <2>5. TypeOK'
    BY <1>6, <1>a, <2>4 DEF SetVal, TypeOK, Label
  <2>6. Conservation'
    BY <1>6, <2>3, <2>4, FS_EmptySet DEF SetVal, Conservation
  <2>7. UndoMatches'
    BY <1>6, <2>3 DEF SetVal, UndoMatches
  <2>8. OneCreator'
    BY <1>6, <1>a, <2>1 DEF SetVal, IndInv, OneCreator, Creating, TypeOK
  <2>9. QED
    BY <2>5, <2>6, <2>7, <2>8 DEF IndInv
<1>7. CASE UnlockInit(p)
  <2>1. initLock' \in [File -> Proc \cup {NoProc}]
    BY <1>7, <1>a DEF UnlockInit, TypeOK
  <2>2. QED
    BY <1>7, <2>1, QuietStep DEF UnlockInit, Label
<1>8. CASE SemOp(p)
  <2>1. /\ Holders' = Holders \cup {p}
        /\ Cardinality(Holders') = Cardinality(Holders) + 1
    BY <1>8, <1>a, HoldersJoin DEF SemOp
  <2>2. semadj[p] = 0
    BY <1>8 DEF SemOp, IndInv, UndoMatches, Holders
  <2>3. TypeOK'
    BY <1>8, <1>a, <2>2 DEF SemOp, TypeOK, Label
  <2>4. Conservation'
    BY <1>8, <1>a, <2>1, HoldersFinite DEF SemOp, IndInv, Conservation, TypeOK
  <2>5. UndoMatches'
    BY <1>8, <1>a, <2>1, <2>2 DEF SemOp, IndInv, UndoMatches, TypeOK
  <2>6. OneCreator'
    BY <1>8, <1>a DEF SemOp, IndInv, OneCreator, Creating, TypeOK
  <2>7. QED
    BY <2>3, <2>4, <2>5, <2>6 DEF IndInv
<1>9. CASE SemOpDenied(p)
  BY <1>9, <1>a, QuietStep DEF SemOpDenied, Label, TypeOK
<1>10. CASE DropSlowLock(p)
  <2>1. /\ Holders' = Holders \ {p}
        /\ Cardinality(Holders') = Cardinality(Holders) - 1
    BY <1>10, <1>a, HoldersLeave DEF DropSlowLock
  <2>2. semadj[p] = 1
    BY <1>10 DEF DropSlowLock, IndInv, UndoMatches, Holders
  <2>3. TypeOK'
    BY <1>10, <1>a, <2>2 DEF DropSlowLock, TypeOK, Label
  <2>4. Conservation'
    BY <1>10, <1>a, <2>1, HoldersFinite
    DEF DropSlowLock, IndInv, Conservation, TypeOK
  <2>5. UndoMatches'
    BY <1>10, <1>a, <2>1, <2>2 DEF DropSlowLock, IndInv, UndoMatches, TypeOK
  <2>6. OneCreator'
    BY <1>10, <1>a DEF DropSlowLock, IndInv, OneCreator, Creating, TypeOK
  <2>7. QED
    BY <2>3, <2>4, <2>5, <2>6 DEF IndInv
<1>11. CASE Retry(p)
  BY <1>11, <1>a, QuietStep DEF Retry, Label, TypeOK
<1>12. CASE Exit(p)
  BY <1>12, VanishStep DEF Exit
<1>13. CASE Kill(p)
  BY <1>13, VanishStep DEF Kill
<1>14. QED
  BY <1>1, <1>2, <1>3, <1>4, <1>5, <1>6, <1>7, <1>8, <1>9, <1>10, <1>11,
     <1>12, <1>13 DEF Step

(***************************************************************************)
(* The slow lock's invariant: make_semaphore, grab_sem, drop_slow_lock and *)
(* process exit all keep it (ccontrol-lock.c:35-146).                      *)
(***************************************************************************)
THEOREM Invariance == Spec => []IndInv
<1>1. QED
  BY InitInv, NextInv, PTL DEF Spec

(***************************************************************************)
(* Every variable keeps its type; above all the semaphore's value never    *)
(* goes below zero and no adjustment leaves {0, 1}.                        *)
(***************************************************************************)
THEOREM TypeCorrect == Spec => []TypeOK
<1>1. IndInv => TypeOK
  BY DEF IndInv
<1>2. QED
  BY <1>1, Invariance, PTL

(***************************************************************************)
(* The semaphore loses no unit and makes none.                             *)
(***************************************************************************)
THEOREM UnitsConserved == Spec => []Conservation
<1>1. IndInv => Conservation
  BY DEF IndInv
<1>2. QED
  BY <1>1, Invariance, PTL

(***************************************************************************)
(* At most the creator's cpus processes hold the slow lock together.       *)
(***************************************************************************)
THEOREM SlowLimitHolds == Spec => []SlowLimit
<1>1. IndInv => SlowLimit
  BY HoldersFinite DEF IndInv, SlowLimit, Conservation, TypeOK
<1>2. QED
  BY <1>1, Invariance, PTL

(***************************************************************************)
(* The semaphore gets its value once, before anybody holds it.             *)
(***************************************************************************)
THEOREM InitializedOnce == Spec => InitOnce
<1>1. IndInv /\ [Next]_vars => [cap' # cap => cap = 0 /\ Holders = {}]_vars
  <2> SUFFICES ASSUME IndInv, [Next]_vars, cap' # cap
               PROVE  cap = 0 /\ Holders = {}
    OBVIOUS
  <2>1. PICK p \in Proc : SetVal(p)
    BY DEF Next, Step, vars, Start, Lookup, LockInit, Create, SetPerm,
           UnlockInit, SemOp, SemOpDenied, DropSlowLock, Retry, Exit, Kill,
           Vanish, Undo
  <2>2. cap = 0
    BY <2>1 DEF SetVal, Goto, IndInv, OneCreator, Creating
  <2>3. QED
    BY <2>2, NoValueNoHolder
<1>2. QED
  BY <1>1, Invariance, PTL DEF Spec, InitOnce

(***************************************************************************)
(* The slow lock implements a counting lock.  SetVal is Open, SemOp is     *)
(* Acquire, and drop_slow_lock and the end of a holder are Release; all    *)
(* other system calls are invisible.                                       *)
(***************************************************************************)
LEMMA StepRefines ==
  IndInv /\ [Next]_vars => [Lock!Next]_(Lock!vars)
<1> SUFFICES ASSUME IndInv, [Next]_vars PROVE [Lock!Next]_(Lock!vars)
  OBVIOUS
<1> USE DEF Lock!vars, Lock!Next
<1>0. CASE UNCHANGED vars
  BY <1>0 DEF vars, Holders
<1> SUFFICES ASSUME NEW p \in Proc,
                    \/ Start(p) \/ Step(p)
                    \/ DropSlowLock(p) \/ Retry(p) \/ Exit(p) \/ Kill(p)
             PROVE  [Lock!Next]_(Lock!vars)
  BY <1>0 DEF Next
<1>a. TypeOK
  BY DEF IndInv
<1>1. CASE \/ Start(p) \/ Lookup(p) \/ LockInit(p) \/ Create(p) \/ SetPerm(p)
           \/ UnlockInit(p) \/ SemOpDenied(p) \/ Retry(p)
  <2>1. UNCHANGED cap
    BY <1>1 DEF Start, Lookup, LockInit, Create, SetPerm, UnlockInit,
                SemOpDenied, Retry
  <2>2. Holders' = Holders
    BY <1>1, <1>a DEF Start, Lookup, LockInit, Create, SetPerm, UnlockInit,
                SemOpDenied, Retry, Goto, TypeOK, Holders
  <2>3. QED
    BY <2>1, <2>2
<1>2. CASE SetVal(p)
  <2>1. cap = 0
    BY <1>2 DEF SetVal, Goto, IndInv, OneCreator, Creating
  <2>2. Holders' = Holders
    BY <1>2, <1>a, HoldersSame DEF SetVal, Goto
  <2>3. cap' \in Nat \ {0}
    BY <1>2, ConstantsOK DEF SetVal
  <2>4. Lock!Open
    BY <2>1, <2>2, <2>3 DEF Lock!Open
  <2>5. QED
    BY <2>4
<1>3. CASE SemOp(p)
  <2>1. Holders' = Holders \cup {p} /\ p \notin Holders
    BY <1>3, <1>a, HoldersJoin DEF SemOp, Goto, Holders
  <2>2. Cardinality(Holders) < cap
    <3>1. val \in Nat /\ val > 0
      BY <1>3, <1>a DEF SemOp, TypeOK
    <3>2. val + Cardinality(Holders) = cap
      BY DEF IndInv, Conservation
    <3>3. Cardinality(Holders) \in Nat
      BY HoldersFinite, FS_CardinalityType
    <3>4. QED
      BY <3>1, <3>2, <3>3
  <2>3. Lock!Cardinality(Holders) = Cardinality(Holders)
    BY DEF Lock!Cardinality, Cardinality
  <2>4. Lock!Acquire(p)
    BY <1>3, <2>1, <2>2, <2>3 DEF SemOp, Lock!Acquire
  <2>5. QED
    BY <2>4
<1>4. CASE DropSlowLock(p)
  <2>1. Holders' = Holders \ {p} /\ p \in Holders
    BY <1>4, <1>a, HoldersLeave DEF DropSlowLock, Goto, Holders
  <2>2. Lock!Release(p)
    BY <1>4, <2>1 DEF DropSlowLock, Lock!Release
  <2>3. QED
    BY <2>2
<1>5. CASE Exit(p) \/ Kill(p)
  <2>1. Vanish(p)
    BY <1>5 DEF Exit, Kill
  <2>2. CASE pc[p] = "held"
    <3>1. Holders' = Holders \ {p} /\ p \in Holders
      BY <2>1, <2>2, <1>a, HoldersLeave DEF Vanish, Undo, Unlocked, Holders
    <3>2. Lock!Release(p)
      BY <2>1, <3>1 DEF Vanish, Undo, Unlocked, Lock!Release
    <3>3. QED
      BY <3>2
  <2>3. CASE pc[p] # "held"
    <3>1. Holders' = Holders
      BY <2>1, <2>3, <1>a, HoldersSame DEF Vanish, Undo, Unlocked
    <3>2. QED
      BY <2>1, <3>1 DEF Vanish, Undo, Unlocked
  <2>4. QED
    BY <2>2, <2>3
<1>6. QED
  BY <1>1, <1>2, <1>3, <1>4, <1>5 DEF Step

THEOREM ImplementsCountingLock == Spec => Refinement
<1>1. Init => Lock!Init
  BY DEF Init, Lock!Init, Holders
<1>2. QED
  BY <1>1, StepRefines, Invariance, PTL DEF Spec, Refinement, Lock!Spec
=============================================================================
