---------------------------- MODULE BridgeProofs ----------------------------
(***************************************************************************)
(* Proofs about three bridges between the game and the Vita that share no   *)
(* state: the kernel objects a thread waits on (a condition variable and    *)
(* the fence around VitaGL's collector), the references of the fake Java,   *)
(* and the way of an input to the game.  Each part has its definitions, the *)
(* inductive invariant, a lemma for each step, and its theorems.            *)
(***************************************************************************)
EXTENDS KernelWaits, JniRefs, InputBridge, FiniteSetTheorems, SequenceTheorems, TLAPS

(* Induction over the natural numbers, in terms of sets.                    *)

\* A set of natural numbers has a least one.
LEMMA Least ==
  ASSUME NEW T \in SUBSET Nat, NEW k \in T
  PROVE \E n \in T : \A m \in T : n =< m
<1> DEFINE F == {0 .. n : n \in T}
<1>1. F \subseteq FiniteSubsetsOf(Nat) /\ F # {}
  <2>1. \A n \in T : 0 .. n \in SUBSET Nat /\ IsFiniteSet(0 .. n) BY FS_Interval
  <2>2. QED BY <2>1 DEF FiniteSubsetsOf
<1>2. PICK y \in F : \A z \in F : ~(<<z, y>> \in StrictSubsetOrdering(Nat))
  <2> HIDE DEF F
  <2> QED BY <1>1, FS_StrictSubsetOrderingWellFounded, WFMin
<1>3. PICK n \in T : y = 0 .. n BY <1>2
<1>4. ASSUME NEW m \in T PROVE n =< m
  <2>1. SUFFICES ASSUME m < n PROVE FALSE OBVIOUS
  <2>2. 0 .. m \in SUBSET Nat /\ 0 .. n \in SUBSET Nat OBVIOUS
  <2>3. 0 .. m \subseteq 0 .. n /\ n \in 0 .. n /\ n \notin 0 .. m BY <2>1
  <2>4. <<0 .. m, 0 .. n>> \in StrictSubsetOrdering(Nat)
    BY <2>2, <2>3 DEF StrictSubsetOrdering
  <2>5. QED BY <2>4, <1>2, <1>3
<1>5. QED BY <1>4

\* A set with 0 and with the successors of its members has them all.
LEMMA Upwards ==
  ASSUME NEW P \in SUBSET Nat, 0 \in P, \A n \in P : n + 1 \in P
  PROVE P = Nat
<1>1. SUFFICES ASSUME NEW k \in Nat \ P PROVE FALSE OBVIOUS
<1>2. PICK n \in Nat \ P : \A m \in Nat \ P : n =< m BY Least
<1>3. n # 0 /\ n - 1 \in Nat BY <1>2
<1>4. n - 1 \in P BY <1>2, <1>3
<1>5. QED BY <1>2, <1>3, <1>4

-----------------------------------------------------------------------------
(* 1. Waiters of a condition variable, and the fence around the collector.  *)

\* Waiters that are counted, and those that have been counted out and still
\* have the gate to open.
Inside == {w \in Waiters : pc[w] \in {"queued", "cleanup", "retract"}}
Openers == {w \in Waiters : pc[w] = "open"}
HoldsGate == pc[Destroyer] \in {"try", "check"}

TypeFits ==
  /\ TypeOK
  /\ pc \in [Waiters \cup {Destroyer, Other} -> WaiterLabels \cup DestroyLabels]

\* The three counters together count the waiters.
CountFits == Cardinality(Inside) = blocked - gone + toUnblock

\* The gate is shut by a wake-up under way, by its last waiter, or by the
\* destroyer, and by one of them only.
GateFits ==
  /\ \A v, w \in Openers : v = w
  /\ toUnblock > 0 => gate = 0 /\ Openers = {} /\ ~HoldsGate
  /\ Openers # {} => gate = 0 /\ ~HoldsGate
  /\ HoldsGate => gate = 0
  /\ gate = 0 /\ alive => toUnblock > 0 \/ Openers # {} \/ HoldsGate

\* A freed condition is empty and nobody will find its gate open.
FreedFits ==
  ~alive => /\ Inside = {} /\ Openers = {} /\ gate = 0
            /\ blocked = gone /\ toUnblock = 0
            /\ pc[Destroyer] \in {"idle", "unlist", "unbridge"}

MutexFits == /\ \A w \in Waiters : pc[w] = "retract" <=> mtx = w
             /\ pc[Destroyer] = "check" <=> mtx = Destroyer

\* A destruction that found nobody asleep finds nobody later.
AwakeFits == /\ allAwake => rc # "EBUSY"
             /\ allAwake /\ Destroying => blocked = gone

CondInv == TypeFits /\ CountFits /\ GateFits /\ FreedFits /\ MutexFits /\ AwakeFits

-----------------------------------------------------------------------------
LEMMA InsideFinite == IsFiniteSet(Inside) /\ IsFiniteSet(Inside')
<1>1. Inside \subseteq Waiters /\ Inside' \subseteq Waiters
  BY DEF Inside
<1>2. QED BY <1>1, CondAssumption, FS_Subset

\* Nobody is inside when the counters say so.
LEMMA NobodyInside ==
  ASSUME CountFits
  PROVE  blocked - gone + toUnblock = 0 <=> Inside = {}
BY InsideFinite, FS_EmptySet DEF CountFits

\* Whoever is inside is counted.
LEMMA InsideIsPositive ==
  ASSUME CountFits, NEW w \in Inside
  PROVE  blocked - gone + toUnblock \in Nat \ {0}
<1>1. Cardinality(Inside) \in Nat
  BY InsideFinite, FS_CardinalityType
<1>2. Cardinality(Inside) # 0
  BY InsideFinite, FS_EmptySet
<1>3. QED BY <1>1, <1>2 DEF CountFits

LEMMA InsideIsNatural ==
  ASSUME CountFits
  PROVE  blocked - gone + toUnblock \in Nat
BY InsideFinite, FS_CardinalityType DEF CountFits

\* Only counted waiters leave, so no counter goes below 0, and the gate opens
\* only when it is shut.
LEMMA TypeKeeps ==
  ASSUME CondInv, Next
  PROVE  TypeFits'
<1> USE CondAssumption
  DEF condVars, lockVars, CondInv, TypeFits, TypeOK, WaiterLabels, DestroyLabels
<1>c. CountFits
  OBVIOUS
<1>1. ASSUME NEW w \in Waiters, Enter(w) PROVE TypeFits'
  BY <1>1 DEF Enter, Goto, GateFits, FreedFits, HoldsGate, Openers
<1>2. ASSUME NEW w \in Waiters, Wake(w) PROVE TypeFits'
  BY <1>2 DEF Wake, Goto, GateFits, FreedFits, HoldsGate, Openers
<1>3. ASSUME NEW w \in Waiters, TimeOut(w) PROVE TypeFits'
  BY <1>3 DEF TimeOut, Goto, GateFits, FreedFits, HoldsGate, Openers
<1>4. ASSUME NEW w \in Waiters, BeginRetract(w) PROVE TypeFits'
  BY <1>4 DEF BeginRetract, Goto, GateFits, FreedFits, HoldsGate, Openers
<1>5. ASSUME NEW w \in Waiters, RetractUnsignalled(w) PROVE TypeFits'
  BY <1>5 DEF RetractUnsignalled, Goto
<1>6. ASSUME NEW w \in Waiters, RetractSignalled(w) PROVE TypeFits'
  BY <1>6 DEF RetractSignalled, Goto, GateFits, FreedFits, HoldsGate, Openers
<1>7. ASSUME NEW w \in Waiters, OpenGate(w) PROVE TypeFits'
  BY <1>7 DEF OpenGate, Goto, GateFits, FreedFits, HoldsGate, Openers
<1>8. ASSUME NEW n \in 1 .. Cardinality(Waiters), SignalFirst(n) PROVE TypeFits'
  BY <1>8 DEF SignalFirst, GateFits, FreedFits, HoldsGate, Openers
<1>9. ASSUME NEW n \in 1 .. Cardinality(Waiters), SignalMore(n) PROVE TypeFits'
  BY <1>9 DEF SignalMore, GateFits, FreedFits, HoldsGate, Openers
<1>10. ASSUME DestroyCall PROVE TypeFits'
  BY <1>10 DEF DestroyCall, Goto, GateFits, FreedFits, HoldsGate, Openers
<1>11. ASSUME NEW t \in {Destroyer, Other}, LockBridge(t) PROVE TypeFits'
  BY <1>11 DEF LockBridge, Goto, GateFits, FreedFits, HoldsGate, Openers
<1>12. ASSUME NEW t \in {Destroyer, Other}, LockList(t) PROVE TypeFits'
  BY <1>12 DEF LockList, Goto, GateFits, FreedFits, HoldsGate, Openers
<1>13. ASSUME CloseGate PROVE TypeFits'
  BY <1>13 DEF CloseGate, Goto, GateFits, FreedFits, HoldsGate, Openers
<1>14. ASSUME GateInterrupted PROVE TypeFits'
  BY <1>14 DEF GateInterrupted, Goto, GateFits, FreedFits, HoldsGate, Openers
<1>15. ASSUME TryLock PROVE TypeFits'
  BY <1>15 DEF TryLock, Goto, GateFits, FreedFits, HoldsGate, Openers
<1>16. ASSUME TryLockBusy PROVE TypeFits'
  BY <1>16 DEF TryLockBusy, Goto, GateFits, FreedFits, HoldsGate, Openers
<1>17. ASSUME StillWaited PROVE TypeFits'
  BY <1>17 DEF StillWaited, Goto, GateFits, FreedFits, HoldsGate, Openers
<1>18. ASSUME Free PROVE TypeFits'
  BY <1>18 DEF Free, Goto, GateFits, FreedFits, HoldsGate, Openers
<1>19. ASSUME NEW t \in {Destroyer, Other}, UnlockList(t) PROVE TypeFits'
  BY <1>19 DEF UnlockList, Goto, GateFits, FreedFits, HoldsGate, Openers
<1>20. ASSUME NEW t \in {Destroyer, Other}, UnlockBridge(t) PROVE TypeFits'
  BY <1>20 DEF UnlockBridge, Goto, GateFits, FreedFits, HoldsGate, Openers
<1>21. ASSUME OtherCall PROVE TypeFits'
  BY <1>21 DEF OtherCall, Goto, GateFits, FreedFits, HoldsGate, Openers
<1>22. ASSUME Create PROVE TypeFits'
  BY <1>22 DEF Create, GateFits, FreedFits, HoldsGate, Openers
<1>23. QED BY <1>1, <1>2, <1>3, <1>4, <1>5, <1>6, <1>7, <1>8, <1>9, <1>10,
         <1>11, <1>12, <1>13, <1>14, <1>15, <1>16, <1>17, <1>18, <1>19,
         <1>20, <1>21, <1>22 DEF Next, Leave, DestroyStep, BridgeStep

\* Who enters counts itself in, who retracts counts itself out, and a signal
\* moves the count.
LEMMA CountKeeps ==
  ASSUME CondInv, Next
  PROVE  CountFits'
<1> USE CondAssumption
  DEF condVars, lockVars, CondInv, TypeFits, TypeOK, WaiterLabels, DestroyLabels
<1>a. ASSUME Inside' = Inside, blocked' - gone' + toUnblock' = blocked - gone + toUnblock
      PROVE  CountFits'
  BY <1>a DEF CountFits
<1>1. ASSUME NEW w \in Waiters, Enter(w) PROVE CountFits'
  <2>1. Inside' = Inside \cup {w} /\ w \notin Inside
    BY <1>1 DEF Enter, Goto, Inside
  <2>2. Cardinality(Inside') = Cardinality(Inside) + 1
    BY <2>1, InsideFinite, FS_AddElement
  <2>3. QED BY <1>1, <2>2 DEF Enter, Goto, CountFits
<1>2. ASSUME NEW w \in Waiters, Wake(w) PROVE CountFits'
  <2>1. Inside' = Inside
    BY <1>2 DEF Wake, Goto, Inside
  <2>2. blocked' - gone' + toUnblock' = blocked - gone + toUnblock
    BY <1>2 DEF Wake, Goto
  <2>3. QED BY <2>1, <2>2, <1>a
<1>3. ASSUME NEW w \in Waiters, TimeOut(w) PROVE CountFits'
  <2>1. Inside' = Inside
    BY <1>3 DEF TimeOut, Goto, Inside
  <2>2. blocked' - gone' + toUnblock' = blocked - gone + toUnblock
    BY <1>3 DEF TimeOut, Goto
  <2>3. QED BY <2>1, <2>2, <1>a
<1>4. ASSUME NEW w \in Waiters, BeginRetract(w) PROVE CountFits'
  <2>1. Inside' = Inside
    BY <1>4 DEF BeginRetract, Goto, Inside
  <2>2. blocked' - gone' + toUnblock' = blocked - gone + toUnblock
    BY <1>4 DEF BeginRetract, Goto
  <2>3. QED BY <2>1, <2>2, <1>a
<1>5. ASSUME NEW w \in Waiters, RetractUnsignalled(w) PROVE CountFits'
  <2>1. Inside' = Inside \ {w} /\ w \in Inside
    BY <1>5 DEF RetractUnsignalled, Goto, Inside
  <2>2. Cardinality(Inside') = Cardinality(Inside) - 1
    BY <2>1, InsideFinite, FS_RemoveElement
  <2>3. QED BY <1>5, <2>2 DEF RetractUnsignalled, Goto, CountFits
<1>6. ASSUME NEW w \in Waiters, RetractSignalled(w) PROVE CountFits'
  <2>1. Inside' = Inside \ {w} /\ w \in Inside
    BY <1>6 DEF RetractSignalled, Goto, Inside
  <2>2. Cardinality(Inside') = Cardinality(Inside) - 1
    BY <2>1, InsideFinite, FS_RemoveElement
  <2>3. QED BY <1>6, <2>2 DEF RetractSignalled, Goto, CountFits
<1>7. ASSUME NEW w \in Waiters, OpenGate(w) PROVE CountFits'
  <2>1. Inside' = Inside
    BY <1>7 DEF OpenGate, Goto, Inside
  <2>2. blocked' - gone' + toUnblock' = blocked - gone + toUnblock
    BY <1>7 DEF OpenGate, Goto
  <2>3. QED BY <2>1, <2>2, <1>a
<1>8. ASSUME NEW n \in 1 .. Cardinality(Waiters), SignalFirst(n) PROVE CountFits'
  <2>1. Inside' = Inside
    BY <1>8 DEF SignalFirst, Inside
  <2>2. blocked' - gone' + toUnblock' = blocked - gone + toUnblock
    BY <1>8 DEF SignalFirst
  <2>3. QED BY <2>1, <2>2, <1>a
<1>9. ASSUME NEW n \in 1 .. Cardinality(Waiters), SignalMore(n) PROVE CountFits'
  <2>1. Inside' = Inside
    BY <1>9 DEF SignalMore, Inside
  <2>2. blocked' - gone' + toUnblock' = blocked - gone + toUnblock
    BY <1>9 DEF SignalMore
  <2>3. QED BY <2>1, <2>2, <1>a
<1>10. ASSUME DestroyCall PROVE CountFits'
  <2>1. Inside' = Inside
    BY <1>10 DEF DestroyCall, Goto, Inside
  <2>2. blocked' - gone' + toUnblock' = blocked - gone + toUnblock
    BY <1>10 DEF DestroyCall, Goto
  <2>3. QED BY <2>1, <2>2, <1>a
<1>11. ASSUME NEW t \in {Destroyer, Other}, LockBridge(t) PROVE CountFits'
  <2>1. Inside' = Inside
    BY <1>11 DEF LockBridge, Goto, Inside
  <2>2. blocked' - gone' + toUnblock' = blocked - gone + toUnblock
    BY <1>11 DEF LockBridge, Goto
  <2>3. QED BY <2>1, <2>2, <1>a
<1>12. ASSUME NEW t \in {Destroyer, Other}, LockList(t) PROVE CountFits'
  <2>1. Inside' = Inside
    BY <1>12 DEF LockList, Goto, Inside
  <2>2. blocked' - gone' + toUnblock' = blocked - gone + toUnblock
    BY <1>12 DEF LockList, Goto
  <2>3. QED BY <2>1, <2>2, <1>a
<1>13. ASSUME CloseGate PROVE CountFits'
  <2>1. Inside' = Inside
    BY <1>13 DEF CloseGate, Goto, Inside
  <2>2. blocked' - gone' + toUnblock' = blocked - gone + toUnblock
    BY <1>13 DEF CloseGate, Goto
  <2>3. QED BY <2>1, <2>2, <1>a
<1>14. ASSUME GateInterrupted PROVE CountFits'
  <2>1. Inside' = Inside
    BY <1>14 DEF GateInterrupted, Goto, Inside
  <2>2. blocked' - gone' + toUnblock' = blocked - gone + toUnblock
    BY <1>14 DEF GateInterrupted, Goto
  <2>3. QED BY <2>1, <2>2, <1>a
<1>15. ASSUME TryLock PROVE CountFits'
  <2>1. Inside' = Inside
    BY <1>15 DEF TryLock, Goto, Inside
  <2>2. blocked' - gone' + toUnblock' = blocked - gone + toUnblock
    BY <1>15 DEF TryLock, Goto
  <2>3. QED BY <2>1, <2>2, <1>a
<1>16. ASSUME TryLockBusy PROVE CountFits'
  <2>1. Inside' = Inside
    BY <1>16 DEF TryLockBusy, Goto, Inside
  <2>2. blocked' - gone' + toUnblock' = blocked - gone + toUnblock
    BY <1>16 DEF TryLockBusy, Goto
  <2>3. QED BY <2>1, <2>2, <1>a
<1>17. ASSUME StillWaited PROVE CountFits'
  <2>1. Inside' = Inside
    BY <1>17 DEF StillWaited, Goto, Inside
  <2>2. blocked' - gone' + toUnblock' = blocked - gone + toUnblock
    BY <1>17 DEF StillWaited, Goto
  <2>3. QED BY <2>1, <2>2, <1>a
<1>18. ASSUME Free PROVE CountFits'
  <2>1. Inside' = Inside
    BY <1>18 DEF Free, Goto, Inside
  <2>2. blocked' - gone' + toUnblock' = blocked - gone + toUnblock
    BY <1>18 DEF Free, Goto
  <2>3. QED BY <2>1, <2>2, <1>a
<1>19. ASSUME NEW t \in {Destroyer, Other}, UnlockList(t) PROVE CountFits'
  <2>1. Inside' = Inside
    BY <1>19 DEF UnlockList, Goto, Inside
  <2>2. blocked' - gone' + toUnblock' = blocked - gone + toUnblock
    BY <1>19 DEF UnlockList, Goto
  <2>3. QED BY <2>1, <2>2, <1>a
<1>20. ASSUME NEW t \in {Destroyer, Other}, UnlockBridge(t) PROVE CountFits'
  <2>1. Inside' = Inside
    BY <1>20 DEF UnlockBridge, Goto, Inside
  <2>2. blocked' - gone' + toUnblock' = blocked - gone + toUnblock
    BY <1>20 DEF UnlockBridge, Goto
  <2>3. QED BY <2>1, <2>2, <1>a
<1>21. ASSUME OtherCall PROVE CountFits'
  <2>1. Inside' = Inside
    BY <1>21 DEF OtherCall, Goto, Inside
  <2>2. blocked' - gone' + toUnblock' = blocked - gone + toUnblock
    BY <1>21 DEF OtherCall, Goto
  <2>3. QED BY <2>1, <2>2, <1>a
<1>22. ASSUME Create PROVE CountFits'
  <2>1. Inside' = Inside /\ Inside = {}
    BY <1>22 DEF Create, Inside, FreedFits
  <2>2. QED BY <1>22, <2>1, <1>a DEF Create, FreedFits
<1>23. QED BY <1>1, <1>2, <1>3, <1>4, <1>5, <1>6, <1>7, <1>8, <1>9, <1>10,
         <1>11, <1>12, <1>13, <1>14, <1>15, <1>16, <1>17, <1>18, <1>19,
         <1>20, <1>21, <1>22 DEF Next, Leave, DestroyStep, BridgeStep

\* The gate changes hands.
LEMMA GateKeeps ==
  ASSUME CondInv, Next
  PROVE  GateFits'
<1> USE CondAssumption
  DEF condVars, lockVars, CondInv, TypeFits, TypeOK, WaiterLabels, DestroyLabels
<1>1. ASSUME NEW w \in Waiters, Enter(w) PROVE GateFits'
  BY <1>1 DEF Enter, Goto, GateFits, FreedFits, HoldsGate, Openers
<1>2. ASSUME NEW w \in Waiters, Wake(w) PROVE GateFits'
  BY <1>2 DEF Wake, Goto, GateFits, FreedFits, HoldsGate, Openers
<1>3. ASSUME NEW w \in Waiters, TimeOut(w) PROVE GateFits'
  BY <1>3 DEF TimeOut, Goto, GateFits, FreedFits, HoldsGate, Openers
<1>4. ASSUME NEW w \in Waiters, BeginRetract(w) PROVE GateFits'
  BY <1>4 DEF BeginRetract, Goto, GateFits, FreedFits, HoldsGate, Openers
<1>5. ASSUME NEW w \in Waiters, RetractUnsignalled(w) PROVE GateFits'
  BY <1>5 DEF RetractUnsignalled, Goto, GateFits, FreedFits, HoldsGate, Openers
<1>6. ASSUME NEW w \in Waiters, RetractSignalled(w) PROVE GateFits'
  BY <1>6 DEF RetractSignalled, Goto, GateFits, FreedFits, HoldsGate, Openers
<1>7. ASSUME NEW w \in Waiters, OpenGate(w) PROVE GateFits'
  BY <1>7 DEF OpenGate, Goto, GateFits, FreedFits, HoldsGate, Openers
<1>8. ASSUME NEW n \in 1 .. Cardinality(Waiters), SignalFirst(n) PROVE GateFits'
  BY <1>8 DEF SignalFirst, GateFits, FreedFits, HoldsGate, Openers
<1>9. ASSUME NEW n \in 1 .. Cardinality(Waiters), SignalMore(n) PROVE GateFits'
  BY <1>9 DEF SignalMore, GateFits, FreedFits, HoldsGate, Openers
<1>10. ASSUME DestroyCall PROVE GateFits'
  BY <1>10 DEF DestroyCall, Goto, GateFits, FreedFits, HoldsGate, Openers
<1>11. ASSUME NEW t \in {Destroyer, Other}, LockBridge(t) PROVE GateFits'
  BY <1>11 DEF LockBridge, Goto, GateFits, FreedFits, HoldsGate, Openers
<1>12. ASSUME NEW t \in {Destroyer, Other}, LockList(t) PROVE GateFits'
  BY <1>12 DEF LockList, Goto, GateFits, FreedFits, HoldsGate, Openers
<1>13. ASSUME CloseGate PROVE GateFits'
  BY <1>13 DEF CloseGate, Goto, GateFits, FreedFits, HoldsGate, Openers
<1>14. ASSUME GateInterrupted PROVE GateFits'
  BY <1>14 DEF GateInterrupted, Goto, GateFits, FreedFits, HoldsGate, Openers
<1>15. ASSUME TryLock PROVE GateFits'
  BY <1>15 DEF TryLock, Goto, GateFits, FreedFits, HoldsGate, Openers
<1>16. ASSUME TryLockBusy PROVE GateFits'
  BY <1>16 DEF TryLockBusy, Goto, GateFits, FreedFits, HoldsGate, Openers
<1>17. ASSUME StillWaited PROVE GateFits'
  BY <1>17 DEF StillWaited, Goto, GateFits, FreedFits, HoldsGate, Openers
<1>18. ASSUME Free PROVE GateFits'
  BY <1>18 DEF Free, Goto, GateFits, FreedFits, HoldsGate, Openers
<1>19. ASSUME NEW t \in {Destroyer, Other}, UnlockList(t) PROVE GateFits'
  BY <1>19 DEF UnlockList, Goto, GateFits, FreedFits, HoldsGate, Openers
<1>20. ASSUME NEW t \in {Destroyer, Other}, UnlockBridge(t) PROVE GateFits'
  BY <1>20 DEF UnlockBridge, Goto, GateFits, FreedFits, HoldsGate, Openers
<1>21. ASSUME OtherCall PROVE GateFits'
  BY <1>21 DEF OtherCall, Goto, GateFits, FreedFits, HoldsGate, Openers
<1>22. ASSUME Create PROVE GateFits'
  BY <1>22 DEF Create, GateFits, FreedFits, HoldsGate, Openers
<1>23. QED BY <1>1, <1>2, <1>3, <1>4, <1>5, <1>6, <1>7, <1>8, <1>9, <1>10,
         <1>11, <1>12, <1>13, <1>14, <1>15, <1>16, <1>17, <1>18, <1>19,
         <1>20, <1>21, <1>22 DEF Next, Leave, DestroyStep, BridgeStep

\* The destroyer frees what the counters and the gate show to be empty.
LEMMA FreedKeeps ==
  ASSUME CondInv, Next
  PROVE  FreedFits'
<1> USE CondAssumption
  DEF condVars, lockVars, CondInv, TypeFits, TypeOK, WaiterLabels, DestroyLabels
<1>1. ASSUME NEW w \in Waiters, Enter(w) PROVE FreedFits'
  BY <1>1 DEF Enter, Goto, FreedFits, Inside, Openers
<1>2. ASSUME NEW w \in Waiters, Wake(w) PROVE FreedFits'
  BY <1>2 DEF Wake, Goto, FreedFits, Inside, Openers
<1>3. ASSUME NEW w \in Waiters, TimeOut(w) PROVE FreedFits'
  BY <1>3 DEF TimeOut, Goto, FreedFits, Inside, Openers
<1>4. ASSUME NEW w \in Waiters, BeginRetract(w) PROVE FreedFits'
  BY <1>4 DEF BeginRetract, Goto, FreedFits, Inside, Openers
<1>5. ASSUME NEW w \in Waiters, RetractUnsignalled(w) PROVE FreedFits'
  BY <1>5 DEF RetractUnsignalled, Goto, FreedFits, Inside, Openers
<1>6. ASSUME NEW w \in Waiters, RetractSignalled(w) PROVE FreedFits'
  BY <1>6 DEF RetractSignalled, Goto, FreedFits, Inside, Openers
<1>7. ASSUME NEW w \in Waiters, OpenGate(w) PROVE FreedFits'
  BY <1>7 DEF OpenGate, Goto, FreedFits, Inside, Openers
<1>8. ASSUME NEW n \in 1 .. Cardinality(Waiters), SignalFirst(n) PROVE FreedFits'
  BY <1>8 DEF SignalFirst, FreedFits, Inside, Openers
<1>9. ASSUME NEW n \in 1 .. Cardinality(Waiters), SignalMore(n) PROVE FreedFits'
  BY <1>9 DEF SignalMore, FreedFits, Inside, Openers
<1>10. ASSUME DestroyCall PROVE FreedFits'
  BY <1>10 DEF DestroyCall, Goto, FreedFits, Inside, Openers
<1>11. ASSUME NEW t \in {Destroyer, Other}, LockBridge(t) PROVE FreedFits'
  BY <1>11 DEF LockBridge, Goto, FreedFits, Inside, Openers
<1>12. ASSUME NEW t \in {Destroyer, Other}, LockList(t) PROVE FreedFits'
  BY <1>12 DEF LockList, Goto, FreedFits, Inside, Openers
<1>13. ASSUME CloseGate PROVE FreedFits'
  BY <1>13 DEF CloseGate, Goto, FreedFits, Inside, Openers
<1>14. ASSUME GateInterrupted PROVE FreedFits'
  BY <1>14 DEF GateInterrupted, Goto, FreedFits, Inside, Openers
<1>15. ASSUME TryLock PROVE FreedFits'
  BY <1>15 DEF TryLock, Goto, FreedFits, Inside, Openers
<1>16. ASSUME TryLockBusy PROVE FreedFits'
  BY <1>16 DEF TryLockBusy, Goto, FreedFits, Inside, Openers
<1>17. ASSUME StillWaited PROVE FreedFits'
  BY <1>17 DEF StillWaited, Goto, FreedFits, Inside, Openers
<1>18. ASSUME Free PROVE FreedFits'
  <2>1. toUnblock = 0 /\ Openers = {} /\ gate = 0
    BY <1>18 DEF Free, Goto, GateFits, HoldsGate
  <2>2. blocked = gone /\ Inside = {}
    BY <1>18, <2>1, InsideIsNatural, NobodyInside DEF Free, Goto
  <2>3. Inside' = Inside /\ Openers' = Openers
    BY <1>18 DEF Free, Goto, Inside, Openers
  <2>4. QED BY <1>18, <2>1, <2>2, <2>3 DEF Free, Goto, FreedFits
<1>19. ASSUME NEW t \in {Destroyer, Other}, UnlockList(t) PROVE FreedFits'
  BY <1>19 DEF UnlockList, Goto, FreedFits, Inside, Openers
<1>20. ASSUME NEW t \in {Destroyer, Other}, UnlockBridge(t) PROVE FreedFits'
  BY <1>20 DEF UnlockBridge, Goto, FreedFits, Inside, Openers
<1>21. ASSUME OtherCall PROVE FreedFits'
  BY <1>21 DEF OtherCall, Goto, FreedFits, Inside, Openers
<1>22. ASSUME Create PROVE FreedFits'
  BY <1>22 DEF Create, FreedFits, Inside, Openers
<1>23. QED BY <1>1, <1>2, <1>3, <1>4, <1>5, <1>6, <1>7, <1>8, <1>9, <1>10,
         <1>11, <1>12, <1>13, <1>14, <1>15, <1>16, <1>17, <1>18, <1>19,
         <1>20, <1>21, <1>22 DEF Next, Leave, DestroyStep, BridgeStep

\* mtxUnblockLock has the holder that is at its section.
LEMMA MutexKeeps ==
  ASSUME CondInv, Next
  PROVE  MutexFits'
<1> USE CondAssumption
  DEF condVars, lockVars, CondInv, TypeFits, TypeOK, WaiterLabels, DestroyLabels
<1>1. ASSUME NEW w \in Waiters, Enter(w) PROVE MutexFits'
  BY <1>1 DEF Enter, Goto, MutexFits, FreedFits, Inside
<1>2. ASSUME NEW w \in Waiters, Wake(w) PROVE MutexFits'
  BY <1>2 DEF Wake, Goto, MutexFits, FreedFits, Inside
<1>3. ASSUME NEW w \in Waiters, TimeOut(w) PROVE MutexFits'
  BY <1>3 DEF TimeOut, Goto, MutexFits, FreedFits, Inside
<1>4. ASSUME NEW w \in Waiters, BeginRetract(w) PROVE MutexFits'
  BY <1>4 DEF BeginRetract, Goto, MutexFits, FreedFits, Inside
<1>5. ASSUME NEW w \in Waiters, RetractUnsignalled(w) PROVE MutexFits'
  BY <1>5 DEF RetractUnsignalled, Goto, MutexFits, FreedFits, Inside
<1>6. ASSUME NEW w \in Waiters, RetractSignalled(w) PROVE MutexFits'
  BY <1>6 DEF RetractSignalled, Goto, MutexFits, FreedFits, Inside
<1>7. ASSUME NEW w \in Waiters, OpenGate(w) PROVE MutexFits'
  BY <1>7 DEF OpenGate, Goto, MutexFits, FreedFits, Inside
<1>8. ASSUME NEW n \in 1 .. Cardinality(Waiters), SignalFirst(n) PROVE MutexFits'
  BY <1>8 DEF SignalFirst, MutexFits, FreedFits, Inside
<1>9. ASSUME NEW n \in 1 .. Cardinality(Waiters), SignalMore(n) PROVE MutexFits'
  BY <1>9 DEF SignalMore, MutexFits, FreedFits, Inside
<1>10. ASSUME DestroyCall PROVE MutexFits'
  BY <1>10 DEF DestroyCall, Goto, MutexFits, FreedFits, Inside
<1>11. ASSUME NEW t \in {Destroyer, Other}, LockBridge(t) PROVE MutexFits'
  BY <1>11 DEF LockBridge, Goto, MutexFits, FreedFits, Inside
<1>12. ASSUME NEW t \in {Destroyer, Other}, LockList(t) PROVE MutexFits'
  BY <1>12 DEF LockList, Goto, MutexFits, FreedFits, Inside
<1>13. ASSUME CloseGate PROVE MutexFits'
  BY <1>13 DEF CloseGate, Goto, MutexFits, FreedFits, Inside
<1>14. ASSUME GateInterrupted PROVE MutexFits'
  BY <1>14 DEF GateInterrupted, Goto, MutexFits, FreedFits, Inside
<1>15. ASSUME TryLock PROVE MutexFits'
  BY <1>15 DEF TryLock, Goto, MutexFits, FreedFits, Inside
<1>16. ASSUME TryLockBusy PROVE MutexFits'
  BY <1>16 DEF TryLockBusy, Goto, MutexFits, FreedFits, Inside
<1>17. ASSUME StillWaited PROVE MutexFits'
  BY <1>17 DEF StillWaited, Goto, MutexFits, FreedFits, Inside
<1>18. ASSUME Free PROVE MutexFits'
  BY <1>18 DEF Free, Goto, MutexFits, FreedFits, Inside
<1>19. ASSUME NEW t \in {Destroyer, Other}, UnlockList(t) PROVE MutexFits'
  BY <1>19 DEF UnlockList, Goto, MutexFits, FreedFits, Inside
<1>20. ASSUME NEW t \in {Destroyer, Other}, UnlockBridge(t) PROVE MutexFits'
  BY <1>20 DEF UnlockBridge, Goto, MutexFits, FreedFits, Inside
<1>21. ASSUME OtherCall PROVE MutexFits'
  BY <1>21 DEF OtherCall, Goto, MutexFits, FreedFits, Inside
<1>22. ASSUME Create PROVE MutexFits'
  BY <1>22 DEF Create, MutexFits, FreedFits, Inside
<1>23. QED BY <1>1, <1>2, <1>3, <1>4, <1>5, <1>6, <1>7, <1>8, <1>9, <1>10,
         <1>11, <1>12, <1>13, <1>14, <1>15, <1>16, <1>17, <1>18, <1>19,
         <1>20, <1>21, <1>22 DEF Next, Leave, DestroyStep, BridgeStep

\* Nobody enters and nobody is signalled while it destroys.
LEMMA AwakeKeeps ==
  ASSUME CondInv, Next
  PROVE  AwakeFits'
<1> USE CondAssumption
  DEF condVars, lockVars, CondInv, TypeFits, TypeOK, WaiterLabels, DestroyLabels
<1>1. ASSUME NEW w \in Waiters, Enter(w) PROVE AwakeFits'
  BY <1>1 DEF Enter, Goto, AwakeFits, Destroying
<1>2. ASSUME NEW w \in Waiters, Wake(w) PROVE AwakeFits'
  BY <1>2 DEF Wake, Goto, AwakeFits, Destroying
<1>3. ASSUME NEW w \in Waiters, TimeOut(w) PROVE AwakeFits'
  BY <1>3 DEF TimeOut, Goto, AwakeFits, Destroying
<1>4. ASSUME NEW w \in Waiters, BeginRetract(w) PROVE AwakeFits'
  BY <1>4 DEF BeginRetract, Goto, AwakeFits, Destroying
<1>5. ASSUME NEW w \in Waiters, RetractUnsignalled(w) PROVE AwakeFits'
  <2>1. w \in Inside
    BY <1>5 DEF RetractUnsignalled, Goto, Inside
  <2>2. blocked # gone
    BY <1>5, <2>1, InsideIsPositive DEF RetractUnsignalled, Goto
  <2>3. QED BY <1>5, <2>2 DEF RetractUnsignalled, Goto, AwakeFits, Destroying
<1>6. ASSUME NEW w \in Waiters, RetractSignalled(w) PROVE AwakeFits'
  BY <1>6 DEF RetractSignalled, Goto, AwakeFits, Destroying
<1>7. ASSUME NEW w \in Waiters, OpenGate(w) PROVE AwakeFits'
  BY <1>7 DEF OpenGate, Goto, AwakeFits, Destroying
<1>8. ASSUME NEW n \in 1 .. Cardinality(Waiters), SignalFirst(n) PROVE AwakeFits'
  BY <1>8 DEF SignalFirst, AwakeFits, Destroying
<1>9. ASSUME NEW n \in 1 .. Cardinality(Waiters), SignalMore(n) PROVE AwakeFits'
  BY <1>9 DEF SignalMore, AwakeFits, Destroying
<1>10. ASSUME DestroyCall PROVE AwakeFits'
  BY <1>10 DEF DestroyCall, Goto, AwakeFits, Destroying
<1>11. ASSUME NEW t \in {Destroyer, Other}, LockBridge(t) PROVE AwakeFits'
  BY <1>11 DEF LockBridge, Goto, AwakeFits, Destroying
<1>12. ASSUME NEW t \in {Destroyer, Other}, LockList(t) PROVE AwakeFits'
  BY <1>12 DEF LockList, Goto, AwakeFits, Destroying
<1>13. ASSUME CloseGate PROVE AwakeFits'
  BY <1>13 DEF CloseGate, Goto, AwakeFits, Destroying
<1>14. ASSUME GateInterrupted PROVE AwakeFits'
  BY <1>14 DEF GateInterrupted, Goto, AwakeFits, Destroying
<1>15. ASSUME TryLock PROVE AwakeFits'
  BY <1>15 DEF TryLock, Goto, AwakeFits, Destroying
<1>16. ASSUME TryLockBusy PROVE AwakeFits'
  <2>1. toUnblock = 0
    BY <1>16 DEF TryLockBusy, Goto, GateFits, HoldsGate
  <2>2. PICK w \in Waiters : mtx = w
    BY <1>16 DEF TryLockBusy, Goto, MutexFits
  <2>3. w \in Inside
    BY <2>2 DEF MutexFits, Inside
  <2>4. blocked # gone
    BY <2>1, <2>3, InsideIsPositive
  <2>5. QED BY <1>16, <2>4 DEF TryLockBusy, Goto, AwakeFits, Destroying
<1>17. ASSUME StillWaited PROVE AwakeFits'
  BY <1>17 DEF StillWaited, Goto, AwakeFits, Destroying
<1>18. ASSUME Free PROVE AwakeFits'
  BY <1>18 DEF Free, Goto, AwakeFits, Destroying
<1>19. ASSUME NEW t \in {Destroyer, Other}, UnlockList(t) PROVE AwakeFits'
  BY <1>19 DEF UnlockList, Goto, AwakeFits, Destroying
<1>20. ASSUME NEW t \in {Destroyer, Other}, UnlockBridge(t) PROVE AwakeFits'
  BY <1>20 DEF UnlockBridge, Goto, AwakeFits, Destroying
<1>21. ASSUME OtherCall PROVE AwakeFits'
  BY <1>21 DEF OtherCall, Goto, AwakeFits, Destroying
<1>22. ASSUME Create PROVE AwakeFits'
  BY <1>22 DEF Create, AwakeFits, Destroying
<1>23. QED BY <1>1, <1>2, <1>3, <1>4, <1>5, <1>6, <1>7, <1>8, <1>9, <1>10,
         <1>11, <1>12, <1>13, <1>14, <1>15, <1>16, <1>17, <1>18, <1>19,
         <1>20, <1>21, <1>22 DEF Next, Leave, DestroyStep, BridgeStep

LEMMA CondStutters ==
  ASSUME CondInv, UNCHANGED vars
  PROVE  CondInv'
<1> USE DEF vars, condVars, lockVars, CondInv
<1>1. Inside' = Inside /\ Openers' = Openers /\ (HoldsGate' <=> HoldsGate)
  BY DEF Inside, Openers, HoldsGate
<1>2. TypeFits' BY DEF TypeFits, TypeOK
<1>3. CountFits' BY <1>1 DEF CountFits
<1>4. GateFits' BY <1>1 DEF GateFits
<1>5. FreedFits' /\ MutexFits' BY <1>1 DEF FreedFits, MutexFits
<1>6. AwakeFits' BY DEF AwakeFits, Destroying
<1>7. QED BY <1>2, <1>3, <1>4, <1>5, <1>6

LEMMA CondStarts == Init => CondInv
<1> SUFFICES ASSUME Init PROVE CondInv
  OBVIOUS
<1> USE CondAssumption DEF Init
<1>1. TypeFits
  BY DEF TypeFits, TypeOK, WaiterLabels, DestroyLabels
<1>2. Inside = {} /\ Openers = {}
  BY DEF Inside, Openers
<1>3. CountFits
  BY <1>2, FS_EmptySet DEF CountFits
<1>4. GateFits /\ FreedFits /\ MutexFits /\ AwakeFits
  BY <1>2 DEF GateFits, FreedFits, MutexFits, AwakeFits, HoldsGate, Destroying
<1>5. QED BY <1>1, <1>3, <1>4 DEF CondInv

-----------------------------------------------------------------------------
\* Renderers whose token has not become a request yet.
AtRequest == {r \in Renderers : at[r] = "request"}
Releasing == \E r \in Renderers : at[r] = "release"
Busy == IF collector = "idle" THEN 0 ELSE 1

\* Every token is back, in a renderer's hand, in a queued request or with the
\* worker, or one fence has them all.
TokensFit ==
  /\ Gc!TypeOK
  /\ \A q, r \in Renderers : at[q] = "release" /\ at[r] = "release" => q = r
  /\ Cardinality(AtRequest) + tokens + requests + Busy = IF Releasing THEN 0 ELSE maxCount

LEMMA AtRequestFinite ==
  /\ IsFiniteSet(AtRequest) /\ IsFiniteSet(AtRequest')
  /\ Cardinality(AtRequest) \in Nat /\ Cardinality(AtRequest') \in Nat
<1>1. AtRequest \subseteq Renderers /\ AtRequest' \subseteq Renderers
  BY DEF AtRequest
<1>2. QED BY <1>1, GcAssumption, FS_Subset, FS_CardinalityType

\* A fence closes when all tokens are back, and nothing moves behind it.
LEMMA TokensKeep ==
  ASSUME TokensFit, Gc!Next
  PROVE  TokensFit'
<1> USE GcAssumption DEF TokensFit, Gc!TypeOK
<1>1. ASSUME NEW r \in Renderers, Gc!Collect(r) PROVE TokensFit'
  <2>1. AtRequest' = AtRequest /\ (Releasing' <=> Releasing)
    BY <1>1 DEF Gc!Collect, Gc!Go, Gc!semaphores, AtRequest, Releasing
  <2>2. QED BY <1>1, <2>1, AtRequestFinite DEF Gc!Collect, Gc!Go, Gc!semaphores, Busy
<1>2. ASSUME NEW r \in Renderers, Gc!TakeToken(r) PROVE TokensFit'
  <2>1. AtRequest' = AtRequest \cup {r} /\ r \notin AtRequest /\ (Releasing' <=> Releasing)
    BY <1>2 DEF Gc!TakeToken, Gc!Go, Gc!semaphores, AtRequest, Releasing
  <2>2. Cardinality(AtRequest') = Cardinality(AtRequest) + 1
    BY <2>1, AtRequestFinite, FS_AddElement
  <2>3. QED BY <1>2, <2>1, <2>2, AtRequestFinite
    DEF Gc!TakeToken, Gc!Go, Gc!semaphores, Busy
<1>3. ASSUME NEW r \in Renderers, Gc!Request(r) PROVE TokensFit'
  <2>1. AtRequest' = AtRequest \ {r} /\ r \in AtRequest /\ (Releasing' <=> Releasing)
    BY <1>3 DEF Gc!Request, Gc!Go, Gc!semaphores, AtRequest, Releasing
  <2>2. Cardinality(AtRequest') = Cardinality(AtRequest) - 1
    BY <2>1, AtRequestFinite, FS_RemoveElement
  <2>3. QED BY <1>3, <2>1, <2>2, AtRequestFinite DEF Gc!Request, Gc!Go, Gc!semaphores, Busy
<1>4. ASSUME NEW r \in Renderers, Gc!Fence(r) PROVE TokensFit'
  <2>1. AtRequest' = AtRequest /\ Releasing'
    BY <1>4 DEF Gc!Fence, Gc!Go, Gc!semaphores, AtRequest, Releasing
  <2>2. ~Releasing
    BY <1>4, AtRequestFinite DEF Gc!Fence, Gc!Go, Gc!semaphores, Busy
  <2>3. QED BY <1>4, <2>1, <2>2, AtRequestFinite
    DEF Gc!Fence, Gc!Go, Gc!semaphores, Busy, Releasing
<1>5. ASSUME NEW r \in Renderers, Gc!Release(r) PROVE TokensFit'
  <2>1. AtRequest' = AtRequest /\ Releasing /\ ~Releasing'
    BY <1>5 DEF Gc!Release, Gc!Go, Gc!semaphores, AtRequest, Releasing
  <2>2. QED BY <1>5, <2>1, AtRequestFinite DEF Gc!Release, Gc!Go, Gc!semaphores, Busy
<1>6. ASSUME Gc!gc_failure PROVE TokensFit'
  <2>1. AtRequest' = AtRequest /\ (Releasing' <=> Releasing)
    BY <1>6 DEF Gc!gc_failure, Gc!Go, Gc!semaphores, AtRequest, Releasing
  <2>2. QED BY <1>6, <2>1, AtRequestFinite DEF Gc!gc_failure, Gc!Go, Gc!semaphores, Busy
<1>7. ASSUME Gc!Exited PROVE TokensFit'
  BY <1>7 DEF Gc!Exited, Gc!vars, Gc!semaphores, AtRequest, Releasing, Busy
<1>8. ASSUME Gc!Purge PROVE TokensFit'
  <2>1. AtRequest' = AtRequest /\ (Releasing' <=> Releasing)
    BY <1>8 DEF Gc!Purge, Gc!Go, Gc!semaphores, AtRequest, Releasing
  <2>2. QED BY <1>8, <2>1, AtRequestFinite DEF Gc!Purge, Gc!Go, Gc!semaphores, Busy
<1>9. ASSUME Gc!ResetCursors PROVE TokensFit'
  <2>1. AtRequest' = AtRequest /\ (Releasing' <=> Releasing)
    BY <1>9 DEF Gc!ResetCursors, Gc!Go, Gc!semaphores, AtRequest, Releasing
  <2>2. QED BY <1>9, <2>1, AtRequestFinite DEF Gc!ResetCursors, Gc!Go, Gc!semaphores, Busy
<1>10. ASSUME Gc!GiveToken PROVE TokensFit'
  <2>1. AtRequest' = AtRequest /\ (Releasing' <=> Releasing)
    BY <1>10 DEF Gc!GiveToken, Gc!Go, Gc!semaphores, AtRequest, Releasing
  <2>2. QED BY <1>10, <2>1, AtRequestFinite DEF Gc!GiveToken, Gc!Go, Gc!semaphores, Busy
<1>11. QED BY <1>1, <1>2, <1>3, <1>4, <1>5, <1>6, <1>7, <1>8, <1>9, <1>10
  DEF Gc!Next, Gc!Proceed

LEMMA TokensStutter ==
  ASSUME TokensFit, UNCHANGED gcVars
  PROVE  TokensFit'
BY DEF gcVars, TokensFit, Gc!TypeOK, AtRequest, Releasing, Busy

LEMMA TokensStart == Gc!Init => TokensFit
<1> SUFFICES ASSUME Gc!Init PROVE TokensFit
  OBVIOUS
<1>1. AtRequest = {} /\ ~Releasing
  BY DEF Gc!Init, AtRequest, Releasing
<1>2. Cardinality(AtRequest) = 0
  BY <1>1, FS_EmptySet
<1>3. Gc!TypeOK
  <2>1. tokens \in 0 .. maxCount /\ requests \in Nat
    BY GcAssumption DEF Gc!Init
  <2>2. at \in [Renderers -> {"drawing", "take", "request", "fence", "release"}]
    BY DEF Gc!Init
  <2>3. QED BY <2>1, <2>2 DEF Gc!Init, Gc!TypeOK
<1>4. QED BY <1>1, <1>2, <1>3, GcAssumption DEF Gc!Init, TokensFit, Busy

-----------------------------------------------------------------------------
THEOREM Invariant == AllSpec => [](CondInv /\ TokensFit)
<1> DEFINE Step == CallCondition \/ CallCollector
<1>1. AllInit => CondInv /\ TokensFit
  BY CondStarts, TokensStart DEF AllInit
<1>2. CondInv /\ TokensFit /\ [Step]_allVars => (CondInv /\ TokensFit)'
  <2> SUFFICES ASSUME CondInv, TokensFit, [Step]_allVars PROVE CondInv' /\ TokensFit'
    OBVIOUS
  <2>1. CASE CallCondition
    BY <2>1, TypeKeeps, CountKeeps, GateKeeps, FreedKeeps, MutexKeeps, AwakeKeeps,
        TokensStutter
    DEF CallCondition, CondInv
  <2>2. CASE CallCollector
    BY <2>2, CondStutters, TokensKeep DEF CallCollector
  <2>3. CASE UNCHANGED allVars
    BY <2>3, CondStutters, TokensStutter DEF allVars
  <2>4. QED BY <2>1, <2>2, <2>3
<1>3. QED BY <1>1, <1>2, PTL DEF AllSpec

\* pthread_cond_destroy frees a condition only when no waiter is anywhere in it:
\* the gate keeps it away from the last woken waiter and the counters show the
\* others, for any number of waiters and whatever signals came before.
THEOREM FreedUnused == AllSpec => []FreedIsUnused
<1>1. CondInv => FreedIsUnused
  <2> SUFFICES ASSUME CondInv, ~alive, NEW w \in Waiters PROVE pc[w] = "out"
    BY DEF FreedIsUnused, CondInv, TypeFits
  <2>1. w \notin Inside /\ w \notin Openers
    BY DEF CondInv, FreedFits
  <2>2. QED BY <2>1 DEF CondInv, TypeFits, TypeOK, WaiterLabels, Inside, Openers
<1>2. QED BY <1>1, Invariant, PTL

\* A destruction that begins when every waiter has been woken is never refused
\* as busy, however the woken ones leave while it runs.
THEOREM AwakenedGo == AllSpec => []AwakenedMayGo
<1>1. CondInv => AwakenedMayGo
  BY DEF CondInv, AwakeFits, AwakenedMayGo
<1>2. QED BY <1>1, Invariant, PTL

\* Behind the fence of __wrap_sceKernelSignalSema no collection is queued,
\* running or about to be, for any number of renderers and tokens.
THEOREM FenceComplete == AllSpec => []FenceIsComplete
<1>1. TokensFit => FenceIsComplete
  <2> SUFFICES ASSUME TokensFit, NEW r \in Renderers, at[r] = "release"
               PROVE  /\ requests = 0 /\ collector = "idle"
                      /\ \A q \in Renderers \ {r} : at[q] # "request" /\ at[q] # "release"
    BY DEF FenceIsComplete, Gc!FenceIsComplete, TokensFit
  <2>1. Releasing
    BY DEF Releasing
  <2>2. Cardinality(AtRequest) = 0 /\ requests = 0 /\ Busy = 0
    BY <2>1, AtRequestFinite, GcAssumption DEF TokensFit, Gc!TypeOK, Busy
  <2>3. AtRequest = {}
    BY <2>2, AtRequestFinite, FS_EmptySet
  <2>4. QED BY <2>2, <2>3 DEF TokensFit, Busy, AtRequest
<1>2. QED BY <1>1, Invariant, PTL

-----------------------------------------------------------------------------
(* 2. The references of the fake Java.                                      *)

-----------------------------------------------------------------------------
(* What the calls keep true of the references.                              *)

CallRecords == [at : Labels, arg : Objects \cup {Null}, index : 1 .. Length + 1,
                val : Objects \cup {Null}, entry : Entries \cup {Null}]
FrameRecords == [obj : Objects, kind : {"plain", "array"}, entry : Entries \cup {Null}]

RefTypes ==
  /\ heap \in [Objects -> {"free", "plain", "array"}]
  /\ elem \in [Objects -> [Indices -> Objects \cup {Null}]]
  /\ chain \subseteq Entries /\ freeEntries \subseteq Pool /\ malloced \subseteq HeapEntries
  /\ entryObj \in [Entries -> Objects \cup {Null}]
  /\ kind \in [Entries -> {"free", "plain", "array"}]
  /\ localRefs \in [Entries -> Nat] /\ globalRefs \in [Entries -> Nat]
  /\ heldLocal \in [Threads -> [Objects -> 0 .. MaxRefs]]
  /\ heldGlobal \in [Objects -> 0 .. MaxRefs]
  /\ call \in [Threads -> CallRecords]
  /\ frames \in [Threads -> Seq(FrameRecords)]

HasEntry(o) == \E e \in chain : entryObj[e] = o

\* An entry in the chain is of an allocated object, and the only one of it.
LinksFit ==
  /\ \A e \in chain : entryObj[e] \in Objects /\ heap[entryObj[e]] = kind[e] /\ kind[e] # "free"
  /\ \A e, f \in chain : entryObj[e] = entryObj[f] => e = f

\* The counts of an entry are the references there are, and not both 0; an object
\* without an entry has no reference.
CountsFit ==
  /\ \A e \in chain :
       /\ localRefs[e] = LocalReferences(entryObj[e])
       /\ globalRefs[e] = GlobalReferences(entryObj[e])
       /\ localRefs[e] + globalRefs[e] > 0
  /\ \A o \in Objects : ~HasEntry(o) => LocalReferences(o) = 0 /\ GlobalReferences(o) = 0

\* The thread that makes or destroys an object has it to itself.
Owns(t, o) == Making(t, o) \/ Freeing(t, o)
OwnersFit ==
  /\ \A o \in Objects : heap[o] = "free" => ~HasEntry(o)
  /\ \A o \in Objects : heap[o] # "free" => HasEntry(o) \/ \E t \in Threads : Owns(t, o)
  /\ \A t \in Threads : \A o \in Objects : Owns(t, o) => ~HasEntry(o) /\ heap[o] # "free"
  /\ \A t, u \in Threads : \A o \in Objects : Owns(t, o) /\ Owns(u, o) => t = u

FramesFit(t) ==
  /\ call[t].at = "free" <=> frames[t] # <<>>
  /\ \A n \in DOMAIN frames[t] : frames[t][n].kind = heap[frames[t][n].obj]
  /\ \A m, n \in DOMAIN frames[t] : frames[t][m].obj = frames[t][n].obj => m = n

ElementsFit == \A a \in Objects : \A i \in Indices : elem[a][i] # Null => heap[a] = "array"

\* What a call relies on, wherever it is interrupted.
FillFits(t) ==
  call[t].at = "fill" =>
    /\ heap[call[t].arg] = "array" /\ call[t].index \in Indices
    /\ call[t].val \in Objects /\ Holds(t, call[t].val)
    /\ \A j \in Indices : j >= call[t].index => elem[call[t].arg][j] = Null
MakeFits(t) == call[t].at \in {"fill", "find", "malloc", "link"} => call[t].arg \in Objects
LinkFits(t) ==
  LET e == call[t].entry IN
  call[t].at = "link" =>
    /\ e \in Entries \ (chain \cup freeEntries)
    /\ entryObj[e] = call[t].arg /\ kind[e] = heap[call[t].arg]
    /\ localRefs[e] = 1 /\ globalRefs[e] = 0
AccessFits(t) ==
  call[t].at \in {"store", "get"} =>
    /\ call[t].arg \in Objects /\ heap[call[t].arg] = "array" /\ call[t].index \in Indices
    /\ Holds(t, call[t].arg)
GetFits(t) ==
  call[t].at = "get" =>
    /\ call[t].val \in Objects /\ elem[call[t].arg][call[t].index] = call[t].val
    /\ heldLocal[t][call[t].val] < MaxRefs
CallFits(t) == FillFits(t) /\ MakeFits(t) /\ LinkFits(t) /\ AccessFits(t) /\ GetFits(t)

OneAccess ==
  \A t, u \in Threads :
    call[t].at \in {"store", "get"} /\ call[u].at \in {"store", "get"} /\ call[t].arg = call[u].arg
      => t = u

\* A record is in one place.
Hand(t, e) == call[t].at = "link" /\ call[t].entry = e
OnFrame(t, n, e) == n \in DOMAIN frames[t] /\ frames[t][n].entry = e
RecordsFit ==
  /\ \A e \in freeEntries : e \notin chain
  /\ \A e \in Pool : e \in freeEntries \/ e \in chain \/ \E t \in Threads : Hand(t, e)
  /\ \A e \in Entries : \A t, u \in Threads : Hand(t, e) /\ Hand(u, e) => t = u
  /\ \A e \in HeapEntries :
       e \in malloced <=>
         e \in chain \/ \E t \in Threads : Hand(t, e) \/ \E n \in DOMAIN frames[t] : OnFrame(t, n, e)
  /\ \A e \in HeapEntries : \A t \in Threads : \A n \in DOMAIN frames[t] :
       OnFrame(t, n, e) =>
         /\ e \notin chain /\ \A u \in Threads : ~Hand(u, e)
         /\ \A u \in Threads : \A m \in DOMAIN frames[u] : OnFrame(u, m, e) => t = u /\ m = n

RefsInv ==
  /\ RefTypes /\ LinksFit /\ CountsFit /\ OwnersFit /\ ElementsFit /\ OneAccess /\ RecordsFit
  /\ \A t \in Threads : FramesFit(t) /\ CallFits(t)

-----------------------------------------------------------------------------
(* Counting.                                                                *)

Bit(b) == IF b THEN 1 ELSE 0
HoldsOf(h, o) == {ref \in Threads \X (1 .. MaxRefs) : ref[2] =< h[ref[1]][o]}
SlotsOf(m, o) == {slot \in Objects \X Indices : m[slot[1]][slot[2]] = o}
StoresOf(c, o) == {t \in Threads : c[t].at = "store" /\ c[t].val = o}

LEMMA Products ==
  ASSUME NEW S, NEW T, IsFiniteSet(S), IsFiniteSet(T)
  PROVE IsFiniteSet(S \X T)
BY FS_Product

LEMMA FiniteCounts ==
  ASSUME NEW h, NEW m, NEW c, NEW o
  PROVE IsFiniteSet(HoldsOf(h, o)) /\ IsFiniteSet(SlotsOf(m, o)) /\ IsFiniteSet(StoresOf(c, o))
<1>1. IsFiniteSet(1 .. MaxRefs) /\ IsFiniteSet(1 .. Length) BY JniAssumption, FS_Interval
<1>2. IsFiniteSet(Threads \X (1 .. MaxRefs)) /\ IsFiniteSet(Objects \X Indices)
  BY <1>1, JniAssumption, Products DEF Indices
<1>3. IsFiniteSet(HoldsOf(h, o)) BY <1>2, FS_Subset DEF HoldsOf
<1>4. IsFiniteSet(SlotsOf(m, o)) BY <1>2, FS_Subset DEF SlotsOf
<1>5. IsFiniteSet(StoresOf(c, o)) BY JniAssumption, FS_Subset DEF StoresOf
<1>6. QED BY <1>3, <1>4, <1>5

\* Sets that differ at most in x.
LEMMA CountOne ==
  ASSUME NEW S, NEW T, IsFiniteSet(S), IsFiniteSet(T), NEW x, S \ {x} = T \ {x}
  PROVE /\ Cardinality(S) \in Nat /\ Cardinality(T) \in Nat
        /\ Cardinality(T) + Bit(x \in S) = Cardinality(S) + Bit(x \in T)
<1>1. Cardinality(S) \in Nat /\ Cardinality(T) \in Nat BY FS_CardinalityType
<1>2. Cardinality(S \ {x}) = IF x \in S THEN Cardinality(S) - 1 ELSE Cardinality(S)
  BY FS_RemoveElement
<1>3. Cardinality(T \ {x}) = IF x \in T THEN Cardinality(T) - 1 ELSE Cardinality(T)
  BY FS_RemoveElement
<1>4. QED BY <1>1, <1>2, <1>3 DEF Bit

LEMMA CountsAreNat ==
  ASSUME NEW o
  PROVE LocalReferences(o) \in Nat
BY FiniteCounts, FS_CardinalityType DEF LocalReferences, HoldsOf

\* One local reference more.
LEMMA LocalCount ==
  ASSUME NEW h, NEW h2, NEW t \in Threads, NEW x \in Objects,
         h[t][x] \in Nat, h[t][x] < MaxRefs, h2[t][x] = h[t][x] + 1,
         \A u \in Threads : \A o \in Objects : <<u, o>> # <<t, x>> => h2[u][o] = h[u][o],
         NEW o \in Objects
  PROVE Cardinality(HoldsOf(h2, o)) = Cardinality(HoldsOf(h, o)) + Bit(o = x)
<1> DEFINE ref == <<t, h[t][x] + 1>>
<1>1. CASE o = x
  <2>1. ref \in Threads \X (1 .. MaxRefs) BY JniAssumption
  <2>2. ref \in HoldsOf(h2, o) /\ ref \notin HoldsOf(h, o) BY <1>1, <2>1 DEF HoldsOf
  <2>3. ASSUME NEW r \in Threads \X (1 .. MaxRefs), r # ref
        PROVE r \in HoldsOf(h2, o) <=> r \in HoldsOf(h, o)
    <3>1. PICK u \in Threads, n \in 1 .. MaxRefs : r = <<u, n>> OBVIOUS
    <3>2. CASE u = t
      <4>1. n # h[t][x] + 1 /\ n \in Nat BY <2>3, <3>1, <3>2
      <4>2. n =< h2[t][x] <=> n =< h[t][x] BY <4>1
      <4>3. QED BY <1>1, <3>1, <3>2, <4>2 DEF HoldsOf
    <3>3. CASE u # t
      <4>1. h2[u][o] = h[u][o] BY <3>3
      <4>2. QED BY <3>1, <4>1 DEF HoldsOf
    <3>4. QED BY <3>2, <3>3
  <2>4. HoldsOf(h, o) \ {ref} = HoldsOf(h2, o) \ {ref} BY <2>3 DEF HoldsOf
  <2> HIDE DEF ref
  <2>5. QED BY <1>1, <2>2, <2>4, CountOne, FiniteCounts DEF Bit
<1>2. CASE o # x
  <2>1. \A u \in Threads : h2[u][o] = h[u][o] BY <1>2
  <2>2. HoldsOf(h2, o) = HoldsOf(h, o) BY <2>1 DEF HoldsOf
  <2>3. Cardinality(HoldsOf(h, o)) \in Nat BY FiniteCounts, FS_CardinalityType
  <2>4. QED BY <1>2, <2>2, <2>3 DEF Bit
<1>3. QED BY <1>1, <1>2

\* Another call of t.
LEMMA StoreCount ==
  ASSUME NEW c, NEW c2, NEW t \in Threads,
         \A u \in Threads \ {t} : c2[u].at = c[u].at /\ c2[u].val = c[u].val,
         NEW o
  PROVE /\ Cardinality(StoresOf(c, o)) \in Nat /\ Cardinality(StoresOf(c2, o)) \in Nat
        /\ Cardinality(StoresOf(c2, o)) + Bit(c[t].at = "store" /\ c[t].val = o)
             = Cardinality(StoresOf(c, o)) + Bit(c2[t].at = "store" /\ c2[t].val = o)
<1>1. StoresOf(c, o) \ {t} = StoresOf(c2, o) \ {t} BY DEF StoresOf
<1>2. /\ t \in StoresOf(c, o) <=> c[t].at = "store" /\ c[t].val = o
      /\ t \in StoresOf(c2, o) <=> c2[t].at = "store" /\ c2[t].val = o
  BY DEF StoresOf
<1>3. IsFiniteSet(StoresOf(c, o)) /\ IsFiniteSet(StoresOf(c2, o)) BY FiniteCounts
<1>4. Cardinality(StoresOf(c, o)) \in Nat /\ Cardinality(StoresOf(c2, o)) \in Nat
  BY <1>3, FS_CardinalityType
<1>5. Cardinality(StoresOf(c2, o)) + Bit(t \in StoresOf(c, o))
        = Cardinality(StoresOf(c, o)) + Bit(t \in StoresOf(c2, o))
  BY <1>1, <1>3, CountOne
<1>6. /\ Bit(t \in StoresOf(c, o)) = Bit(c[t].at = "store" /\ c[t].val = o)
      /\ Bit(t \in StoresOf(c2, o)) = Bit(c2[t].at = "store" /\ c2[t].val = o)
  BY <1>2 DEF Bit
<1>7. QED BY <1>4, <1>5, <1>6

-----------------------------------------------------------------------------
(* References and entries.                                                  *)

LEMMA References ==
  ASSUME NEW o
  PROVE /\ LocalReferences(o) = Cardinality(HoldsOf(heldLocal, o)) /\ LocalReferences(o) \in Nat
        /\ GlobalReferences(o) = heldGlobal[o] + Cardinality(SlotsOf(elem, o)) + Cardinality(StoresOf(call, o))
        /\ Cardinality(SlotsOf(elem, o)) \in Nat /\ Cardinality(StoresOf(call, o)) \in Nat
<1>1. LocalReferences(o) = Cardinality(HoldsOf(heldLocal, o)) BY DEF LocalReferences, HoldsOf
<1>2. GlobalReferences(o) = heldGlobal[o] + Cardinality(SlotsOf(elem, o)) + Cardinality(StoresOf(call, o))
  BY DEF GlobalReferences, SlotsOf, StoresOf
<1>3. QED BY <1>1, <1>2, FiniteCounts, FS_CardinalityType

\* What is referred to is counted, and has an entry.
LEMMA ReferredIsCounted ==
  ASSUME RefsInv, NEW o \in Objects
  PROVE /\ LocalReferences(o) \in Nat /\ GlobalReferences(o) \in Nat
        /\ \A t \in Threads : heldLocal[t][o] > 0 => LocalReferences(o) > 0
        /\ heldGlobal[o] > 0 => GlobalReferences(o) > 0
        /\ \A a \in Objects : \A i \in Indices : elem[a][i] = o => GlobalReferences(o) > 0
        /\ \A t \in Threads : call[t].at = "store" /\ call[t].val = o => GlobalReferences(o) > 0
<1>1. heldGlobal[o] \in Nat /\ \A t \in Threads : heldLocal[t][o] \in Nat /\ heldLocal[t][o] =< MaxRefs
  BY JniAssumption DEF RefsInv, RefTypes
<1>2. LocalReferences(o) \in Nat /\ GlobalReferences(o) \in Nat BY <1>1, References
<1>3. ASSUME NEW t \in Threads, heldLocal[t][o] > 0 PROVE LocalReferences(o) > 0
  <2>1. <<t, 1>> \in HoldsOf(heldLocal, o) BY <1>1, <1>3, JniAssumption DEF HoldsOf
  <2>2. Cardinality(HoldsOf(heldLocal, o)) # 0 BY <2>1, FS_EmptySet, FiniteCounts
  <2>3. QED BY <2>2, References
<1>4. ASSUME NEW a \in Objects, NEW i \in Indices, elem[a][i] = o PROVE GlobalReferences(o) > 0
  <2>1. <<a, i>> \in SlotsOf(elem, o) BY <1>4 DEF SlotsOf
  <2>2. Cardinality(SlotsOf(elem, o)) # 0 BY <2>1, FS_EmptySet, FiniteCounts
  <2>3. QED BY <1>1, <2>2, References
<1>5. ASSUME NEW t \in Threads, call[t].at = "store", call[t].val = o PROVE GlobalReferences(o) > 0
  <2>1. t \in StoresOf(call, o) BY <1>5 DEF StoresOf
  <2>2. Cardinality(StoresOf(call, o)) # 0 BY <2>1, FS_EmptySet, FiniteCounts
  <2>3. QED BY <1>1, <2>2, References
<1>6. heldGlobal[o] > 0 => GlobalReferences(o) > 0 BY <1>1, References
<1>7. QED BY <1>2, <1>3, <1>4, <1>5, <1>6

LEMMA ReferredHasEntry ==
  ASSUME RefsInv, NEW o \in Objects
  PROVE /\ \A t \in Threads : Holds(t, o) => HasEntry(o)
        /\ \A a \in Objects : \A i \in Indices : elem[a][i] = o => HasEntry(o)
        /\ \A t \in Threads : call[t].at = "store" /\ call[t].val = o => HasEntry(o)
<1>1. LocalReferences(o) > 0 \/ GlobalReferences(o) > 0 => HasEntry(o) BY DEF RefsInv, CountsFit
<1>2. QED BY <1>1, ReferredIsCounted DEF Holds

LEMMA TheEntry ==
  ASSUME RefsInv
  PROVE /\ \A e \in chain : EntriesOf(entryObj[e]) = {e} /\ entryObj[e] \in Objects /\ HasEntry(entryObj[e])
        /\ \A o : ~HasEntry(o) => EntriesOf(o) = {}
        /\ \A o : HasEntry(o) => o \in Objects /\ heap[o] # "free"
BY DEF RefsInv, LinksFit, EntriesOf, HasEntry

\* One who has an object to itself does not hold it.
LEMMA BusyIsNotHeld ==
  ASSUME RefsInv, NEW t \in Threads, NEW o \in Objects, Owns(t, o)
  PROVE /\ \A u \in Threads : ~Holds(u, o)
        /\ \A a \in Objects : \A i \in Indices : elem[a][i] # o
        /\ \A u \in Threads : u # t => ~Owns(u, o)
        /\ \A u \in Threads : call[u].at \in {"store", "get"} => call[u].arg # o
<1>1. ~HasEntry(o) /\ \A u \in Threads : u # t => ~Owns(u, o) BY DEF RefsInv, OwnersFit
<1>2. QED BY <1>1, ReferredHasEntry DEF RefsInv, CallFits, AccessFits

-----------------------------------------------------------------------------
(* What a step of one thread leaves to the others.                          *)

Gentle(t) ==
  /\ \A u \in Threads \ {t} : call'[u] = call[u] /\ frames'[u] = frames[u] /\ heldLocal'[u] = heldLocal[u]
  /\ \A o \in Objects : heap'[o] = heap[o] \/ heap[o] = "free" \/ Owns(t, o)
  /\ \A a \in Objects : elem'[a] = elem[a] \/ Owns(t, a) \/ (call[t].at = "store" /\ call[t].arg = a)
  /\ \A o \in Objects : heldGlobal[o] > 0 => heldGlobal'[o] > 0 \/ ~InCall(o)
  /\ \A e \in chain' : e \in chain \/ Hand(t, e)
  /\ \A e \in freeEntries' : e \in freeEntries \/ e \in chain
  /\ \A e \in Entries :
       \/ e \in chain \/ e \in freeEntries \/ e \in HeapEntries \ malloced
       \/ /\ entryObj'[e] = entryObj[e] /\ kind'[e] = kind[e]
          /\ localRefs'[e] = localRefs[e] /\ globalRefs'[e] = globalRefs[e]

LEMMA OthersFit ==
  ASSUME RefsInv, NEW t \in Threads, Gentle(t), NEW u \in Threads, u # t
  PROVE CallFits(u)' /\ FramesFit(u)'
<1>1. call'[u] = call[u] /\ frames'[u] = frames[u] /\ heldLocal'[u] = heldLocal[u]
  BY DEF Gentle
<1>2. /\ call[u].arg \in Objects \cup {Null} /\ call[u].val \in Objects \cup {Null}
      /\ CallFits(u) /\ FramesFit(u) /\ frames[u] \in Seq(FrameRecords)
  BY DEF RefsInv, RefTypes, CallRecords
<1>3. ASSUME NEW o \in Objects, Owns(u, o) PROVE heap'[o] = heap[o] /\ elem'[o] = elem[o]
  <2>1. heap[o] # "free" /\ ~Owns(t, o) /\ ~(call[t].at = "store" /\ call[t].arg = o)
    BY <1>3, BusyIsNotHeld DEF RefsInv, OwnersFit
  <2>2. QED BY <2>1 DEF Gentle
<1>4. ASSUME NEW o \in Objects, o \in {call[u].arg, call[u].val}, Holds(u, o) PROVE Holds(u, o)'
  <2>1. CASE heldLocal[u][o] > 0 BY <1>1, <2>1 DEF Holds
  <2>2. CASE heldLocal[u][o] = 0 /\ heldGlobal[o] > 0
    <3>1. InCall(o) BY <1>4, <2>2 DEF InCall
    <3>2. QED BY <2>2, <3>1 DEF Gentle, Holds
  <2>3. heldLocal[u][o] \in Nat BY JniAssumption DEF RefsInv, RefTypes
  <2>4. QED BY <1>4, <2>1, <2>2, <2>3 DEF Holds
<1>5. ASSUME NEW o \in Objects, HasEntry(o) PROVE heap'[o] = heap[o]
  BY <1>5 DEF Gentle, RefsInv, OwnersFit
<1>6. FillFits(u)'
  <2>1. SUFFICES ASSUME call[u].at = "fill" PROVE FillFits(u)'
    BY <1>1 DEF FillFits
  <2>2. call[u].arg \in Objects /\ Owns(u, call[u].arg) /\ FillFits(u)
    BY <1>2, <2>1 DEF CallFits, MakeFits, Owns, Making
  <2>3. heap'[call[u].arg] = heap[call[u].arg] /\ elem'[call[u].arg] = elem[call[u].arg]
    BY <1>3, <2>2
  <2>4. QED BY <1>1, <1>4, <2>1, <2>2, <2>3 DEF FillFits
<1>7. MakeFits(u)' BY <1>1, <1>2 DEF CallFits, MakeFits
<1>8. LinkFits(u)'
  <2>1. SUFFICES ASSUME call[u].at = "link" PROVE LinkFits(u)'
    BY <1>1 DEF LinkFits
  <2> DEFINE e == call[u].entry
  <2>2. /\ e \in Entries \ (chain \cup freeEntries) /\ Hand(u, e) /\ LinkFits(u)
        /\ call[u].arg \in Objects /\ Owns(u, call[u].arg)
    BY <1>2, <2>1 DEF CallFits, LinkFits, Hand, MakeFits, Owns, Making
  <2>3. e \notin HeapEntries \ malloced /\ ~Hand(t, e) BY <2>2 DEF RefsInv, RecordsFit
  <2>4. e \notin chain' /\ e \notin freeEntries' BY <2>2, <2>3 DEF Gentle
  <2>5. /\ entryObj'[e] = entryObj[e] /\ kind'[e] = kind[e]
        /\ localRefs'[e] = localRefs[e] /\ globalRefs'[e] = globalRefs[e]
    BY <2>2, <2>3 DEF Gentle
  <2>6. heap'[call[u].arg] = heap[call[u].arg] BY <1>3, <2>2
  <2>7. QED BY <1>1, <2>1, <2>2, <2>4, <2>5, <2>6 DEF LinkFits
<1>9. AccessFits(u)' /\ GetFits(u)'
  <2>1. SUFFICES ASSUME call[u].at \in {"store", "get"} PROVE AccessFits(u)' /\ GetFits(u)'
    BY <1>1 DEF AccessFits, GetFits
  <2>2. /\ call[u].arg \in Objects /\ Holds(u, call[u].arg) /\ HasEntry(call[u].arg)
        /\ AccessFits(u) /\ GetFits(u)
    BY <1>2, <2>1, ReferredHasEntry DEF CallFits, AccessFits
  <2>a. PICK a : a = call[u].arg OBVIOUS
  <2>b. heap'[a] = heap[a] /\ Holds(u, a)' BY <1>4, <1>5, <2>2, <2>a
  <2>3. heap'[call[u].arg] = heap[call[u].arg] BY <2>a, <2>b
  <2>4. elem'[call[u].arg] = elem[call[u].arg]
    <3>1. ~Owns(t, call[u].arg) BY <2>2 DEF RefsInv, OwnersFit
    <3>2. ~(call[t].at = "store" /\ call[t].arg = call[u].arg) BY <2>1 DEF RefsInv, OneAccess
    <3>3. QED BY <2>2, <3>1, <3>2 DEF Gentle
  <2>5. QED BY <1>1, <2>1, <2>2, <2>3, <2>4, <2>a, <2>b DEF AccessFits, GetFits
<1>10. FramesFit(u)'
  <2>1. ASSUME NEW n \in DOMAIN frames[u] PROVE heap'[frames[u][n].obj] = heap[frames[u][n].obj]
    <3>1. frames[u][n] \in FrameRecords
      <4>1. n \in 1 .. Len(frames[u]) BY <1>2, <2>1, LenProperties
      <4>2. QED BY <1>2, <4>1, ElementOfSeq
    <3>2. Owns(u, frames[u][n].obj) BY <2>1 DEF Owns, Freeing
    <3>3. QED BY <1>3, <3>1, <3>2 DEF FrameRecords
  <2>2. QED BY <1>1, <1>2, <2>1 DEF FramesFit
<1>11. QED BY <1>6, <1>7, <1>8, <1>9, <1>10 DEF CallFits

LEMMA StepKeeps ==
  ASSUME RefsInv, NEW t \in Threads, Gentle(t), CallFits(t)', FramesFit(t)',
         RefTypes', LinksFit', CountsFit', OwnersFit', ElementsFit', OneAccess', RecordsFit'
  PROVE RefsInv'
<1>1. \A u \in Threads : FramesFit(u)' /\ CallFits(u)' BY OthersFit
<1>2. QED BY <1>1 DEF RefsInv

-----------------------------------------------------------------------------
(* Changes of the counts.                                                   *)

LEMMA References1 ==
  ASSUME NEW o
  PROVE /\ LocalReferences(o)' = Cardinality(HoldsOf(heldLocal', o)) /\ LocalReferences(o)' \in Nat
        /\ GlobalReferences(o)' = heldGlobal'[o] + Cardinality(SlotsOf(elem', o)) + Cardinality(StoresOf(call', o))
        /\ Cardinality(SlotsOf(elem', o)) \in Nat /\ Cardinality(StoresOf(call', o)) \in Nat
<1>1. LocalReferences(o)' = Cardinality(HoldsOf(heldLocal', o)) BY DEF LocalReferences, HoldsOf
<1>2. GlobalReferences(o)' = heldGlobal'[o] + Cardinality(SlotsOf(elem', o)) + Cardinality(StoresOf(call', o))
  BY DEF GlobalReferences, SlotsOf, StoresOf
<1>3. QED BY <1>1, <1>2, FiniteCounts, FS_CardinalityType

\* The stores are those before when no call enters or leaves one.
LEMMA SameStores ==
  ASSUME \A u \in Threads : /\ call'[u].at = "store" <=> call[u].at = "store"
                            /\ call[u].at = "store" => call'[u].val = call[u].val
  PROVE \A o : StoresOf(call', o) = StoresOf(call, o)
BY DEF StoresOf

LEMMA CountsStay ==
  ASSUME RefsInv, chain' = chain, heldLocal' = heldLocal, heldGlobal' = heldGlobal, elem' = elem,
         \A e \in chain : /\ entryObj'[e] = entryObj[e]
                          /\ localRefs'[e] = localRefs[e] /\ globalRefs'[e] = globalRefs[e],
         \A u \in Threads : /\ call'[u].at = "store" <=> call[u].at = "store"
                            /\ call[u].at = "store" => call'[u].val = call[u].val
  PROVE CountsFit'
<1>1. \A o : LocalReferences(o)' = LocalReferences(o) /\ GlobalReferences(o)' = GlobalReferences(o)
  BY References, References1, SameStores
<1>2. \A o : HasEntry(o)' <=> HasEntry(o) BY DEF HasEntry
<1>3. CountsFit BY DEF RefsInv
<1>4. ASSUME NEW e \in chain'
      PROVE /\ localRefs'[e] = LocalReferences(entryObj[e])'
            /\ globalRefs'[e] = GlobalReferences(entryObj[e])'
            /\ localRefs'[e] + globalRefs'[e] > 0
  <2>1. PICK o : o = entryObj[e] OBVIOUS
  <2>2. localRefs[e] = LocalReferences(o) /\ globalRefs[e] = GlobalReferences(o) /\ localRefs[e] + globalRefs[e] > 0
    BY <1>3, <2>1 DEF CountsFit
  <2>3. entryObj'[e] = o BY <2>1
  <2>4. QED BY <1>1, <2>2, <2>3
<1>5. QED BY <1>1, <1>2, <1>3, <1>4 DEF CountsFit

\* The references on x alone have changed; an entry has gone when none is left.
Gone(x) == {e \in chain : entryObj[e] = x /\ localRefs'[e] = 0 /\ globalRefs'[e] = 0}

LEMMA CountsMove ==
  ASSUME RefsInv, RefTypes', NEW x \in Objects \cup {Null}, x # Null => HasEntry(x),
         entryObj' = entryObj, chain' = chain \ Gone(x),
         \A o \in Objects :
           o # x => LocalReferences(o)' = LocalReferences(o) /\ GlobalReferences(o)' = GlobalReferences(o),
         \A e \in chain :
           /\ entryObj[e] # x => localRefs'[e] = localRefs[e] /\ globalRefs'[e] = globalRefs[e]
           /\ entryObj[e] = x =>
                localRefs'[e] = LocalReferences(x)' /\ globalRefs'[e] = GlobalReferences(x)'
  PROVE CountsFit'
<1>1. CountsFit BY DEF RefsInv
<1>2. \A o : LocalReferences(o)' \in Nat BY References1
<1>3. \A e \in chain : entryObj[e] \in Objects /\ localRefs[e] \in Nat /\ globalRefs[e] \in Nat
  BY DEF RefsInv, LinksFit, RefTypes
<1>4. ASSUME NEW e \in chain', NEW o \in Objects, o = entryObj[e]
      PROVE /\ localRefs'[e] = LocalReferences(o)'
            /\ globalRefs'[e] = GlobalReferences(o)'
            /\ localRefs'[e] # 0 \/ globalRefs'[e] # 0
  <2>1. o = entryObj[e] BY <1>4
  <2>2. e \in chain /\ entryObj'[e] = o BY <2>1
  <2>3. CASE o = x BY <2>1, <2>2, <2>3 DEF Gone
  <2>4. CASE o # x
    <3>1. /\ localRefs[e] = LocalReferences(o) /\ globalRefs[e] = GlobalReferences(o)
          /\ localRefs[e] + globalRefs[e] > 0
      BY <1>1, <2>1, <2>2 DEF CountsFit
    <3>2. localRefs[e] # 0 \/ globalRefs[e] # 0 BY <1>3, <2>2, <3>1
    <3>3. QED BY <2>1, <2>2, <2>4, <3>1, <3>2
  <2>5. QED BY <2>3, <2>4
<1>5. ASSUME NEW o \in Objects, ~HasEntry(o)'
      PROVE  LocalReferences(o)' = 0 /\ GlobalReferences(o)' = 0
  <2>1. CASE o = x
    <3>1. PICK e \in chain : entryObj[e] = x BY <2>1, JniAssumption DEF HasEntry
    <3>2. e \notin chain' BY <1>5, <2>1, <3>1 DEF HasEntry
    <3>3. QED BY <2>1, <3>1, <3>2 DEF Gone
  <2>2. CASE o # x
    <3>1. ~HasEntry(o) BY <1>5, <2>2 DEF HasEntry, Gone
    <3>2. QED BY <1>1, <2>2, <3>1 DEF CountsFit
  <2>3. QED BY <2>1, <2>2
<1>6. ASSUME NEW e \in chain' PROVE localRefs'[e] + globalRefs'[e] > 0
  <2>1. PICK o \in Objects : o = entryObj[e] BY <1>3
  <2>2. localRefs'[e] = LocalReferences(o)' /\ globalRefs'[e] = GlobalReferences(o)'
    BY <1>4, <2>1
  <2>3. localRefs'[e] \in Nat /\ globalRefs'[e] \in Nat
    <3>1. GlobalReferences(o)' \in Nat BY References1 DEF RefTypes
    <3>2. QED BY <1>2, <2>2, <3>1
  <2>4. QED BY <1>4, <2>1, <2>3
<1>7. ASSUME NEW e \in chain'
      PROVE /\ localRefs'[e] = LocalReferences(entryObj[e])'
            /\ globalRefs'[e] = GlobalReferences(entryObj[e])'
  <2>1. PICK o \in Objects : o = entryObj[e] BY <1>3
  <2>2. localRefs'[e] = LocalReferences(o)' /\ globalRefs'[e] = GlobalReferences(o)' BY <1>4, <2>1
  <2>3. entryObj'[e] = o BY <2>1
  <2>4. QED BY <2>2, <2>3
<1>8. QED BY <1>5, <1>6, <1>7 DEF CountsFit

\* tracked_add_ref_if_known and tracked_release_ref_if_known on the entry of x.
LEMMA Added ==
  ASSUME NEW count \in [Entries -> Nat], NEW x
  PROVE /\ AddRef(count, x) \in [Entries -> Nat]
        /\ \A e \in Entries : e \notin chain => AddRef(count, x)[e] = count[e]
        /\ \A e \in Entries : e \in chain =>
             AddRef(count, x)[e] = IF entryObj[e] = x THEN count[e] + 1 ELSE count[e]
BY DEF AddRef, EntriesOf

LEMMA Dropped ==
  ASSUME NEW count \in [Entries -> Nat], NEW x
  PROVE /\ Drop(count, x) \in [Entries -> Nat]
        /\ \A e \in Entries : e \notin chain => Drop(count, x)[e] = count[e]
        /\ \A e \in Entries : e \in chain =>
             Drop(count, x)[e] = IF entryObj[e] = x /\ count[e] > 0 THEN count[e] - 1 ELSE count[e]
BY DEF Drop, EntriesOf

-----------------------------------------------------------------------------
(* Frames.                                                                  *)

LEMMA FramesAre ==
  ASSUME NEW s \in Seq(FrameRecords)
  PROVE /\ Len(s) \in Nat /\ DOMAIN s = 1 .. Len(s)
        /\ \A n \in DOMAIN s : s[n] \in FrameRecords
        /\ s # <<>> <=> Len(s) > 0
<1>1. Len(s) \in Nat /\ DOMAIN s = 1 .. Len(s) /\ \A n \in 1 .. Len(s) : s[n] \in FrameRecords
  BY LenProperties, ElementOfSeq
<1>2. s # <<>> <=> Len(s) > 0 BY <1>1, EmptySeq
<1>3. QED BY <1>1, <1>2

LEMMA Pushed ==
  ASSUME NEW s, s \in Seq(FrameRecords), NEW f, f \in FrameRecords, NEW s2, s2 = Append(s, f)
  PROVE /\ s2 \in Seq(FrameRecords) /\ s2 # <<>>
        /\ Len(s) + 1 \notin DOMAIN s /\ DOMAIN s2 = DOMAIN s \cup {Len(s) + 1}
        /\ s2[Len(s) + 1] = f /\ \A n \in DOMAIN s : s2[n] = s[n]
<1>1. Len(s) \in Nat /\ DOMAIN s = 1 .. Len(s) BY FramesAre
<1>2. /\ s2 \in Seq(FrameRecords) /\ Len(s2) = Len(s) + 1 /\ s2[Len(s) + 1] = f
      /\ \A n \in 1 .. Len(s) : s2[n] = s[n]
  BY AppendProperties
<1>3. DOMAIN s2 = 1 .. Len(s) + 1 /\ s2 # <<>> BY <1>1, <1>2, FramesAre
<1>4. QED BY <1>1, <1>2, <1>3

LEMMA Popped ==
  ASSUME NEW s \in Seq(FrameRecords), s # <<>>, NEW s2, s2 = SubSeq(s, 1, Len(s) - 1)
  PROVE /\ s2 \in Seq(FrameRecords) /\ (s2 = <<>> <=> Len(s) = 1)
        /\ Len(s) \in DOMAIN s /\ DOMAIN s2 = DOMAIN s \ {Len(s)}
        /\ \A n \in DOMAIN s2 : s2[n] = s[n]
<1>1. Len(s) \in Nat /\ DOMAIN s = 1 .. Len(s) /\ Len(s) > 0 /\ \A n \in DOMAIN s : s[n] \in FrameRecords
  BY FramesAre
<1>2. /\ s2 \in Seq(FrameRecords) /\ Len(s2) = IF 1 =< Len(s) - 1 THEN Len(s) - 1 - 1 + 1 ELSE 0
      /\ \A n \in 1 .. Len(s) - 1 - 1 + 1 : s2[n] = s[1 + n - 1]
  <2>1. 1 \in Int /\ Len(s) - 1 \in Int /\ \A n \in 1 .. Len(s) - 1 : s[n] \in FrameRecords BY <1>1
  <2>2. QED BY <2>1, SubSeqProperties
<1>3. Len(s2) = Len(s) - 1 /\ \A n \in 1 .. Len(s) - 1 : s2[n] = s[n] BY <1>1, <1>2
<1>4. DOMAIN s2 = 1 .. Len(s2) /\ (s2 # <<>> <=> Len(s2) > 0) BY <1>2, FramesAre
<1>5. QED BY <1>1, <1>2, <1>3, <1>4

\* The end of a call, or its next place.
LEMMA Goes ==
  ASSUME RefTypes, NEW t \in Threads, NEW label \in Labels, GoOn(t, label)
  PROVE /\ call' \in [Threads -> CallRecords] /\ call'[t].at = label
        /\ label # "idle" => /\ call'[t].arg = call[t].arg /\ call'[t].index = call[t].index
                             /\ call'[t].val = call[t].val /\ call'[t].entry = call[t].entry
        /\ \A u \in Threads \ {t} : call'[u] = call[u]
<1>1. Idle \in CallRecords /\ Idle.at = "idle"
  BY JniAssumption DEF Idle, CallRecords, Labels
<1>2. call[t] \in CallRecords /\ call \in [Threads -> CallRecords] BY DEF RefTypes
<1>3. [call[t] EXCEPT !.at = label] \in CallRecords BY <1>2 DEF CallRecords
<1>4. QED BY <1>1, <1>2, <1>3 DEF GoOn, CallRecords

LEMMA CallsAre ==
  ASSUME RefTypes, NEW t \in Threads, NEW label \in Labels, NEW o \in Objects \cup {Null},
         NEW i \in 1 .. Length + 1, NEW v \in Objects \cup {Null}, Call(t, label, o, i, v)
  PROVE /\ call' \in [Threads -> CallRecords] /\ call[t].at = "idle"
        /\ call'[t] = [at |-> label, arg |-> o, index |-> i, val |-> v, entry |-> Null]
        /\ \A u \in Threads \ {t} : call'[u] = call[u]
<1>1. [at |-> label, arg |-> o, index |-> i, val |-> v, entry |-> Null] \in CallRecords
  BY DEF CallRecords
<1>2. QED BY <1>1 DEF Call, RefTypes

-----------------------------------------------------------------------------
(* tracked_release_ref_if_known.                                            *)

Unlinks(t, x) ==
  /\ chain' = chain \ Gone(x)
  /\ freeEntries' = freeEntries \cup (Gone(x) \cap Pool)
  /\ \/ Gone(x) = {} /\ frames' = frames
     \/ \E e \in Gone(x) : Gone(x) = {e} /\ frames' = [frames EXCEPT ![t] = Append(@, Frame(e))]
  /\ GoOn(t, IF frames'[t] = <<>> THEN "idle" ELSE "free")
  /\ UNCHANGED <<entryObj, kind, malloced>>

LEMMA ReleaseUnlinks ==
  ASSUME RefsInv, NEW t \in Threads, NEW x \in Objects \cup {Null},
         \/ Release(t, x, Drop(localRefs, x), globalRefs)
         \/ Release(t, x, localRefs, Drop(globalRefs, x))
  PROVE Unlinks(t, x)
<1>1. \A e, f \in Gone(x) : e = f BY DEF RefsInv, LinksFit, Gone
<1>2. Gone(x) = {e \in EntriesOf(x) : localRefs'[e] = 0 /\ globalRefs'[e] = 0}
  BY DEF Gone, EntriesOf
<1> DEFINE unused == {e \in EntriesOf(x) : localRefs'[e] = 0 /\ globalRefs'[e] = 0}
<1>3. /\ chain' = chain \ unused
      /\ freeEntries' = freeEntries \cup (unused \cap Pool)
      /\ frames' = [frames EXCEPT ![t] = IF unused = {} THEN @ ELSE Append(@, Frame(CHOOSE e \in unused : TRUE))]
      /\ GoOn(t, IF frames'[t] = <<>> THEN "idle" ELSE "free")
      /\ UNCHANGED <<entryObj, kind, malloced>>
  <2>1. CASE Release(t, x, Drop(localRefs, x), globalRefs)
    <3>1. localRefs' = Drop(localRefs, x) /\ globalRefs' = globalRefs BY <2>1 DEF Release
    <3>2. QED BY <2>1, <3>1 DEF Release
  <2>2. CASE Release(t, x, localRefs, Drop(globalRefs, x))
    <3>1. localRefs' = localRefs /\ globalRefs' = Drop(globalRefs, x) BY <2>2 DEF Release
    <3>2. QED BY <2>2, <3>1 DEF Release
  <2>3. QED BY <2>1, <2>2
<1>4. unused = Gone(x) BY <1>2
<1> HIDE DEF unused
<1>5. CASE unused = {}
  <2>1. frames' = frames BY <1>3, <1>5 DEF RefsInv, RefTypes
  <2>2. QED BY <1>3, <1>4, <1>5, <2>1 DEF Unlinks
<1>6. CASE unused # {}
  <2>1. PICK e : e = CHOOSE f \in unused : TRUE OBVIOUS
  <2>2. e \in unused BY <1>6, <2>1
  <2>3. unused = {e} BY <1>1, <1>4, <2>2
  <2>4. frames' = [frames EXCEPT ![t] = Append(@, Frame(e))] BY <1>3, <1>6, <2>1
  <2>5. QED BY <1>3, <1>4, <2>3, <2>4 DEF Unlinks
<1>7. QED BY <1>5, <1>6

\* A release keeps everything, provided the counts it leaves are those of the references.
LEMMA UnlinkKeeps ==
  ASSUME RefsInv, NEW t \in Threads, NEW x \in Objects \cup {Null}, x # Null => HasEntry(x),
         call[t].at \in {"idle", "free", "store"}, Unlinks(t, x), heap' = heap,
         elem' \in [Objects -> [Indices -> Objects \cup {Null}]], ElementsFit',
         \A a \in Objects : elem'[a] = elem[a] \/ Owns(t, a) \/ (call[t].at = "store" /\ call[t].arg = a),
         localRefs' \in [Entries -> Nat], globalRefs' \in [Entries -> Nat],
         \A e \in Entries : e \notin chain => localRefs'[e] = localRefs[e] /\ globalRefs'[e] = globalRefs[e],
         heldLocal' \in [Threads -> [Objects -> 0 .. MaxRefs]],
         heldGlobal' \in [Objects -> 0 .. MaxRefs],
         \A u \in Threads \ {t} : heldLocal'[u] = heldLocal[u],
         \A o \in Objects : heldGlobal[o] > 0 => heldGlobal'[o] > 0 \/ ~InCall(o),
         \A o \in Objects :
           o # x => LocalReferences(o)' = LocalReferences(o) /\ GlobalReferences(o)' = GlobalReferences(o),
         \A e \in chain :
           /\ entryObj[e] # x => localRefs'[e] = localRefs[e] /\ globalRefs'[e] = globalRefs[e]
           /\ entryObj[e] = x =>
                localRefs'[e] = LocalReferences(x)' /\ globalRefs'[e] = GlobalReferences(x)'
  PROVE RefsInv'
<1>1. PICK label \in {"idle", "free"} :
        GoOn(t, label) /\ (label = "idle" <=> frames'[t] = <<>>)
  <2>1. GoOn(t, IF frames'[t] = <<>> THEN "idle" ELSE "free") BY DEF Unlinks
  <2>2. CASE frames'[t] = <<>> BY <2>1, <2>2
  <2>3. CASE frames'[t] # <<>> BY <2>1, <2>3
  <2>4. QED BY <2>2, <2>3
<1>2. /\ call' \in [Threads -> CallRecords] /\ call'[t].at = label
      /\ \A u \in Threads \ {t} : call'[u] = call[u]
  <2>1. RefTypes /\ label \in Labels BY DEF RefsInv, Labels
  <2>2. QED BY <1>1, <2>1, Goes
<1>3. /\ chain' = chain \ Gone(x) /\ freeEntries' = freeEntries \cup (Gone(x) \cap Pool)
      /\ entryObj' = entryObj /\ kind' = kind /\ malloced' = malloced
  BY DEF Unlinks
<1>4. /\ frames \in [Threads -> Seq(FrameRecords)] /\ frames[t] \in Seq(FrameRecords)
      /\ chain \subseteq Entries /\ freeEntries \subseteq Pool
  BY DEF RefsInv, RefTypes
\* The frames there are, one more than before when an entry has gone.
<1>l. PICK last : last = Len(frames[t]) + 1 OBVIOUS
<1>5. /\ frames' \in [Threads -> Seq(FrameRecords)]
      /\ \A u \in Threads \ {t} : frames'[u] = frames[u]
      /\ \A n \in DOMAIN frames[t] : n \in DOMAIN frames'[t] /\ frames'[t][n] = frames[t][n]
      /\ \A n \in DOMAIN frames'[t] : n \in DOMAIN frames[t] \/ (Gone(x) # {} /\ n = last)
      /\ \A e \in Gone(x) : /\ last \notin DOMAIN frames[t] /\ last \in DOMAIN frames'[t]
                            /\ frames'[t][last] = Frame(e)
      /\ \A e, f \in Gone(x) : e = f
      /\ frames'[t] = <<>> <=> frames[t] = <<>> /\ Gone(x) = {}
  <2>1. CASE Gone(x) = {} /\ frames' = frames BY <1>4, <2>1
  <2>2. ASSUME NEW e \in Gone(x), Gone(x) = {e}, frames' = [frames EXCEPT ![t] = Append(@, Frame(e))]
        PROVE <1>5
    <3>1. Frame(e) \in FrameRecords
      <4>1. /\ e \in Entries /\ entryObj[e] \in Objects /\ kind[e] \in {"plain", "array"}
        BY <1>4, <2>2 DEF Gone, RefsInv, RefTypes, LinksFit
      <4>2. QED BY <4>1 DEF Frame, FrameRecords
    <3>2. frames'[t] = Append(frames[t], Frame(e)) BY <1>4, <2>2
    <3>3. /\ frames'[t] \in Seq(FrameRecords) /\ frames'[t] # <<>>
          /\ last \notin DOMAIN frames[t] /\ DOMAIN frames'[t] = DOMAIN frames[t] \cup {last}
          /\ frames'[t][last] = Frame(e) /\ \A n \in DOMAIN frames[t] : frames'[t][n] = frames[t][n]
      <4>1. PICK s, f, s2 : s = frames[t] /\ f = Frame(e) /\ s2 = frames'[t] OBVIOUS
      <4>2. s \in Seq(FrameRecords) /\ f \in FrameRecords /\ s2 = Append(s, f)
        BY <1>4, <3>1, <3>2, <4>1
      <4>3. /\ s2 \in Seq(FrameRecords) /\ s2 # <<>>
            /\ Len(s) + 1 \notin DOMAIN s /\ DOMAIN s2 = DOMAIN s \cup {Len(s) + 1}
            /\ s2[Len(s) + 1] = f /\ \A n \in DOMAIN s : s2[n] = s[n]
        <5>1. s2 \in Seq(FrameRecords) BY <4>2, Pushed
        <5>2. s2 # <<>> BY <4>2, Pushed
        <5>3. Len(s) + 1 \notin DOMAIN s BY <4>2, Pushed
        <5>4. DOMAIN s2 = DOMAIN s \cup {Len(s) + 1} BY <4>2, Pushed
        <5>5. s2[Len(s) + 1] = f BY <4>2, Pushed
        <5>6. \A n \in DOMAIN s : s2[n] = s[n] BY <4>2, Pushed
        <5>7. QED BY <5>1, <5>2, <5>3, <5>4, <5>5, <5>6
      <4>4. QED BY <1>l, <4>1, <4>3
    <3>4. frames' \in [Threads -> Seq(FrameRecords)] BY <1>4, <2>2, <3>3
    <3>5. QED BY <1>4, <2>2, <3>3, <3>4
  <2>3. QED BY <2>1, <2>2 DEF Unlinks
<1>6. RefTypes'
  <2>1. chain' \subseteq Entries /\ freeEntries' \subseteq Pool BY <1>3, <1>4
  <2>2. QED BY <1>2, <1>3, <1>5, <2>1 DEF RefsInv, RefTypes
<1>7. CountsFit' BY <1>3, <1>6, CountsMove
<1>8. LinksFit' BY <1>3 DEF RefsInv, LinksFit
<1>9. \A e \in Gone(x) : /\ x \in Objects /\ entryObj[e] = x /\ HasEntry(x) /\ e \in chain
                         /\ kind[e] = heap[x] /\ Frame(e).obj = x /\ Frame(e).kind = heap[x]
                         /\ Frame(e).entry = e
  BY DEF Gone, RefsInv, LinksFit, HasEntry, Frame
<1>10. \A o : HasEntry(o)' <=> HasEntry(o) /\ (o # x \/ Gone(x) = {})
  BY <1>3, <1>9 DEF HasEntry, Gone, RefsInv, LinksFit
<1>11. \A u \in Threads : \A o : Owns(u, o)' <=> Owns(u, o) \/ (u = t /\ o = x /\ Gone(x) # {})
  <2>1. ASSUME NEW u \in Threads, u # t, NEW o PROVE Owns(u, o)' <=> Owns(u, o)
    BY <1>2, <1>5, <2>1 DEF Owns, Making, Freeing
  <2>2. \A o : ~Making(t, o) /\ ~Making(t, o)' BY <1>1, <1>2 DEF Making
  <2>3. ASSUME NEW o PROVE Freeing(t, o)' <=> Freeing(t, o) \/ (o = x /\ Gone(x) # {})
    <3>1. ASSUME Freeing(t, o) PROVE Freeing(t, o)' BY <1>5, <3>1 DEF Freeing
    <3>2. ASSUME o = x, NEW e \in Gone(x) PROVE Freeing(t, o)'
      <4>1. last \in DOMAIN frames'[t] /\ frames'[t][last].obj = o BY <1>5, <1>9, <3>2
      <4>2. QED BY <4>1 DEF Freeing
    <3>3. ASSUME Freeing(t, o)', ~Freeing(t, o) PROVE o = x /\ Gone(x) # {}
      <4>1. PICK n \in DOMAIN frames'[t] : frames'[t][n].obj = o BY <3>3 DEF Freeing
      <4>2. n \notin DOMAIN frames[t] BY <1>5, <3>3, <4>1 DEF Freeing
      <4>3. PICK e \in Gone(x) : n = last BY <1>5, <4>1, <4>2
      <4>4. QED BY <1>5, <1>9, <4>1, <4>3
    <3>4. QED BY <3>1, <3>2, <3>3
  <2>4. QED BY <2>1, <2>2, <2>3 DEF Owns
<1>12. OwnersFit'
  <2>0. OwnersFit BY DEF RefsInv
  <2>1. \A o \in Objects : heap'[o] = "free" => ~HasEntry(o)' BY <1>10, <2>0 DEF OwnersFit
  <2>2. ASSUME NEW o \in Objects, heap'[o] # "free", ~HasEntry(o)'
        PROVE \E u \in Threads : Owns(u, o)'
    BY <1>10, <1>11, <2>0, <2>2 DEF OwnersFit
  <2>3. ASSUME NEW u \in Threads, NEW o \in Objects, Owns(u, o)'
        PROVE ~HasEntry(o)' /\ heap'[o] # "free"
    <3>1. CASE Owns(u, o) BY <1>10, <2>0, <3>1 DEF OwnersFit
    <3>2. CASE o = x /\ Gone(x) # {} BY <1>9, <1>10, <2>0, <3>2 DEF OwnersFit
    <3>3. QED BY <1>11, <2>3, <3>1, <3>2
  <2>4. ASSUME NEW u \in Threads, NEW v \in Threads, NEW o \in Objects, Owns(u, o)', Owns(v, o)'
        PROVE u = v
    <3>1. HasEntry(x) \/ Gone(x) = {} BY <1>9
    <3>2. o = x /\ Gone(x) # {} => ~Owns(u, o) /\ ~Owns(v, o) BY <2>0, <3>1 DEF OwnersFit
    <3>3. QED BY <1>11, <2>0, <2>4, <3>2 DEF OwnersFit
  <2>5. QED BY <2>1, <2>2, <2>3, <2>4 DEF OwnersFit
<1>13. OneAccess'
  <2>1. \A u \in Threads : call'[u].at \in {"store", "get"} => u # t /\ call'[u] = call[u]
    BY <1>1, <1>2
  <2>2. QED BY <2>1 DEF RefsInv, OneAccess
<1>14. \A u \in Threads : \A e : Hand(u, e)' <=> Hand(u, e)
  BY <1>1, <1>2 DEF Hand
<1>15. \A u \in Threads : \A n, e :
         OnFrame(u, n, e)' <=> OnFrame(u, n, e) \/ (u = t /\ n = last /\ e \in Gone(x))
  <2>1. ASSUME NEW u \in Threads, u # t, NEW n, NEW e PROVE OnFrame(u, n, e)' <=> OnFrame(u, n, e)
    BY <1>5, <2>1 DEF OnFrame
  <2>2. ASSUME NEW n, NEW e
        PROVE  OnFrame(t, n, e)' <=> OnFrame(t, n, e) \/ (n = last /\ e \in Gone(x))
    BY <1>5, <1>9 DEF OnFrame
  <2>3. QED BY <2>1, <2>2
<1>16. RecordsFit'
  <2>0. RecordsFit /\ \A u \in Threads : \A e \in chain : ~Hand(u, e)
    BY DEF RefsInv, CallFits, LinkFits, Hand
  <2>1. \A e \in freeEntries' : e \notin chain' BY <1>3, <2>0 DEF RecordsFit
  <2>2. \A e \in Pool : e \in freeEntries' \/ e \in chain' \/ \E u \in Threads : Hand(u, e)'
    BY <1>3, <1>14, <2>0 DEF RecordsFit
  <2>3. \A e \in Entries : \A u, v \in Threads : Hand(u, e)' /\ Hand(v, e)' => u = v
    BY <1>14, <2>0 DEF RecordsFit
  <2>a. \A u \in Threads : \A n, e : OnFrame(u, n, e)' => n \in DOMAIN frames'[u] BY DEF OnFrame
  <2>b. \A u \in Threads : \A n, e : OnFrame(u, n, e) => n \in DOMAIN frames[u] BY DEF OnFrame
  <2>c. \A u \in Threads : \A n, e : OnFrame(u, n, e) => OnFrame(u, n, e)' BY <1>15
  <2>d. \A e \in Gone(x) : e \in chain /\ e \notin chain' /\ OnFrame(t, last, e)' BY <1>3, <1>9, <1>15
  <2>4. ASSUME NEW e \in HeapEntries
        PROVE e \in malloced' <=>
                e \in chain' \/ \E u \in Threads : Hand(u, e)' \/ \E n \in DOMAIN frames'[u] : OnFrame(u, n, e)'
    <3>0. e \in malloced <=>
            e \in chain \/ \E u \in Threads : Hand(u, e) \/ \E n \in DOMAIN frames[u] : OnFrame(u, n, e)
      BY <2>0 DEF RecordsFit
    <3>1. CASE e \in Gone(x) BY <1>3, <2>a, <2>d, <3>0, <3>1
    <3>2. CASE e \notin Gone(x)
      <4>1. e \in chain' <=> e \in chain BY <1>3, <3>2
      <4>2. \A u \in Threads : (\E n \in DOMAIN frames'[u] : OnFrame(u, n, e)')
                              <=> \E n \in DOMAIN frames[u] : OnFrame(u, n, e)
        BY <1>15, <2>a, <2>b, <3>2
      <4>3. QED BY <1>3, <1>14, <3>0, <4>1, <4>2
    <3>3. QED BY <3>1, <3>2
  <2>5. ASSUME NEW e \in HeapEntries, NEW u \in Threads, NEW n \in DOMAIN frames'[u], OnFrame(u, n, e)'
        PROVE /\ e \notin chain' /\ \A v \in Threads : ~Hand(v, e)'
              /\ \A v \in Threads : \A m \in DOMAIN frames'[v] : OnFrame(v, m, e)' => u = v /\ n = m
    <3>1. CASE e \in Gone(x)
      <4>1. \A v \in Threads : \A m : ~OnFrame(v, m, e) BY <2>0, <2>b, <2>d, <3>1 DEF RecordsFit
      <4>2. QED BY <1>14, <1>15, <2>0, <2>5, <2>d, <3>1, <4>1
    <3>2. CASE e \notin Gone(x)
      <4>1. OnFrame(u, n, e) /\ n \in DOMAIN frames[u] BY <1>15, <2>5, <2>b, <3>2
      <4>2. /\ e \notin chain /\ \A v \in Threads : ~Hand(v, e)
            /\ \A v \in Threads : \A m \in DOMAIN frames[v] : OnFrame(v, m, e) => u = v /\ n = m
        BY <2>0, <4>1 DEF RecordsFit
      <4>3. \A v \in Threads : \A m : OnFrame(v, m, e)' => OnFrame(v, m, e) /\ m \in DOMAIN frames[v]
        BY <1>15, <2>b, <3>2
      <4>4. QED BY <1>3, <1>14, <4>2, <4>3
    <3>3. QED BY <3>1, <3>2
  <2>6. QED BY <2>1, <2>2, <2>3, <2>4, <2>5 DEF RecordsFit
<1>17. FramesFit(t)'
  <2>0. FramesFit(t) BY DEF RefsInv
  <2>1. call'[t].at = "free" <=> frames'[t] # <<>> BY <1>1, <1>2
  <2>2. \A n \in DOMAIN frames[t] : frames[t][n].obj # x \/ Gone(x) = {}
    <3>1. \A n \in DOMAIN frames[t] : Owns(t, frames[t][n].obj) BY DEF Owns, Freeing
    <3>2. Gone(x) # {} => ~Owns(t, x) BY <1>9 DEF RefsInv, OwnersFit
    <3>3. QED BY <3>1, <3>2
  <2>3. ASSUME NEW n \in DOMAIN frames'[t]
        PROVE \/ n \in DOMAIN frames[t] /\ frames'[t][n] = frames[t][n]
              \/ n = last /\ Gone(x) # {} /\ frames'[t][n].obj = x /\ frames'[t][n].kind = heap[x]
    BY <1>5, <1>9, <2>3
  <2>4. \A n \in DOMAIN frames'[t] : frames'[t][n].kind = heap'[frames'[t][n].obj]
    BY <2>0, <2>3 DEF FramesFit
  <2>5. \A m, n \in DOMAIN frames'[t] : frames'[t][m].obj = frames'[t][n].obj => m = n
    <3>1. ASSUME NEW m \in DOMAIN frames'[t], NEW n \in DOMAIN frames'[t],
                 frames'[t][m].obj = frames'[t][n].obj, m # n
          PROVE FALSE
      <4>1. m \in DOMAIN frames[t] /\ n \in DOMAIN frames[t] BY <2>2, <2>3, <3>1
      <4>2. frames'[t][m] = frames[t][m] /\ frames'[t][n] = frames[t][n] BY <1>5, <4>1
      <4>3. QED BY <2>0, <3>1, <4>1, <4>2 DEF FramesFit
    <3>2. QED BY <3>1
  <2>6. QED BY <2>1, <2>4, <2>5 DEF FramesFit
<1>18. CallFits(t)'
  BY <1>1, <1>2 DEF CallFits, FillFits, MakeFits, LinkFits, AccessFits, GetFits
<1>19. Gentle(t)
  <2>1. \A u \in Threads \ {t} : call'[u] = call[u] /\ frames'[u] = frames[u] /\ heldLocal'[u] = heldLocal[u]
    BY <1>2, <1>5
  <2>2. \A e \in chain' : e \in chain BY <1>3
  <2>3. \A e \in freeEntries' : e \in freeEntries \/ e \in chain BY <1>3, <1>9
  <2>4. \A o \in Objects : heap'[o] = heap[o] OBVIOUS
  <2>5. \A e \in Entries : entryObj'[e] = entryObj[e] /\ kind'[e] = kind[e] BY <1>3
  <2>6. QED BY <2>1, <2>2, <2>3, <2>4, <2>5 DEF Gentle
<1>20. QED BY <1>6, <1>7, <1>8, <1>12, <1>13, <1>16, <1>17, <1>18, <1>19, StepKeeps

\* The counts after a step that changes the references on x alone.
CountedRight(x) ==
  /\ localRefs' \in [Entries -> Nat] /\ globalRefs' \in [Entries -> Nat]
  /\ \A e \in Entries : e \notin chain => localRefs'[e] = localRefs[e] /\ globalRefs'[e] = globalRefs[e]
  /\ \A o \in Objects :
       o # x => LocalReferences(o)' = LocalReferences(o) /\ GlobalReferences(o)' = GlobalReferences(o)
  /\ \A e \in chain :
       /\ entryObj[e] # x => localRefs'[e] = localRefs[e] /\ globalRefs'[e] = globalRefs[e]
       /\ entryObj[e] = x => localRefs'[e] = LocalReferences(x)' /\ globalRefs'[e] = GlobalReferences(x)'

LEMMA GlobalDown ==
  ASSUME RefsInv, RefTypes, NEW x \in Objects \cup {Null}, x # Null => GlobalReferences(x) > 0,
         localRefs' = localRefs, globalRefs' = Drop(globalRefs, x),
         \A o \in Objects : /\ LocalReferences(o)' = LocalReferences(o)
                            /\ GlobalReferences(o)' + Bit(o = x) = GlobalReferences(o)
                            /\ GlobalReferences(o)' \in Nat
  PROVE CountedRight(x)
<1>1. /\ localRefs \in [Entries -> Nat] /\ globalRefs \in [Entries -> Nat] /\ chain \subseteq Entries
  BY DEF RefTypes
<1>2. /\ globalRefs' \in [Entries -> Nat]
      /\ \A e \in Entries : e \notin chain => globalRefs'[e] = globalRefs[e]
      /\ \A e \in Entries : e \in chain =>
           globalRefs'[e] = IF entryObj[e] = x /\ globalRefs[e] > 0 THEN globalRefs[e] - 1 ELSE globalRefs[e]
  BY <1>1, Dropped
<1>3. \A o \in Objects : o # x => GlobalReferences(o)' = GlobalReferences(o) BY DEF Bit
<1>4. ASSUME NEW e \in chain, entryObj[e] = x
      PROVE localRefs'[e] = LocalReferences(x)' /\ globalRefs'[e] = GlobalReferences(x)'
  <2>1. x \in Objects /\ x # Null BY <1>4, JniAssumption DEF RefsInv, LinksFit
  <2>2. localRefs[e] = LocalReferences(x) /\ globalRefs[e] = GlobalReferences(x)
    BY <1>4 DEF RefsInv, CountsFit
  <2>3. globalRefs'[e] = globalRefs[e] - 1 BY <1>1, <1>2, <1>4, <2>1, <2>2
  <2>4. GlobalReferences(x)' + 1 = GlobalReferences(x) /\ GlobalReferences(x)' \in Nat BY <2>1 DEF Bit
  <2>5. QED BY <2>1, <2>2, <2>3, <2>4
<1>5. QED BY <1>1, <1>2, <1>3, <1>4 DEF CountedRight

LEMMA LocalDown ==
  ASSUME RefsInv, RefTypes, NEW x \in Objects \cup {Null}, x # Null => LocalReferences(x) > 0,
         globalRefs' = globalRefs, localRefs' = Drop(localRefs, x),
         \A o \in Objects : /\ GlobalReferences(o)' = GlobalReferences(o)
                            /\ LocalReferences(o)' + Bit(o = x) = LocalReferences(o)
                            /\ LocalReferences(o)' \in Nat
  PROVE CountedRight(x)
<1>1. /\ localRefs \in [Entries -> Nat] /\ globalRefs \in [Entries -> Nat] /\ chain \subseteq Entries
  BY DEF RefTypes
<1>2. /\ localRefs' \in [Entries -> Nat]
      /\ \A e \in Entries : e \notin chain => localRefs'[e] = localRefs[e]
      /\ \A e \in Entries : e \in chain =>
           localRefs'[e] = IF entryObj[e] = x /\ localRefs[e] > 0 THEN localRefs[e] - 1 ELSE localRefs[e]
  BY <1>1, Dropped
<1>3. \A o \in Objects : o # x => LocalReferences(o)' = LocalReferences(o) BY DEF Bit
<1>4. ASSUME NEW e \in chain, entryObj[e] = x
      PROVE localRefs'[e] = LocalReferences(x)' /\ globalRefs'[e] = GlobalReferences(x)'
  <2>1. x \in Objects /\ x # Null BY <1>4, JniAssumption DEF RefsInv, LinksFit
  <2>2. localRefs[e] = LocalReferences(x) /\ globalRefs[e] = GlobalReferences(x)
    BY <1>4 DEF RefsInv, CountsFit
  <2>3. localRefs'[e] = localRefs[e] - 1 BY <1>1, <1>2, <1>4, <2>1, <2>2
  <2>4. LocalReferences(x)' + 1 = LocalReferences(x) /\ LocalReferences(x)' \in Nat BY <2>1 DEF Bit
  <2>5. QED BY <2>1, <2>2, <2>3, <2>4
<1>5. QED BY <1>1, <1>2, <1>3, <1>4 DEF CountedRight

LEMMA UnlinkCall ==
  ASSUME RefsInv, NEW t \in Threads, NEW x, Unlinks(t, x)
  PROVE /\ call'[t].at \in {"idle", "free"} /\ \A u \in Threads \ {t} : call'[u] = call[u]
        /\ \A o : /\ Cardinality(StoresOf(call, o)) \in Nat /\ Cardinality(StoresOf(call', o)) \in Nat
                  /\ Cardinality(StoresOf(call', o)) + Bit(call[t].at = "store" /\ call[t].val = o)
                       = Cardinality(StoresOf(call, o))
<1>1. PICK label \in {"idle", "free"} : GoOn(t, label)
  <2>1. GoOn(t, IF frames'[t] = <<>> THEN "idle" ELSE "free") BY DEF Unlinks
  <2>2. CASE frames'[t] = <<>> BY <2>1, <2>2
  <2>3. CASE frames'[t] # <<>> BY <2>1, <2>3
  <2>4. QED BY <2>2, <2>3
<1>2. call'[t].at = label /\ \A u \in Threads \ {t} : call'[u] = call[u]
  <2>1. RefTypes /\ label \in Labels BY DEF RefsInv, Labels
  <2>2. QED BY <1>1, <2>1, Goes
<1>3. ASSUME NEW o
      PROVE /\ Cardinality(StoresOf(call, o)) \in Nat /\ Cardinality(StoresOf(call', o)) \in Nat
            /\ Cardinality(StoresOf(call', o)) + Bit(call[t].at = "store" /\ call[t].val = o)
                 = Cardinality(StoresOf(call, o))
  <2>1. PICK c, c2 : c = call /\ c2 = call' OBVIOUS
  <2>2. \A u \in Threads \ {t} : c2[u].at = c[u].at /\ c2[u].val = c[u].val BY <1>2, <2>1
  <2>3. /\ Cardinality(StoresOf(c, o)) \in Nat /\ Cardinality(StoresOf(c2, o)) \in Nat
        /\ Cardinality(StoresOf(c2, o)) + Bit(c[t].at = "store" /\ c[t].val = o)
             = Cardinality(StoresOf(c, o)) + Bit(c2[t].at = "store" /\ c2[t].val = o)
    <3>1. Cardinality(StoresOf(c, o)) \in Nat BY <2>2, StoreCount
    <3>2. Cardinality(StoresOf(c2, o)) \in Nat BY <2>2, StoreCount
    <3>3. Cardinality(StoresOf(c2, o)) + Bit(c[t].at = "store" /\ c[t].val = o)
            = Cardinality(StoresOf(c, o)) + Bit(c2[t].at = "store" /\ c2[t].val = o)
      BY <2>2, <3>1, <3>2, StoreCount DEF Bit
    <3>4. QED BY <3>1, <3>2, <3>3
  <2>4. Bit(c2[t].at = "store" /\ c2[t].val = o) = 0 BY <1>2, <2>1 DEF Bit
  <2>5. QED BY <2>1, <2>3, <2>4
<1>4. QED BY <1>2, <1>3

LEMMA DeleteLocalRefKeeps ==
  ASSUME RefsInv, NEW t \in Threads, NEW o \in Objects, DeleteLocalRef(t, o)
  PROVE RefsInv'
<1>1. /\ call[t].at = "idle" /\ heldLocal[t][o] > 0
      /\ heldLocal' = [heldLocal EXCEPT ![t][o] = @ - 1]
      /\ Release(t, o, Drop(localRefs, o), globalRefs)
      /\ heap' = heap /\ elem' = elem /\ heldGlobal' = heldGlobal
  BY DEF DeleteLocalRef
<1>2. /\ heldLocal \in [Threads -> [Objects -> 0 .. MaxRefs]] /\ heldGlobal \in [Objects -> 0 .. MaxRefs]
      /\ elem \in [Objects -> [Indices -> Objects \cup {Null}]] /\ RefTypes
      /\ heap \in [Objects -> {"free", "plain", "array"}]
  BY DEF RefsInv, RefTypes
<1>3. Unlinks(t, o) BY <1>1, ReleaseUnlinks
<1>4. localRefs' = Drop(localRefs, o) /\ globalRefs' = globalRefs BY <1>1 DEF Release
<1>5. /\ heldLocal[t][o] \in 1 .. MaxRefs /\ heldLocal'[t][o] = heldLocal[t][o] - 1
      /\ \A u \in Threads : \A p \in Objects : <<u, p>> # <<t, o>> => heldLocal[u][p] = heldLocal'[u][p]
      /\ heldLocal' \in [Threads -> [Objects -> 0 .. MaxRefs]]
      /\ \A u \in Threads \ {t} : heldLocal'[u] = heldLocal[u]
  <2>1. heldLocal[t] \in [Objects -> 0 .. MaxRefs] /\ heldLocal[t][o] \in 1 .. MaxRefs
    BY <1>1, <1>2, JniAssumption
  <2>2. heldLocal'[t] = [heldLocal[t] EXCEPT ![o] = @ - 1] BY <1>1, <1>2
  <2>3. heldLocal'[t] \in [Objects -> 0 .. MaxRefs] BY <2>1, <2>2, JniAssumption
  <2>4. QED BY <1>1, <1>2, <2>1, <2>2, <2>3
<1>6. ASSUME NEW p \in Objects
      PROVE /\ LocalReferences(p)' + Bit(p = o) = LocalReferences(p) /\ LocalReferences(p)' \in Nat
            /\ GlobalReferences(p)' = GlobalReferences(p)
  <2>1. PICK h, h2 : h = heldLocal' /\ h2 = heldLocal OBVIOUS
  <2>2. Cardinality(HoldsOf(h2, p)) = Cardinality(HoldsOf(h, p)) + Bit(p = o)
    <3>1. h[t][o] \in Nat /\ h[t][o] < MaxRefs /\ h2[t][o] = h[t][o] + 1 BY <1>5, <2>1, JniAssumption
    <3>2. \A u \in Threads : \A q \in Objects : <<u, q>> # <<t, o>> => h2[u][q] = h[u][q] BY <1>5, <2>1
    <3>3. Cardinality(HoldsOf(h, p)) \in Nat /\ Cardinality(HoldsOf(h2, p)) \in Nat
      BY FiniteCounts, FS_CardinalityType
    <3>4. QED BY <3>1, <3>2, <3>3, LocalCount DEF Bit
  <2>3. LocalReferences(p) = Cardinality(HoldsOf(h2, p)) /\ LocalReferences(p)' = Cardinality(HoldsOf(h, p))
        /\ LocalReferences(p)' \in Nat
    BY <2>1, References, References1
  <2>4. GlobalReferences(p)' = GlobalReferences(p)
    <3>1. Cardinality(StoresOf(call', p)) = Cardinality(StoresOf(call, p))
      <4>1. ~(call[t].at = "store" /\ call[t].val = p) BY <1>1
      <4>2. QED BY <1>3, <4>1, UnlinkCall DEF Bit
    <3>2. QED BY <1>1, <3>1, References, References1
  <2>5. QED BY <2>2, <2>3, <2>4
<1>7. LocalReferences(o) > 0 /\ HasEntry(o)
  BY <1>1, ReferredIsCounted, ReferredHasEntry DEF Holds
<1>8. CountedRight(o) BY <1>2, <1>4, <1>6, <1>7, LocalDown
<1>9. ElementsFit' BY <1>1 DEF RefsInv, ElementsFit
<1>10. QED BY <1>1, <1>2, <1>3, <1>5, <1>7, <1>8, <1>9, UnlinkKeeps DEF CountedRight

LEMMA DeleteGlobalRefKeeps ==
  ASSUME RefsInv, NEW t \in Threads, NEW o \in Objects, DeleteGlobalRef(t, o)
  PROVE RefsInv'
<1>1. /\ call[t].at = "idle" /\ heldGlobal[o] > 0 /\ ~InCall(o)
      /\ heldGlobal' = [heldGlobal EXCEPT ![o] = @ - 1]
      /\ Release(t, o, localRefs, Drop(globalRefs, o))
      /\ heap' = heap /\ elem' = elem /\ heldLocal' = heldLocal
  BY DEF DeleteGlobalRef
<1>2. /\ heldLocal \in [Threads -> [Objects -> 0 .. MaxRefs]] /\ heldGlobal \in [Objects -> 0 .. MaxRefs]
      /\ elem \in [Objects -> [Indices -> Objects \cup {Null}]] /\ RefTypes
      /\ heap \in [Objects -> {"free", "plain", "array"}]
  BY DEF RefsInv, RefTypes
<1>3. Unlinks(t, o) BY <1>1, ReleaseUnlinks
<1>4. localRefs' = localRefs /\ globalRefs' = Drop(globalRefs, o) BY <1>1 DEF Release
<1>5. /\ heldGlobal[o] \in 1 .. MaxRefs /\ heldGlobal'[o] = heldGlobal[o] - 1
      /\ \A p \in Objects \ {o} : heldGlobal'[p] = heldGlobal[p]
      /\ heldGlobal' \in [Objects -> 0 .. MaxRefs]
  BY <1>1, <1>2, JniAssumption
<1>6. ASSUME NEW p \in Objects
      PROVE /\ LocalReferences(p)' = LocalReferences(p)
            /\ GlobalReferences(p)' + Bit(p = o) = GlobalReferences(p) /\ GlobalReferences(p)' \in Nat
  <2>1. LocalReferences(p)' = LocalReferences(p) BY <1>1, References, References1
  <2>2. Cardinality(StoresOf(call', p)) = Cardinality(StoresOf(call, p))
    <3>1. ~(call[t].at = "store" /\ call[t].val = p) BY <1>1
    <3>2. QED BY <1>3, <3>1, UnlinkCall DEF Bit
  <2>3. heldGlobal'[p] + Bit(p = o) = heldGlobal[p] /\ heldGlobal[p] \in Nat /\ heldGlobal'[p] \in Nat
    BY <1>2, <1>5, JniAssumption DEF Bit
  <2>4. /\ GlobalReferences(p) = heldGlobal[p] + Cardinality(SlotsOf(elem, p)) + Cardinality(StoresOf(call, p))
        /\ GlobalReferences(p)' = heldGlobal'[p] + Cardinality(SlotsOf(elem', p)) + Cardinality(StoresOf(call', p))
        /\ Cardinality(SlotsOf(elem, p)) \in Nat /\ Cardinality(StoresOf(call, p)) \in Nat
    BY References, References1
  <2>5. Bit(p = o) \in Nat BY DEF Bit
  <2>6. QED BY <1>1, <2>1, <2>2, <2>3, <2>4, <2>5
<1>7. GlobalReferences(o) > 0 /\ HasEntry(o)
  BY <1>1, ReferredIsCounted, ReferredHasEntry DEF Holds
<1>8. CountedRight(o) BY <1>2, <1>4, <1>6, <1>7, GlobalDown
<1>9. ElementsFit' BY <1>1 DEF RefsInv, ElementsFit
<1>10. \A p \in Objects : heldGlobal[p] > 0 => heldGlobal'[p] > 0 \/ ~InCall(p)
  BY <1>1, <1>5
<1>11. QED BY <1>1, <1>2, <1>3, <1>5, <1>7, <1>8, <1>9, <1>10, UnlinkKeeps DEF CountedRight

\* A release of the old element a[i], which v takes the place of: how the elements count.
LEMMA ElementMoves ==
  ASSUME NEW a \in Objects, NEW i \in Indices, NEW v, elem'[a][i] = v,
         \A b \in Objects : \A j \in Indices : <<b, j>> # <<a, i>> => elem'[b][j] = elem[b][j],
         NEW o \in Objects
  PROVE /\ Cardinality(SlotsOf(elem, o)) \in Nat /\ Cardinality(SlotsOf(elem', o)) \in Nat
        /\ Cardinality(SlotsOf(elem', o)) + Bit(elem[a][i] = o) = Cardinality(SlotsOf(elem, o)) + Bit(v = o)
<1> DEFINE slot == <<a, i>>
           S == SlotsOf(elem, o)
           S2 == SlotsOf(elem', o)
<1>1. ASSUME NEW s \in Objects \X Indices, s # slot PROVE s \in S2 <=> s \in S
  <2>1. PICK b \in Objects, j \in Indices : s = <<b, j>> OBVIOUS
  <2>2. elem'[b][j] = elem[b][j] BY <1>1, <2>1
  <2>3. QED BY <2>1, <2>2 DEF SlotsOf
<1>2. S \ {slot} = S2 \ {slot} BY <1>1 DEF SlotsOf
<1>3. (slot \in S <=> elem[a][i] = o) /\ (slot \in S2 <=> v = o)
  BY DEF SlotsOf
<1>4. IsFiniteSet(S) /\ IsFiniteSet(S2) BY FiniteCounts
<1> HIDE DEF slot, S, S2
<1>5. Cardinality(S) \in Nat /\ Cardinality(S2) \in Nat BY <1>4, FS_CardinalityType
<1>6. Cardinality(S2) + Bit(slot \in S) = Cardinality(S) + Bit(slot \in S2)
  BY <1>2, <1>4, <1>5, CountOne DEF Bit
<1>7. Cardinality(S2) + Bit(elem[a][i] = o) = Cardinality(S) + Bit(v = o)
  BY <1>3, <1>5, <1>6 DEF Bit
<1>8. QED BY <1>5, <1>7 DEF S, S2


\* The frame that a call destroys at present.
LEMMA TheInnermost ==
  ASSUME RefsInv, NEW t \in Threads, call[t].at = "free"
  PROVE /\ Len(frames[t]) \in DOMAIN frames[t] /\ frames[t] # <<>> /\ frames[t] \in Seq(FrameRecords)
        /\ Innermost(t) = frames[t][Len(frames[t])]
        /\ Innermost(t) \in FrameRecords /\ Owns(t, Innermost(t).obj)
        /\ heap[Innermost(t).obj] = Innermost(t).kind
<1>1. frames[t] # <<>> /\ frames[t] \in Seq(FrameRecords) BY DEF RefsInv, RefTypes, FramesFit
<1>2. Len(frames[t]) \in DOMAIN frames[t] /\ frames[t][Len(frames[t])] \in FrameRecords
  BY <1>1, FramesAre
<1>3. Owns(t, Innermost(t).obj) BY <1>2 DEF Owns, Freeing, Innermost
<1>4. heap[Innermost(t).obj] = Innermost(t).kind BY <1>2 DEF RefsInv, FramesFit, Innermost
<1>5. QED BY <1>1, <1>2, <1>3, <1>4 DEF Innermost

LEMMA FreeMemberKeeps ==
  ASSUME RefsInv, NEW t \in Threads, FreeMember(t)
  PROVE RefsInv'
<1>1. call[t].at = "free" /\ HasMembers(Innermost(t)) BY DEF FreeMember
<1>2. PICK a \in Objects : a = Innermost(t).obj BY <1>1, TheInnermost DEF FrameRecords
<1>3. Owns(t, a) BY <1>1, <1>2, TheInnermost
<1>4. PICK i : i = NextMember(a) OBVIOUS
<1>5. i \in Indices /\ elem[a][i] # Null
  <2> DEFINE T == {j \in Indices : elem[a][j] # Null}
  <2>1. T \in SUBSET Nat /\ \A j \in T : j \in 1 .. Length BY DEF Indices
  <2>2. \E k : k \in T BY <1>1, <1>2 DEF HasMembers
  <2>3. PICK n \in T : \A m \in T : n =< m BY <2>1, <2>2, Least
  <2>4. \A j \in 1 .. n - 1 : elem[a][j] = Null
    <3>1. SUFFICES ASSUME NEW j \in 1 .. n - 1, elem[a][j] # Null PROVE FALSE OBVIOUS
    <3>2. n \in 1 .. Length BY <2>1
    <3>3. j \in T BY <3>1, <3>2, JniAssumption DEF Indices
    <3>4. QED BY <2>3, <3>1, <3>2, <3>3, JniAssumption
  <2>5. \E k \in Indices : elem[a][k] # Null /\ \A j \in 1 .. k - 1 : elem[a][j] = Null
    BY <2>3, <2>4
  <2>6. QED BY <1>4, <2>5 DEF NextMember
<1>6. PICK x \in Objects : x = elem[a][i] BY <1>5 DEF RefsInv, RefTypes
<1>7. /\ elem' = [elem EXCEPT ![a][i] = Null]
      /\ Release(t, x, localRefs, Drop(globalRefs, x))
      /\ heap' = heap /\ heldLocal' = heldLocal /\ heldGlobal' = heldGlobal
  BY <1>2, <1>4, <1>6 DEF FreeMember, heldVars
<1>8. /\ heldLocal \in [Threads -> [Objects -> 0 .. MaxRefs]] /\ heldGlobal \in [Objects -> 0 .. MaxRefs]
      /\ elem \in [Objects -> [Indices -> Objects \cup {Null}]] /\ RefTypes
  BY DEF RefsInv, RefTypes
<1>9. Unlinks(t, x) BY <1>7, ReleaseUnlinks
<1>10. localRefs' = localRefs /\ globalRefs' = Drop(globalRefs, x) BY <1>7 DEF Release
<1>11. /\ elem' \in [Objects -> [Indices -> Objects \cup {Null}]]
       /\ \A b \in Objects \ {a} : elem'[b] = elem[b]
       /\ \A b \in Objects : \A j \in Indices : elem'[b][j] # Null => elem[b][j] # Null
       /\ elem'[a][i] = Null
       /\ \A b \in Objects : \A j \in Indices : <<b, j>> # <<a, i>> => elem'[b][j] = elem[b][j]
  <2>1. elem[a] \in [Indices -> Objects \cup {Null}] /\ elem'[a] = [elem[a] EXCEPT ![i] = Null]
    BY <1>7, <1>8
  <2>2. elem'[a] \in [Indices -> Objects \cup {Null}] BY <2>1
  <2>3. \A b \in Objects \ {a} : elem'[b] = elem[b] BY <1>7, <1>8
  <2>4. elem' \in [Objects -> [Indices -> Objects \cup {Null}]] BY <1>7, <1>8, <2>2, <2>3
  <2>5. QED BY <1>5, <2>1, <2>3, <2>4
<1>12. ASSUME NEW p \in Objects
       PROVE /\ LocalReferences(p)' = LocalReferences(p)
             /\ GlobalReferences(p)' + Bit(p = x) = GlobalReferences(p) /\ GlobalReferences(p)' \in Nat
  <2>1. LocalReferences(p)' = LocalReferences(p) BY <1>7, References, References1
  <2>2. Cardinality(StoresOf(call', p)) = Cardinality(StoresOf(call, p))
    <3>1. ~(call[t].at = "store" /\ call[t].val = p) BY <1>1
    <3>2. QED BY <1>9, <3>1, UnlinkCall DEF Bit
  <2>3. Cardinality(SlotsOf(elem', p)) + Bit(elem[a][i] = p) = Cardinality(SlotsOf(elem, p)) + Bit(Null = p)
    <3>1. Cardinality(SlotsOf(elem', p)) \in Nat /\ Cardinality(SlotsOf(elem, p)) \in Nat
      BY FiniteCounts, FS_CardinalityType
    <3>2. QED BY <1>5, <1>11, <3>1, ElementMoves DEF Bit
  <2>4. /\ GlobalReferences(p) = heldGlobal[p] + Cardinality(SlotsOf(elem, p)) + Cardinality(StoresOf(call, p))
        /\ GlobalReferences(p)' = heldGlobal'[p] + Cardinality(SlotsOf(elem', p)) + Cardinality(StoresOf(call', p))
        /\ Cardinality(SlotsOf(elem, p)) \in Nat /\ Cardinality(StoresOf(call, p)) \in Nat
        /\ Cardinality(SlotsOf(elem', p)) \in Nat
    BY References, References1
  <2>5. Bit(elem[a][i] = p) = Bit(p = x) /\ Bit(p = x) \in Nat /\ Bit(Null = p) = 0
    BY <1>6, JniAssumption DEF Bit
  <2>6. heldGlobal'[p] = heldGlobal[p] /\ heldGlobal[p] \in Nat BY <1>7, <1>8, JniAssumption
  <2>7. QED BY <2>1, <2>2, <2>3, <2>4, <2>5, <2>6
<1>13. GlobalReferences(x) > 0 /\ HasEntry(x)
  BY <1>5, <1>6, ReferredIsCounted, ReferredHasEntry
<1>14. CountedRight(x) BY <1>8, <1>10, <1>12, <1>13, GlobalDown
<1>15. ElementsFit' BY <1>7, <1>11 DEF RefsInv, ElementsFit
<1>16. /\ x # Null /\ HasEntry(x) /\ call[t].at \in {"idle", "free", "store"}
       /\ \A b \in Objects : elem'[b] = elem[b] \/ Owns(t, b) \/ (call[t].at = "store" /\ call[t].arg = b)
  BY <1>1, <1>3, <1>6, <1>11, <1>13, JniAssumption
<1>17. /\ heldLocal' \in [Threads -> [Objects -> 0 .. MaxRefs]]
       /\ heldGlobal' \in [Objects -> 0 .. MaxRefs]
       /\ \A u \in Threads \ {t} : heldLocal'[u] = heldLocal[u]
       /\ \A o \in Objects : heldGlobal[o] > 0 => heldGlobal'[o] > 0 \/ ~InCall(o)
  BY <1>7, <1>8
<1>18. /\ localRefs' \in [Entries -> Nat] /\ globalRefs' \in [Entries -> Nat]
       /\ \A e \in Entries : e \notin chain => localRefs'[e] = localRefs[e] /\ globalRefs'[e] = globalRefs[e]
       /\ \A o \in Objects :
            o # x => LocalReferences(o)' = LocalReferences(o) /\ GlobalReferences(o)' = GlobalReferences(o)
       /\ \A e \in chain :
            /\ entryObj[e] # x => localRefs'[e] = localRefs[e] /\ globalRefs'[e] = globalRefs[e]
            /\ entryObj[e] = x => localRefs'[e] = LocalReferences(x)' /\ globalRefs'[e] = GlobalReferences(x)'
  BY <1>14 DEF CountedRight
<1>19. heap' = heap /\ elem' \in [Objects -> [Indices -> Objects \cup {Null}]] BY <1>7, <1>11
<1>20. QED BY <1>9, <1>15, <1>16, <1>17, <1>18, <1>19, UnlinkKeeps

LEMMA StoreElementKeeps ==
  ASSUME RefsInv, NEW t \in Threads, StoreElement(t)
  PROVE RefsInv'
<1>1. call[t].at = "store" BY DEF StoreElement
<1>2. PICK a \in Objects, i \in Indices, v \in Objects \cup {Null} :
        a = call[t].arg /\ i = call[t].index /\ v = call[t].val
  BY <1>1 DEF RefsInv, RefTypes, CallRecords, CallFits, AccessFits
<1>3. heap[a] = "array" BY <1>1, <1>2 DEF RefsInv, CallFits, AccessFits
<1>4. PICK x \in Objects \cup {Null} : x = elem[a][i] BY <1>2 DEF RefsInv, RefTypes
<1>5. /\ elem' = [elem EXCEPT ![a][i] = v]
      /\ Release(t, x, localRefs, Drop(globalRefs, x))
      /\ heap' = heap /\ heldLocal' = heldLocal /\ heldGlobal' = heldGlobal
  BY <1>2, <1>4 DEF StoreElement, heldVars
<1>6. /\ heldLocal \in [Threads -> [Objects -> 0 .. MaxRefs]] /\ heldGlobal \in [Objects -> 0 .. MaxRefs]
      /\ elem \in [Objects -> [Indices -> Objects \cup {Null}]] /\ RefTypes
  BY DEF RefsInv, RefTypes
<1>7. Unlinks(t, x) BY <1>5, ReleaseUnlinks
<1>8. localRefs' = localRefs /\ globalRefs' = Drop(globalRefs, x) BY <1>5 DEF Release
<1>9. /\ elem' \in [Objects -> [Indices -> Objects \cup {Null}]]
      /\ \A b \in Objects \ {a} : elem'[b] = elem[b]
      /\ elem'[a][i] = v
      /\ \A b \in Objects : \A j \in Indices : <<b, j>> # <<a, i>> => elem'[b][j] = elem[b][j]
  <2>1. elem[a] \in [Indices -> Objects \cup {Null}] /\ elem'[a] = [elem[a] EXCEPT ![i] = v]
    BY <1>5, <1>6
  <2>2. elem'[a] \in [Indices -> Objects \cup {Null}] BY <2>1
  <2>3. \A b \in Objects \ {a} : elem'[b] = elem[b] BY <1>5, <1>6
  <2>4. elem' \in [Objects -> [Indices -> Objects \cup {Null}]] BY <1>5, <1>6, <2>2, <2>3
  <2>5. QED BY <2>1, <2>3, <2>4
<1>10. ASSUME NEW p \in Objects
       PROVE /\ LocalReferences(p)' = LocalReferences(p)
             /\ GlobalReferences(p)' + Bit(p = x) = GlobalReferences(p) /\ GlobalReferences(p)' \in Nat
  <2>1. LocalReferences(p)' = LocalReferences(p) BY <1>5, References, References1
  <2>2. /\ Cardinality(StoresOf(call, p)) \in Nat /\ Cardinality(StoresOf(call', p)) \in Nat
        /\ Cardinality(StoresOf(call', p)) + Bit(v = p) = Cardinality(StoresOf(call, p))
    <3>1. call[t].at = "store" /\ call[t].val = p <=> v = p BY <1>1, <1>2
    <3>2. QED BY <1>7, <3>1, UnlinkCall DEF Bit
  <2>3. Cardinality(SlotsOf(elem', p)) + Bit(elem[a][i] = p) = Cardinality(SlotsOf(elem, p)) + Bit(v = p)
    <3>1. Cardinality(SlotsOf(elem', p)) \in Nat /\ Cardinality(SlotsOf(elem, p)) \in Nat
      BY FiniteCounts, FS_CardinalityType
    <3>2. QED BY <1>9, <3>1, ElementMoves DEF Bit
  <2>4. /\ GlobalReferences(p) = heldGlobal[p] + Cardinality(SlotsOf(elem, p)) + Cardinality(StoresOf(call, p))
        /\ GlobalReferences(p)' = heldGlobal'[p] + Cardinality(SlotsOf(elem', p)) + Cardinality(StoresOf(call', p))
        /\ Cardinality(SlotsOf(elem, p)) \in Nat /\ Cardinality(SlotsOf(elem', p)) \in Nat
    BY References, References1
  <2>5. Bit(elem[a][i] = p) = Bit(p = x) /\ Bit(p = x) \in Nat /\ Bit(v = p) \in Nat
    BY <1>4 DEF Bit
  <2>6. heldGlobal'[p] = heldGlobal[p] /\ heldGlobal[p] \in Nat BY <1>5, <1>6, JniAssumption
  <2>7. QED BY <2>1, <2>2, <2>3, <2>4, <2>5, <2>6
<1>11. x # Null => x \in Objects /\ GlobalReferences(x) > 0 /\ HasEntry(x)
  BY <1>4, ReferredIsCounted, ReferredHasEntry
<1>12. CountedRight(x) BY <1>6, <1>8, <1>10, <1>11, GlobalDown
<1>13. ElementsFit'
  <2>1. \A b \in Objects \ {a} : elem'[b] = elem[b] BY <1>9
  <2>2. QED BY <1>3, <1>5, <2>1 DEF RefsInv, ElementsFit
<1>14. QED BY <1>1, <1>2, <1>5, <1>6, <1>7, <1>9, <1>11, <1>12, <1>13, UnlinkKeeps DEF CountedRight

-----------------------------------------------------------------------------
(* The calls that count a reference, and those that only go on.             *)

LEMMA GlobalUp ==
  ASSUME RefsInv, RefTypes, NEW x \in Objects \cup {Null}, x # Null => HasEntry(x),
         localRefs' = localRefs, globalRefs' = AddRef(globalRefs, x),
         \A o \in Objects : /\ LocalReferences(o)' = LocalReferences(o)
                            /\ GlobalReferences(o)' = GlobalReferences(o) + Bit(o = x)
                            /\ GlobalReferences(o) \in Nat
  PROVE CountedRight(x) /\ Gone(x) = {}
<1>1. /\ localRefs \in [Entries -> Nat] /\ globalRefs \in [Entries -> Nat] /\ chain \subseteq Entries
  BY DEF RefTypes
<1>2. /\ globalRefs' \in [Entries -> Nat]
      /\ \A e \in Entries : e \notin chain => globalRefs'[e] = globalRefs[e]
      /\ \A e \in Entries : e \in chain =>
           globalRefs'[e] = IF entryObj[e] = x THEN globalRefs[e] + 1 ELSE globalRefs[e]
  BY <1>1, Added
<1>3. \A o \in Objects : o # x => GlobalReferences(o)' = GlobalReferences(o) BY DEF Bit
<1>4. ASSUME NEW e \in chain, entryObj[e] = x
      PROVE /\ localRefs'[e] = LocalReferences(x)' /\ globalRefs'[e] = GlobalReferences(x)'
            /\ globalRefs'[e] # 0
  <2>1. x \in Objects /\ x # Null BY <1>4, JniAssumption DEF RefsInv, LinksFit
  <2>2. localRefs[e] = LocalReferences(x) /\ globalRefs[e] = GlobalReferences(x)
    BY <1>4 DEF RefsInv, CountsFit
  <2>3. globalRefs'[e] = globalRefs[e] + 1 /\ globalRefs[e] \in Nat BY <1>1, <1>2, <1>4
  <2>4. GlobalReferences(x)' = GlobalReferences(x) + 1 BY <2>1 DEF Bit
  <2>5. QED BY <2>1, <2>2, <2>3, <2>4
<1>5. QED BY <1>1, <1>2, <1>3, <1>4 DEF CountedRight, Gone

LEMMA LocalUp ==
  ASSUME RefsInv, RefTypes, NEW x \in Objects,
         globalRefs' = globalRefs, localRefs' = AddRef(localRefs, x),
         \A o \in Objects : /\ GlobalReferences(o)' = GlobalReferences(o)
                            /\ LocalReferences(o)' = LocalReferences(o) + Bit(o = x)
                            /\ LocalReferences(o) \in Nat
  PROVE CountedRight(x) /\ Gone(x) = {}
<1>1. /\ localRefs \in [Entries -> Nat] /\ globalRefs \in [Entries -> Nat] /\ chain \subseteq Entries
  BY DEF RefTypes
<1>2. /\ localRefs' \in [Entries -> Nat]
      /\ \A e \in Entries : e \notin chain => localRefs'[e] = localRefs[e]
      /\ \A e \in Entries : e \in chain =>
           localRefs'[e] = IF entryObj[e] = x THEN localRefs[e] + 1 ELSE localRefs[e]
  BY <1>1, Added
<1>3. \A o \in Objects : o # x => LocalReferences(o)' = LocalReferences(o) BY DEF Bit
<1>4. ASSUME NEW e \in chain, entryObj[e] = x
      PROVE /\ localRefs'[e] = LocalReferences(x)' /\ globalRefs'[e] = GlobalReferences(x)'
            /\ localRefs'[e] # 0
  <2>1. x \in Objects OBVIOUS
  <2>2. localRefs[e] = LocalReferences(x) /\ globalRefs[e] = GlobalReferences(x)
    BY <1>4 DEF RefsInv, CountsFit
  <2>3. localRefs'[e] = localRefs[e] + 1 /\ localRefs[e] \in Nat BY <1>1, <1>2, <1>4
  <2>4. LocalReferences(x)' = LocalReferences(x) + 1 BY <2>1 DEF Bit
  <2>5. QED BY <2>1, <2>2, <2>3, <2>4
<1>5. QED BY <1>1, <1>2, <1>3, <1>4 DEF CountedRight, Gone

\* A step that makes, links and destroys nothing.
LEMMA QuietKeeps ==
  ASSUME RefsInv, NEW t \in Threads,
         UNCHANGED <<heap, chain, entryObj, kind, freeEntries, malloced, frames>>,
         \A u \in Threads \ {t} : call'[u] = call[u] /\ heldLocal'[u] = heldLocal[u],
         \/ call[t].at \in {"idle", "store", "get"} /\ call'[t].at \in {"idle", "store", "get"}
         \/ /\ call[t].at \in {"fill", "find", "malloc"} /\ call'[t].at \in {"fill", "find", "malloc"}
            /\ call'[t].arg = call[t].arg,
         \A a \in Objects : elem'[a] = elem[a] \/ Owns(t, a),
         \A e \in Entries : e \notin chain => localRefs'[e] = localRefs[e] /\ globalRefs'[e] = globalRefs[e],
         \A o \in Objects : heldGlobal[o] > 0 => heldGlobal'[o] > 0,
         RefTypes', CountsFit', ElementsFit', OneAccess', CallFits(t)'
  PROVE RefsInv'
<1>1. LinksFit' BY DEF RefsInv, LinksFit
<1>2. /\ \A o : HasEntry(o)' <=> HasEntry(o)
      /\ \A u \in Threads : \A o : Owns(u, o)' <=> Owns(u, o)
  <2>1. \A o : HasEntry(o)' <=> HasEntry(o) BY DEF HasEntry
  <2>2. \A u \in Threads \ {t} : \A o : Making(u, o)' <=> Making(u, o) BY DEF Making
  <2>3. \A o : Making(t, o)' <=> Making(t, o) BY DEF Making
  <2>4. \A u \in Threads : \A o : Freeing(u, o)' <=> Freeing(u, o) BY DEF Freeing
  <2>5. QED BY <2>1, <2>2, <2>3, <2>4 DEF Owns
<1>3. OwnersFit' BY <1>2 DEF RefsInv, OwnersFit
<1>4. RecordsFit'
  <2>1. \A u \in Threads : \A e : Hand(u, e)' <=> Hand(u, e) BY DEF Hand
  <2>2. \A u, n, e : OnFrame(u, n, e)' <=> OnFrame(u, n, e) BY DEF OnFrame
  <2>3. QED BY <2>1, <2>2 DEF RefsInv, RecordsFit
<1>5. FramesFit(t)'
  <2>1. call[t].at # "free" /\ call'[t].at # "free" OBVIOUS
  <2>2. QED BY <2>1 DEF RefsInv, FramesFit
<1>6. Gentle(t) BY DEF Gentle
<1>7. QED BY <1>1, <1>3, <1>4, <1>5, <1>6, StepKeeps

LocalMore(t, o) ==
  /\ heldLocal' \in [Threads -> [Objects -> 0 .. MaxRefs]]
  /\ \A u \in Threads \ {t} : heldLocal'[u] = heldLocal[u]
  /\ \A p \in Objects : /\ LocalReferences(p)' = LocalReferences(p) + Bit(p = o)
                        /\ LocalReferences(p) \in Nat

LEMMA OneLocalMore ==
  ASSUME RefTypes, NEW t \in Threads, NEW o \in Objects, heldLocal[t][o] < MaxRefs,
         heldLocal' = [heldLocal EXCEPT ![t][o] = @ + 1]
  PROVE LocalMore(t, o)
<1>1. heldLocal \in [Threads -> [Objects -> 0 .. MaxRefs]] /\ heldLocal[t] \in [Objects -> 0 .. MaxRefs]
  BY DEF RefTypes
<1>2. heldLocal[t][o] \in Nat BY <1>1, JniAssumption
<1>3. heldLocal'[t] = [heldLocal[t] EXCEPT ![o] = @ + 1] BY <1>1
<1>4. heldLocal'[t] \in [Objects -> 0 .. MaxRefs] /\ heldLocal'[t][o] = heldLocal[t][o] + 1
  BY <1>1, <1>2, <1>3, JniAssumption
<1>5. /\ heldLocal' \in [Threads -> [Objects -> 0 .. MaxRefs]]
      /\ \A u \in Threads \ {t} : heldLocal'[u] = heldLocal[u]
      /\ \A u \in Threads : \A p \in Objects : <<u, p>> # <<t, o>> => heldLocal'[u][p] = heldLocal[u][p]
  BY <1>1, <1>3, <1>4
<1>6. ASSUME NEW p \in Objects
      PROVE LocalReferences(p)' = LocalReferences(p) + Bit(p = o) /\ LocalReferences(p) \in Nat
  <2>1. PICK h, h2 : h = heldLocal /\ h2 = heldLocal' OBVIOUS
  <2>2. Cardinality(HoldsOf(h2, p)) = Cardinality(HoldsOf(h, p)) + Bit(p = o)
    <3>1. h[t][o] \in Nat /\ h[t][o] < MaxRefs /\ h2[t][o] = h[t][o] + 1 BY <1>2, <1>4, <2>1
    <3>2. \A u \in Threads : \A q \in Objects : <<u, q>> # <<t, o>> => h2[u][q] = h[u][q] BY <1>5, <2>1
    <3>3. Cardinality(HoldsOf(h, p)) \in Nat /\ Cardinality(HoldsOf(h2, p)) \in Nat
      BY FiniteCounts, FS_CardinalityType
    <3>4. QED BY <3>1, <3>2, <3>3, LocalCount DEF Bit
  <2>3. LocalReferences(p) = Cardinality(HoldsOf(h, p)) /\ LocalReferences(p)' = Cardinality(HoldsOf(h2, p))
        /\ LocalReferences(p) \in Nat
    BY <2>1, References, References1
  <2>4. QED BY <2>2, <2>3
<1>7. QED BY <1>5, <1>6 DEF LocalMore

LEMMA NewLocalRefKeeps ==
  ASSUME RefsInv, NEW t \in Threads, NEW o \in Objects, NewLocalRef(t, o)
  PROVE RefsInv'
<1>1. /\ call[t].at = "idle" /\ Holds(t, o) /\ heldLocal[t][o] < MaxRefs
      /\ localRefs' = AddRef(localRefs, o)
      /\ heldLocal' = [heldLocal EXCEPT ![t][o] = @ + 1]
      /\ UNCHANGED <<heap, elem, chain, entryObj, kind, globalRefs, freeEntries, malloced, heldGlobal, call, frames>>
  BY DEF NewLocalRef
<1>2. RefTypes /\ HasEntry(o) BY <1>1, ReferredHasEntry DEF RefsInv
<1>3. LocalMore(t, o) BY <1>1, <1>2, OneLocalMore
<1>4. \A p \in Objects : GlobalReferences(p)' = GlobalReferences(p)
  BY <1>1, References, References1
<1>5. CountedRight(o) /\ Gone(o) = {} BY <1>1, <1>2, <1>3, <1>4, LocalUp DEF LocalMore
<1>6. RefTypes' BY <1>1, <1>2, <1>3, <1>5 DEF RefTypes, CountedRight, LocalMore
<1>7. CountsFit' BY <1>1, <1>2, <1>5, <1>6, CountsMove DEF CountedRight
<1>8. ElementsFit' /\ OneAccess' BY <1>1 DEF RefsInv, ElementsFit, OneAccess
<1>9. CallFits(t)' BY <1>1 DEF CallFits, FillFits, MakeFits, LinkFits, AccessFits, GetFits
<1>10. QED BY <1>1, <1>3, <1>5, <1>6, <1>7, <1>8, <1>9, QuietKeeps DEF CountedRight, LocalMore

LEMMA ReturnElementKeeps ==
  ASSUME RefsInv, NEW t \in Threads, ReturnElement(t)
  PROVE RefsInv'
<1>1. call[t].at = "get" BY DEF ReturnElement
<1>2. RefTypes /\ GetFits(t) /\ AccessFits(t) BY DEF RefsInv, CallFits
<1>3. PICK o \in Objects : o = call[t].val BY <1>1, <1>2 DEF GetFits
<1>4. HasEntry(o) /\ heldLocal[t][o] < MaxRefs
  BY <1>1, <1>2, <1>3, ReferredHasEntry DEF GetFits, AccessFits
<1>5. /\ localRefs' = AddRef(localRefs, o)
      /\ heldLocal' = [heldLocal EXCEPT ![t][o] = @ + 1]
      /\ GoOn(t, "idle")
      /\ UNCHANGED <<heap, elem, chain, entryObj, kind, globalRefs, freeEntries, malloced, heldGlobal, frames>>
  BY <1>3 DEF ReturnElement
<1>6. LocalMore(t, o) BY <1>2, <1>4, <1>5, OneLocalMore
<1>7. /\ call' \in [Threads -> CallRecords] /\ call'[t].at = "idle"
      /\ \A u \in Threads \ {t} : call'[u] = call[u]
  <2>1. "idle" \in Labels BY DEF Labels
  <2>2. QED BY <1>2, <1>5, <2>1, Goes
<1>8. \A p \in Objects : GlobalReferences(p)' = GlobalReferences(p)
  BY <1>1, <1>5, <1>7, References, References1, SameStores
<1>9. CountedRight(o) /\ Gone(o) = {} BY <1>2, <1>4, <1>5, <1>6, <1>8, LocalUp DEF LocalMore
<1>10. RefTypes' BY <1>2, <1>5, <1>6, <1>7, <1>9 DEF RefTypes, CountedRight, LocalMore
<1>11. CountsFit' BY <1>4, <1>5, <1>9, <1>10, CountsMove DEF CountedRight
<1>12. ElementsFit' BY <1>5 DEF RefsInv, ElementsFit
<1>13. OneAccess' BY <1>7 DEF RefsInv, OneAccess
<1>14. CallFits(t)' BY <1>7 DEF CallFits, FillFits, MakeFits, LinkFits, AccessFits, GetFits
<1>15. QED BY <1>1, <1>5, <1>6, <1>7, <1>9, <1>10, <1>11, <1>12, <1>13, <1>14, QuietKeeps
         DEF CountedRight, LocalMore

LEMMA NewGlobalRefKeeps ==
  ASSUME RefsInv, NEW t \in Threads, NEW o \in Objects, NewGlobalRef(t, o)
  PROVE RefsInv'
<1>1. /\ call[t].at = "idle" /\ Holds(t, o) /\ heldGlobal[o] < MaxRefs
      /\ globalRefs' = AddRef(globalRefs, o)
      /\ heldGlobal' = [heldGlobal EXCEPT ![o] = @ + 1]
      /\ UNCHANGED <<heap, elem, chain, entryObj, kind, localRefs, freeEntries, malloced, heldLocal, call, frames>>
  BY DEF NewGlobalRef
<1>2. RefTypes /\ HasEntry(o) /\ heldGlobal \in [Objects -> 0 .. MaxRefs]
  BY <1>1, ReferredHasEntry DEF RefsInv, RefTypes
<1>3. /\ heldGlobal' \in [Objects -> 0 .. MaxRefs] /\ heldGlobal[o] \in Nat
      /\ heldGlobal'[o] = heldGlobal[o] + 1 /\ \A p \in Objects \ {o} : heldGlobal'[p] = heldGlobal[p]
  BY <1>1, <1>2, JniAssumption
<1>4. ASSUME NEW p \in Objects
      PROVE /\ LocalReferences(p)' = LocalReferences(p)
            /\ GlobalReferences(p)' = GlobalReferences(p) + Bit(p = o) /\ GlobalReferences(p) \in Nat
  <2>1. LocalReferences(p)' = LocalReferences(p) BY <1>1, References, References1
  <2>2. /\ GlobalReferences(p) = heldGlobal[p] + Cardinality(SlotsOf(elem, p)) + Cardinality(StoresOf(call, p))
        /\ GlobalReferences(p)' = heldGlobal'[p] + Cardinality(SlotsOf(elem', p)) + Cardinality(StoresOf(call', p))
        /\ Cardinality(SlotsOf(elem, p)) \in Nat /\ Cardinality(StoresOf(call, p)) \in Nat
    BY References, References1
  <2>3. heldGlobal'[p] = heldGlobal[p] + Bit(p = o) /\ heldGlobal[p] \in Nat /\ Bit(p = o) \in Nat
    BY <1>2, <1>3, JniAssumption DEF Bit
  <2>4. QED BY <1>1, <2>1, <2>2, <2>3
<1>5. CountedRight(o) /\ Gone(o) = {} BY <1>1, <1>2, <1>4, GlobalUp
<1>6. RefTypes' BY <1>1, <1>2, <1>3, <1>5 DEF RefTypes, CountedRight
<1>7. CountsFit' BY <1>1, <1>2, <1>5, <1>6, CountsMove DEF CountedRight
<1>8. ElementsFit' /\ OneAccess' BY <1>1 DEF RefsInv, ElementsFit, OneAccess
<1>9. CallFits(t)' BY <1>1 DEF CallFits, FillFits, MakeFits, LinkFits, AccessFits, GetFits
<1>10. QED BY <1>1, <1>3, <1>5, <1>6, <1>7, <1>8, <1>9, QuietKeeps DEF CountedRight

LEMMA SetObjectArrayElementKeeps ==
  ASSUME RefsInv, NEW t \in Threads, NEW a \in Objects, NEW i \in Indices,
         NEW v \in Objects \cup {Null}, SetObjectArrayElement(t, a, i, v)
  PROVE RefsInv'
<1>1. /\ MayUse(t, a) /\ (v # Null => Holds(t, v))
      /\ globalRefs' = AddRef(globalRefs, v)
      /\ Call(t, "store", a, i, v)
      /\ UNCHANGED <<heap, elem, chain, entryObj, kind, localRefs, freeEntries, malloced, heldLocal, heldGlobal, frames>>
  BY DEF SetObjectArrayElement, heldVars
<1>2. RefTypes /\ (v # Null => HasEntry(v))
  BY <1>1, ReferredHasEntry DEF RefsInv
<1>3. /\ call' \in [Threads -> CallRecords] /\ call[t].at = "idle"
      /\ call'[t] = [at |-> "store", arg |-> a, index |-> i, val |-> v, entry |-> Null]
      /\ \A u \in Threads \ {t} : call'[u] = call[u]
  <2>1. "store" \in Labels /\ i \in 1 .. Length + 1 BY JniAssumption DEF Labels, Indices
  <2>2. QED BY <1>1, <1>2, <2>1, CallsAre
<1>4. ASSUME NEW p \in Objects
      PROVE /\ LocalReferences(p)' = LocalReferences(p)
            /\ GlobalReferences(p)' = GlobalReferences(p) + Bit(p = v) /\ GlobalReferences(p) \in Nat
  <2>1. LocalReferences(p)' = LocalReferences(p) BY <1>1, References, References1
  <2>2. /\ GlobalReferences(p) = heldGlobal[p] + Cardinality(SlotsOf(elem, p)) + Cardinality(StoresOf(call, p))
        /\ GlobalReferences(p)' = heldGlobal'[p] + Cardinality(SlotsOf(elem', p)) + Cardinality(StoresOf(call', p))
        /\ Cardinality(SlotsOf(elem, p)) \in Nat /\ Cardinality(StoresOf(call, p)) \in Nat
        /\ Cardinality(StoresOf(call', p)) \in Nat
    BY References, References1
  <2>3. heldGlobal[p] \in Nat /\ Bit(p = v) \in Nat BY <1>2, JniAssumption DEF Bit, RefTypes
  <2>4. Cardinality(StoresOf(call', p)) = Cardinality(StoresOf(call, p)) + Bit(p = v)
    <3>1. StoresOf(call, p) \ {t} = StoresOf(call', p) \ {t} BY <1>3 DEF StoresOf
    <3>2. t \notin StoresOf(call, p) /\ (t \in StoresOf(call', p) <=> p = v) BY <1>3 DEF StoresOf
    <3>3. PICK S, S2 : S = StoresOf(call, p) /\ S2 = StoresOf(call', p) OBVIOUS
    <3>4. IsFiniteSet(S) /\ IsFiniteSet(S2) /\ S \ {t} = S2 \ {t} BY <3>1, <3>3, FiniteCounts
    <3>5. Cardinality(S) \in Nat /\ Cardinality(S2) \in Nat BY <3>4, FS_CardinalityType
    <3>6. Cardinality(S2) + Bit(t \in S) = Cardinality(S) + Bit(t \in S2) BY <3>4, <3>5, CountOne DEF Bit
    <3>7. QED BY <3>2, <3>3, <3>5, <3>6 DEF Bit
  <2>5. QED BY <1>1, <2>1, <2>2, <2>3, <2>4
<1>5. CountedRight(v) /\ Gone(v) = {} BY <1>1, <1>2, <1>4, GlobalUp
<1>6. RefTypes' BY <1>1, <1>2, <1>3, <1>5 DEF RefTypes, CountedRight
<1>7. CountsFit' BY <1>1, <1>2, <1>5, <1>6, CountsMove DEF CountedRight
<1>8. ElementsFit' BY <1>1 DEF RefsInv, ElementsFit
<1>9. OneAccess'
  <2>1. \A u \in Threads : call[u].at \in {"store", "get"} => call[u].arg # a BY <1>1 DEF MayUse
  <2>2. QED BY <1>3, <2>1 DEF RefsInv, OneAccess
<1>10. CallFits(t)'
  <2>1. Holds(t, a)' /\ heap'[a] = "array" BY <1>1 DEF MayUse, Holds
  <2>2. QED BY <1>3, <2>1 DEF CallFits, FillFits, MakeFits, LinkFits, AccessFits, GetFits
<1>11. QED BY <1>1, <1>3, <1>5, <1>6, <1>7, <1>8, <1>9, <1>10, QuietKeeps DEF CountedRight

LEMMA GetObjectArrayElementKeeps ==
  ASSUME RefsInv, NEW t \in Threads, NEW a \in Objects, NEW i \in Indices,
         GetObjectArrayElement(t, a, i)
  PROVE RefsInv'
<1>1. PICK v : v = elem[a][i] OBVIOUS
<1>2. /\ MayUse(t, a) /\ v # Null /\ heldLocal[t][v] < MaxRefs
      /\ Call(t, "get", a, i, v)
      /\ UNCHANGED <<heap, elem, chain, entryObj, kind, localRefs, globalRefs, freeEntries, malloced,
                     heldLocal, heldGlobal, frames>>
  BY <1>1 DEF GetObjectArrayElement, entryVars, heldVars
<1>3. RefTypes /\ v \in Objects BY <1>1, <1>2 DEF RefsInv, RefTypes
<1>4. /\ call' \in [Threads -> CallRecords] /\ call[t].at = "idle"
      /\ call'[t] = [at |-> "get", arg |-> a, index |-> i, val |-> v, entry |-> Null]
      /\ \A u \in Threads \ {t} : call'[u] = call[u]
  <2>1. "get" \in Labels /\ i \in 1 .. Length + 1 BY JniAssumption DEF Labels, Indices
  <2>2. QED BY <1>2, <1>3, <2>1, CallsAre
<1>5. CountsFit' BY <1>2, <1>4, CountsStay
<1>6. RefTypes' BY <1>2, <1>3, <1>4 DEF RefTypes
<1>7. ElementsFit' BY <1>2 DEF RefsInv, ElementsFit
<1>8. OneAccess'
  <2>1. \A u \in Threads : call[u].at \in {"store", "get"} => call[u].arg # a BY <1>2 DEF MayUse
  <2>2. QED BY <1>4, <2>1 DEF RefsInv, OneAccess
<1>9. CallFits(t)'
  <2>1. Holds(t, a)' /\ heap'[a] = "array" BY <1>2 DEF MayUse, Holds
  <2>2. QED BY <1>1, <1>2, <1>3, <1>4, <2>1
    DEF CallFits, FillFits, MakeFits, LinkFits, AccessFits, GetFits
<1>10. QED BY <1>2, <1>4, <1>5, <1>6, <1>7, <1>8, <1>9, QuietKeeps

LEMMA PoolIsEmptyKeeps ==
  ASSUME RefsInv, NEW t \in Threads, PoolIsEmpty(t)
  PROVE RefsInv'
<1>1. /\ call[t].at = "find" /\ GoOn(t, "malloc")
      /\ UNCHANGED <<heap, elem, chain, entryObj, kind, localRefs, globalRefs, freeEntries, malloced,
                     heldLocal, heldGlobal, frames>>
  BY DEF PoolIsEmpty, entryVars, heldVars
<1>2. RefTypes /\ call[t].arg \in Objects BY <1>1 DEF RefsInv, CallFits, MakeFits
<1>3. /\ call' \in [Threads -> CallRecords] /\ call'[t].at = "malloc" /\ call'[t].arg = call[t].arg
      /\ \A u \in Threads \ {t} : call'[u] = call[u]
  <2>1. "malloc" \in Labels BY DEF Labels
  <2>2. QED BY <1>1, <1>2, <2>1, Goes
<1>4. CountsFit' BY <1>1, <1>3, CountsStay
<1>5. RefTypes' BY <1>1, <1>2, <1>3 DEF RefTypes
<1>6. ElementsFit' BY <1>1 DEF RefsInv, ElementsFit
<1>7. OneAccess' BY <1>3 DEF RefsInv, OneAccess
<1>8. CallFits(t)' BY <1>2, <1>3 DEF CallFits, FillFits, MakeFits, LinkFits, AccessFits, GetFits
<1>9. QED BY <1>1, <1>3, <1>4, <1>5, <1>6, <1>7, <1>8, QuietKeeps

LEMMA FillElementKeeps ==
  ASSUME RefsInv, NEW t \in Threads, FillElement(t)
  PROVE RefsInv'
<1>1. call[t].at = "fill" BY DEF FillElement
<1>2. PICK a, i, v : a = call[t].arg /\ i = call[t].index /\ v = call[t].val OBVIOUS
<1>3. /\ a \in Objects /\ i \in Indices /\ v \in Objects /\ heap[a] = "array" /\ Holds(t, v)
      /\ \A j \in Indices : j >= i => elem[a][j] = Null
      /\ RefTypes /\ HasEntry(v) /\ Owns(t, a)
  <2>1. FillFits(t) /\ MakeFits(t) /\ RefTypes BY DEF RefsInv, CallFits
  <2>2. QED BY <1>1, <1>2, <2>1, ReferredHasEntry DEF FillFits, MakeFits, Owns, Making
<1>4. /\ elem' = [elem EXCEPT ![a][i] = v]
      /\ globalRefs' = AddRef(globalRefs, v)
      /\ UNCHANGED <<heap, chain, entryObj, kind, localRefs, freeEntries, malloced, heldLocal, heldGlobal, frames>>
  BY <1>2 DEF FillElement, heldVars
<1>5. /\ call' \in [Threads -> CallRecords] /\ \A u \in Threads \ {t} : call'[u] = call[u]
      /\ call'[t].at = (IF i = Length THEN "find" ELSE "fill")
      /\ call'[t].arg = a /\ call'[t].index = i + 1 /\ call'[t].val = v
  <2>1. call[t] \in CallRecords /\ call \in [Threads -> CallRecords] BY <1>3 DEF RefTypes
  <2>2. call' = [call EXCEPT ![t].index = @ + 1, ![t].at = IF call[t].index = Length THEN "find" ELSE "fill"]
    BY DEF FillElement
  <2>3. i + 1 \in 1 .. Length + 1 BY <1>3, JniAssumption DEF Indices
  <2>4. (IF i = Length THEN "find" ELSE "fill") \in Labels BY DEF Labels
  <2>5. QED BY <1>2, <2>1, <2>2, <2>3, <2>4 DEF CallRecords
<1>6. /\ elem' \in [Objects -> [Indices -> Objects \cup {Null}]]
      /\ \A b \in Objects \ {a} : elem'[b] = elem[b]
      /\ elem'[a][i] = v /\ \A j \in Indices \ {i} : elem'[a][j] = elem[a][j]
      /\ \A b \in Objects : \A j \in Indices : <<b, j>> # <<a, i>> => elem'[b][j] = elem[b][j]
  <2>1. elem \in [Objects -> [Indices -> Objects \cup {Null}]] BY <1>3 DEF RefTypes
  <2>2. elem[a] \in [Indices -> Objects \cup {Null}] /\ elem'[a] = [elem[a] EXCEPT ![i] = v]
    BY <1>3, <1>4, <2>1
  <2>3. elem'[a] \in [Indices -> Objects \cup {Null}] BY <1>3, <2>2
  <2>4. \A b \in Objects \ {a} : elem'[b] = elem[b] BY <1>4, <2>1
  <2>5. elem' \in [Objects -> [Indices -> Objects \cup {Null}]] BY <1>4, <2>1, <2>3, <2>4
  <2>6. QED BY <1>3, <2>2, <2>4, <2>5
<1>7. ASSUME NEW p \in Objects
      PROVE /\ LocalReferences(p)' = LocalReferences(p)
            /\ GlobalReferences(p)' = GlobalReferences(p) + Bit(p = v) /\ GlobalReferences(p) \in Nat
  <2>1. LocalReferences(p)' = LocalReferences(p) BY <1>4, References, References1
  <2>2. /\ GlobalReferences(p) = heldGlobal[p] + Cardinality(SlotsOf(elem, p)) + Cardinality(StoresOf(call, p))
        /\ GlobalReferences(p)' = heldGlobal'[p] + Cardinality(SlotsOf(elem', p)) + Cardinality(StoresOf(call', p))
        /\ Cardinality(SlotsOf(elem, p)) \in Nat /\ Cardinality(StoresOf(call, p)) \in Nat
        /\ Cardinality(SlotsOf(elem', p)) \in Nat
    BY References, References1
  <2>3. heldGlobal[p] \in Nat /\ Bit(p = v) \in Nat BY <1>3, JniAssumption DEF Bit, RefTypes
  <2>4. Cardinality(SlotsOf(elem', p)) = Cardinality(SlotsOf(elem, p)) + Bit(p = v)
    <3>1. Cardinality(SlotsOf(elem', p)) + Bit(elem[a][i] = p) = Cardinality(SlotsOf(elem, p)) + Bit(v = p)
      BY <1>3, <1>6, <2>2, ElementMoves DEF Bit
    <3>2. elem[a][i] # p BY <1>3, JniAssumption DEF Indices
    <3>3. QED BY <2>2, <3>1, <3>2 DEF Bit
  <2>5. StoresOf(call', p) = StoresOf(call, p) BY <1>1, <1>5 DEF StoresOf
  <2>6. QED BY <1>4, <2>1, <2>2, <2>3, <2>4, <2>5
<1>8. CountedRight(v) /\ Gone(v) = {} BY <1>3, <1>4, <1>7, GlobalUp
<1>9. RefTypes' BY <1>3, <1>4, <1>5, <1>6, <1>8 DEF RefTypes, CountedRight
<1>10. CountsFit' BY <1>3, <1>4, <1>8, <1>9, CountsMove DEF CountedRight
<1>11. ElementsFit' BY <1>3, <1>4, <1>6 DEF RefsInv, ElementsFit
<1>12. OneAccess' BY <1>5 DEF RefsInv, OneAccess
<1>13. CallFits(t)'
  <2>1. Holds(t, v)' /\ heap'[a] = "array" BY <1>3, <1>4 DEF Holds
  <2>2. i # Length => i + 1 \in Indices BY <1>3, JniAssumption DEF Indices
  <2>3. \A j \in Indices : j >= i + 1 => elem'[a][j] = Null
    BY <1>3, <1>6, JniAssumption DEF Indices
  <2>4. FillFits(t)' BY <1>3, <1>5, <2>1, <2>2, <2>3 DEF FillFits
  <2>5. QED BY <1>3, <1>5, <2>4 DEF CallFits, MakeFits, LinkFits, AccessFits, GetFits
<1>14. /\ UNCHANGED <<heap, chain, entryObj, kind, freeEntries, malloced, frames>>
       /\ \A u \in Threads \ {t} : call'[u] = call[u] /\ heldLocal'[u] = heldLocal[u]
       /\ \A o \in Objects : heldGlobal[o] > 0 => heldGlobal'[o] > 0
  BY <1>4, <1>5
<1>15. /\ call[t].at \in {"fill", "find", "malloc"} /\ call'[t].at \in {"fill", "find", "malloc"}
       /\ call'[t].arg = call[t].arg
  BY <1>1, <1>2, <1>5
<1>16. \A b \in Objects : elem'[b] = elem[b] \/ Owns(t, b) BY <1>3, <1>6
<1>17. \A e \in Entries : e \notin chain => localRefs'[e] = localRefs[e] /\ globalRefs'[e] = globalRefs[e]
  BY <1>8 DEF CountedRight
<1>18. QED BY <1>9, <1>10, <1>11, <1>12, <1>13, <1>14, <1>15, <1>16, <1>17, QuietKeeps

-----------------------------------------------------------------------------
(* The calls that make, link and destroy objects.                           *)

LEMMA BeginKeeps ==
  ASSUME RefsInv, NEW t \in Threads, NEW o \in Objects, NEW k \in {"plain", "array"},
         heap[o] = "free", heap'[o] = k, heap' \in [Objects -> {"free", "plain", "array"}],
         \A p \in Objects \ {o} : heap'[p] = heap[p],
         UNCHANGED <<elem, chain, entryObj, kind, localRefs, globalRefs, freeEntries, malloced,
                     heldLocal, heldGlobal, frames>>,
         call[t].at = "idle", call'[t].at \in {"find", "fill"}, call'[t].arg = o,
         call' \in [Threads -> CallRecords],
         \A u \in Threads \ {t} : call'[u] = call[u], FillFits(t)'
  PROVE RefsInv'
<1>1. RefTypes /\ heap'[o] = k /\ \A p \in Objects \ {o} : heap'[p] = heap[p]
  BY DEF RefsInv
<1>2. RefTypes' BY <1>1 DEF RefTypes
<1>3. ~HasEntry(o) /\ \A u \in Threads : ~Owns(u, o) BY DEF RefsInv, OwnersFit
<1>4. \A p : HasEntry(p)' <=> HasEntry(p) BY DEF HasEntry
<1>5. LinksFit'
  <2>1. \A e \in chain : entryObj[e] # o BY <1>3 DEF HasEntry
  <2>2. QED BY <1>1, <2>1 DEF RefsInv, LinksFit
<1>6. CountsFit' BY CountsStay
<1>7. \A u \in Threads : \A p : Owns(u, p)' <=> Owns(u, p) \/ (u = t /\ p = o)
  <2>1. \A u \in Threads \ {t} : \A p : Making(u, p)' <=> Making(u, p) BY DEF Making
  <2>2. \A p : (Making(t, p)' <=> p = o) /\ ~Making(t, p) BY DEF Making
  <2>3. \A u \in Threads : \A p : Freeing(u, p)' <=> Freeing(u, p) BY DEF Freeing
  <2>4. QED BY <2>1, <2>2, <2>3 DEF Owns
<1>8. OwnersFit'
  <2>0. OwnersFit BY DEF RefsInv
  <2>1. \A p \in Objects : heap'[p] = "free" => ~HasEntry(p)' BY <1>1, <1>3, <1>4, <2>0 DEF OwnersFit
  <2>2. ASSUME NEW p \in Objects, heap'[p] # "free"
        PROVE HasEntry(p)' \/ \E u \in Threads : Owns(u, p)'
    BY <1>1, <1>4, <1>7, <2>0, <2>2 DEF OwnersFit
  <2>3. ASSUME NEW u \in Threads, NEW p \in Objects, Owns(u, p)'
        PROVE ~HasEntry(p)' /\ heap'[p] # "free"
    BY <1>1, <1>3, <1>4, <1>7, <2>0, <2>3 DEF OwnersFit
  <2>4. ASSUME NEW u \in Threads, NEW w \in Threads, NEW p \in Objects, Owns(u, p)', Owns(w, p)'
        PROVE u = w
    BY <1>3, <1>7, <2>0, <2>4 DEF OwnersFit
  <2>5. QED BY <2>1, <2>2, <2>3, <2>4 DEF OwnersFit
<1>9. ElementsFit' BY <1>1 DEF RefsInv, ElementsFit
<1>10. OneAccess'
  <2>1. \A u \in Threads : call'[u].at \in {"store", "get"} => u # t /\ call'[u] = call[u] OBVIOUS
  <2>2. QED BY <2>1 DEF RefsInv, OneAccess
<1>11. RecordsFit'
  <2>1. \A u \in Threads : \A e : Hand(u, e)' <=> Hand(u, e)
    <3>1. \A u \in Threads \ {t} : \A e : Hand(u, e)' <=> Hand(u, e) BY DEF Hand
    <3>2. \A e : ~Hand(t, e)' /\ ~Hand(t, e) BY DEF Hand
    <3>3. QED BY <3>1, <3>2
  <2>2. \A u, n, e : OnFrame(u, n, e)' <=> OnFrame(u, n, e) BY DEF OnFrame
  <2>3. QED BY <2>1, <2>2 DEF RefsInv, RecordsFit
<1>12. FramesFit(t)'
  <2>1. frames[t] = <<>> BY DEF RefsInv, FramesFit
  <2>2. frames'[t] = <<>> /\ call'[t].at # "free" BY <2>1
  <2>3. DOMAIN frames'[t] = {} BY <2>2
  <2>4. QED BY <2>2, <2>3 DEF FramesFit
<1>13. CallFits(t)' BY DEF CallFits, MakeFits, LinkFits, AccessFits, GetFits
<1>14. Gentle(t) BY <1>1 DEF Gentle
<1>15. QED BY <1>2, <1>5, <1>6, <1>8, <1>9, <1>10, <1>11, <1>12, <1>13, <1>14, StepKeeps

LEMMA NewPlainKeeps ==
  ASSUME RefsInv, NEW t \in Threads, NEW o \in Objects, NewPlain(t, o)
  PROVE RefsInv'
<1>1. /\ heap[o] = "free" /\ heap' = [heap EXCEPT ![o] = "plain"]
      /\ Call(t, "find", o, 1, Null)
      /\ UNCHANGED <<elem, chain, entryObj, kind, localRefs, globalRefs, freeEntries, malloced,
                     heldLocal, heldGlobal, frames>>
  BY DEF NewPlain, entryVars, heldVars
<1>2. RefTypes BY DEF RefsInv
<1>3. /\ call' \in [Threads -> CallRecords] /\ call[t].at = "idle"
      /\ call'[t] = [at |-> "find", arg |-> o, index |-> 1, val |-> Null, entry |-> Null]
      /\ \A u \in Threads \ {t} : call'[u] = call[u]
  <2>1. "find" \in Labels /\ 1 \in 1 .. Length + 1 BY JniAssumption DEF Labels
  <2>2. QED BY <1>1, <1>2, <2>1, CallsAre
<1>4. FillFits(t)' BY <1>3 DEF FillFits
<1>5. /\ heap' \in [Objects -> {"free", "plain", "array"}] /\ heap'[o] = "plain"
      /\ \A p \in Objects \ {o} : heap'[p] = heap[p]
  BY <1>1, <1>2 DEF RefTypes
<1>6. call'[t].at = "find" /\ call'[t].arg = o BY <1>3
<1>7. QED BY <1>1, <1>3, <1>4, <1>5, <1>6, BeginKeeps

LEMMA NewObjectArrayKeeps ==
  ASSUME RefsInv, NEW t \in Threads, NEW o \in Objects, NEW v \in Objects \cup {Null},
         NewObjectArray(t, o, v)
  PROVE RefsInv'
<1>1. PICK label \in {"find", "fill"} : label = IF v = Null \/ Length = 0 THEN "find" ELSE "fill"
  OBVIOUS
<1>2. /\ heap[o] = "free" /\ heap' = [heap EXCEPT ![o] = "array"]
      /\ v # Null => Holds(t, v)
      /\ Call(t, label, o, 1, v)
      /\ UNCHANGED <<elem, chain, entryObj, kind, localRefs, globalRefs, freeEntries, malloced,
                     heldLocal, heldGlobal, frames>>
  BY <1>1 DEF NewObjectArray, entryVars, heldVars
<1>3. RefTypes BY DEF RefsInv
<1>4. /\ call' \in [Threads -> CallRecords] /\ call[t].at = "idle"
      /\ call'[t] = [at |-> label, arg |-> o, index |-> 1, val |-> v, entry |-> Null]
      /\ \A u \in Threads \ {t} : call'[u] = call[u]
  <2>1. label \in Labels /\ 1 \in 1 .. Length + 1 BY JniAssumption DEF Labels
  <2>2. QED BY <1>2, <1>3, <2>1, CallsAre
<1>5. FillFits(t)'
  <2>1. SUFFICES ASSUME label = "fill" PROVE FillFits(t)' BY <1>4 DEF FillFits
  <2>2. v \in Objects /\ Length # 0 /\ 1 \in Indices BY <1>1, <2>1, JniAssumption DEF Indices
  <2>3. Holds(t, v)' BY <1>2, <2>2, JniAssumption DEF Holds
  <2>4. \A j \in Indices : elem'[o][j] = Null BY <1>2 DEF RefsInv, ElementsFit
  <2>5. heap'[o] = "array" BY <1>2, <1>3 DEF RefTypes
  <2>6. QED BY <1>4, <2>2, <2>3, <2>4, <2>5 DEF FillFits
<1>6. /\ heap' \in [Objects -> {"free", "plain", "array"}] /\ heap'[o] = "array"
      /\ \A p \in Objects \ {o} : heap'[p] = heap[p]
  BY <1>2, <1>3 DEF RefTypes
<1>7. call'[t].at \in {"find", "fill"} /\ call'[t].arg = o BY <1>4
<1>8. QED BY <1>2, <1>4, <1>5, <1>6, <1>7, BeginKeeps

LEMMA RecordKeeps ==
  ASSUME RefsInv, NEW t \in Threads, NEW e \in Entries, call[t].at \in {"find", "malloc"}, Record(t, e),
         UNCHANGED <<heap, elem, chain, heldLocal, heldGlobal, frames>>,
         \/ e \in freeEntries /\ freeEntries' = freeEntries \ {e} /\ malloced' = malloced
         \/ e \in HeapEntries \ malloced /\ malloced' = malloced \cup {e} /\ freeEntries' = freeEntries
  PROVE RefsInv'
<1>1. RefTypes /\ RecordsFit /\ call[t] \in CallRecords BY DEF RefsInv, RefTypes
<1>2. PICK a \in Objects : a = call[t].arg BY DEF RefsInv, CallFits, MakeFits
<1>3. /\ Owns(t, a) /\ ~HasEntry(a) /\ heap[a] # "free" /\ \A u \in Threads : u # t => ~Owns(u, a)
  BY <1>2 DEF RefsInv, OwnersFit, Owns, Making
<1>4. /\ call' \in [Threads -> CallRecords] /\ \A u \in Threads \ {t} : call'[u] = call[u]
      /\ call'[t].at = "link" /\ call'[t].entry = e /\ call'[t].arg = a
  <2>1. call \in [Threads -> CallRecords] /\ call' = [call EXCEPT ![t].at = "link", ![t].entry = e]
    BY <1>1 DEF RefTypes, Record
  <2>2. "link" \in Labels BY DEF Labels
  <2>3. QED BY <1>1, <1>2, <2>1, <2>2 DEF CallRecords
<1>5. /\ entryObj'[e] = a /\ kind'[e] = heap[a] /\ localRefs'[e] = 1 /\ globalRefs'[e] = 0
      /\ \A f \in Entries \ {e} : /\ entryObj'[f] = entryObj[f] /\ kind'[f] = kind[f]
                                  /\ localRefs'[f] = localRefs[f] /\ globalRefs'[f] = globalRefs[f]
      /\ entryObj' \in [Entries -> Objects \cup {Null}] /\ kind' \in [Entries -> {"free", "plain", "array"}]
      /\ localRefs' \in [Entries -> Nat] /\ globalRefs' \in [Entries -> Nat]
  BY <1>1, <1>2 DEF Record, RefTypes
<1>6. /\ e \notin chain /\ e \notin freeEntries' /\ chain \subseteq Entries
      /\ \A u \in Threads : ~Hand(u, e)
      /\ e \in HeapEntries => \A u \in Threads : \A n \in DOMAIN frames[u] : ~OnFrame(u, n, e)
  <2>1. CASE e \in freeEntries /\ freeEntries' = freeEntries \ {e}
    <3>1. e \in Pool /\ e \notin HeapEntries BY <1>1, <2>1, JniAssumption DEF RefTypes
    <3>2. \A u \in Threads : ~Hand(u, e) BY <2>1 DEF RefsInv, CallFits, LinkFits, Hand
    <3>3. QED BY <1>1, <2>1, <3>1, <3>2 DEF RecordsFit, RefTypes
  <2>2. CASE e \in HeapEntries \ malloced /\ freeEntries' = freeEntries
    <3>1. e \notin Pool BY <2>2, JniAssumption
    <3>2. QED BY <1>1, <2>2, <3>1 DEF RecordsFit, RefTypes
  <2>3. QED BY <2>1, <2>2
<1>7. RefTypes'
  <2>1. freeEntries' \subseteq Pool /\ malloced' \subseteq HeapEntries BY <1>1 DEF RefTypes
  <2>2. QED BY <1>1, <1>4, <1>5, <2>1 DEF RefTypes
<1>8. \A f \in chain : /\ entryObj'[f] = entryObj[f] /\ kind'[f] = kind[f]
                       /\ localRefs'[f] = localRefs[f] /\ globalRefs'[f] = globalRefs[f]
  BY <1>5, <1>6
<1>9. CountsFit' BY <1>4, <1>8, CountsStay
<1>10. LinksFit' BY <1>8 DEF RefsInv, LinksFit
<1>11. /\ \A o : HasEntry(o)' <=> HasEntry(o)
       /\ \A u \in Threads : \A o : Owns(u, o)' <=> Owns(u, o)
  <2>1. \A o : HasEntry(o)' <=> HasEntry(o) BY <1>8 DEF HasEntry
  <2>2. \A u \in Threads \ {t} : \A o : Making(u, o)' <=> Making(u, o) BY <1>4 DEF Making
  <2>3. \A o : Making(t, o)' <=> Making(t, o) BY <1>2, <1>4 DEF Making
  <2>4. \A u \in Threads : \A o : Freeing(u, o)' <=> Freeing(u, o) BY DEF Freeing
  <2>5. QED BY <2>1, <2>2, <2>3, <2>4 DEF Owns
<1>12. OwnersFit' BY <1>11 DEF RefsInv, OwnersFit
<1>13. ElementsFit' BY DEF RefsInv, ElementsFit
<1>14. OneAccess' BY <1>4 DEF RefsInv, OneAccess
<1>15. RecordsFit'
  <2>1. \A u \in Threads : \A f : Hand(u, f)' <=> Hand(u, f) \/ (u = t /\ f = e)
    <3>1. \A f : Hand(t, f)' <=> f = e BY <1>4 DEF Hand
    <3>2. \A f : ~Hand(t, f) BY DEF Hand
    <3>3. \A u \in Threads \ {t} : \A f : Hand(u, f)' <=> Hand(u, f) BY <1>4 DEF Hand
    <3>4. QED BY <3>1, <3>2, <3>3
  <2>2. \A u, n, f : OnFrame(u, n, f)' <=> OnFrame(u, n, f) BY DEF OnFrame
  <2>3. \A f \in freeEntries' : f \notin chain' BY <1>1 DEF RecordsFit
  <2>4. \A f \in Pool : f \in freeEntries' \/ f \in chain' \/ \E u \in Threads : Hand(u, f)'
    <3>1. ASSUME NEW f \in Pool
          PROVE  f \in freeEntries' \/ f \in chain' \/ \E u \in Threads : Hand(u, f)'
      <4>1. CASE f = e BY <2>1, <4>1
      <4>2. CASE f # e BY <1>1, <2>1, <4>2 DEF RecordsFit
      <4>3. QED BY <4>1, <4>2
    <3>2. QED BY <3>1
  <2>5. \A f \in Entries : \A u, v \in Threads : Hand(u, f)' /\ Hand(v, f)' => u = v
    BY <1>1, <1>6, <2>1 DEF RecordsFit
  <2>6. ASSUME NEW f \in HeapEntries
        PROVE f \in malloced' <=>
                f \in chain' \/ \E u \in Threads : Hand(u, f)' \/ \E n \in DOMAIN frames'[u] : OnFrame(u, n, f)'
    <3>0. f \in malloced <=>
            f \in chain \/ \E u \in Threads : Hand(u, f) \/ \E n \in DOMAIN frames[u] : OnFrame(u, n, f)
      BY <1>1 DEF RecordsFit
    <3>1. CASE f = e
      <4>1. e \notin Pool BY <3>1, JniAssumption
      <4>2. e \in malloced' BY <1>1, <4>1 DEF RefTypes
      <4>3. QED BY <2>1, <3>1, <4>2
    <3>2. CASE f # e
      <4>1. f \in malloced' <=> f \in malloced BY <3>2
      <4>2. QED BY <2>1, <2>2, <3>0, <3>2, <4>1
    <3>3. QED BY <3>1, <3>2
  <2>7. ASSUME NEW f \in HeapEntries, NEW u \in Threads, NEW n \in DOMAIN frames'[u], OnFrame(u, n, f)'
        PROVE /\ f \notin chain' /\ \A v \in Threads : ~Hand(v, f)'
              /\ \A v \in Threads : \A m \in DOMAIN frames'[v] : OnFrame(v, m, f)' => u = v /\ n = m
    <3>1. f # e BY <1>6, <2>2, <2>7
    <3>2. QED BY <1>1, <2>1, <2>2, <2>7, <3>1 DEF RecordsFit
  <2>8. QED BY <2>3, <2>4, <2>5, <2>6, <2>7 DEF RecordsFit
<1>16. FramesFit(t)' BY <1>4 DEF RefsInv, FramesFit
<1>17. CallFits(t)'
  <2>1. LinkFits(t)' BY <1>4, <1>5, <1>6 DEF LinkFits
  <2>2. QED BY <1>4, <2>1 DEF CallFits, FillFits, MakeFits, AccessFits, GetFits
<1>18. Gentle(t)
  <2>1. \A f \in freeEntries' : f \in freeEntries OBVIOUS
  <2>2. QED BY <1>4, <1>5, <2>1 DEF Gentle
<1>19. QED BY <1>7, <1>9, <1>10, <1>12, <1>13, <1>14, <1>15, <1>16, <1>17, <1>18, StepKeeps

LEMMA TakeEntryKeeps ==
  ASSUME RefsInv, NEW t \in Threads, NEW e \in Pool, TakeEntry(t, e)
  PROVE RefsInv'
<1>1. e \in Entries BY DEF Entries
<1>2. QED BY <1>1, RecordKeeps DEF TakeEntry, heldVars

LEMMA MallocEntryKeeps ==
  ASSUME RefsInv, NEW t \in Threads, NEW e \in HeapEntries, MallocEntry(t, e)
  PROVE RefsInv'
<1>1. e \in Entries BY DEF Entries
<1>2. QED BY <1>1, RecordKeeps DEF MallocEntry, heldVars

LEMMA LinkKeeps ==
  ASSUME RefsInv, NEW t \in Threads, Link(t)
  PROVE RefsInv'
<1>0. call[t].at = "link" BY DEF Link
<1>1. RefTypes /\ RecordsFit /\ LinkFits(t) /\ FramesFit(t) BY DEF RefsInv, CallFits
<1>2. PICK a \in Objects : a = call[t].arg BY <1>0 DEF RefsInv, CallFits, MakeFits
<1>3. PICK e \in Entries : e = call[t].entry BY <1>0, <1>1 DEF LinkFits
<1>4. /\ e \notin chain /\ e \notin freeEntries /\ entryObj[e] = a /\ kind[e] = heap[a]
      /\ localRefs[e] = 1 /\ globalRefs[e] = 0 /\ Hand(t, e)
  BY <1>0, <1>1, <1>2, <1>3 DEF LinkFits, Hand
<1>5. /\ Owns(t, a) /\ ~HasEntry(a) /\ heap[a] # "free" /\ \A u \in Threads : u # t => ~Owns(u, a)
  BY <1>0, <1>2 DEF RefsInv, OwnersFit, Owns, Making
<1>6. /\ chain' = chain \cup {e} /\ GoOn(t, "idle")
      /\ heldLocal' = [heldLocal EXCEPT ![t][a] = @ + 1]
      /\ UNCHANGED <<heap, elem, entryObj, kind, localRefs, globalRefs, freeEntries, malloced,
                     heldGlobal, frames>>
  BY <1>2, <1>3 DEF Link
<1>7. /\ call' \in [Threads -> CallRecords] /\ call'[t].at = "idle"
      /\ \A u \in Threads \ {t} : call'[u] = call[u]
  <2>1. "idle" \in Labels BY DEF Labels
  <2>2. QED BY <1>1, <1>6, <2>1, Goes
<1>8. LocalReferences(a) = 0 /\ GlobalReferences(a) = 0 BY <1>5 DEF RefsInv, CountsFit
<1>9. LocalMore(t, a)
  <2>1. ~(heldLocal[t][a] > 0) BY <1>8, ReferredIsCounted
  <2>2. heldLocal[t][a] < MaxRefs BY <1>1, <2>1, JniAssumption DEF RefTypes
  <2>3. QED BY <1>1, <1>6, <2>2, OneLocalMore
<1>10. RefTypes' BY <1>1, <1>6, <1>7, <1>9 DEF RefTypes, LocalMore
<1>11. LinksFit' BY <1>4, <1>5, <1>6 DEF RefsInv, LinksFit, HasEntry
<1>12. \A o : HasEntry(o)' <=> HasEntry(o) \/ o = a BY <1>4, <1>6 DEF HasEntry
<1>13. CountsFit'
  <2>0. CountsFit BY DEF RefsInv
  <2>1. \A o : GlobalReferences(o)' = GlobalReferences(o)
    BY <1>0, <1>6, <1>7, References, References1, SameStores
  <2>2. LocalReferences(a)' = 1 BY <1>8, <1>9 DEF LocalMore, Bit
  <2>3. \A o \in Objects \ {a} : LocalReferences(o)' = LocalReferences(o) BY <1>9 DEF LocalMore, Bit
  <2>4. ASSUME NEW f \in chain', NEW o \in Objects, o = entryObj[f]
        PROVE /\ localRefs'[f] = LocalReferences(o)' /\ globalRefs'[f] = GlobalReferences(o)'
              /\ localRefs'[f] + globalRefs'[f] > 0
    <3>1. CASE f = e BY <1>4, <1>6, <1>8, <2>1, <2>2, <2>4, <3>1
    <3>2. CASE f # e
      <4>1. f \in chain /\ o # a BY <1>5, <1>6, <2>4, <3>2 DEF HasEntry
      <4>2. /\ localRefs[f] = LocalReferences(o) /\ globalRefs[f] = GlobalReferences(o)
            /\ localRefs[f] + globalRefs[f] > 0
        BY <2>0, <2>4, <4>1 DEF CountsFit
      <4>3. QED BY <1>6, <2>1, <2>3, <4>1, <4>2
    <3>3. QED BY <3>1, <3>2
  <2>5. ASSUME NEW f \in chain'
        PROVE /\ localRefs'[f] = LocalReferences(entryObj[f])'
              /\ globalRefs'[f] = GlobalReferences(entryObj[f])'
              /\ localRefs'[f] + globalRefs'[f] > 0
    <3>1. PICK o \in Objects : o = entryObj[f] BY <1>4, <1>6 DEF RefsInv, LinksFit
    <3>2. entryObj'[f] = o BY <1>6, <3>1
    <3>3. QED BY <2>4, <3>1, <3>2
  <2>6. ASSUME NEW o \in Objects, ~HasEntry(o)'
        PROVE  LocalReferences(o)' = 0 /\ GlobalReferences(o)' = 0
    BY <1>12, <2>0, <2>1, <2>3, <2>6 DEF CountsFit
  <2>7. QED BY <2>5, <2>6 DEF CountsFit
<1>14. frames[t] = <<>> /\ DOMAIN frames[t] = {} BY <1>0, <1>1 DEF FramesFit
<1>15. \A u \in Threads : \A o : Owns(u, o)' <=> Owns(u, o) /\ u # t
  <2>1. \A u \in Threads \ {t} : \A o : Owns(u, o)' <=> Owns(u, o) BY <1>6, <1>7 DEF Owns, Making, Freeing
  <2>2. \A o : ~Owns(t, o)' BY <1>6, <1>7, <1>14 DEF Owns, Making, Freeing
  <2>3. QED BY <2>1, <2>2
<1>16. \A o : Owns(t, o) => o = a BY <1>0, <1>2, <1>14 DEF Owns, Making, Freeing
<1>17. OwnersFit'
  <2>0. OwnersFit BY DEF RefsInv
  <2>1. \A o \in Objects : heap'[o] = "free" => ~HasEntry(o)' BY <1>5, <1>6, <1>12, <2>0 DEF OwnersFit
  <2>2. ASSUME NEW o \in Objects, heap'[o] # "free"
        PROVE HasEntry(o)' \/ \E u \in Threads : Owns(u, o)'
    BY <1>6, <1>12, <1>15, <1>16, <2>0, <2>2 DEF OwnersFit
  <2>3. ASSUME NEW u \in Threads, NEW o \in Objects, Owns(u, o)'
        PROVE ~HasEntry(o)' /\ heap'[o] # "free"
    BY <1>5, <1>6, <1>12, <1>15, <2>0, <2>3 DEF OwnersFit
  <2>4. ASSUME NEW u \in Threads, NEW v \in Threads, NEW o \in Objects, Owns(u, o)', Owns(v, o)'
        PROVE u = v
    BY <1>15, <2>0, <2>4 DEF OwnersFit
  <2>5. QED BY <2>1, <2>2, <2>3, <2>4 DEF OwnersFit
<1>18. ElementsFit' BY <1>6 DEF RefsInv, ElementsFit
<1>19. OneAccess' BY <1>7 DEF RefsInv, OneAccess
<1>20. RecordsFit'
  <2>1. \A u \in Threads : \A f : Hand(u, f)' <=> Hand(u, f) /\ f # e
    <3>1. \A f : ~Hand(t, f)' /\ (Hand(t, f) <=> f = e) BY <1>0, <1>3, <1>7 DEF Hand
    <3>2. \A u \in Threads \ {t} : \A f : Hand(u, f)' <=> Hand(u, f) BY <1>7 DEF Hand
    <3>3. \A u \in Threads \ {t} : ~Hand(u, e) BY <1>1, <1>4 DEF RecordsFit
    <3>4. QED BY <3>1, <3>2, <3>3
  <2>2. \A u, n, f : OnFrame(u, n, f)' <=> OnFrame(u, n, f) BY <1>6 DEF OnFrame
  <2>3. \A f \in freeEntries' : f \notin chain' BY <1>1, <1>4, <1>6 DEF RecordsFit
  <2>4. \A f \in Pool : f \in freeEntries' \/ f \in chain' \/ \E u \in Threads : Hand(u, f)'
    BY <1>1, <1>6, <2>1 DEF RecordsFit
  <2>5. \A f \in Entries : \A u, v \in Threads : Hand(u, f)' /\ Hand(v, f)' => u = v
    BY <1>1, <2>1 DEF RecordsFit
  <2>6. ASSUME NEW f \in HeapEntries
        PROVE f \in malloced' <=>
                f \in chain' \/ \E u \in Threads : Hand(u, f)' \/ \E n \in DOMAIN frames'[u] : OnFrame(u, n, f)'
    <3>0. f \in malloced <=>
            f \in chain \/ \E u \in Threads : Hand(u, f) \/ \E n \in DOMAIN frames[u] : OnFrame(u, n, f)
      BY <1>1 DEF RecordsFit
    <3>1. CASE f = e BY <1>4, <1>6, <3>0, <3>1
    <3>2. CASE f # e BY <1>6, <2>1, <2>2, <3>0, <3>2
    <3>3. QED BY <3>1, <3>2
  <2>7. ASSUME NEW f \in HeapEntries, NEW u \in Threads, NEW n \in DOMAIN frames'[u], OnFrame(u, n, f)'
        PROVE /\ f \notin chain' /\ \A v \in Threads : ~Hand(v, f)'
              /\ \A v \in Threads : \A m \in DOMAIN frames'[v] : OnFrame(v, m, f)' => u = v /\ n = m
    <3>0. OnFrame(u, n, f) /\ n \in DOMAIN frames[u] BY <1>6, <2>2, <2>7
    <3>1. f # e BY <1>1, <1>4, <3>0 DEF RecordsFit
    <3>2. QED BY <1>1, <1>6, <2>1, <2>2, <3>0, <3>1 DEF RecordsFit
  <2>8. QED BY <2>3, <2>4, <2>5, <2>6, <2>7 DEF RecordsFit
<1>21. FramesFit(t)' BY <1>1, <1>6, <1>7, <1>14 DEF FramesFit
<1>22. CallFits(t)' BY <1>7 DEF CallFits, FillFits, MakeFits, LinkFits, AccessFits, GetFits
<1>23. Gentle(t)
  <2>1. \A f \in chain' : f \in chain \/ Hand(t, f) BY <1>4, <1>6
  <2>2. \A u \in Threads \ {t} : heldLocal'[u] = heldLocal[u] BY <1>9 DEF LocalMore
  <2>3. QED BY <1>6, <1>7, <2>1, <2>2 DEF Gentle
<1>24. QED BY <1>10, <1>11, <1>13, <1>17, <1>18, <1>19, <1>20, <1>21, <1>22, <1>23, StepKeeps

LEMMA NoMemoryKeeps ==
  ASSUME RefsInv, NEW t \in Threads, NoMemory(t)
  PROVE RefsInv'
<1>0. call[t].at = "malloc" BY DEF NoMemory
<1>1. RefTypes /\ RecordsFit /\ FramesFit(t) BY DEF RefsInv
<1>2. PICK a \in Objects : a = call[t].arg BY <1>0 DEF RefsInv, CallFits, MakeFits
<1>3. Owns(t, a) /\ heap[a] \in {"plain", "array"}
  BY <1>0, <1>1, <1>2 DEF RefsInv, OwnersFit, Owns, Making, RefTypes
<1>4. PICK f : f = [obj |-> a, kind |-> heap[a], entry |-> Null] OBVIOUS
<1>5. f \in FrameRecords /\ f.obj = a /\ f.kind = heap[a] /\ f.entry = Null
  BY <1>3, <1>4 DEF FrameRecords
<1>6. /\ frames' = [frames EXCEPT ![t] = <<f>>] /\ GoOn(t, "free")
      /\ UNCHANGED <<heap, elem, chain, entryObj, kind, localRefs, globalRefs, freeEntries, malloced,
                     heldLocal, heldGlobal>>
  BY <1>2, <1>4 DEF NoMemory, entryVars, heldVars
<1>7. /\ call' \in [Threads -> CallRecords] /\ call'[t].at = "free"
      /\ \A u \in Threads \ {t} : call'[u] = call[u]
  <2>1. "free" \in Labels BY DEF Labels
  <2>2. QED BY <1>1, <1>6, <2>1, Goes
<1>8. /\ frames' \in [Threads -> Seq(FrameRecords)] /\ frames'[t] = <<f>>
      /\ \A u \in Threads \ {t} : frames'[u] = frames[u]
      /\ frames'[t] # <<>> /\ DOMAIN frames'[t] = {1} /\ frames'[t][1] = f
  <2>1. frames \in [Threads -> Seq(FrameRecords)] BY <1>1 DEF RefTypes
  <2>2. frames'[t] = <<f>> BY <1>6, <2>1
  <2>3. <<f>> \in Seq(FrameRecords) BY <1>5
  <2>4. frames' \in [Threads -> Seq(FrameRecords)] BY <1>6, <2>1, <2>3
  <2>5. \A u \in Threads \ {t} : frames'[u] = frames[u] BY <1>6, <2>1
  <2>6. <<f>> # <<>> /\ DOMAIN <<f>> = {1} /\ <<f>>[1] = f OBVIOUS
  <2>7. QED BY <2>2, <2>4, <2>5, <2>6
<1>9. frames[t] = <<>> /\ DOMAIN frames[t] = {} BY <1>0, <1>1 DEF FramesFit
<1>10. RefTypes' BY <1>1, <1>6, <1>7, <1>8 DEF RefTypes
<1>11. LinksFit' BY <1>6 DEF RefsInv, LinksFit
<1>12. CountsFit' BY <1>0, <1>6, <1>7, CountsStay
<1>13. /\ \A o : HasEntry(o)' <=> HasEntry(o)
       /\ \A u \in Threads : \A o : Owns(u, o)' <=> Owns(u, o)
  <2>1. \A o : HasEntry(o)' <=> HasEntry(o) BY <1>6 DEF HasEntry
  <2>2. \A u \in Threads \ {t} : \A o : Owns(u, o)' <=> Owns(u, o) BY <1>7, <1>8 DEF Owns, Making, Freeing
  <2>3. \A o : Owns(t, o) <=> o = a BY <1>0, <1>2, <1>9 DEF Owns, Making, Freeing
  <2>4. \A o : Owns(t, o)' <=> o = a BY <1>5, <1>7, <1>8 DEF Owns, Making, Freeing
  <2>5. QED BY <2>1, <2>2, <2>3, <2>4
<1>14. OwnersFit' BY <1>6, <1>13 DEF RefsInv, OwnersFit
<1>15. ElementsFit' BY <1>6 DEF RefsInv, ElementsFit
<1>16. OneAccess' BY <1>7 DEF RefsInv, OneAccess
<1>17. RecordsFit'
  <2>1. \A u \in Threads : \A e : Hand(u, e)' <=> Hand(u, e) BY <1>0, <1>7 DEF Hand
  <2>2. \A u \in Threads : \A n : \A e \in HeapEntries :
          (n \in DOMAIN frames'[u] /\ OnFrame(u, n, e)') <=> (n \in DOMAIN frames[u] /\ OnFrame(u, n, e))
    <3>1. \A u \in Threads \ {t} : \A n, e : OnFrame(u, n, e)' <=> OnFrame(u, n, e) BY <1>8 DEF OnFrame
    <3>2. \A n : \A e \in HeapEntries : ~OnFrame(t, n, e)' BY <1>5, <1>8, JniAssumption DEF OnFrame
    <3>3. \A n, e : ~OnFrame(t, n, e) BY <1>9 DEF OnFrame
    <3>4. QED BY <1>8, <3>1, <3>2, <3>3
  <2>3. \A e \in freeEntries' : e \notin chain' BY <1>1, <1>6 DEF RecordsFit
  <2>4. \A e \in Pool : e \in freeEntries' \/ e \in chain' \/ \E u \in Threads : Hand(u, e)'
    BY <1>1, <1>6, <2>1 DEF RecordsFit
  <2>5. \A e \in Entries : \A u, v \in Threads : Hand(u, e)' /\ Hand(v, e)' => u = v
    BY <1>1, <2>1 DEF RecordsFit
  <2>6. ASSUME NEW e \in HeapEntries
        PROVE e \in malloced' <=>
                e \in chain' \/ \E u \in Threads : Hand(u, e)' \/ \E n \in DOMAIN frames'[u] : OnFrame(u, n, e)'
    <3>0. e \in malloced <=>
            e \in chain \/ \E u \in Threads : Hand(u, e) \/ \E n \in DOMAIN frames[u] : OnFrame(u, n, e)
      BY <1>1 DEF RecordsFit
    <3>1. QED BY <1>6, <2>1, <2>2, <3>0
  <2>7. ASSUME NEW e \in HeapEntries, NEW u \in Threads, NEW n \in DOMAIN frames'[u], OnFrame(u, n, e)'
        PROVE /\ e \notin chain' /\ \A v \in Threads : ~Hand(v, e)'
              /\ \A v \in Threads : \A m \in DOMAIN frames'[v] : OnFrame(v, m, e)' => u = v /\ n = m
    <3>1. OnFrame(u, n, e) /\ n \in DOMAIN frames[u] BY <2>2, <2>7
    <3>2. /\ e \notin chain /\ \A v \in Threads : ~Hand(v, e)
          /\ \A v \in Threads : \A m \in DOMAIN frames[v] : OnFrame(v, m, e) => u = v /\ n = m
      BY <1>1, <3>1 DEF RecordsFit
    <3>3. QED BY <1>6, <2>1, <2>2, <3>2
  <2>8. QED BY <2>3, <2>4, <2>5, <2>6, <2>7 DEF RecordsFit
<1>18. FramesFit(t)' BY <1>5, <1>6, <1>7, <1>8 DEF FramesFit
<1>19. CallFits(t)' BY <1>7 DEF CallFits, FillFits, MakeFits, LinkFits, AccessFits, GetFits
<1>20. Gentle(t) BY <1>6, <1>7, <1>8 DEF Gentle
<1>21. QED BY <1>10, <1>11, <1>12, <1>14, <1>15, <1>16, <1>17, <1>18, <1>19, <1>20, StepKeeps

LEMMA FreeObjectKeeps ==
  ASSUME RefsInv, NEW t \in Threads, FreeObject(t)
  PROVE RefsInv'
<1>0. call[t].at = "free" /\ ~HasMembers(Innermost(t)) BY DEF FreeObject
<1>1. RefTypes /\ RecordsFit /\ FramesFit(t) BY DEF RefsInv
<1>2. PICK s, last : s = frames[t] /\ last = Len(frames[t]) OBVIOUS
<1>3. PICK f : f = Innermost(t) OBVIOUS
<1>4. PICK x : x = f.obj OBVIOUS
<1>5. /\ s \in Seq(FrameRecords) /\ s # <<>> /\ last \in DOMAIN s /\ f = s[last]
      /\ f \in FrameRecords /\ x \in Objects /\ Owns(t, x) /\ heap[x] = f.kind
  BY <1>0, <1>2, <1>3, <1>4, TheInnermost DEF FrameRecords
<1>6. PICK s2 : s2 = SubSeq(s, 1, Len(s) - 1) OBVIOUS
<1>7. /\ s2 \in Seq(FrameRecords) /\ (s2 = <<>> <=> last = 1)
      /\ DOMAIN s2 = DOMAIN s \ {last} /\ \A n \in DOMAIN s2 : s2[n] = s[n]
  <2>1. s2 \in Seq(FrameRecords) BY <1>5, <1>6, Popped
  <2>2. s2 = <<>> <=> Len(s) = 1 BY <1>5, <1>6, Popped
  <2>3. DOMAIN s2 = DOMAIN s \ {Len(s)} BY <1>5, <1>6, Popped
  <2>4. \A n \in DOMAIN s2 : s2[n] = s[n] BY <1>5, <1>6, Popped
  <2>5. QED BY <1>2, <2>1, <2>2, <2>3, <2>4
<1>8. PICK label \in {"idle", "free"} : label = IF last = 1 THEN "idle" ELSE "free" OBVIOUS
<1>9. /\ heap' = [heap EXCEPT ![x] = "free"] /\ malloced' = malloced \ {f.entry}
      /\ frames' = [frames EXCEPT ![t] = s2] /\ GoOn(t, label)
      /\ UNCHANGED <<elem, chain, entryObj, kind, localRefs, globalRefs, freeEntries, heldLocal, heldGlobal>>
  <2>1. frames' = [frames EXCEPT ![t] = SubSeq(frames[t], 1, Len(frames[t]) - 1)]
    BY DEF FreeObject
  <2>2. frames' = [frames EXCEPT ![t] = s2] BY <1>2, <1>6, <2>1
  <2>3. QED BY <1>2, <1>3, <1>4, <1>8, <2>2 DEF FreeObject, heldVars
<1>10. /\ call' \in [Threads -> CallRecords] /\ call'[t].at = label
       /\ \A u \in Threads \ {t} : call'[u] = call[u]
  <2>1. label \in Labels BY DEF Labels
  <2>2. QED BY <1>1, <1>9, <2>1, Goes
<1>11. /\ frames' \in [Threads -> Seq(FrameRecords)] /\ frames'[t] = s2
       /\ \A u \in Threads \ {t} : frames'[u] = frames[u]
       /\ heap' \in [Objects -> {"free", "plain", "array"}] /\ heap'[x] = "free"
       /\ \A o \in Objects \ {x} : heap'[o] = heap[o]
  BY <1>1, <1>5, <1>7, <1>9 DEF RefTypes
<1>12. RefTypes'
  <2>1. malloced' \subseteq HeapEntries BY <1>1, <1>9 DEF RefTypes
  <2>2. QED BY <1>1, <1>9, <1>10, <1>11, <2>1 DEF RefTypes
<1>13. ~HasEntry(x) /\ \A u \in Threads : u # t => ~Owns(u, x) BY <1>5 DEF RefsInv, OwnersFit
<1>14. LinksFit'
  <2>1. \A e \in chain : entryObj[e] \in Objects \ {x} BY <1>13 DEF RefsInv, LinksFit, HasEntry
  <2>2. QED BY <1>9, <1>11, <2>1 DEF RefsInv, LinksFit
<1>15. CountsFit' BY <1>0, <1>9, <1>10, CountsStay
<1>16. \A o : HasEntry(o)' <=> HasEntry(o) BY <1>9 DEF HasEntry
<1>17. \A m, n \in DOMAIN s : s[m].obj = s[n].obj => m = n BY <1>1, <1>2 DEF FramesFit
<1>18. \A u \in Threads : \A o : Owns(u, o)' <=> Owns(u, o) /\ (u # t \/ o # x)
  <2>1. \A u \in Threads \ {t} : \A o : Owns(u, o)' <=> Owns(u, o) BY <1>10, <1>11 DEF Owns, Making, Freeing
  <2>2. \A o : Owns(t, o) <=> \E n \in DOMAIN s : s[n].obj = o
    BY <1>0, <1>2 DEF Owns, Making, Freeing
  <2>3. \A o : Owns(t, o)' <=> \E n \in DOMAIN s2 : s2[n].obj = o
    BY <1>10, <1>11 DEF Owns, Making, Freeing
  <2>4. ASSUME NEW o
        PROVE  (\E n \in DOMAIN s2 : s2[n].obj = o) <=> o # x /\ \E n \in DOMAIN s : s[n].obj = o
    BY <1>4, <1>5, <1>7, <1>17
  <2>5. QED BY <2>1, <2>2, <2>3, <2>4
<1>19. OwnersFit'
  <2>0. OwnersFit BY DEF RefsInv
  <2>1. \A o \in Objects : heap'[o] = "free" => ~HasEntry(o)' BY <1>11, <1>13, <1>16, <2>0 DEF OwnersFit
  <2>2. ASSUME NEW o \in Objects, heap'[o] # "free"
        PROVE HasEntry(o)' \/ \E u \in Threads : Owns(u, o)'
    BY <1>11, <1>16, <1>18, <2>0, <2>2 DEF OwnersFit
  <2>3. ASSUME NEW u \in Threads, NEW o \in Objects, Owns(u, o)'
        PROVE ~HasEntry(o)' /\ heap'[o] # "free"
    BY <1>11, <1>13, <1>16, <1>18, <2>0, <2>3 DEF OwnersFit
  <2>4. ASSUME NEW u \in Threads, NEW v \in Threads, NEW o \in Objects, Owns(u, o)', Owns(v, o)'
        PROVE u = v
    BY <1>18, <2>0, <2>4 DEF OwnersFit
  <2>5. QED BY <2>1, <2>2, <2>3, <2>4 DEF OwnersFit
<1>20. ElementsFit'
  <2>1. \A i \in Indices : elem[x][i] = Null BY <1>0, <1>3, <1>4, <1>5 DEF HasMembers, RefsInv, ElementsFit
  <2>2. QED BY <1>9, <1>11, <2>1 DEF RefsInv, ElementsFit
<1>21. OneAccess'
  <2>1. \A u \in Threads : call'[u].at \in {"store", "get"} => u # t /\ call'[u] = call[u] BY <1>10
  <2>2. QED BY <2>1 DEF RefsInv, OneAccess
<1>22. RecordsFit'
  <2>1. \A u \in Threads : \A e : Hand(u, e)' <=> Hand(u, e) BY <1>0, <1>10 DEF Hand
  <2>2. \A u \in Threads : \A n, e : OnFrame(u, n, e)' <=> OnFrame(u, n, e) /\ (u # t \/ n # last)
    BY <1>2, <1>7, <1>11 DEF OnFrame
  <2>3. \A e \in freeEntries' : e \notin chain' BY <1>1, <1>9 DEF RecordsFit
  <2>4. \A e \in Pool : e \in freeEntries' \/ e \in chain' \/ \E u \in Threads : Hand(u, e)'
    BY <1>1, <1>9, <2>1 DEF RecordsFit
  <2>5. \A e \in Entries : \A u, v \in Threads : Hand(u, e)' /\ Hand(v, e)' => u = v
    BY <1>1, <2>1 DEF RecordsFit
  <2>a. \A u \in Threads : \A n, e : /\ OnFrame(u, n, e)' => n \in DOMAIN frames'[u]
                                     /\ OnFrame(u, n, e) => n \in DOMAIN frames[u]
    BY DEF OnFrame
  <2>b. \A e : OnFrame(t, last, e) <=> e = f.entry BY <1>2, <1>5 DEF OnFrame
  <2>6. ASSUME NEW e \in HeapEntries
        PROVE e \in malloced' <=>
                e \in chain' \/ \E u \in Threads : Hand(u, e)' \/ \E n \in DOMAIN frames'[u] : OnFrame(u, n, e)'
    <3>0. e \in malloced <=>
            e \in chain \/ \E u \in Threads : Hand(u, e) \/ \E n \in DOMAIN frames[u] : OnFrame(u, n, e)
      BY <1>1 DEF RecordsFit
    <3>1. CASE e = f.entry
      <4>1. OnFrame(t, last, e) /\ last \in DOMAIN frames[t] BY <1>2, <1>5, <2>b, <3>1
      <4>2. /\ e \notin chain /\ \A u \in Threads : ~Hand(u, e)
            /\ \A u \in Threads : \A n \in DOMAIN frames[u] : OnFrame(u, n, e) => u = t /\ n = last
        BY <1>1, <4>1 DEF RecordsFit
      <4>3. e \notin malloced' BY <1>9, <3>1
      <4>4. \A u \in Threads : \A n : ~OnFrame(u, n, e)' BY <2>2, <2>a, <4>2
      <4>5. QED BY <1>9, <2>1, <4>2, <4>3, <4>4
    <3>2. CASE e # f.entry
      <4>1. ~OnFrame(t, last, e) BY <2>b, <3>2
      <4>2. \A u \in Threads : (\E n \in DOMAIN frames'[u] : OnFrame(u, n, e)')
                              <=> \E n \in DOMAIN frames[u] : OnFrame(u, n, e)
        BY <2>2, <2>a, <4>1
      <4>3. e \in malloced' <=> e \in malloced BY <1>9, <3>2
      <4>4. QED BY <1>9, <2>1, <3>0, <4>2, <4>3
    <3>3. QED BY <3>1, <3>2
  <2>7. ASSUME NEW e \in HeapEntries, NEW u \in Threads, NEW n \in DOMAIN frames'[u], OnFrame(u, n, e)'
        PROVE /\ e \notin chain' /\ \A v \in Threads : ~Hand(v, e)'
              /\ \A v \in Threads : \A m \in DOMAIN frames'[v] : OnFrame(v, m, e)' => u = v /\ n = m
    <3>1. OnFrame(u, n, e) /\ n \in DOMAIN frames[u] BY <2>2, <2>7, <2>a
    <3>2. /\ e \notin chain /\ \A v \in Threads : ~Hand(v, e)
          /\ \A v \in Threads : \A m \in DOMAIN frames[v] : OnFrame(v, m, e) => u = v /\ n = m
      BY <1>1, <3>1 DEF RecordsFit
    <3>3. QED BY <1>9, <2>1, <2>2, <2>a, <3>2
  <2>8. QED BY <2>3, <2>4, <2>5, <2>6, <2>7 DEF RecordsFit
<1>23. FramesFit(t)'
  <2>1. call'[t].at = "free" <=> frames'[t] # <<>> BY <1>7, <1>8, <1>10, <1>11
  <2>2. \A n \in DOMAIN s2 : s2[n] = s[n] /\ n \in DOMAIN s /\ s[n] \in FrameRecords /\ s[n].obj # x
    BY <1>4, <1>5, <1>7, <1>17, FramesAre
  <2>3. \A n \in DOMAIN s : s[n].kind = heap[s[n].obj] BY <1>1, <1>2 DEF FramesFit
  <2>4. \A n \in DOMAIN s2 : s2[n].kind = heap'[s2[n].obj] BY <1>11, <2>2, <2>3 DEF FrameRecords
  <2>5. \A m, n \in DOMAIN s2 : s2[m].obj = s2[n].obj => m = n BY <1>17, <2>2
  <2>6. QED BY <1>11, <2>1, <2>4, <2>5 DEF FramesFit
<1>24. CallFits(t)' BY <1>10 DEF CallFits, FillFits, MakeFits, LinkFits, AccessFits, GetFits
<1>25. Gentle(t)
  <2>1. \A o \in Objects : heap'[o] = heap[o] \/ Owns(t, o) BY <1>5, <1>11
  <2>2. QED BY <1>9, <1>10, <1>11, <2>1 DEF Gentle
<1>26. QED BY <1>12, <1>14, <1>15, <1>19, <1>20, <1>21, <1>22, <1>23, <1>24, <1>25, StepKeeps

-----------------------------------------------------------------------------
(* The invariant, and what it says.                                         *)

LEMMA NoReferencesAtFirst ==
  ASSUME RefsInit, NEW o \in Objects
  PROVE LocalReferences(o) = 0 /\ GlobalReferences(o) = 0
<1>1. HoldsOf(heldLocal, o) = {}
  <2>1. \A u \in Threads : heldLocal[u][o] = 0 BY DEF RefsInit
  <2>2. SUFFICES ASSUME NEW r \in Threads \X (1 .. MaxRefs), r[2] =< heldLocal[r[1]][o] PROVE FALSE
    BY DEF HoldsOf
  <2>3. PICK u \in Threads, n \in 1 .. MaxRefs : r = <<u, n>> OBVIOUS
  <2>4. QED BY <2>1, <2>2, <2>3, JniAssumption
<1>2. SlotsOf(elem, o) = {}
  <2>1. \A a \in Objects : \A i \in Indices : elem[a][i] = Null BY DEF RefsInit
  <2>2. SUFFICES ASSUME NEW r \in Objects \X Indices, elem[r[1]][r[2]] = o PROVE FALSE
    BY DEF SlotsOf
  <2>3. PICK a \in Objects, i \in Indices : r = <<a, i>> OBVIOUS
  <2>4. QED BY <2>1, <2>2, <2>3, JniAssumption
<1>3. StoresOf(call, o) = {} BY DEF RefsInit, Idle, StoresOf
<1>4. Cardinality({}) = 0 BY FS_EmptySet
<1>5. heldGlobal[o] = 0 BY DEF RefsInit
<1>6. LocalReferences(o) = Cardinality(HoldsOf(heldLocal, o))
      /\ GlobalReferences(o) = heldGlobal[o] + Cardinality(SlotsOf(elem, o)) + Cardinality(StoresOf(call, o))
  BY References
<1>7. QED BY <1>1, <1>2, <1>3, <1>4, <1>5, <1>6

LEMMA RefsStart == RefsInit => RefsInv
<1> SUFFICES ASSUME RefsInit PROVE RefsInv OBVIOUS
<1>1. \A t \in Threads : call[t] = Idle /\ frames[t] = <<>> BY DEF RefsInit
<1>2. Idle \in CallRecords /\ Idle.at = "idle" BY JniAssumption DEF Idle, CallRecords, Labels
<1>3. RefTypes
  <2>1. <<>> \in Seq(FrameRecords) OBVIOUS
  <2>2. 0 \in 0 .. MaxRefs BY JniAssumption
  <2>3. call \in [Threads -> CallRecords] /\ frames \in [Threads -> Seq(FrameRecords)]
    BY <1>2, <2>1 DEF RefsInit
  <2>4. QED BY <2>2, <2>3 DEF RefsInit, RefTypes
<1>4. chain = {} /\ freeEntries = Pool /\ malloced = {} /\ \A o \in Objects : heap[o] = "free"
  BY DEF RefsInit
<1>5. LinksFit BY <1>4 DEF LinksFit
<1>6. CountsFit BY <1>4, NoReferencesAtFirst DEF CountsFit
<1>7. \A t \in Threads : \A o : ~Owns(t, o) BY <1>1, <1>2 DEF Owns, Making, Freeing
<1>8. OwnersFit BY <1>4, <1>7 DEF OwnersFit, HasEntry
<1>9. ElementsFit BY DEF RefsInit, ElementsFit
<1>10. OneAccess BY <1>1, <1>2 DEF OneAccess
<1>11. RecordsFit BY <1>1, <1>2, <1>4 DEF RecordsFit, Hand, OnFrame
<1>12. \A t \in Threads : FramesFit(t) /\ CallFits(t)
  BY <1>1, <1>2 DEF FramesFit, CallFits, FillFits, MakeFits, LinkFits, AccessFits, GetFits
<1>13. QED BY <1>3, <1>5, <1>6, <1>8, <1>9, <1>10, <1>11, <1>12 DEF RefsInv

LEMMA RefsStutter == RefsInv /\ UNCHANGED refsVars => RefsInv'
<1> SUFFICES ASSUME RefsInv, UNCHANGED refsVars PROVE RefsInv' OBVIOUS
<1>1. UNCHANGED <<heap, elem, chain, entryObj, kind, localRefs, globalRefs, freeEntries, malloced,
                  heldLocal, heldGlobal, call, frames>>
  BY DEF refsVars, entryVars, heldVars
<1>2. RefTypes' BY <1>1 DEF RefsInv, RefTypes
<1>3. CountsFit' BY <1>1, CountsStay
<1>4. LinksFit' /\ ElementsFit' /\ OneAccess' BY <1>1 DEF RefsInv, LinksFit, ElementsFit, OneAccess
<1>5. OwnersFit' BY <1>1 DEF RefsInv, OwnersFit, HasEntry, Owns, Making, Freeing
<1>6. RecordsFit' BY <1>1 DEF RefsInv, RecordsFit, Hand, OnFrame
<1>7. \A t \in Threads : FramesFit(t)' BY <1>1 DEF RefsInv, FramesFit
<1>8. \A t \in Threads : CallFits(t)'
  BY <1>1 DEF RefsInv, CallFits, FillFits, MakeFits, LinkFits, AccessFits, GetFits, Holds
<1>9. QED BY <1>2, <1>3, <1>4, <1>5, <1>6, <1>7, <1>8 DEF RefsInv

LEMMA RefsStepKeeps == RefsInv /\ [RefsNext]_refsVars => RefsInv'
<1> SUFFICES ASSUME RefsInv, RefsNext PROVE RefsInv' BY RefsStutter
<1>1. PICK t \in Threads : Proceed(t) \/ CallJNI(t) BY DEF RefsNext
<1>2. CASE Proceed(t)
  BY <1>2, FreeMemberKeeps, FreeObjectKeeps, FillElementKeeps, PoolIsEmptyKeeps, NoMemoryKeeps,
      LinkKeeps,
     TakeEntryKeeps, MallocEntryKeeps, StoreElementKeeps, ReturnElementKeeps
  DEF Proceed
<1>3. CASE CallJNI(t)
  BY <1>3, NewPlainKeeps, NewLocalRefKeeps, NewGlobalRefKeeps, DeleteLocalRefKeeps,
      DeleteGlobalRefKeeps,
     NewObjectArrayKeeps, SetObjectArrayElementKeeps, GetObjectArrayElementKeeps
  DEF CallJNI
<1>4. QED BY <1>1, <1>2, <1>3

\* The inductive invariant of the references holds.
LEMMA RefsInvariant == RefsSpec => []RefsInv
BY RefsStart, RefsStepKeeps, PTL DEF RefsSpec

LEMMA InvMakesCountsExact == RefsInv => CountsAreExact
<1> SUFFICES ASSUME RefsInv PROVE CountsAreExact OBVIOUS
<1>1. RefsTypeOK
  <2>1. RefTypes /\ \A t \in Threads : call[t] \in CallRecords BY DEF RefsInv, RefTypes
  <2>2. QED BY <2>1 DEF RefsTypeOK, RefTypes, CallRecords
<1>2. ASSUME NEW o \in Objects, o \notin Tracked PROVE LocalReferences(o) + GlobalReferences(o) = 0
  <2>1. ~HasEntry(o) BY <1>2 DEF HasEntry, Tracked
  <2>2. LocalReferences(o) = 0 /\ GlobalReferences(o) = 0 BY <2>1 DEF RefsInv, CountsFit
  <2>3. QED BY <2>2
<1>3. ASSUME NEW o \in Objects, NEW e \in EntriesOf(o)
      PROVE /\ heap[o] = kind[e] /\ kind[e] # "free"
            /\ localRefs[e] = LocalReferences(o) /\ globalRefs[e] = GlobalReferences(o)
  <2>1. e \in chain /\ entryObj[e] = o BY DEF EntriesOf
  <2>2. heap[o] = kind[e] /\ kind[e] # "free" BY <2>1 DEF RefsInv, LinksFit
  <2>3. QED BY <2>1, <2>2 DEF RefsInv, CountsFit
<1>4. QED BY <1>1, <1>2, <1>3 DEF CountsAreExact

LEMMA InvMeansNothingLeaks == RefsInv => NothingLeaks
<1> SUFFICES ASSUME RefsInv PROVE NothingLeaks OBVIOUS
<1>1. RefTypes /\ RecordsFit /\ OwnersFit /\ CountsFit BY DEF RefsInv
<1>2. \A o : o \in Tracked <=> HasEntry(o) BY DEF Tracked, HasEntry
<1>3. ASSUME NEW o \in Objects
      PROVE LET hands == {t \in Threads : Making(t, o) \/ Freeing(t, o)} IN
            IF heap[o] = "free" THEN o \notin Tracked /\ hands = {}
            ELSE /\ Cardinality(EntriesOf(o)) + Cardinality(hands) = 1
                 /\ o \in Tracked => LocalReferences(o) + GlobalReferences(o) > 0
  <2> DEFINE hands == {t \in Threads : Making(t, o) \/ Freeing(t, o)}
  <2>1. \A t : t \in hands <=> t \in Threads /\ Owns(t, o) BY DEF Owns
  <2>2. Cardinality({}) = 0 /\ \A z : Cardinality({z}) = 1 BY FS_EmptySet, FS_Singleton
  <2> HIDE DEF hands
  <2>3. CASE heap[o] = "free"
    <3>1. o \notin Tracked /\ hands = {} BY <1>1, <1>2, <2>1, <2>3 DEF OwnersFit
    <3>2. QED BY <2>3, <3>1 DEF hands
  <2>4. CASE heap[o] # "free" /\ HasEntry(o)
    <3>1. PICK e \in chain : entryObj[e] = o BY <2>4 DEF HasEntry
    <3>2. EntriesOf(o) = {e} BY <3>1, TheEntry
    <3>3. hands = {} BY <1>1, <2>1, <2>4 DEF OwnersFit
    <3>4. Cardinality(EntriesOf(o)) + Cardinality(hands) = 1
      <4>1. Cardinality(EntriesOf(o)) = 1 BY <2>2, <3>2
      <4>2. Cardinality(hands) = 0 BY <2>2, <3>3
      <4>3. QED BY <4>1, <4>2
    <3>5. LocalReferences(o) + GlobalReferences(o) > 0 BY <1>1, <3>1 DEF CountsFit
    <3>6. QED BY <2>4, <3>4, <3>5 DEF hands
  <2>5. CASE heap[o] # "free" /\ ~HasEntry(o)
    <3>1. EntriesOf(o) = {} BY <2>5, TheEntry
    <3>2. PICK t \in Threads : Owns(t, o) BY <1>1, <2>5 DEF OwnersFit
    <3>3. hands = {t} BY <1>1, <2>1, <3>2 DEF OwnersFit
    <3>4. Cardinality(EntriesOf(o)) + Cardinality(hands) = 1
      <4>1. Cardinality(EntriesOf(o)) = 0 BY <2>2, <3>1
      <4>2. Cardinality(hands) = 1 BY <2>2, <3>3
      <4>3. QED BY <4>1, <4>2
    <3>5. QED BY <1>2, <2>5, <3>4 DEF hands
  <2>6. QED BY <2>3, <2>4, <2>5
<1>4. \A e : e \in InHand <=> \E t \in Threads : Hand(t, e) BY DEF InHand, Hand
<1>5. \A e : e \in ToFree <=> \E t \in Threads : \E n \in DOMAIN frames[t] : OnFrame(t, n, e)
  BY DEF ToFree, OnFrame
<1>6. \A t \in Threads : \A e : Hand(t, e) => e \in Entries \ (chain \cup freeEntries)
  BY DEF RefsInv, CallFits, LinkFits, Hand
<1>7. freeEntries \cup ((chain \cup InHand) \cap Pool) = Pool
  <2>1. freeEntries \subseteq Pool BY <1>1 DEF RefTypes
  <2>2. \A e \in Pool : e \in freeEntries \/ e \in chain \/ e \in InHand BY <1>1, <1>4 DEF RecordsFit
  <2>3. QED BY <2>1, <2>2
<1>8. freeEntries \cap (chain \cup InHand) = {} /\ chain \cap InHand = {}
  BY <1>1, <1>4, <1>6 DEF RecordsFit
<1>9. malloced = (chain \cup InHand \cup ToFree) \cap HeapEntries
  <2>1. malloced \subseteq HeapEntries BY <1>1 DEF RefTypes
  <2>2. \A e \in HeapEntries : e \in malloced <=> e \in chain \/ e \in InHand \/ e \in ToFree
    BY <1>1, <1>4, <1>5 DEF RecordsFit
  <2>3. QED BY <2>1, <2>2
<1>10. QED BY <1>3, <1>7, <1>8, <1>9 DEF NothingLeaks

\* Whatever calls are made, and wherever they are interrupted, the counts of an
\* entry are the references there are, and an object without an entry has none:
\* for any threads, objects and records (CountsAreExact; FalsoJNI.c:276-365).
THEOREM CountsExact == RefsSpec => []CountsAreExact
BY RefsInvariant, InvMakesCountsExact, PTL

\* What is allocated is tracked or in the hands of one call, and every record is
\* free, in the chain or in such hands (NothingLeaks; FalsoJNI.c:213-301).
THEOREM NoLeaks == RefsSpec => []NothingLeaks
BY RefsInvariant, InvMeansNothingLeaks, PTL

-----------------------------------------------------------------------------
(* 3. The way of an input to the game.                                      *)

Sources == Fingers \cup {Pointer}
Everything == Sources \cup KeyButtons \cup {"nonsense"}
Presses == ({"down", "move", "up"} \X Sources) \cup ({"keydown", "keyup"} \X KeyButtons)
Text == <<"text", "text">>
Events == Presses \cup {Text}

\* Nothing but the types of what the queue does not touch.
StateTypes ==
  /\ phase \in Phases /\ visual \in {"off", "requested", "running"}
  /\ stale \subseteq Fingers \cup Buttons
  /\ touch_old \subseteq Fingers /\ fingers \subseteq Fingers
  /\ missing_samples \in 0 .. Missing
  /\ game_keys \subseteq KeyButtons /\ previous \subseteq Buttons
  /\ held \in BOOLEAN /\ barrier \in BOOLEAN /\ dialog_release_barrier \in BOOLEAN
  /\ requested \in BOOLEAN /\ running \in BOOLEAN
  /\ pending_commit \in 0 .. 2

\* The queue within its capacity, and unless it dropped an event the game is of
\* the loader's mind once it has drained it.
StreamFits ==
  /\ ids \in SUBSET Sources /\ input_queue \in Seq(Events) /\ Len(input_queue) =< QueueCap
  /\ lost \in BOOLEAN /\ gameDown \in SUBSET Everything
  /\ ~lost => FoldLeft(Apply, gameDown, input_queue) = ids \cup game_keys

\* What is down is down for all of the loader.
SourcesFit ==
  /\ touch_old = fingers /\ fingers = ids \cap Fingers
  /\ held <=> Pointer \in ids

\* The pad holds nothing while a finger, a barrier or a dialog has the controls.
PadFits ==
  /\ game_keys \subseteq previous
  /\ fingers # {} \/ barrier \/ dialog_release_barrier => game_keys = {} /\ ~held

\* A dialog, what it leaves pressed, and a text on its way stay behind the barrier.
DialogFits ==
  /\ stale # {} \/ running \/ visual = "running" \/ pending_commit # 0 => dialog_release_barrier
  /\ dialog_release_barrier => touch_old = {}
  /\ phase = "pad" => ~dialog_release_barrier
  /\ visual = "running" => phase \notin {"numeric", "touch", "pad"}
  /\ running \/ pending_commit # 0 => phase \notin {"touch", "pad"}

\* At most one text is in the queue, just while a commit waits for it.
TextsIn(q) == {i \in 1 .. Len(q) : q[i][1] = "text"}
TextFits ==
  /\ pending_commit = 1 <=> TextsIn(input_queue) # {}
  /\ \A i, j \in TextsIn(input_queue) : i = j
  /\ pending_commit = 2 => phase = "after"

ControlFits == StateTypes /\ SourcesFit /\ PadFits /\ DialogFits
InputInv == ControlFits /\ StreamFits /\ TextFits

-----------------------------------------------------------------------------
(* Recursion over the natural numbers, in terms of sets.                    *)


LargestOf(s) == CHOOSE x \in s : \A y \in s : x >= y

LEMMA Largest ==
  ASSUME NEW n \in Nat, NEW s \in SUBSET (1 .. n), s # {}
  PROVE LargestOf(s) \in s /\ \A y \in s : LargestOf(s) >= y
<1> DEFINE T == {n - y : y \in s}
<1>1. T \in SUBSET Nat OBVIOUS
<1>2. PICK y \in s : TRUE OBVIOUS
<1>3. n - y \in T OBVIOUS
<1>4. PICK d \in T : \A e \in T : d =< e BY <1>1, <1>3, Least
<1>5. PICK x \in s : d = n - x BY <1>4
<1>6. ASSUME NEW z \in s PROVE x >= z
  <2>1. n - z \in T OBVIOUS
  <2>2. n - x =< n - z BY <1>4, <1>5, <2>1
  <2>3. x \in Nat /\ z \in Nat OBVIOUS
  <2> HIDE DEF T
  <2>4. QED BY <2>2, <2>3
<1>7. QED BY <1>6 DEF LargestOf

\* A fold takes the greatest index of a set last.
Unfolds(f, base, g, D) ==
  \A s \in SUBSET D :
    f[s] = IF s = {} THEN base ELSE g[<<f[s \ {LargestOf(s)}], LargestOf(s)>>]

LEMMA FoldExists ==
  ASSUME NEW n \in Nat, NEW State, NEW base \in State, NEW g \in [State \X (1 .. n) -> State]
  PROVE \E f \in [SUBSET (1 .. n) -> State] : Unfolds(f, base, g, 1 .. n)
<1> DEFINE Fits(k) == \E f \in [SUBSET (1 .. k) -> State] : Unfolds(f, base, g, 1 .. k)
           P == {k \in Nat : k =< n => Fits(k)}
<1>1. 0 \in P
  <2>1. SUBSET (1 .. 0) = {{}} OBVIOUS
  <2>2. [s \in SUBSET (1 .. 0) |-> base] \in [SUBSET (1 .. 0) -> State] OBVIOUS
  <2>3. Unfolds([s \in SUBSET (1 .. 0) |-> base], base, g, 1 .. 0) BY <2>1 DEF Unfolds
  <2>4. QED BY <2>2, <2>3
<1>2. ASSUME NEW k \in P PROVE k + 1 \in P
  <2> HIDE DEF Fits
  <2>0. k \in Nat /\ k + 1 \in Nat /\ (k =< n => Fits(k)) OBVIOUS
  <2>1. SUFFICES ASSUME k + 1 =< n PROVE Fits(k + 1) BY <2>0
  <2> HIDE DEF P
  <2>2. PICK f \in [SUBSET (1 .. k) -> State] : Unfolds(f, base, g, 1 .. k)
    <3>1. k =< n BY <2>0, <2>1
    <3>2. QED BY <2>0, <3>1 DEF Fits
  <2> DEFINE h == [s \in SUBSET (1 .. k + 1) |-> IF k + 1 \in s THEN g[<<f[s \ {k + 1}], k + 1>>] ELSE f[s]]
  <2>3. \A s \in SUBSET (1 .. k + 1) : s \ {k + 1} \in SUBSET (1 .. k) BY <2>0
  <2>4. \A s \in SUBSET (1 .. k + 1) : k + 1 \notin s => s \in SUBSET (1 .. k) BY <2>0
  <2>5. h \in [SUBSET (1 .. k + 1) -> State]
    <3>1. k + 1 \in 1 .. n BY <2>0, <2>1
    <3>2. \A s \in SUBSET (1 .. k + 1) : g[<<f[s \ {k + 1}], k + 1>>] \in State BY <2>3, <3>1
    <3>3. QED BY <2>4, <3>2
  <2>6. ASSUME NEW s \in SUBSET (1 .. k + 1)
        PROVE h[s] = IF s = {} THEN base ELSE g[<<h[s \ {LargestOf(s)}], LargestOf(s)>>]
    <3>1. CASE k + 1 \in s
      <4>2. LargestOf(s) \in s /\ LargestOf(s) >= k + 1 BY <3>1, <2>0, Largest
      <4>3. LargestOf(s) = k + 1
        <5>1. LargestOf(s) \in 1 .. k + 1 BY <4>2
        <5>2. QED BY <5>1, <4>2, <2>0
      <4>4. h[s \ {k + 1}] = f[s \ {k + 1}] OBVIOUS
      <4>5. QED BY <3>1, <4>3, <4>4
    <3>2. CASE k + 1 \notin s
      <4>1. s \in SUBSET (1 .. k) /\ s \ {LargestOf(s)} \in SUBSET (1 .. k + 1) BY <2>4, <3>2
      <4>2. h[s \ {LargestOf(s)}] = f[s \ {LargestOf(s)}] BY <3>2, <4>1
      <4>3. h[s] = f[s] BY <3>2
      <4>4. QED BY <2>2, <4>1, <4>2, <4>3 DEF Unfolds
    <3>3. QED BY <3>1, <3>2
  <2> HIDE DEF h
  <2>7. QED BY <2>5, <2>6 DEF Unfolds, Fits
<1>3. P = Nat
  <2>1. P \in SUBSET Nat OBVIOUS
  <2> HIDE DEF P
  <2>2. QED BY <1>1, <1>2, <2>1, Upwards
<1> HIDE DEF Fits
<1>4. n \in P BY <1>3
<1>5. Fits(n) BY <1>4
<1>6. QED BY <1>5 DEF Fits

\* The values a fold from left to right goes through.
Run(r, base, g, calls) ==
  /\ r[0] = base
  /\ \A k \in 1 .. Len(calls) : r[k] = g[<<r[k - 1], calls[k]>>]

LEMMA RunsJoin ==
  ASSUME NEW S, NEW c \in Seq(S), NEW d \in Seq(S), NEW g, NEW base, NEW p, NEW q, NEW r,
         Run(p, base, g, c), Run(q, p[Len(c)], g, d), Run(r, base, g, c \o d)
  PROVE r[Len(c \o d)] = q[Len(d)]
<1>1. /\ Len(c) \in Nat /\ Len(d) \in Nat /\ Len(c \o d) = Len(c) + Len(d)
      /\ \A i \in 1 .. Len(c) + Len(d) : (c \o d)[i] = IF i =< Len(c) THEN c[i] ELSE d[i - Len(c)]
  BY LenProperties, ConcatProperties
<1> DEFINE P == {k \in Nat : k =< Len(c) => r[k] = p[k]}
           Q == {k \in Nat : k =< Len(d) => r[Len(c) + k] = q[k]}
<1>2. P = Nat
  <2>1. 0 \in P BY DEF Run
  <2>2. ASSUME NEW k \in P PROVE k + 1 \in P
    <3>1. SUFFICES ASSUME k + 1 =< Len(c) PROVE r[k + 1] = p[k + 1] OBVIOUS
    <3>2. r[k] = p[k] /\ (c \o d)[k + 1] = c[k + 1] BY <1>1, <3>1
    <3>3. k + 1 \in 1 .. Len(c) /\ k + 1 \in 1 .. Len(c \o d) /\ k + 1 - 1 = k BY <1>1, <3>1
    <3>4. p[k + 1] = g[<<p[k], c[k + 1]>>] BY <3>3 DEF Run
    <3>5. r[k + 1] = g[<<r[k], (c \o d)[k + 1]>>] BY <3>3 DEF Run
    <3>6. QED BY <3>2, <3>4, <3>5
  <2>3. P \in SUBSET Nat OBVIOUS
  <2> HIDE DEF P
  <2>4. QED BY <2>1, <2>2, <2>3, Upwards
<1>3. Q = Nat
  <2>1. 0 \in Q
    <3>1. r[Len(c)] = p[Len(c)]
      <4>1. Len(c) \in P BY <1>1, <1>2
      <4>2. Len(c) =< Len(c) BY <1>1
      <4>3. QED BY <4>1, <4>2
    <3>2. QED BY <1>1, <3>1 DEF Run
  <2>2. ASSUME NEW k \in Q PROVE k + 1 \in Q
    <3>1. SUFFICES ASSUME k + 1 =< Len(d) PROVE r[Len(c) + (k + 1)] = q[k + 1] OBVIOUS
    <3>2. r[Len(c) + k] = q[k] BY <1>1, <3>1
    <3>3. /\ k + 1 \in 1 .. Len(d) /\ Len(c) + (k + 1) \in 1 .. Len(c \o d) /\ k + 1 - 1 = k
          /\ Len(c) + (k + 1) - 1 = Len(c) + k /\ Len(c) + (k + 1) - Len(c) = k + 1
          /\ ~(Len(c) + (k + 1) =< Len(c))
      BY <1>1, <3>1
    <3>4. q[k + 1] = g[<<q[k], d[k + 1]>>] BY <3>3 DEF Run
    <3>5. r[Len(c) + (k + 1)] = g[<<r[Len(c) + k], (c \o d)[Len(c) + (k + 1)]>>] BY <3>3 DEF Run
    <3>6. (c \o d)[Len(c) + (k + 1)] = d[k + 1] BY <1>1, <3>3
    <3>7. QED BY <3>2, <3>4, <3>5, <3>6
  <2>3. Q \in SUBSET Nat OBVIOUS
  <2> HIDE DEF Q
  <2>4. QED BY <2>1, <2>2, <2>3, Upwards
<1>4. r[Len(c) + Len(d)] = q[Len(d)]
  <2>1. Len(d) \in Q BY <1>1, <1>3
  <2>2. Len(d) =< Len(d) BY <1>1
  <2>3. QED BY <2>1, <2>2
<1>5. QED BY <1>1, <1>4

-----------------------------------------------------------------------------
(* What a sequence of calls pushes, and what a sequence of events makes of   *)
(* the game, as runs of Push and Apply.                                     *)

PushStates == [ids : SUBSET Sources, out : Seq(Events)]
Downs == SUBSET Everything

LEMMA PushTyped ==
  ASSUME NEW s \in PushStates, NEW e \in Events
  PROVE  Push(s, e) \in PushStates
<1>1. s.ids \in SUBSET Sources /\ s.out \in Seq(Events) BY DEF PushStates
<1>2. Append(s.out, e) \in Seq(Events) BY <1>1
<1>3. CASE e[1] = "down"
  <2>1. e[2] \in Sources /\ e = <<"down", e[2]>> BY <1>3 DEF Events, Presses, Text
  <2>2. <<"up", e[2]>> \in Events BY <2>1 DEF Events, Presses
  <2>3. (IF e[2] \in s.ids THEN <<<<"up", e[2]>>>> ELSE <<>>) \in Seq(Events) BY <2>2
  <2>4. s.out \o (IF e[2] \in s.ids THEN <<<<"up", e[2]>>>> ELSE <<>>) \o <<e>> \in Seq(Events)
    BY <1>1, <2>3
  <2>5. s.ids \cup {e[2]} \in SUBSET Sources BY <1>1, <2>1
  <2>6. QED BY <1>3, <2>4, <2>5 DEF Push, PushStates
<1>4. CASE e[1] \in {"move", "up"} /\ e[2] \notin s.ids
  BY <1>4 DEF Push
<1>5. CASE e[1] = "up" /\ e[2] \in s.ids
  BY <1>1, <1>2, <1>5 DEF Push, PushStates
<1>6. CASE ~(e[1] = "down") /\ ~(e[1] \in {"move", "up"} /\ e[2] \notin s.ids) /\ ~(e[1] = "up" /\ e[2] \in s.ids)
  <2>1. Push(s, e) = [s EXCEPT !.out = Append(@, e)] BY <1>6 DEF Push
  <2>2. QED BY <1>2, <2>1 DEF PushStates
<1>7. QED BY <1>3, <1>4, <1>5, <1>6

LEMMA ApplyTyped ==
  ASSUME NEW D \in Downs, NEW e \in Events
  PROVE  Apply(D, e) \in Downs
<1>1. e[2] \in Everything \/ e[1] = "text" BY DEF Events, Presses, Text, Everything
<1>2. QED BY <1>1 DEF Apply, Downs, Everything

\* The table of a fold over calls: the step that takes call k in state s.
LEMMA PushRun ==
  ASSUME NEW base \in PushStates, NEW calls \in Seq(Events)
  PROVE  \E r : /\ r[0] = base /\ \A k \in 0 .. Len(calls) : r[k] \in PushStates
                /\ \A k \in 1 .. Len(calls) : r[k] = Push(r[k - 1], calls[k])
                /\ r[Len(calls)] = FoldLeft(Push, base, calls)
<1>1. Len(calls) \in Nat /\ DOMAIN calls = 1 .. Len(calls)
      /\ \A k \in 1 .. Len(calls) : calls[k] \in Events
  BY LenProperties
<1> DEFINE n == Len(calls)
           g == [p \in PushStates \X (1 .. n) |-> Push(p[1], calls[p[2]])]
           Folds(f) == f = [s \in SUBSET DOMAIN calls |->
                              IF s = {} THEN base
                              ELSE Push(f[s \ {LargestOf(s)}], calls[LargestOf(s)])]
<1>2. g \in [PushStates \X (1 .. n) -> PushStates]
  <2>1. \A p \in PushStates \X (1 .. n) : Push(p[1], calls[p[2]]) \in PushStates
    BY <1>1, PushTyped
  <2>2. QED BY <2>1
<1>3. PICK f \in [SUBSET (1 .. n) -> PushStates] : Unfolds(f, base, g, 1 .. n)
  <2> HIDE DEF g
  <2>1. QED BY <1>1, <1>2, FoldExists
<1>4. Folds(f)
  <2>1. ASSUME NEW s \in SUBSET (1 .. n)
        PROVE f[s] = IF s = {} THEN base ELSE Push(f[s \ {LargestOf(s)}], calls[LargestOf(s)])
    <3>1. CASE s = {} BY <1>3, <3>1 DEF Unfolds
    <3>2. CASE s # {}
      <4>1. f[s] = g[<<f[s \ {LargestOf(s)}], LargestOf(s)>>] BY <1>3, <3>2 DEF Unfolds
      <4>2. LargestOf(s) \in s BY <1>1, <3>2, Largest
      <4>3. s \ {LargestOf(s)} \in SUBSET (1 .. n) OBVIOUS
      <4>4. <<f[s \ {LargestOf(s)}], LargestOf(s)>> \in PushStates \X (1 .. n) BY <1>3, <4>2, <4>3
      <4>5. QED BY <3>2, <4>1, <4>4
    <3>3. QED BY <3>1, <3>2
  <2>2. QED BY <1>1, <2>1
<1> DEFINE c == CHOOSE h : Folds(h)
<1>5. Folds(c) BY <1>4
<1>6. FoldLeft(Push, base, calls) = c[1 .. n]
  BY <1>1 DEF FoldLeft, MapThenFoldSet, Max, LargestOf
<1> DEFINE r == [k \in 0 .. n |-> c[1 .. k]]
<1>7. r[0] = base
  <2>1. 1 .. 0 = {} /\ {} \in SUBSET DOMAIN calls /\ 0 \in 0 .. n BY <1>1
  <2>2. QED BY <1>5, <2>1
<1>8. ASSUME NEW k \in 1 .. n PROVE r[k] = Push(r[k - 1], calls[k])
  <2>0. k \in Nat /\ k \in 1 .. k /\ 1 .. k \in SUBSET (1 .. n) BY <1>1
  <2>1. 1 .. k # {} /\ 1 .. k \in SUBSET DOMAIN calls BY <1>1, <2>0
  <2>2. LargestOf(1 .. k) = k
    <3>1. LargestOf(1 .. k) \in 1 .. k /\ LargestOf(1 .. k) >= k
      <4>1. 1 .. k \in SUBSET (1 .. k) /\ 1 .. k # {} BY <2>1
      <4>2. QED BY <2>0, <4>1, Largest
    <3>2. QED BY <2>0, <3>1
  <2>3. (1 .. k) \ {k} = 1 .. (k - 1) BY <2>0
  <2>4. c[1 .. k] = Push(c[1 .. (k - 1)], calls[k]) BY <1>5, <2>1, <2>2, <2>3
  <2>5. k \in 0 .. n /\ k - 1 \in 0 .. n BY <1>1
  <2>6. QED BY <2>4, <2>5
<1>9. r[n] = FoldLeft(Push, base, calls) BY <1>1, <1>6
<1> DEFINE T == {k \in Nat : k =< n => r[k] \in PushStates}
<1> HIDE DEF r
<1>10. T = Nat
  <2>1. 0 \in T BY <1>7
  <2>2. ASSUME NEW k \in T PROVE k + 1 \in T
    <3>1. k \in Nat /\ k + 1 \in Nat OBVIOUS
    <3>2. SUFFICES ASSUME k + 1 =< n PROVE r[k + 1] \in PushStates BY <3>1
    <3>3. r[k] \in PushStates BY <1>1, <3>1, <3>2
    <3>4. k + 1 \in 1 .. n /\ k + 1 - 1 = k BY <1>1, <3>1, <3>2
    <3>5. r[k + 1] = Push(r[k], calls[k + 1]) BY <1>8, <3>4
    <3>6. QED BY <1>1, <3>3, <3>4, <3>5, PushTyped
  <2>3. T \in SUBSET Nat OBVIOUS
  <2> HIDE DEF T
  <2>4. QED BY <2>1, <2>2, <2>3, Upwards
<1>11. ASSUME NEW k \in 0 .. n PROVE r[k] \in PushStates
  <2>1. k \in T /\ k =< n BY <1>1, <1>10
  <2>2. QED BY <2>1
<1>12. QED BY <1>7, <1>8, <1>9, <1>11

LEMMA ApplyRun ==
  ASSUME NEW base \in Downs, NEW calls \in Seq(Events)
  PROVE  \E r : /\ r[0] = base /\ \A k \in 0 .. Len(calls) : r[k] \in Downs
                /\ \A k \in 1 .. Len(calls) : r[k] = Apply(r[k - 1], calls[k])
                /\ r[Len(calls)] = FoldLeft(Apply, base, calls)
<1>1. Len(calls) \in Nat /\ DOMAIN calls = 1 .. Len(calls)
      /\ \A k \in 1 .. Len(calls) : calls[k] \in Events
  BY LenProperties
<1> DEFINE n == Len(calls)
           g == [p \in Downs \X (1 .. n) |-> Apply(p[1], calls[p[2]])]
           Folds(f) == f = [s \in SUBSET DOMAIN calls |->
                              IF s = {} THEN base
                              ELSE Apply(f[s \ {LargestOf(s)}], calls[LargestOf(s)])]
<1>2. g \in [Downs \X (1 .. n) -> Downs]
  <2>1. \A p \in Downs \X (1 .. n) : Apply(p[1], calls[p[2]]) \in Downs
    BY <1>1, ApplyTyped
  <2>2. QED BY <2>1
<1>3. PICK f \in [SUBSET (1 .. n) -> Downs] : Unfolds(f, base, g, 1 .. n)
  <2> HIDE DEF g
  <2>1. QED BY <1>1, <1>2, FoldExists
<1>4. Folds(f)
  <2>1. ASSUME NEW s \in SUBSET (1 .. n)
        PROVE f[s] = IF s = {} THEN base ELSE Apply(f[s \ {LargestOf(s)}], calls[LargestOf(s)])
    <3>1. CASE s = {} BY <1>3, <3>1 DEF Unfolds
    <3>2. CASE s # {}
      <4>1. f[s] = g[<<f[s \ {LargestOf(s)}], LargestOf(s)>>] BY <1>3, <3>2 DEF Unfolds
      <4>2. LargestOf(s) \in s BY <1>1, <3>2, Largest
      <4>3. s \ {LargestOf(s)} \in SUBSET (1 .. n) OBVIOUS
      <4>4. <<f[s \ {LargestOf(s)}], LargestOf(s)>> \in Downs \X (1 .. n) BY <1>3, <4>2, <4>3
      <4>5. QED BY <3>2, <4>1, <4>4
    <3>3. QED BY <3>1, <3>2
  <2>2. QED BY <1>1, <2>1
<1> DEFINE c == CHOOSE h : Folds(h)
<1>5. Folds(c) BY <1>4
<1>6. FoldLeft(Apply, base, calls) = c[1 .. n]
  BY <1>1 DEF FoldLeft, MapThenFoldSet, Max, LargestOf
<1> DEFINE r == [k \in 0 .. n |-> c[1 .. k]]
<1>7. r[0] = base
  <2>1. 1 .. 0 = {} /\ {} \in SUBSET DOMAIN calls /\ 0 \in 0 .. n BY <1>1
  <2>2. QED BY <1>5, <2>1
<1>8. ASSUME NEW k \in 1 .. n PROVE r[k] = Apply(r[k - 1], calls[k])
  <2>0. k \in Nat /\ k \in 1 .. k /\ 1 .. k \in SUBSET (1 .. n) BY <1>1
  <2>1. 1 .. k # {} /\ 1 .. k \in SUBSET DOMAIN calls BY <1>1, <2>0
  <2>2. LargestOf(1 .. k) = k
    <3>1. LargestOf(1 .. k) \in 1 .. k /\ LargestOf(1 .. k) >= k
      <4>1. 1 .. k \in SUBSET (1 .. k) /\ 1 .. k # {} BY <2>1
      <4>2. QED BY <2>0, <4>1, Largest
    <3>2. QED BY <2>0, <3>1
  <2>3. (1 .. k) \ {k} = 1 .. (k - 1) BY <2>0
  <2>4. c[1 .. k] = Apply(c[1 .. (k - 1)], calls[k]) BY <1>5, <2>1, <2>2, <2>3
  <2>5. k \in 0 .. n /\ k - 1 \in 0 .. n BY <1>1
  <2>6. QED BY <2>4, <2>5
<1>9. r[n] = FoldLeft(Apply, base, calls) BY <1>1, <1>6
<1> DEFINE T == {k \in Nat : k =< n => r[k] \in Downs}
<1> HIDE DEF r
<1>10. T = Nat
  <2>1. 0 \in T BY <1>7
  <2>2. ASSUME NEW k \in T PROVE k + 1 \in T
    <3>1. k \in Nat /\ k + 1 \in Nat OBVIOUS
    <3>2. SUFFICES ASSUME k + 1 =< n PROVE r[k + 1] \in Downs BY <3>1
    <3>3. r[k] \in Downs BY <1>1, <3>1, <3>2
    <3>4. k + 1 \in 1 .. n /\ k + 1 - 1 = k BY <1>1, <3>1, <3>2
    <3>5. r[k + 1] = Apply(r[k], calls[k + 1]) BY <1>8, <3>4
    <3>6. QED BY <1>1, <3>3, <3>4, <3>5, ApplyTyped
  <2>3. T \in SUBSET Nat OBVIOUS
  <2> HIDE DEF T
  <2>4. QED BY <2>1, <2>2, <2>3, Upwards
<1>11. ASSUME NEW k \in 0 .. n PROVE r[k] \in Downs
  <2>1. k \in T /\ k =< n BY <1>1, <1>10
  <2>2. QED BY <2>1
<1>12. QED BY <1>7, <1>8, <1>9, <1>11

PushTable == [p \in PushStates \X Events |-> Push(p[1], p[2])]

LEMMA PushRuns ==
  ASSUME NEW base \in PushStates, NEW calls \in Seq(Events)
  PROVE  \E r : /\ Run(r, base, PushTable, calls) /\ r[Len(calls)] = FoldLeft(Push, base, calls)
                /\ r[Len(calls)] \in PushStates
<1>1. PICK r : /\ r[0] = base /\ \A k \in 0 .. Len(calls) : r[k] \in PushStates
               /\ \A k \in 1 .. Len(calls) : r[k] = Push(r[k - 1], calls[k])
               /\ r[Len(calls)] = FoldLeft(Push, base, calls)
  BY PushRun
<1>2. Len(calls) \in Nat /\ \A k \in 1 .. Len(calls) : calls[k] \in Events BY LenProperties
<1>3. ASSUME NEW k \in 1 .. Len(calls) PROVE r[k] = PushTable[<<r[k - 1], calls[k]>>]
  <2>1. k - 1 \in 0 .. Len(calls) BY <1>2
  <2>2. r[k - 1] \in PushStates /\ calls[k] \in Events BY <1>1, <1>2, <2>1
  <2>3. r[k] = Push(r[k - 1], calls[k]) BY <1>1
  <2>4. <<r[k - 1], calls[k]>> \in PushStates \X Events BY <2>2
  <2>5. QED BY <2>3, <2>4 DEF PushTable
<1>4. Len(calls) \in 0 .. Len(calls) BY <1>2
<1>5. r[Len(calls)] \in PushStates BY <1>1, <1>4
<1>6. Run(r, base, PushTable, calls) BY <1>1, <1>3 DEF Run
<1>7. QED BY <1>1, <1>5, <1>6

LEMMA PushesTyped ==
  ASSUME NEW base \in PushStates, NEW calls \in Seq(Events)
  PROVE  FoldLeft(Push, base, calls) \in PushStates
BY PushRuns

LEMMA PushesNone ==
  ASSUME NEW base \in PushStates
  PROVE  FoldLeft(Push, base, <<>>) = base
<1>1. <<>> \in Seq(Events) /\ Len(<<>>) = 0 BY EmptySeq
<1>2. PICK r : Run(r, base, PushTable, <<>>) /\ r[Len(<<>>)] = FoldLeft(Push, base, <<>>)
  BY <1>1, PushRuns
<1>3. QED BY <1>1, <1>2 DEF Run

LEMMA PushesOne ==
  ASSUME NEW base \in PushStates, NEW e \in Events
  PROVE  FoldLeft(Push, base, <<e>>) = Push(base, e)
<1>1. <<e>> \in Seq(Events) /\ Len(<<e>>) = 1 /\ <<e>>[1] = e OBVIOUS
<1>2. PICK r : /\ r[0] = base /\ \A k \in 0 .. Len(<<e>>) : r[k] \in PushStates
               /\ \A k \in 1 .. Len(<<e>>) : r[k] = Push(r[k - 1], <<e>>[k])
               /\ r[Len(<<e>>)] = FoldLeft(Push, base, <<e>>)
  BY <1>1, PushRun
<1>3. 1 \in 1 .. Len(<<e>>) /\ 1 - 1 = 0 BY <1>1
<1>4. r[1] = Push(r[0], e) BY <1>1, <1>2, <1>3
<1>5. QED BY <1>1, <1>2, <1>4

LEMMA PushesJoin ==
  ASSUME NEW base \in PushStates, NEW c \in Seq(Events), NEW d \in Seq(Events)
  PROVE  FoldLeft(Push, base, c \o d) = FoldLeft(Push, FoldLeft(Push, base, c), d)
<1>1. c \o d \in Seq(Events) BY ConcatProperties
<1>2. PICK p : /\ Run(p, base, PushTable, c) /\ p[Len(c)] = FoldLeft(Push, base, c)
               /\ p[Len(c)] \in PushStates
  BY PushRuns
<1>3. PICK q : Run(q, p[Len(c)], PushTable, d) /\ q[Len(d)] = FoldLeft(Push, p[Len(c)], d)
  BY <1>2, PushRuns
<1>4. PICK r : Run(r, base, PushTable, c \o d) /\ r[Len(c \o d)] = FoldLeft(Push, base, c \o d)
  BY <1>1, PushRuns
<1>5. r[Len(c \o d)] = q[Len(d)] BY <1>2, <1>3, <1>4, RunsJoin
<1>6. QED BY <1>2, <1>3, <1>4, <1>5

ApplyTable == [p \in Downs \X Events |-> Apply(p[1], p[2])]

LEMMA ApplyRuns ==
  ASSUME NEW base \in Downs, NEW calls \in Seq(Events)
  PROVE  \E r : /\ Run(r, base, ApplyTable, calls) /\ r[Len(calls)] = FoldLeft(Apply, base, calls)
                /\ r[Len(calls)] \in Downs
<1>1. PICK r : /\ r[0] = base /\ \A k \in 0 .. Len(calls) : r[k] \in Downs
               /\ \A k \in 1 .. Len(calls) : r[k] = Apply(r[k - 1], calls[k])
               /\ r[Len(calls)] = FoldLeft(Apply, base, calls)
  BY ApplyRun
<1>2. Len(calls) \in Nat /\ \A k \in 1 .. Len(calls) : calls[k] \in Events BY LenProperties
<1>3. ASSUME NEW k \in 1 .. Len(calls) PROVE r[k] = ApplyTable[<<r[k - 1], calls[k]>>]
  <2>1. k - 1 \in 0 .. Len(calls) BY <1>2
  <2>2. r[k - 1] \in Downs /\ calls[k] \in Events BY <1>1, <1>2, <2>1
  <2>3. r[k] = Apply(r[k - 1], calls[k]) BY <1>1
  <2>4. <<r[k - 1], calls[k]>> \in Downs \X Events BY <2>2
  <2>5. QED BY <2>3, <2>4 DEF ApplyTable
<1>4. Len(calls) \in 0 .. Len(calls) BY <1>2
<1>5. r[Len(calls)] \in Downs BY <1>1, <1>4
<1>6. Run(r, base, ApplyTable, calls) BY <1>1, <1>3 DEF Run
<1>7. QED BY <1>1, <1>5, <1>6

LEMMA AppliesTyped ==
  ASSUME NEW base \in Downs, NEW calls \in Seq(Events)
  PROVE  FoldLeft(Apply, base, calls) \in Downs
BY ApplyRuns

LEMMA AppliesNone ==
  ASSUME NEW base \in Downs
  PROVE  FoldLeft(Apply, base, <<>>) = base
<1>1. <<>> \in Seq(Events) /\ Len(<<>>) = 0 BY EmptySeq
<1>2. PICK r : Run(r, base, ApplyTable, <<>>) /\ r[Len(<<>>)] = FoldLeft(Apply, base, <<>>)
  BY <1>1, ApplyRuns
<1>3. QED BY <1>1, <1>2 DEF Run

LEMMA AppliesOne ==
  ASSUME NEW base \in Downs, NEW e \in Events
  PROVE  FoldLeft(Apply, base, <<e>>) = Apply(base, e)
<1>1. <<e>> \in Seq(Events) /\ Len(<<e>>) = 1 /\ <<e>>[1] = e OBVIOUS
<1>2. PICK r : /\ r[0] = base /\ \A k \in 0 .. Len(<<e>>) : r[k] \in Downs
               /\ \A k \in 1 .. Len(<<e>>) : r[k] = Apply(r[k - 1], <<e>>[k])
               /\ r[Len(<<e>>)] = FoldLeft(Apply, base, <<e>>)
  BY <1>1, ApplyRun
<1>3. 1 \in 1 .. Len(<<e>>) /\ 1 - 1 = 0 BY <1>1
<1>4. r[1] = Apply(r[0], e) BY <1>1, <1>2, <1>3
<1>5. QED BY <1>1, <1>2, <1>4

LEMMA AppliesJoin ==
  ASSUME NEW base \in Downs, NEW c \in Seq(Events), NEW d \in Seq(Events)
  PROVE  FoldLeft(Apply, base, c \o d) = FoldLeft(Apply, FoldLeft(Apply, base, c), d)
<1>1. c \o d \in Seq(Events) BY ConcatProperties
<1>2. PICK p : /\ Run(p, base, ApplyTable, c) /\ p[Len(c)] = FoldLeft(Apply, base, c)
               /\ p[Len(c)] \in Downs
  BY ApplyRuns
<1>3. PICK q : Run(q, p[Len(c)], ApplyTable, d) /\ q[Len(d)] = FoldLeft(Apply, p[Len(c)], d)
  BY <1>2, ApplyRuns
<1>4. PICK r : Run(r, base, ApplyTable, c \o d) /\ r[Len(c \o d)] = FoldLeft(Apply, base, c \o d)
  BY <1>1, ApplyRuns
<1>5. r[Len(c \o d)] = q[Len(d)] BY <1>2, <1>3, <1>4, RunsJoin
<1>6. QED BY <1>2, <1>3, <1>4, <1>5

-----------------------------------------------------------------------------
(* What calls do to the loader's ids I and the game's keys K.               *)

\* With the game, after the events o, agreeing with I and K, the calls make of
\* them I2 and K2, and the game agrees again after what they push.
Leads(calls, I, K, I2, K2) ==
  /\ calls \in Seq(Presses) /\ I2 \in SUBSET Sources /\ K2 \in SUBSET KeyButtons
  /\ \A o \in Seq(Presses) : \A D \in Downs :
       FoldLeft(Apply, D, o) = I \cup K =>
         /\ FoldLeft(Push, [ids |-> I, out |-> o], calls).ids = I2
         /\ FoldLeft(Push, [ids |-> I, out |-> o], calls).out \in Seq(Presses)
         /\ FoldLeft(Apply, D, FoldLeft(Push, [ids |-> I, out |-> o], calls).out) = I2 \cup K2

LEMMA PressesAreEvents ==
  ASSUME NEW o \in Seq(Presses)
  PROVE  o \in Seq(Events)
BY DEF Events

LEMMA LeadsNone ==
  ASSUME NEW I \in SUBSET Sources, NEW K \in SUBSET KeyButtons
  PROVE  Leads(<<>>, I, K, I, K)
<1>1. <<>> \in Seq(Presses) OBVIOUS
<1>2. ASSUME NEW o \in Seq(Presses)
      PROVE FoldLeft(Push, [ids |-> I, out |-> o], <<>>) = [ids |-> I, out |-> o]
  <2>1. [ids |-> I, out |-> o] \in PushStates BY PressesAreEvents DEF PushStates
  <2>2. QED BY <2>1, PushesNone
<1>3. QED BY <1>1, <1>2 DEF Leads

LEMMA LeadsJoin ==
  ASSUME NEW I \in SUBSET Sources, NEW K, NEW I1, NEW K1, NEW I2, NEW K2, NEW c, NEW d,
         Leads(c, I, K, I1, K1), Leads(d, I1, K1, I2, K2)
  PROVE  Leads(c \o d, I, K, I2, K2)
<1>1. /\ c \in Seq(Presses) /\ d \in Seq(Presses)
      /\ I1 \in SUBSET Sources /\ I2 \in SUBSET Sources /\ K2 \in SUBSET KeyButtons
  BY DEF Leads
<1>2. c \o d \in Seq(Presses) BY <1>1, ConcatProperties
<1>3. ASSUME NEW o \in Seq(Presses), NEW D \in Downs, FoldLeft(Apply, D, o) = I \cup K
      PROVE /\ FoldLeft(Push, [ids |-> I, out |-> o], c \o d).ids = I2
            /\ FoldLeft(Push, [ids |-> I, out |-> o], c \o d).out \in Seq(Presses)
            /\ FoldLeft(Apply, D, FoldLeft(Push, [ids |-> I, out |-> o], c \o d).out) = I2 \cup K2
  <2>1. PICK s : s = FoldLeft(Push, [ids |-> I, out |-> o], c) OBVIOUS
  <2>2. [ids |-> I, out |-> o] \in PushStates BY PressesAreEvents DEF PushStates
  <2>3. c \in Seq(Events) /\ d \in Seq(Events) BY <1>1, PressesAreEvents
  <2>4. s \in PushStates BY <2>1, <2>2, <2>3, PushesTyped
  <2>5. s.ids = I1 /\ s.out \in Seq(Presses) /\ FoldLeft(Apply, D, s.out) = I1 \cup K1
    BY <1>3, <2>1 DEF Leads
  <2>6. s = [ids |-> I1, out |-> s.out] BY <2>4, <2>5 DEF PushStates
  <2>7. PICK o1 : o1 = s.out OBVIOUS
  <2>8. PICK s2 : s2 = FoldLeft(Push, [ids |-> I1, out |-> o1], d) OBVIOUS
  <2>9. s2.ids = I2 /\ s2.out \in Seq(Presses) /\ FoldLeft(Apply, D, s2.out) = I2 \cup K2
    BY <2>5, <2>7, <2>8 DEF Leads
  <2>10. FoldLeft(Push, [ids |-> I, out |-> o], c \o d) = FoldLeft(Push, s, d)
    BY <2>1, <2>2, <2>3, PushesJoin
  <2>11. FoldLeft(Push, [ids |-> I, out |-> o], c \o d) = s2 BY <2>6, <2>7, <2>8, <2>10
  <2>12. QED BY <2>9, <2>11
<1>4. QED BY <1>1, <1>2, <1>3 DEF Leads

\* A single call: what it pushes, and what the game makes of that.
LEMMA LeadsOne ==
  ASSUME NEW e \in Presses, NEW I \in SUBSET Sources, NEW I2 \in SUBSET Sources,
         NEW K \in SUBSET KeyButtons, NEW K2 \in SUBSET KeyButtons, NEW p \in Seq(Presses),
         \A o \in Seq(Presses) : Push([ids |-> I, out |-> o], e) = [ids |-> I2, out |-> o \o p],
         FoldLeft(Apply, I \cup K, p) = I2 \cup K2
  PROVE  Leads(<<e>>, I, K, I2, K2)
<1>1. <<e>> \in Seq(Presses) OBVIOUS
<1>2. ASSUME NEW o \in Seq(Presses), NEW D \in Downs, FoldLeft(Apply, D, o) = I \cup K
      PROVE /\ FoldLeft(Push, [ids |-> I, out |-> o], <<e>>).ids = I2
            /\ FoldLeft(Push, [ids |-> I, out |-> o], <<e>>).out \in Seq(Presses)
            /\ FoldLeft(Apply, D, FoldLeft(Push, [ids |-> I, out |-> o], <<e>>).out) = I2 \cup K2
  <2>1. [ids |-> I, out |-> o] \in PushStates BY PressesAreEvents DEF PushStates
  <2>2. e \in Events BY DEF Events
  <2>3. FoldLeft(Push, [ids |-> I, out |-> o], <<e>>) = [ids |-> I2, out |-> o \o p]
    BY <2>1, <2>2, PushesOne
  <2>4. o \in Seq(Events) /\ p \in Seq(Events) BY PressesAreEvents
  <2>5. FoldLeft(Apply, D, o \o p) = FoldLeft(Apply, FoldLeft(Apply, D, o), p)
    BY <2>4, AppliesJoin
  <2>6. o \o p \in Seq(Presses) BY ConcatProperties
  <2>7. FoldLeft(Apply, D, o \o p) = I2 \cup K2 BY <1>2, <2>5
  <2>8. [ids |-> I2, out |-> o \o p].ids = I2 /\ [ids |-> I2, out |-> o \o p].out = o \o p OBVIOUS
  <2>9. QED BY <2>3, <2>6, <2>7, <2>8
<1>3. QED BY <1>1, <1>2 DEF Leads

LEMMA KeysAreNoSources == KeyButtons \cap Sources = {}
BY InputAssumption DEF Sources, Buttons

\* The record that a fold starts from is the one that a push takes apart.
LEMMA LeadsDown ==
  ASSUME NEW I \in SUBSET Sources, NEW K \in SUBSET KeyButtons, NEW p \in Sources
  PROVE  Leads(<<<<"down", p>>>>, I, K, I \cup {p}, K)
<1> DEFINE e == <<"down", p>>
           u == <<"up", p>>
<1>1. e \in Presses /\ u \in Presses /\ e \in Events /\ u \in Events BY DEF Presses, Events
<1>2. e[1] = "down" /\ e[2] = p /\ u[1] = "up" /\ u[2] = p OBVIOUS
<1>3. I \cup K \in Downs /\ (I \cup K) \ {p} \in Downs BY DEF Downs, Everything
<1>4. p \notin K BY KeysAreNoSources
<1> HIDE DEF e, u
<1>5. CASE p \in I
  <2>1. \A o \in Seq(Presses) : Push([ids |-> I, out |-> o], e) = [ids |-> I \cup {p}, out |-> o \o (<<u>> \o <<e>>)]
    <3>1. TAKE o \in Seq(Presses)
    <3>2. Push([ids |-> I, out |-> o], e) = [ids |-> I \cup {p}, out |-> o \o <<<<"up", p>>>> \o <<e>>]
      BY <1>2, <1>5 DEF Push
    <3>3. (o \o <<u>>) \o <<e>> = o \o (<<u>> \o <<e>>)
      <4>1. <<u>> \in Seq(Presses) /\ <<e>> \in Seq(Presses) BY <1>1
      <4>2. QED BY <4>1, ConcatAssociative
    <3>4. QED BY <3>2, <3>3 DEF u
  <2>2. <<u>> \o <<e>> \in Seq(Presses) BY <1>1
  <2>3. FoldLeft(Apply, I \cup K, <<u>> \o <<e>>) = (I \cup {p}) \cup K
    <3>1. <<u>> \in Seq(Events) /\ <<e>> \in Seq(Events) BY <1>1
    <3>2. FoldLeft(Apply, I \cup K, <<u>> \o <<e>>) = FoldLeft(Apply, FoldLeft(Apply, I \cup K, <<u>>), <<e>>)
      BY <1>3, <3>1, AppliesJoin
    <3>3. FoldLeft(Apply, I \cup K, <<u>>) = (I \cup K) \ {p}
      <4>1. Apply(I \cup K, u) = (I \cup K) \ {p} BY <1>2, <1>5 DEF Apply
      <4>2. QED BY <1>1, <1>3, <4>1, AppliesOne
    <3>4. FoldLeft(Apply, (I \cup K) \ {p}, <<e>>) = ((I \cup K) \ {p}) \cup {p}
      <4>1. Apply((I \cup K) \ {p}, e) = ((I \cup K) \ {p}) \cup {p} BY <1>2 DEF Apply
      <4>2. QED BY <1>1, <1>3, <4>1, AppliesOne
    <3>5. ((I \cup K) \ {p}) \cup {p} = (I \cup {p}) \cup K OBVIOUS
    <3>6. QED BY <3>2, <3>3, <3>4, <3>5
  <2>4. I \cup {p} \in SUBSET Sources OBVIOUS
  <2>5. Leads(<<e>>, I, K, I \cup {p}, K) BY <1>1, <2>1, <2>2, <2>3, <2>4, LeadsOne
  <2>6. QED BY <2>5 DEF e
<1>6. CASE p \notin I
  <2>1. \A o \in Seq(Presses) : Push([ids |-> I, out |-> o], e) = [ids |-> I \cup {p}, out |-> o \o <<e>>]
    <3>1. TAKE o \in Seq(Presses)
    <3>2. Push([ids |-> I, out |-> o], e) = [ids |-> I \cup {p}, out |-> o \o <<>> \o <<e>>]
      BY <1>2, <1>6 DEF Push
    <3>3. o \o <<>> \o <<e>> = o \o <<e>> BY <1>1
    <3>4. QED BY <3>2, <3>3
  <2>2. <<e>> \in Seq(Presses) BY <1>1
  <2>3. FoldLeft(Apply, I \cup K, <<e>>) = (I \cup {p}) \cup K
    <3>1. Apply(I \cup K, e) = (I \cup K) \cup {p} BY <1>2, <1>4, <1>6 DEF Apply
    <3>2. FoldLeft(Apply, I \cup K, <<e>>) = (I \cup K) \cup {p} BY <1>1, <1>3, <3>1, AppliesOne
    <3>3. QED BY <3>2
  <2>4. I \cup {p} \in SUBSET Sources OBVIOUS
  <2>5. Leads(<<e>>, I, K, I \cup {p}, K) BY <1>1, <2>1, <2>2, <2>3, <2>4, LeadsOne
  <2>6. QED BY <2>5 DEF e
<1>7. QED BY <1>5, <1>6

\* A call that pushes nothing.
LEMMA LeadsNowhere ==
  ASSUME NEW I \in SUBSET Sources, NEW K \in SUBSET KeyButtons, NEW e \in Presses,
         e[1] \in {"move", "up"} /\ e[2] \notin I
  PROVE  Leads(<<e>>, I, K, I, K)
<1>1. ASSUME NEW o \in Seq(Presses)
      PROVE Push([ids |-> I, out |-> o], e) = [ids |-> I, out |-> o \o <<>>]
  <2>1. Push([ids |-> I, out |-> o], e) = [ids |-> I, out |-> o] BY DEF Push
  <2>2. o \o <<>> = o OBVIOUS
  <2>3. QED BY <2>1, <2>2
<1>2. I \cup K \in Downs BY DEF Downs, Everything
<1>3. <<>> \in Seq(Presses) /\ FoldLeft(Apply, I \cup K, <<>>) = I \cup K BY <1>2, AppliesNone
<1>4. QED BY <1>1, <1>3, LeadsOne

\* A call that pushes itself.
LEMMA LeadsItself ==
  ASSUME NEW I \in SUBSET Sources, NEW K \in SUBSET KeyButtons, NEW e \in Presses,
         NEW I2 \in SUBSET Sources, NEW K2 \in SUBSET KeyButtons,
         \A o \in Seq(Presses) : Push([ids |-> I, out |-> o], e) = [ids |-> I2, out |-> Append(o, e)],
         Apply(I \cup K, e) = I2 \cup K2
  PROVE  Leads(<<e>>, I, K, I2, K2)
<1>1. ASSUME NEW o \in Seq(Presses)
      PROVE Push([ids |-> I, out |-> o], e) = [ids |-> I2, out |-> o \o <<e>>]
  <2>1. Append(o, e) = o \o <<e>> OBVIOUS
  <2>2. QED BY <2>1
<1>2. I \cup K \in Downs /\ e \in Events BY DEF Downs, Everything, Events
<1>3. FoldLeft(Apply, I \cup K, <<e>>) = I2 \cup K2 BY <1>2, AppliesOne
<1>4. <<e>> \in Seq(Presses) OBVIOUS
<1>5. QED BY <1>1, <1>3, <1>4, LeadsOne

LEMMA LeadsUp ==
  ASSUME NEW I \in SUBSET Sources, NEW K \in SUBSET KeyButtons, NEW p \in Sources
  PROVE  Leads(<<<<"up", p>>>>, I, K, I \ {p}, K)
<1> DEFINE e == <<"up", p>>
<1>1. e \in Presses /\ e[1] = "up" /\ e[2] = p /\ p \notin K BY KeysAreNoSources DEF Presses
<1> HIDE DEF e
<1>2. CASE p \notin I
  <2>1. Leads(<<e>>, I, K, I, K) BY <1>1, <1>2, LeadsNowhere
  <2>2. I \ {p} = I BY <1>2
  <2>3. QED BY <2>1, <2>2 DEF e
<1>3. CASE p \in I
  <2>1. ASSUME NEW o \in Seq(Presses)
        PROVE Push([ids |-> I, out |-> o], e) = [ids |-> I \ {p}, out |-> Append(o, e)]
    BY <1>1, <1>3 DEF Push
  <2>2. Apply(I \cup K, e) = (I \cup K) \ {p} BY <1>1, <1>3 DEF Apply
  <2>3. (I \cup K) \ {p} = (I \ {p}) \cup K /\ I \ {p} \in SUBSET Sources BY <1>1
  <2>4. Leads(<<e>>, I, K, I \ {p}, K) BY <1>1, <2>1, <2>2, <2>3, LeadsItself
  <2>5. QED BY <2>4 DEF e
<1>4. QED BY <1>2, <1>3

LEMMA LeadsMove ==
  ASSUME NEW I \in SUBSET Sources, NEW K \in SUBSET KeyButtons, NEW p \in Sources
  PROVE  Leads(<<<<"move", p>>>>, I, K, I, K)
<1> DEFINE e == <<"move", p>>
<1>1. e \in Presses /\ e[1] = "move" /\ e[2] = p BY DEF Presses
<1> HIDE DEF e
<1>2. CASE p \notin I
  <2>1. Leads(<<e>>, I, K, I, K) BY <1>1, <1>2, LeadsNowhere
  <2>2. QED BY <2>1 DEF e
<1>3. CASE p \in I
  <2>1. ASSUME NEW o \in Seq(Presses)
        PROVE Push([ids |-> I, out |-> o], e) = [ids |-> I, out |-> Append(o, e)]
    <3>1. Push([ids |-> I, out |-> o], e) = [[ids |-> I, out |-> o] EXCEPT !.out = Append(@, e)]
      BY <1>1, <1>3 DEF Push
    <3>2. QED BY <3>1
  <2>2. Apply(I \cup K, e) = I \cup K BY <1>1, <1>3 DEF Apply
  <2>3. Leads(<<e>>, I, K, I, K) BY <1>1, <2>1, <2>2, LeadsItself
  <2>4. QED BY <2>3 DEF e
<1>4. QED BY <1>2, <1>3

LEMMA LeadsKeyDown ==
  ASSUME NEW I \in SUBSET Sources, NEW K \in SUBSET KeyButtons, NEW k \in KeyButtons \ K
  PROVE  Leads(<<<<"keydown", k>>>>, I, K, I, K \cup {k})
<1> DEFINE e == <<"keydown", k>>
<1>1. e \in Presses /\ e[1] = "keydown" /\ e[2] = k /\ k \notin I BY KeysAreNoSources DEF Presses
<1> HIDE DEF e
<1>2. ASSUME NEW o \in Seq(Presses)
      PROVE Push([ids |-> I, out |-> o], e) = [ids |-> I, out |-> Append(o, e)]
  <2>1. Push([ids |-> I, out |-> o], e) = [[ids |-> I, out |-> o] EXCEPT !.out = Append(@, e)]
    BY <1>1 DEF Push
  <2>2. QED BY <2>1
<1>3. Apply(I \cup K, e) = (I \cup K) \cup {k} BY <1>1 DEF Apply
<1>4. (I \cup K) \cup {k} = I \cup (K \cup {k}) /\ K \cup {k} \in SUBSET KeyButtons OBVIOUS
<1>5. Leads(<<e>>, I, K, I, K \cup {k}) BY <1>1, <1>2, <1>3, <1>4, LeadsItself
<1>6. QED BY <1>5 DEF e

LEMMA LeadsKeyUp ==
  ASSUME NEW I \in SUBSET Sources, NEW K \in SUBSET KeyButtons, NEW k \in K
  PROVE  Leads(<<<<"keyup", k>>>>, I, K, I, K \ {k})
<1> DEFINE e == <<"keyup", k>>
<1>1. e \in Presses /\ e[1] = "keyup" /\ e[2] = k /\ k \notin I BY KeysAreNoSources DEF Presses
<1> HIDE DEF e
<1>2. ASSUME NEW o \in Seq(Presses)
      PROVE Push([ids |-> I, out |-> o], e) = [ids |-> I, out |-> Append(o, e)]
  <2>1. Push([ids |-> I, out |-> o], e) = [[ids |-> I, out |-> o] EXCEPT !.out = Append(@, e)]
    BY <1>1 DEF Push
  <2>2. QED BY <2>1
<1>3. Apply(I \cup K, e) = (I \cup K) \ {k} BY <1>1 DEF Apply
<1>4. (I \cup K) \ {k} = I \cup (K \ {k}) /\ K \ {k} \in SUBSET KeyButtons BY <1>1
<1>5. Leads(<<e>>, I, K, I, K \ {k}) BY <1>1, <1>2, <1>3, <1>4, LeadsItself
<1>6. QED BY <1>5 DEF e

-----------------------------------------------------------------------------
(* Calls for every member of a set, in whatever order.                      *)

LEMMA LeadsRow ==
  ASSUME NEW c \in Seq(Presses), NEW A \in [0 .. Len(c) -> SUBSET Sources],
         NEW B \in [0 .. Len(c) -> SUBSET KeyButtons],
         \A k \in 1 .. Len(c) : Leads(<<c[k]>>, A[k - 1], B[k - 1], A[k], B[k])
  PROVE  Leads(c, A[0], B[0], A[Len(c)], B[Len(c)])
<1>1. Len(c) \in Nat BY LenProperties
<1> DEFINE n == Len(c)
           P == {k \in Nat : k =< n => Leads(SubSeq(c, 1, k), A[0], B[0], A[k], B[k])}
<1>2. 0 \in P
  <2>1. SubSeq(c, 1, 0) = <<>> BY <1>1, SubSeqEmpty
  <2>2. A[0] \in SUBSET Sources /\ B[0] \in SUBSET KeyButtons BY <1>1
  <2>3. Leads(SubSeq(c, 1, 0), A[0], B[0], A[0], B[0]) BY <2>1, <2>2, LeadsNone
  <2>4. QED BY <2>3
<1>3. ASSUME NEW k \in P PROVE k + 1 \in P
  <2>1. k \in Nat /\ k + 1 \in Nat OBVIOUS
  <2>2. SUFFICES ASSUME k + 1 =< n PROVE Leads(SubSeq(c, 1, k + 1), A[0], B[0], A[k + 1], B[k + 1])
    BY <2>1
  <2>3. k =< n BY <1>1, <2>1, <2>2
  <2>4. Leads(SubSeq(c, 1, k), A[0], B[0], A[k], B[k]) BY <2>3
  <2>5. k + 1 \in 1 .. n /\ k + 1 - 1 = k /\ 0 \in 0 .. n BY <1>1, <2>1, <2>2
  <2>6. Leads(<<c[k + 1]>>, A[k], B[k], A[k + 1], B[k + 1]) BY <2>5
  <2>7. SubSeq(c, 1, k + 1) = SubSeq(c, 1, k) \o <<c[k + 1]>>
    <3>1. 1 \in 1 .. Len(c) /\ k + 1 \in 1 .. Len(c) BY <1>1, <2>1, <2>5
    <3>2. SubSeq(c, 1, k + 1) = SubSeq(c, 1, k + 1 - 1) \o <<c[k + 1]>>
      BY <2>1, <2>5, <3>1, SubSeqRecursiveSecond
    <3>3. QED BY <2>5, <3>2
  <2>8. A[0] \in SUBSET Sources BY <2>5
  <2>9. PICK d : d = SubSeq(c, 1, k) OBVIOUS
  <2>10. Leads(d \o <<c[k + 1]>>, A[0], B[0], A[k + 1], B[k + 1])
    <3> HIDE DEF P
    <3>1. Leads(d, A[0], B[0], A[k], B[k]) BY <2>4, <2>9
    <3>2. QED BY <3>1, <2>6, <2>8, LeadsJoin
  <2>11. QED BY <2>7, <2>9, <2>10
<1>4. P = Nat
  <2>1. P \in SUBSET Nat OBVIOUS
  <2> HIDE DEF P
  <2>2. QED BY <1>2, <1>3, <2>1, Upwards
<1>5. n \in P /\ n =< n BY <1>1, <1>4
<1>6. SubSeq(c, 1, Len(c)) = c BY SubSeqFull
<1>7. QED BY <1>5, <1>6

LEMMA Enumerated ==
  ASSUME NEW S, IsFiniteSet(S)
  PROVE  /\ Cardinality(S) \in Nat /\ Len(SetToSeq(S)) = Cardinality(S)
         /\ SetToSeq(S) \in [1 .. Cardinality(S) -> S] /\ IsInjective(SetToSeq(S))
         /\ \A x \in S : \E i \in 1 .. Cardinality(S) : SetToSeq(S)[i] = x
<1> DEFINE n == Cardinality(S)
<1>1. n \in Nat /\ ExistsBijection(1 .. n, S) BY FS_CardinalityType
<1>2. PICK f \in Bijection(1 .. n, S) : TRUE BY <1>1 DEF ExistsBijection
<1>3. f \in [1 .. n -> S] /\ IsInjective(f) BY <1>2 DEF Bijection, Injection
<1> DEFINE q == SetToSeq(S)
<1>4. q \in [1 .. n -> S] /\ IsInjective(q) BY <1>3 DEF SetToSeq
<1> HIDE DEF q
<1>5. q \in Injection(1 .. n, S) BY <1>4 DEF Injection
<1>6. IsFiniteSet(1 .. n) /\ Cardinality(1 .. n) = n BY <1>1, FS_Interval
<1>7. q \in Surjection(1 .. n, S) BY <1>5, <1>6, FS_Injection
<1>8. \A x \in S : \E i \in 1 .. n : q[i] = x BY <1>7 DEF Surjection
<1>9. Len(q) = n BY <1>1, <1>4
<1>10. QED BY <1>1, <1>4, <1>8, <1>9 DEF q

\* Calls for the members of S, when the call for any member outside T leads
\* from what those for T make to what those for T and that member do.
LEMMA LeadsCalls ==
  ASSUME NEW what, NEW S, IsFiniteSet(S), \A x \in S : <<what, x>> \in Presses,
         NEW A \in [SUBSET S -> SUBSET Sources], NEW B \in [SUBSET S -> SUBSET KeyButtons],
         \A T \in SUBSET S : \A x \in S \ T :
           Leads(<<<<what, x>>>>, A[T], B[T], A[T \cup {x}], B[T \cup {x}])
  PROVE  Leads(Calls(what, S), A[{}], B[{}], A[S], B[S])
<1> DEFINE q == SetToSeq(S)
           n == Cardinality(S)
           c == Calls(what, S)
           To(k) == {q[i] : i \in 1 .. k}
<1>1. /\ n \in Nat /\ Len(q) = n /\ q \in [1 .. n -> S]
      /\ \A i, j \in 1 .. n : q[i] = q[j] => i = j
      /\ \A x \in S : \E i \in 1 .. n : q[i] = x
  <2>1. DOMAIN q = 1 .. n BY Enumerated
  <2>2. QED BY <2>1, Enumerated DEF IsInjective
<1>2. c = [i \in 1 .. n |-> <<what, q[i]>>] BY <1>1 DEF Calls
<1> HIDE DEF q, c, n
<1>3. c \in Seq(Presses) /\ Len(c) = n /\ \A i \in 1 .. n : c[i] = <<what, q[i]>> BY <1>1, <1>2
<1>4. \A k \in 0 .. n : To(k) \in SUBSET S BY <1>1
<1> DEFINE A1 == [k \in 0 .. n |-> A[To(k)]]
           B1 == [k \in 0 .. n |-> B[To(k)]]
<1>5. A1 \in [0 .. Len(c) -> SUBSET Sources] /\ B1 \in [0 .. Len(c) -> SUBSET KeyButtons]
  BY <1>3, <1>4
<1>6. ASSUME NEW k \in 1 .. Len(c) PROVE Leads(<<c[k]>>, A1[k - 1], B1[k - 1], A1[k], B1[k])
  <2>1. k \in 1 .. n /\ k \in 0 .. n /\ k - 1 \in 0 .. n BY <1>1, <1>3
  <2>2. q[k] \in S \ To(k - 1)
    <3>1. q[k] \in S BY <1>1, <2>1
    <3>2. ASSUME NEW i \in 1 .. k - 1 PROVE q[i] # q[k]
      <4>1. i \in 1 .. n /\ i # k BY <1>1, <2>1
      <4>2. QED BY <1>1, <2>1, <4>1
    <3>3. QED BY <3>1, <3>2
  <2>3. To(k) = To(k - 1) \cup {q[k]}
    <3>1. 1 .. k = (1 .. k - 1) \cup {k} BY <1>1, <2>1
    <3>2. QED BY <3>1
  <2>4. To(k - 1) \in SUBSET S BY <1>4, <2>1
  <2>5. A1[k - 1] = A[To(k - 1)] /\ B1[k - 1] = B[To(k - 1)] /\ A1[k] = A[To(k)] /\ B1[k] = B[To(k)]
    BY <2>1
  <2>6. c[k] = <<what, q[k]>> BY <1>3, <2>1
  <2> HIDE DEF To, A1, B1
  <2>7. QED BY <2>2, <2>3, <2>4, <2>5, <2>6
<1>7. A1[0] = A[{}] /\ B1[0] = B[{}]
  <2>1. To(0) = {} /\ 0 \in 0 .. n BY <1>1
  <2>2. QED BY <2>1
<1>8. A1[n] = A[S] /\ B1[n] = B[S]
  <2>1. To(n) = S /\ n \in 0 .. n BY <1>1
  <2>2. QED BY <2>1
<1> HIDE DEF A1, B1
<1>9. Leads(c, A1[0], B1[0], A1[Len(c)], B1[Len(c)]) BY <1>3, <1>5, <1>6, LeadsRow
<1>10. QED BY <1>3, <1>7, <1>8, <1>9 DEF c

LEMMA LeadsUps ==
  ASSUME NEW I \in SUBSET Sources, NEW K \in SUBSET KeyButtons, NEW S \in SUBSET Sources,
         IsFiniteSet(S)
  PROVE  Leads(Calls("up", S), I, K, I \ S, K)
<1> DEFINE A == [T \in SUBSET S |-> I \ T]
           B == [T \in SUBSET S |-> K]
<1>1. A \in [SUBSET S -> SUBSET Sources] /\ B \in [SUBSET S -> SUBSET KeyButtons] OBVIOUS
<1>2. \A x \in S : <<"up", x>> \in Presses BY DEF Presses
<1>3. ASSUME NEW T \in SUBSET S, NEW x \in S \ T
      PROVE Leads(<<<<"up", x>>>>, A[T], B[T], A[T \cup {x}], B[T \cup {x}])
  <2>1. Leads(<<<<"up", x>>>>, I \ T, K, (I \ T) \ {x}, K) BY LeadsUp
  <2>2. T \cup {x} \in SUBSET S /\ (I \ T) \ {x} = I \ (T \cup {x}) OBVIOUS
  <2>3. QED BY <2>1, <2>2
<1>4. A[{}] = I /\ B[{}] = K /\ A[S] = I \ S /\ B[S] = K OBVIOUS
<1> HIDE DEF A, B
<1>5. Leads(Calls("up", S), A[{}], B[{}], A[S], B[S]) BY <1>1, <1>2, <1>3, LeadsCalls
<1>6. QED BY <1>4, <1>5

LEMMA LeadsDowns ==
  ASSUME NEW I \in SUBSET Sources, NEW K \in SUBSET KeyButtons, NEW S \in SUBSET Sources,
         IsFiniteSet(S)
  PROVE  Leads(Calls("down", S), I, K, I \cup S, K)
<1> DEFINE A == [T \in SUBSET S |-> I \cup T]
           B == [T \in SUBSET S |-> K]
<1>1. A \in [SUBSET S -> SUBSET Sources] /\ B \in [SUBSET S -> SUBSET KeyButtons] OBVIOUS
<1>2. \A x \in S : <<"down", x>> \in Presses BY DEF Presses
<1>3. ASSUME NEW T \in SUBSET S, NEW x \in S \ T
      PROVE Leads(<<<<"down", x>>>>, A[T], B[T], A[T \cup {x}], B[T \cup {x}])
  <2>1. Leads(<<<<"down", x>>>>, I \cup T, K, (I \cup T) \cup {x}, K) BY LeadsDown
  <2>2. T \cup {x} \in SUBSET S /\ (I \cup T) \cup {x} = I \cup (T \cup {x}) OBVIOUS
  <2>3. QED BY <2>1, <2>2
<1>4. A[{}] = I /\ B[{}] = K /\ A[S] = I \cup S /\ B[S] = K OBVIOUS
<1> HIDE DEF A, B
<1>5. Leads(Calls("down", S), A[{}], B[{}], A[S], B[S]) BY <1>1, <1>2, <1>3, LeadsCalls
<1>6. QED BY <1>4, <1>5

LEMMA LeadsMoves ==
  ASSUME NEW I \in SUBSET Sources, NEW K \in SUBSET KeyButtons, NEW S \in SUBSET Sources,
         IsFiniteSet(S)
  PROVE  Leads(Calls("move", S), I, K, I, K)
<1> DEFINE A == [T \in SUBSET S |-> I]
           B == [T \in SUBSET S |-> K]
<1>1. A \in [SUBSET S -> SUBSET Sources] /\ B \in [SUBSET S -> SUBSET KeyButtons] OBVIOUS
<1>2. \A x \in S : <<"move", x>> \in Presses BY DEF Presses
<1>3. ASSUME NEW T \in SUBSET S, NEW x \in S \ T
      PROVE Leads(<<<<"move", x>>>>, A[T], B[T], A[T \cup {x}], B[T \cup {x}])
  BY LeadsMove
<1>4. A[{}] = I /\ B[{}] = K /\ A[S] = I /\ B[S] = K OBVIOUS
<1> HIDE DEF A, B
<1>5. Leads(Calls("move", S), A[{}], B[{}], A[S], B[S]) BY <1>1, <1>2, <1>3, LeadsCalls
<1>6. QED BY <1>4, <1>5

LEMMA LeadsKeyDowns ==
  ASSUME NEW I \in SUBSET Sources, NEW K \in SUBSET KeyButtons, NEW S \in SUBSET KeyButtons,
         IsFiniteSet(S), S \cap K = {}
  PROVE  Leads(Calls("keydown", S), I, K, I, K \cup S)
<1> DEFINE A == [T \in SUBSET S |-> I]
           B == [T \in SUBSET S |-> K \cup T]
<1>1. A \in [SUBSET S -> SUBSET Sources] /\ B \in [SUBSET S -> SUBSET KeyButtons] OBVIOUS
<1>2. \A x \in S : <<"keydown", x>> \in Presses BY DEF Presses
<1>3. ASSUME NEW T \in SUBSET S, NEW x \in S \ T
      PROVE Leads(<<<<"keydown", x>>>>, A[T], B[T], A[T \cup {x}], B[T \cup {x}])
  <2>1. x \in KeyButtons \ (K \cup T) /\ K \cup T \in SUBSET KeyButtons OBVIOUS
  <2>2. Leads(<<<<"keydown", x>>>>, I, K \cup T, I, (K \cup T) \cup {x}) BY <2>1, LeadsKeyDown
  <2>3. T \cup {x} \in SUBSET S /\ (K \cup T) \cup {x} = K \cup (T \cup {x}) OBVIOUS
  <2>4. QED BY <2>2, <2>3
<1>4. A[{}] = I /\ B[{}] = K /\ A[S] = I /\ B[S] = K \cup S OBVIOUS
<1> HIDE DEF A, B
<1>5. Leads(Calls("keydown", S), A[{}], B[{}], A[S], B[S]) BY <1>1, <1>2, <1>3, LeadsCalls
<1>6. QED BY <1>4, <1>5

LEMMA LeadsKeyUps ==
  ASSUME NEW I \in SUBSET Sources, NEW K \in SUBSET KeyButtons, NEW S \in SUBSET K,
         IsFiniteSet(S)
  PROVE  Leads(Calls("keyup", S), I, K, I, K \ S)
<1> DEFINE A == [T \in SUBSET S |-> I]
           B == [T \in SUBSET S |-> K \ T]
<1>1. A \in [SUBSET S -> SUBSET Sources] /\ B \in [SUBSET S -> SUBSET KeyButtons] OBVIOUS
<1>2. \A x \in S : <<"keyup", x>> \in Presses BY DEF Presses
<1>3. ASSUME NEW T \in SUBSET S, NEW x \in S \ T
      PROVE Leads(<<<<"keyup", x>>>>, A[T], B[T], A[T \cup {x}], B[T \cup {x}])
  <2>1. x \in K \ T /\ K \ T \in SUBSET KeyButtons OBVIOUS
  <2>2. Leads(<<<<"keyup", x>>>>, I, K \ T, I, (K \ T) \ {x}) BY <2>1, LeadsKeyUp
  <2>3. T \cup {x} \in SUBSET S /\ (K \ T) \ {x} = K \ (T \cup {x}) OBVIOUS
  <2>4. QED BY <2>2, <2>3
<1>4. A[{}] = I /\ B[{}] = K /\ A[S] = I /\ B[S] = K \ S OBVIOUS
<1> HIDE DEF A, B
<1>5. Leads(Calls("keyup", S), A[{}], B[{}], A[S], B[S]) BY <1>1, <1>2, <1>3, LeadsCalls
<1>6. QED BY <1>4, <1>5

\* Nothing is called for no member.
LEMMA NoCalls == ASSUME NEW what PROVE Calls(what, {}) = <<>>
<1>1. IsFiniteSet({}) /\ Cardinality({}) = 0 BY FS_EmptySet
<1>2. Len(SetToSeq({})) = 0 BY <1>1, Enumerated
<1>3. 1 .. 0 = {} OBVIOUS
<1>4. Calls(what, {}) = [i \in {} |-> <<what, SetToSeq({})[i]>>] BY <1>2, <1>3 DEF Calls
<1>5. [i \in {} |-> <<what, SetToSeq({})[i]>>] = <<>> OBVIOUS
<1>6. QED BY <1>4, <1>5

-----------------------------------------------------------------------------
(* The queue under what the controls push into it.                          *)

LEMMA EmitFits ==
  ASSUME NEW calls, NEW I2, NEW K2, StreamFits, game_keys \in SUBSET KeyButtons,
         Leads(calls, ids, game_keys, I2, K2), Emit(calls)
  PROVE  /\ ids' = I2 /\ I2 \in SUBSET Sources /\ K2 \in SUBSET KeyButtons
         /\ input_queue' \in Seq(Events) /\ Len(input_queue') =< QueueCap /\ lost' \in BOOLEAN
         /\ ~lost' => FoldLeft(Apply, gameDown, input_queue') = I2 \cup K2
         /\ TextsIn(input_queue) = {} => TextsIn(input_queue') = {}
         /\ calls = <<>> => input_queue' = input_queue
<1>1. /\ ids \in SUBSET Sources /\ input_queue \in Seq(Events) /\ Len(input_queue) =< QueueCap
      /\ lost \in BOOLEAN /\ gameDown \in Downs
      /\ (~lost => FoldLeft(Apply, gameDown, input_queue) = ids \cup game_keys)
  BY DEF StreamFits, Downs
<1>2. PICK s : s = FoldLeft(Push, [ids |-> ids, out |-> <<>>], calls) OBVIOUS
<1>3. PICK D : D = ids \cup game_keys OBVIOUS
<1>4. D \in Downs BY <1>1, <1>3 DEF Downs, Everything
<1>5. <<>> \in Seq(Presses) /\ FoldLeft(Apply, D, <<>>) = ids \cup game_keys
  BY <1>3, <1>4, AppliesNone
<1>6. /\ s.ids = I2 /\ s.out \in Seq(Presses) /\ FoldLeft(Apply, D, s.out) = I2 \cup K2
      /\ I2 \in SUBSET Sources /\ K2 \in SUBSET KeyButtons
  BY <1>2, <1>4, <1>5 DEF Leads
<1>7. PICK p : p = s.out OBVIOUS
<1>8. PICK all : all = input_queue \o p OBVIOUS
<1>9. p \in Seq(Presses) /\ p \in Seq(Events) BY <1>6, <1>7, PressesAreEvents
<1>10. /\ Len(input_queue) \in Nat /\ Len(p) \in Nat /\ QueueCap \in Nat
       /\ all \in Seq(Events) /\ Len(all) = Len(input_queue) + Len(p)
       /\ \A i \in 1 .. Len(input_queue) + Len(p) :
            all[i] = IF i =< Len(input_queue) THEN input_queue[i] ELSE p[i - Len(input_queue)]
  BY <1>1, <1>8, <1>9, LenProperties, ConcatProperties, InputAssumption
<1>11. PICK over : over = Len(all) - QueueCap OBVIOUS
<1>12. over \in Int BY <1>10, <1>11
<1>13. /\ ids' = I2
       /\ input_queue' = IF over > 0 THEN SubSeq(all, over + 1, Len(all)) ELSE all
       /\ lost' = (lost \/ over > 0)
  BY <1>2, <1>6, <1>7, <1>8, <1>11 DEF Emit
<1>14. /\ input_queue' \in Seq(Events) /\ Len(input_queue') =< QueueCap
       /\ \A i \in 1 .. Len(input_queue') : \E j \in 1 .. Len(all) : input_queue'[i] = all[j]
  <2>1. CASE ~(over > 0)
    <3>1. input_queue' = all BY <1>13, <2>1
    <3>2. Len(all) =< QueueCap BY <1>10, <1>11, <2>1
    <3>3. QED BY <1>10, <3>1, <3>2
  <2>2. CASE over > 0
    <3>1. input_queue' = SubSeq(all, over + 1, Len(all)) BY <1>13, <2>2
    <3>2. over + 1 \in Int /\ Len(all) \in Int BY <1>10, <1>12
    <3>3. \A i \in over + 1 .. Len(all) : i \in 1 .. Len(all) BY <1>10, <1>12, <2>2
    <3>4. \A i \in over + 1 .. Len(all) : all[i] \in Events BY <1>10, <3>3
    <3>5. /\ SubSeq(all, over + 1, Len(all)) \in Seq(Events)
          /\ Len(SubSeq(all, over + 1, Len(all))) = IF over + 1 =< Len(all) THEN Len(all) - (over + 1) + 1 ELSE 0
          /\ \A i \in 1 .. Len(all) - (over + 1) + 1 : SubSeq(all, over + 1, Len(all))[i] = all[over + 1 + i - 1]
      BY <3>2, <3>4, SubSeqProperties
    <3>6. over + 1 =< Len(all) + 1 /\ Len(all) - (over + 1) + 1 = QueueCap
      BY <1>10, <1>11, <1>12
    <3>7. Len(SubSeq(all, over + 1, Len(all))) = QueueCap BY <1>10, <1>11, <1>12, <3>5, <3>6, InputAssumption
    <3>8. ASSUME NEW i \in 1 .. QueueCap
          PROVE over + 1 + i - 1 \in 1 .. Len(all) /\ SubSeq(all, over + 1, Len(all))[i] = all[over + 1 + i - 1]
      <4>1. over + 1 + i - 1 \in 1 .. Len(all) BY <1>10, <1>11, <1>12, <2>2
      <4>2. i \in 1 .. Len(all) - (over + 1) + 1 BY <3>6
      <4>3. QED BY <3>5, <4>1, <4>2
    <3>9. \A i \in 1 .. QueueCap : \E j \in 1 .. Len(all) : SubSeq(all, over + 1, Len(all))[i] = all[j]
      BY <3>8
    <3>10. Len(input_queue') = QueueCap BY <3>1, <3>7
    <3>11. input_queue' \in Seq(Events) BY <3>1, <3>5
    <3>12. Len(input_queue') =< QueueCap BY <1>10, <3>10
    <3>13. \A i \in 1 .. Len(input_queue') : \E j \in 1 .. Len(all) : input_queue'[i] = all[j]
      BY <3>1, <3>9, <3>10
    <3>14. QED BY <3>11, <3>12, <3>13
  <2>3. QED BY <2>1, <2>2
<1>15. ASSUME TextsIn(input_queue) = {} PROVE TextsIn(input_queue') = {}
  <2>1. ASSUME NEW j \in 1 .. Len(all) PROVE all[j][1] # "text"
    <3>1. CASE j =< Len(input_queue)
      <4>1. j \in 1 .. Len(input_queue) /\ all[j] = input_queue[j] BY <1>10, <3>1
      <4>2. QED BY <1>15, <4>1 DEF TextsIn
    <3>2. CASE ~(j =< Len(input_queue))
      <4>1. j - Len(input_queue) \in 1 .. Len(p) /\ all[j] = p[j - Len(input_queue)] BY <1>10, <3>2
      <4>2. all[j] \in Presses BY <1>9, <4>1
      <4>3. QED BY <4>2 DEF Presses
    <3>3. QED BY <3>1, <3>2
  <2>2. QED BY <1>14, <2>1 DEF TextsIn
<1>16. ASSUME ~lost' PROVE FoldLeft(Apply, gameDown, input_queue') = I2 \cup K2
  <2>1. ~lost /\ input_queue' = input_queue \o p BY <1>8, <1>13, <1>16
  <2>2. FoldLeft(Apply, gameDown, input_queue \o p) = FoldLeft(Apply, FoldLeft(Apply, gameDown, input_queue), p)
    BY <1>1, <1>9, AppliesJoin
  <2>3. FoldLeft(Apply, gameDown, input_queue) = D BY <1>1, <1>3, <2>1
  <2>4. FoldLeft(Apply, D, p) = I2 \cup K2 BY <1>6, <1>7
  <2>5. QED BY <2>1, <2>2, <2>3, <2>4
<1>17. ASSUME calls = <<>> PROVE input_queue' = input_queue
  <2>1. [ids |-> ids, out |-> <<>>] \in PushStates BY <1>1 DEF PushStates
  <2>2. s = [ids |-> ids, out |-> <<>>] BY <1>2, <1>17, <2>1, PushesNone
  <2>3. p = <<>> BY <1>7, <2>2
  <2>4. all = input_queue BY <1>1, <1>8, <2>3
  <2>5. ~(over > 0) BY <1>1, <1>10, <1>11, <2>4
  <2>6. QED BY <1>13, <2>4, <2>5
<1>18. lost' \in BOOLEAN BY <1>1, <1>13
<1>19. QED BY <1>6, <1>13, <1>14, <1>15, <1>16, <1>17, <1>18

-----------------------------------------------------------------------------
(* What the steps that feed the queue have in common.                       *)

\* What a dialog left pressed ends no barrier of its own and starts nothing.
NothingStale == stale # {} => ids' \subseteq ids /\ game_keys' \subseteq game_keys

\* The calls lead to what the step makes of the pad's and the panel's records.
LEMMA ControlsFeed ==
  ASSUME NEW calls, NEW I2, InputInv, Emit(calls), Leads(calls, ids, game_keys, I2, game_keys'),
         gameDown' = gameDown, pending_commit' = pending_commit, phase # "after",
         pending_commit = 1 => calls = <<>>
  PROVE  ids' = I2 /\ StreamFits' /\ TextFits'
<1>1. StreamFits /\ TextFits /\ game_keys \in SUBSET KeyButtons
  BY DEF InputInv, ControlFits, StateTypes
<1>2. PICK K2 : K2 = game_keys' OBVIOUS
<1>3. Leads(calls, ids, game_keys, I2, K2) BY <1>2
<1>4. /\ ids' = I2 /\ I2 \in SUBSET Sources /\ K2 \in SUBSET KeyButtons
      /\ input_queue' \in Seq(Events) /\ Len(input_queue') =< QueueCap /\ lost' \in BOOLEAN
      /\ (~lost' => FoldLeft(Apply, gameDown, input_queue') = I2 \cup K2)
      /\ (TextsIn(input_queue) = {} => TextsIn(input_queue') = {})
      /\ (calls = <<>> => input_queue' = input_queue)
  BY <1>1, <1>3, EmitFits
<1>5. gameDown' \in SUBSET Everything BY <1>1 DEF StreamFits
<1>6. ~lost' => FoldLeft(Apply, gameDown', input_queue') = ids' \cup game_keys'
  BY <1>2, <1>4
<1>7. StreamFits' BY <1>4, <1>5, <1>6 DEF StreamFits
<1>8. TextFits'
  <2>1. pending_commit' # 2 BY <1>1 DEF TextFits
  <2>2. CASE pending_commit = 1
    <3>1. input_queue' = input_queue BY <1>4, <2>2
    <3>2. QED BY <1>1, <2>1, <3>1 DEF TextFits
  <2>3. CASE pending_commit # 1
    <3>1. TextsIn(input_queue') = {} BY <1>1, <1>4, <2>3 DEF TextFits
    <3>2. QED BY <2>1, <2>3, <3>1 DEF TextFits
  <2>4. QED BY <2>2, <2>3
<1>9. QED BY <1>4, <1>7, <1>8

LEMMA ControlsRest ==
  ASSUME InputInv, UNCHANGED <<streamVars, game_keys, gameDown, pending_commit>>, phase # "after"
  PROVE  StreamFits' /\ TextFits'
<1>1. StreamFits /\ TextFits BY DEF InputInv
<1>2. /\ ids' = ids /\ input_queue' = input_queue /\ lost' = lost /\ game_keys' = game_keys
      /\ gameDown' = gameDown /\ pending_commit' = pending_commit
  BY DEF streamVars
<1>3. StreamFits' BY <1>1, <1>2 DEF StreamFits
<1>4. TextFits' BY <1>1, <1>2 DEF TextFits
<1>5. QED BY <1>3, <1>4

LEMMA FiniteSources ==
  ASSUME NEW S \in SUBSET Fingers
  PROVE  S \in SUBSET Sources /\ IsFiniteSet(S)
BY InputAssumption, FS_Subset DEF Sources

LEMMA FiniteKeys ==
  ASSUME NEW S \in SUBSET KeyButtons
  PROVE  IsFiniteSet(S)
<1>1. IsFiniteSet({}) BY FS_EmptySet
<1>2. IsFiniteSet({} \cup {"start"}) BY <1>1, FS_AddElement
<1>3. IsFiniteSet(({} \cup {"start"}) \cup {"circle"}) BY <1>2, FS_AddElement
<1>4. S \subseteq ({} \cup {"start"}) \cup {"circle"} BY InputAssumption
<1>5. QED BY <1>3, <1>4, FS_Subset

\* pointer_up and keys_up, and all fingers.
LEMMA UpsLead ==
  ASSUME NEW I \in SUBSET Sources, game_keys \in SUBSET KeyButtons, held \in BOOLEAN,
         held <=> Pointer \in I
  PROVE  Leads(Ups, I, game_keys, I \ {Pointer}, {})
<1>1. Leads(If(held, <<<<"up", Pointer>>>>), I, game_keys, I \ {Pointer}, game_keys)
  <2>1. CASE held
    <3>1. Leads(<<<<"up", Pointer>>>>, I, game_keys, I \ {Pointer}, game_keys)
      BY LeadsUp DEF Sources
    <3>2. QED BY <2>1, <3>1 DEF If
  <2>2. CASE ~held
    <3>1. I \ {Pointer} = I BY <2>2
    <3>2. Leads(<<>>, I, game_keys, I, game_keys) BY LeadsNone
    <3>3. QED BY <2>2, <3>1, <3>2 DEF If
  <2>3. QED BY <2>1, <2>2
<1>2. Leads(Calls("keyup", game_keys), I \ {Pointer}, game_keys, I \ {Pointer}, game_keys \ game_keys)
  <2>1. I \ {Pointer} \in SUBSET Sources /\ IsFiniteSet(game_keys) BY FiniteKeys
  <2>2. QED BY <2>1, LeadsKeyUps
<1>3. game_keys \ game_keys = {} OBVIOUS
<1>4. Leads(If(held, <<<<"up", Pointer>>>>) \o Calls("keyup", game_keys),
            I, game_keys, I \ {Pointer}, game_keys \ game_keys)
  BY <1>1, <1>2, LeadsJoin
<1>5. QED BY <1>3, <1>4 DEF Ups

LEMMA TouchUpsLead ==
  ASSUME ControlFits, ids \in SUBSET Sources
  PROVE  Leads(TouchUps, ids, game_keys, IF touch_old = {} THEN ids ELSE {},
               IF touch_old = {} THEN game_keys ELSE {})
<1>1. /\ touch_old \in SUBSET Fingers /\ game_keys \in SUBSET KeyButtons /\ held \in BOOLEAN
      /\ touch_old = ids \cap Fingers /\ (held <=> Pointer \in ids)
  BY DEF ControlFits, StateTypes, SourcesFit
<1>2. touch_old \in SUBSET Sources /\ IsFiniteSet(touch_old) BY <1>1, FiniteSources
<1>3. CASE touch_old = {}
  <2>1. TouchUps = <<>>
    <3>1. TouchUps = <<>> \o <<>> BY <1>3, NoCalls DEF TouchUps, If
    <3>2. QED BY <3>1
  <2>2. Leads(<<>>, ids, game_keys, ids, game_keys) BY <1>1, LeadsNone
  <2>3. QED BY <1>3, <2>1, <2>2
<1>4. CASE touch_old # {}
  <2>1. TouchUps = Ups \o Calls("up", touch_old) BY <1>4 DEF TouchUps, If
  <2>2. Leads(Ups, ids, game_keys, ids \ {Pointer}, {}) BY <1>1, UpsLead
  <2>3. ids \ {Pointer} \in SUBSET Sources /\ {} \in SUBSET KeyButtons OBVIOUS
  <2>4. Leads(Calls("up", touch_old), ids \ {Pointer}, {}, (ids \ {Pointer}) \ touch_old, {})
    BY <1>2, <2>3, LeadsUps
  <2>5. (ids \ {Pointer}) \ touch_old = {} BY <1>1 DEF Sources
  <2>6. Leads(Ups \o Calls("up", touch_old), ids, game_keys, {}, {})
    BY <2>2, <2>4, <2>5, LeadsJoin
  <2>7. QED BY <1>4, <2>1, <2>6
<1>5. QED BY <1>3, <1>4

\* Behind the barrier there is nothing to end.
LEMMA NothingToEnd ==
  ASSUME ControlFits, dialog_release_barrier
  PROVE  TouchUps = <<>> /\ Ups = <<>>
<1>1. touch_old = {} /\ game_keys = {} /\ ~held
  BY DEF ControlFits, DialogFits, PadFits
<1>2. TouchUps = <<>> \o <<>> BY <1>1, NoCalls DEF TouchUps, If
<1>3. Ups = <<>> \o <<>> BY <1>1, NoCalls DEF Ups, If
<1>4. QED BY <1>2, <1>3

-----------------------------------------------------------------------------
(* One lemma for each step.                                                 *)

LEMMA TouchesReleased ==
  ASSUME InputInv, release_touches, gameDown' = gameDown, pending_commit' = pending_commit,
         phase # "after"
  PROVE  /\ StreamFits' /\ TextFits' /\ NothingStale
         /\ ids' = (IF touch_old = {} THEN ids ELSE {})
         /\ game_keys' = (IF touch_old = {} THEN game_keys ELSE {})
         /\ held' = (IF touch_old = {} THEN held ELSE FALSE)
         /\ previous' = previous /\ touch_old' = {} /\ fingers' = {}
         /\ barrier' = (IF touch_old = {} THEN barrier ELSE TRUE)
<1>1. ControlFits /\ ids \in SUBSET Sources BY DEF InputInv, StreamFits
<1>2. /\ Emit(TouchUps) /\ touch_old' = {} /\ fingers' = fingers \ touch_old
      /\ game_keys' = (IF touch_old = {} THEN game_keys ELSE {})
      /\ held' = (IF touch_old = {} THEN held ELSE FALSE)
      /\ previous' = previous
      /\ barrier' = (IF touch_old = {} THEN barrier ELSE TRUE)
  BY DEF release_touches, ReleasePad, padVars
<1>3. PICK I2 : I2 = IF touch_old = {} THEN ids ELSE {} OBVIOUS
<1>4. Leads(TouchUps, ids, game_keys, I2, game_keys') BY <1>1, <1>2, <1>3, TouchUpsLead
<1>5. pending_commit = 1 => TouchUps = <<>>
  BY <1>1, NothingToEnd DEF ControlFits, DialogFits
<1>6. ids' = I2 /\ StreamFits' /\ TextFits' BY <1>2, <1>4, <1>5, ControlsFeed
<1>7. fingers' = {} BY <1>1, <1>2 DEF ControlFits, SourcesFit
<1>8. NothingStale BY <1>2, <1>3, <1>6 DEF NothingStale
<1>9. QED BY <1>2, <1>3, <1>6, <1>7, <1>8

\* Nothing is stale in a step that leaves the ids and the keys alone.
LEMMA NoneStarts ==
  ASSUME UNCHANGED <<ids, game_keys>>
  PROVE  NothingStale
BY DEF NothingStale

LEMMA TickKeeps ==
  ASSUME InputInv, TickRestarts \/ TickQuiet
  PROVE  InputInv' /\ NothingStale
<1>1. StateTypes /\ SourcesFit /\ PadFits /\ DialogFits BY DEF InputInv, ControlFits
<1>2. /\ phase = "tick" /\ phase' = "visual" /\ stale' \subseteq stale /\ requested' \in BOOLEAN
      /\ missing_samples' = missing_samples /\ dialog_release_barrier' = dialog_release_barrier
      /\ visual' = visual /\ running' = running /\ pending_commit' = pending_commit
      /\ gameDown' = gameDown
  BY DEF TickRestarts, TickQuiet, Tick
<1>3. CASE TickRestarts
  <2>1. release_touches BY <1>3 DEF TickRestarts
  <2>2. /\ StreamFits' /\ TextFits' /\ NothingStale
        /\ ids' = (IF touch_old = {} THEN ids ELSE {})
        /\ game_keys' = (IF touch_old = {} THEN game_keys ELSE {})
        /\ held' = (IF touch_old = {} THEN held ELSE FALSE)
        /\ previous' = previous /\ touch_old' = {} /\ fingers' = {}
        /\ barrier' = (IF touch_old = {} THEN barrier ELSE TRUE)
    BY <1>2, <2>1, TouchesReleased
  <2>3. StateTypes' BY <1>1, <1>2, <2>2 DEF StateTypes, Phases
  <2>4. SourcesFit' BY <1>1, <2>2 DEF SourcesFit
  <2>5. PadFits' BY <1>1, <1>2, <2>2 DEF PadFits, SourcesFit
  <2>6. DialogFits' BY <1>1, <1>2, <2>2 DEF DialogFits
  <2>7. QED BY <2>2, <2>3, <2>4, <2>5, <2>6 DEF InputInv, ControlFits
<1>4. CASE TickQuiet
  <2>1. UNCHANGED <<touch_old, fingers, padVars, streamVars>> BY <1>4 DEF TickQuiet
  <2>2. UNCHANGED <<touch_old, fingers, held, game_keys, previous, barrier, ids>>
    BY <2>1 DEF padVars, streamVars
  <2>3. StreamFits' /\ TextFits' BY <1>2, <2>1, <2>2, ControlsRest
  <2>4. StateTypes' BY <1>1, <1>2, <2>2 DEF StateTypes, Phases
  <2>5. SourcesFit' BY <1>1, <2>2 DEF SourcesFit
  <2>6. PadFits' BY <1>1, <1>2, <2>2 DEF PadFits
  <2>7. DialogFits' BY <1>1, <1>2, <2>2 DEF DialogFits
  <2>8. NothingStale BY <2>2, NoneStarts
  <2>9. QED BY <2>3, <2>4, <2>5, <2>6, <2>7, <2>8 DEF InputInv, ControlFits
<1>5. QED BY <1>3, <1>4

\* A dialog takes the controls over and ends all that is down.
LEMMA DialogTakes ==
  ASSUME InputInv, controls_release_for_dialog, gameDown' = gameDown,
         pending_commit' = pending_commit, phase # "after"
  PROVE  /\ StreamFits' /\ TextFits' /\ NothingStale /\ SourcesFit' /\ PadFits'
         /\ ids' = {} /\ game_keys' = {} /\ held' = FALSE /\ previous' = {} /\ barrier' = TRUE
         /\ touch_old' = {} /\ fingers' = {} /\ dialog_release_barrier' = TRUE
<1>1. /\ ControlFits /\ ids \in SUBSET Sources /\ game_keys \in SUBSET KeyButtons
      /\ held \in BOOLEAN /\ (held <=> Pointer \in ids) /\ touch_old = ids \cap Fingers
      /\ touch_old = fingers
  BY DEF InputInv, ControlFits, StateTypes, StreamFits, SourcesFit
<1>2. /\ Emit(TouchUps \o If(touch_old = {}, Ups))
      /\ touch_old' = {} /\ fingers' = fingers \ touch_old
      /\ held' = FALSE /\ game_keys' = {} /\ barrier' = TRUE /\ previous' = {}
      /\ dialog_release_barrier' = TRUE
  BY DEF controls_release_for_dialog, ReleasePad
<1>3. Leads(TouchUps, ids, game_keys, IF touch_old = {} THEN ids ELSE {},
            IF touch_old = {} THEN game_keys ELSE {})
  BY <1>1, TouchUpsLead
<1>4. Leads(TouchUps \o If(touch_old = {}, Ups), ids, game_keys, {}, {})
  <2>1. CASE touch_old = {}
    <3>1. Leads(TouchUps, ids, game_keys, ids, game_keys) BY <1>3, <2>1
    <3>2. Leads(Ups, ids, game_keys, ids \ {Pointer}, {}) BY <1>1, UpsLead
    <3>3. ids \ {Pointer} = {} BY <1>1, <2>1 DEF Sources
    <3>4. Leads(TouchUps \o Ups, ids, game_keys, {}, {}) BY <1>1, <3>1, <3>2, <3>3, LeadsJoin
    <3>5. QED BY <2>1, <3>4 DEF If
  <2>2. CASE touch_old # {}
    <3>1. Leads(TouchUps, ids, game_keys, {}, {}) BY <1>3, <2>2
    <3>2. Leads(<<>>, {}, {}, {}, {}) BY LeadsNone
    <3>3. Leads(TouchUps \o <<>>, ids, game_keys, {}, {}) BY <1>1, <3>1, <3>2, LeadsJoin
    <3>4. QED BY <2>2, <3>3 DEF If
  <2>3. QED BY <2>1, <2>2
<1>5. pending_commit = 1 => TouchUps \o If(touch_old = {}, Ups) = <<>>
  <2>1. SUFFICES ASSUME pending_commit = 1 PROVE TouchUps \o If(touch_old = {}, Ups) = <<>> OBVIOUS
  <2>2. TouchUps = <<>> /\ Ups = <<>>
    BY <1>1, <2>1, NothingToEnd DEF ControlFits, DialogFits
  <2>3. If(touch_old = {}, Ups) = <<>> BY <2>2 DEF If
  <2>4. <<>> \o <<>> = <<>> OBVIOUS
  <2>5. QED BY <2>2, <2>3, <2>4
<1>6. Leads(TouchUps \o If(touch_old = {}, Ups), ids, game_keys, {}, game_keys') BY <1>2, <1>4
<1>7. ids' = {} /\ StreamFits' /\ TextFits' BY <1>2, <1>5, <1>6, ControlsFeed
<1>8. fingers' = {} BY <1>1, <1>2
<1>9. SourcesFit' BY <1>2, <1>7, <1>8 DEF SourcesFit
<1>10. PadFits' BY <1>2 DEF PadFits
<1>11. NothingStale BY <1>2, <1>7 DEF NothingStale
<1>12. QED BY <1>2, <1>7, <1>8, <1>9, <1>10, <1>11

LEMMA NoReleaseKeeps ==
  ASSUME InputInv, NoRelease, gameDown' = gameDown, pending_commit' = pending_commit, phase # "after"
  PROVE  /\ StreamFits' /\ TextFits' /\ NothingStale /\ SourcesFit' /\ PadFits'
         /\ UNCHANGED <<touch_old, fingers, held, game_keys, previous, barrier, ids,
                        dialog_release_barrier>>
<1>1. /\ UNCHANGED <<touch_old, fingers, held, game_keys, previous, barrier, ids,
                     dialog_release_barrier>>
      /\ UNCHANGED streamVars
  BY DEF NoRelease, padVars, streamVars
<1>2. StreamFits' /\ TextFits' BY <1>1, ControlsRest
<1>3. SourcesFit /\ PadFits BY DEF InputInv, ControlFits
<1>4. SourcesFit' BY <1>1, <1>3 DEF SourcesFit
<1>5. PadFits' BY <1>1, <1>3 DEF PadFits
<1>6. QED BY <1>1, <1>2, <1>4, <1>5, NoneStarts

LEMMA VisualKeeps ==
  ASSUME InputInv, VisualStep
  PROVE  InputInv' /\ NothingStale
<1>1. StateTypes /\ DialogFits /\ touch_old = fingers
  BY DEF InputInv, ControlFits, SourcesFit
<1>2. /\ phase = "visual" /\ phase' \in {"numeric", "pump"}
      /\ visual' \in {"off", "running"} /\ (visual' = "running" => phase' = "pump")
      /\ missing_samples' = missing_samples /\ requested' = requested /\ running' = running
      /\ pending_commit' = pending_commit /\ gameDown' = gameDown
      /\ (phase' = "numeric" => visual = "off")
  BY
    DEF VisualStep, VisualOff, VisualOpens, VisualFails, VisualGoesOn, VisualCloses, Visual, imeVars
<1>3. CASE VisualOpens \/ VisualFails \/ VisualCloses
  <2>1. controls_release_for_dialog /\ stale' \subseteq Fingers \cup Buttons
    BY <1>3 DEF VisualOpens, VisualFails, VisualCloses, DialogIsOpen, DialogCloses
  <2>2. /\ StreamFits' /\ TextFits' /\ NothingStale /\ SourcesFit' /\ PadFits'
        /\ ids' = {} /\ game_keys' = {} /\ held' = FALSE /\ previous' = {} /\ barrier' = TRUE
        /\ touch_old' = {} /\ fingers' = {} /\ dialog_release_barrier' = TRUE
    BY <1>2, <2>1, DialogTakes
  <2>3. StateTypes' BY <1>1, <1>2, <2>1, <2>2 DEF StateTypes, Phases
  <2>4. DialogFits' BY <1>1, <1>2, <2>2 DEF DialogFits
  <2>5. QED BY <2>2, <2>3, <2>4 DEF InputInv, ControlFits
<1>4. CASE VisualOff \/ VisualGoesOn
  <2>1. NoRelease /\ stale' \in {stale, {}} /\ (visual' = "running" => visual = "running")
    BY <1>4 DEF VisualOff, VisualGoesOn, Visual, DialogIsOpen
  <2>2. /\ StreamFits' /\ TextFits' /\ NothingStale /\ SourcesFit' /\ PadFits'
        /\ UNCHANGED <<touch_old, fingers, held, game_keys, previous, barrier, ids,
                       dialog_release_barrier>>
    BY <1>2, <2>1, NoReleaseKeeps
  <2>3. StateTypes' BY <1>1, <1>2, <2>1, <2>2 DEF StateTypes, Phases
  <2>4. DialogFits' BY <1>1, <1>2, <2>1, <2>2 DEF DialogFits
  <2>5. QED BY <2>2, <2>3, <2>4 DEF InputInv, ControlFits
<1>5. QED BY <1>3, <1>4 DEF VisualStep

\* The one event a commit queues is the last of the queue, even of a full one.
LEMMA TextIsQueued ==
  ASSUME StreamFits, TextsIn(input_queue) = {}, Emit(<<<<"text", "text">>>>),
         game_keys' = game_keys, gameDown' = gameDown
  PROVE  /\ StreamFits' /\ ids' = ids /\ TextsIn(input_queue') # {}
         /\ \A i, j \in TextsIn(input_queue') : i = j
<1>1. /\ ids \in SUBSET Sources /\ input_queue \in Seq(Events) /\ Len(input_queue) =< QueueCap
      /\ lost \in BOOLEAN /\ gameDown \in Downs
      /\ (~lost => FoldLeft(Apply, gameDown, input_queue) = ids \cup game_keys)
  BY DEF StreamFits, Downs
<1>2. PICK e : e = <<"text", "text">> OBVIOUS
<1>3. e \in Events /\ e[1] = "text" BY <1>2 DEF Events, Text
<1>4. FoldLeft(Push, [ids |-> ids, out |-> <<>>], <<e>>) = [ids |-> ids, out |-> <<e>>]
  <2>1. [ids |-> ids, out |-> <<>>] \in PushStates BY <1>1 DEF PushStates
  <2>2. Push([ids |-> ids, out |-> <<>>], e) = [[ids |-> ids, out |-> <<>>] EXCEPT !.out = Append(@, e)]
    BY <1>3 DEF Push
  <2>3. Append(<<>>, e) = <<e>> OBVIOUS
  <2>4. [[ids |-> ids, out |-> <<>>] EXCEPT !.out = Append(@, e)] = [ids |-> ids, out |-> <<e>>]
    BY <2>3
  <2>5. QED BY <1>3, <2>1, <2>2, <2>4, PushesOne
<1>5. PICK all : all = input_queue \o <<e>> OBVIOUS
<1>6. PICK n : n = Len(input_queue) OBVIOUS
<1>7. /\ n \in Nat /\ QueueCap \in Nat \ {0} /\ all \in Seq(Events) /\ Len(all) = n + 1
      /\ all[n + 1] = e /\ \A i \in 1 .. n : all[i] = input_queue[i]
  BY <1>1, <1>3, <1>5, <1>6, InputAssumption
<1>8. /\ ids' = ids
      /\ input_queue' = (IF n + 1 - QueueCap > 0 THEN SubSeq(all, n + 1 - QueueCap + 1, n + 1) ELSE all)
      /\ lost' = (lost \/ n + 1 - QueueCap > 0)
  <2>1. Emit(<<e>>) BY <1>2
  <2>2. PICK s : s = FoldLeft(Push, [ids |-> ids, out |-> <<>>], <<e>>) OBVIOUS
  <2>3. s.ids = ids /\ s.out = <<e>> BY <1>4, <2>2
  <2>4. PICK over : over = Len(all) - QueueCap OBVIOUS
  <2>5. /\ ids' = ids
        /\ input_queue' = IF over > 0 THEN SubSeq(all, over + 1, Len(all)) ELSE all
        /\ lost' = (lost \/ over > 0)
    BY <1>5, <2>1, <2>2, <2>3, <2>4 DEF Emit
  <2>6. over = n + 1 - QueueCap BY <1>7, <2>4
  <2>7. QED BY <1>7, <2>5, <2>6
<1>9. PICK m \in 0 .. n : /\ input_queue' \in Seq(Events) /\ Len(input_queue') = n + 1 - m
                          /\ n + 1 - m =< QueueCap
                          /\ \A i \in 1 .. n + 1 - m : input_queue'[i] = all[m + i]
  <2>1. CASE ~(n + 1 - QueueCap > 0)
    <3>1. input_queue' = all BY <1>8, <2>1
    <3>2. \A i \in 1 .. n + 1 : all[i] = all[0 + i] OBVIOUS
    <3>3. n + 1 - 0 = n + 1 /\ n + 1 =< QueueCap /\ 0 \in 0 .. n BY <1>7, <2>1
    <3>4. QED BY <1>7, <3>1, <3>2, <3>3
  <2>2. CASE n + 1 - QueueCap > 0
    <3>1. PICK m : m = n + 1 - QueueCap OBVIOUS
    <3>2. m \in 0 .. n /\ m \in Int /\ m + 1 \in Int /\ n + 1 \in Int /\ n + 1 - m = QueueCap
      BY <1>7, <2>2, <3>1
    <3>3. \A i \in m + 1 .. n + 1 : i \in 1 .. Len(all) BY <1>7, <3>2
    <3>4. \A i \in m + 1 .. n + 1 : all[i] \in Events BY <1>7, <3>3
    <3>5. PICK a \in Int : a = m + 1 BY <3>2
    <3>6. PICK b \in Int : b = n + 1 BY <3>2
    <3>7. /\ SubSeq(all, a, b) \in Seq(Events)
          /\ Len(SubSeq(all, a, b)) = (IF a =< b THEN b - a + 1 ELSE 0)
          /\ \A i \in 1 .. b - a + 1 : SubSeq(all, a, b)[i] = all[a + i - 1]
      <4>1. \A i \in a .. b : all[i] \in Events BY <3>4, <3>5, <3>6
      <4>2. QED BY <4>1, SubSeqProperties
    <3>8. input_queue' = SubSeq(all, a, b) /\ Len(input_queue') = n + 1 - m
      <4>1. input_queue' = SubSeq(all, a, b) BY <1>8, <2>2, <3>1, <3>5, <3>6
      <4>2. a =< b /\ b - a + 1 = n + 1 - m BY <1>7, <3>2, <3>5, <3>6
      <4>3. QED BY <3>7, <4>1, <4>2
    <3>9. ASSUME NEW i \in 1 .. n + 1 - m PROVE input_queue'[i] = all[m + i]
      <4>1. a + i - 1 = m + i /\ i \in 1 .. b - a + 1 BY <1>7, <3>2, <3>5, <3>6
      <4>2. QED BY <3>7, <3>8, <4>1
    <3>10. n + 1 - m =< QueueCap BY <1>7, <3>2
    <3>11. input_queue' \in Seq(Events) BY <3>7, <3>8
    <3>12. QED BY <3>2, <3>8, <3>9, <3>10, <3>11
  <2>3. QED BY <2>1, <2>2
<1>10. TextsIn(input_queue') = {n + 1 - m}
  <2>1. ASSUME NEW i \in 1 .. n + 1 - m PROVE input_queue'[i][1] = "text" <=> i = n + 1 - m
    <3>1. input_queue'[i] = all[m + i] BY <1>9
    <3>2. CASE i = n + 1 - m
      <4>1. m + i = n + 1 BY <1>7, <3>2
      <4>2. QED BY <1>3, <1>7, <3>1, <3>2, <4>1
    <3>3. CASE i # n + 1 - m
      <4>1. m + i \in 1 .. n BY <1>7, <3>3
      <4>2. all[m + i] = input_queue[m + i] BY <1>7, <4>1
      <4>3. input_queue[m + i][1] # "text" BY <1>6, <4>1 DEF TextsIn
      <4>4. QED BY <3>1, <3>3, <4>2, <4>3
    <3>4. QED BY <3>2, <3>3
  <2>2. n + 1 - m \in 1 .. n + 1 - m BY <1>7
  <2>3. QED BY <1>9, <2>1, <2>2 DEF TextsIn
<1>11. ASSUME ~lost' PROVE FoldLeft(Apply, gameDown', input_queue') = ids' \cup game_keys'
  <2>1. ~lost /\ input_queue' = input_queue \o <<e>> BY <1>5, <1>8, <1>11
  <2>2. PICK D : D = ids \cup game_keys OBVIOUS
  <2>3. <<e>> \in Seq(Events) BY <1>3
  <2>4. FoldLeft(Apply, gameDown, input_queue \o <<e>>) = FoldLeft(Apply, FoldLeft(Apply, gameDown, input_queue), <<e>>)
    BY <1>1, <2>3, AppliesJoin
  <2>5. FoldLeft(Apply, gameDown, input_queue) = D BY <1>1, <2>1, <2>2
  <2>6. D \in Downs BY <1>1, <2>5, AppliesTyped
  <2>7. Apply(D, e) = D BY <1>3 DEF Apply
  <2>8. FoldLeft(Apply, D, <<e>>) = D BY <1>3, <2>6, <2>7, AppliesOne
  <2>9. QED BY <1>8, <2>1, <2>2, <2>4, <2>5, <2>8
<1>12. lost' \in BOOLEAN BY <1>1, <1>8
<1>13. StreamFits' BY <1>1, <1>8, <1>9, <1>11, <1>12 DEF StreamFits, Downs
<1>14. QED BY <1>8, <1>10, <1>13

LEMMA NumericKeeps ==
  ASSUME InputInv, NumericStep
  PROVE  InputInv' /\ NothingStale
<1>1. StateTypes /\ DialogFits /\ touch_old = fingers /\ TextFits /\ SourcesFit /\ PadFits
  BY DEF InputInv, ControlFits, SourcesFit
<1>2. /\ phase = "numeric" /\ phase' \in {"touch", "pump"}
      /\ missing_samples' = missing_samples /\ visual' = visual /\ gameDown' = gameDown
  BY DEF NumericStep, NumericPending, NumericIdle, NumericOpens, NumericFails, NumericGoesOn,
         NumericCommits, NumericCloses, Numeric
<1>3. CASE NumericOpens \/ NumericFails
  <2>1. /\ controls_release_for_dialog /\ stale' \subseteq Fingers \cup Buttons
        /\ pending_commit = 0 /\ pending_commit' = 0 /\ running' \in BOOLEAN
        /\ requested' \in BOOLEAN /\ (running' => phase' = "pump")
    <3>1. CASE NumericOpens
      <4>1. /\ controls_release_for_dialog /\ stale' = {} /\ pending_commit = 0
            /\ running' = TRUE /\ phase' = "pump"
            /\ requested' = requested /\ pending_commit' = pending_commit
        BY <3>1 DEF NumericOpens, DialogIsOpen, Numeric
      <4>2. QED BY <1>1, <4>1 DEF StateTypes
    <3>2. CASE NumericFails
      <4>1. /\ controls_release_for_dialog /\ (\E s \in SUBSET (Fingers \cup Buttons) : stale' = s)
            /\ pending_commit = 0 /\ ~running /\ requested' = FALSE
            /\ running' = running /\ pending_commit' = pending_commit
        BY <3>2 DEF NumericFails, DialogCloses
      <4>2. QED BY <1>1, <4>1 DEF StateTypes
    <3>3. QED BY <1>3, <3>1, <3>2
  <2>2. /\ StreamFits' /\ TextFits' /\ NothingStale /\ SourcesFit' /\ PadFits'
        /\ ids' = {} /\ game_keys' = {} /\ held' = FALSE /\ previous' = {} /\ barrier' = TRUE
        /\ touch_old' = {} /\ fingers' = {} /\ dialog_release_barrier' = TRUE
    BY <1>2, <2>1, DialogTakes
  <2>3. StateTypes' BY <1>1, <1>2, <2>1, <2>2 DEF StateTypes, Phases
  <2>4. DialogFits' BY <1>1, <1>2, <2>1, <2>2 DEF DialogFits
  <2>5. QED BY <2>2, <2>3, <2>4 DEF InputInv, ControlFits
<1>4. CASE NumericPending \/ NumericIdle \/ NumericGoesOn \/ NumericCloses
  <2>1. /\ NoRelease /\ stale' \subseteq Fingers \cup Buttons
        /\ pending_commit' = pending_commit /\ running' \in BOOLEAN /\ requested' \in BOOLEAN
        /\ (running' => running) /\ (running' \/ pending_commit # 0 => phase' = "pump")
        /\ (stale' # {} => stale # {} \/ running)
    <3>1. CASE NumericPending \/ NumericGoesOn
      <4>1. /\ NoRelease /\ stale' = stale /\ phase' = "pump" /\ pending_commit' = pending_commit
            /\ requested' = requested /\ running' = running
        BY <3>1 DEF NumericPending, NumericGoesOn, Numeric, imeVars
      <4>2. QED BY <1>1, <4>1 DEF StateTypes
    <3>2. CASE NumericIdle
      <4>1. /\ NoRelease /\ stale' = stale /\ pending_commit = 0 /\ ~running
            /\ requested' = requested /\ running' = running /\ pending_commit' = pending_commit
        BY <3>2 DEF NumericIdle, imeVars
      <4>2. QED BY <1>1, <4>1 DEF StateTypes
    <3>3. CASE NumericCloses
      <4>1. /\ NoRelease /\ (\E s \in SUBSET (Fingers \cup Buttons) : stale' = s) /\ phase' = "pump"
            /\ running /\ running' = FALSE /\ requested' = FALSE /\ pending_commit' = pending_commit
        BY <3>3 DEF NumericCloses, DialogCloses, Numeric
      <4>2. QED BY <1>1, <4>1
    <3>4. QED BY <1>4, <3>1, <3>2, <3>3
  <2>2. /\ StreamFits' /\ TextFits' /\ NothingStale /\ SourcesFit' /\ PadFits'
        /\ UNCHANGED <<touch_old, fingers, held, game_keys, previous, barrier, ids,
                       dialog_release_barrier>>
    BY <1>2, <2>1, NoReleaseKeeps
  <2>3. StateTypes' BY <1>1, <1>2, <2>1, <2>2 DEF StateTypes, Phases
  <2>4. DialogFits' BY <1>1, <1>2, <2>1, <2>2 DEF DialogFits
  <2>5. QED BY <2>2, <2>3, <2>4 DEF InputInv, ControlFits
<1>5. CASE NumericCommits
  <2>1. /\ pending_commit = 0 /\ running /\ ~running' /\ ~requested' /\ pending_commit' = 1
        /\ running' \in BOOLEAN /\ requested' \in BOOLEAN
        /\ phase' = "pump" /\ stale' \subseteq Fingers \cup Buttons
        /\ Emit(<<<<"text", "text">>>>)
        /\ UNCHANGED <<touch_old, fingers, held, game_keys, previous, barrier,
                       dialog_release_barrier>>
    BY <1>5 DEF NumericCommits, Numeric, DialogCloses, padVars
  <2>2. StreamFits /\ TextsIn(input_queue) = {} BY <1>1, <2>1 DEF TextFits, InputInv
  <2>3. /\ StreamFits' /\ ids' = ids /\ TextsIn(input_queue') # {}
        /\ \A i, j \in TextsIn(input_queue') : i = j
    BY <1>2, <2>1, <2>2, TextIsQueued
  <2>4. TextFits' BY <2>1, <2>3 DEF TextFits
  <2>5. StateTypes' BY <1>1, <1>2, <2>1 DEF StateTypes, Phases
  <2>6. SourcesFit' BY <1>1, <2>1, <2>3 DEF SourcesFit
  <2>7. PadFits' BY <1>1, <2>1 DEF PadFits
  <2>8. DialogFits' BY <1>1, <1>2, <2>1 DEF DialogFits
  <2>9. NothingStale BY <2>1, <2>3, NoneStarts
  <2>10. QED BY <2>3, <2>4, <2>5, <2>6, <2>7, <2>8, <2>9 DEF InputInv, ControlFits
<1>6. QED BY <1>3, <1>4, <1>5 DEF NumericStep

\* Steps of a poll that push nothing.
LEMMA QuietPollKeeps ==
  ASSUME InputInv, BarrierWithoutTouch \/ BarrierStays \/ TouchMissing \/ PadMissing
                   \/ PadUnderFingers \/ PadBarrier
  PROVE  InputInv' /\ NothingStale
<1>1. StateTypes /\ SourcesFit /\ PadFits /\ DialogFits BY DEF InputInv, ControlFits
<1>2. /\ phase \in {"touch", "pad"} /\ phase' \in {"pad", "pump"}
      /\ (phase' = "pad" => ~dialog_release_barrier')
      /\ UNCHANGED <<stale, visual, requested, running, pending_commit, gameDown>>
      /\ UNCHANGED <<touch_old, fingers, held, game_keys>> /\ UNCHANGED streamVars
  BY <1>1
    DEF BarrierWithoutTouch, BarrierStays, TouchMissing, PadMissing, PadUnderFingers, PadBarrier,
              Pad, Poll, touchVars, padVars, imeVars
<1>3. ids' = ids BY <1>2 DEF streamVars
<1>4. StreamFits' /\ TextFits'
  <2>1. phase # "after" BY <1>2
  <2>2. QED BY <1>2, <2>1, ControlsRest
<1>5. SourcesFit' BY <1>1, <1>2, <1>3 DEF SourcesFit
<1>6. /\ missing_samples' \in 0 .. Missing /\ previous' \subseteq Buttons /\ barrier' \in BOOLEAN
      /\ dialog_release_barrier' \in BOOLEAN
      /\ game_keys \subseteq previous'
      /\ (fingers # {} \/ barrier' \/ dialog_release_barrier' => game_keys = {} /\ ~held)
      /\ (~dialog_release_barrier' => stale = {})
      /\ (dialog_release_barrier' => dialog_release_barrier)
  <2>1. CASE BarrierWithoutTouch
    <3>1. /\ dialog_release_barrier /\ missing_samples' = missing_samples
          /\ barrier' = FALSE /\ previous' = {} /\ {} \in TouchSamples
          /\ \E b \in PadSamples : dialog_release_barrier' = (b # {})
      BY <2>1 DEF BarrierWithoutTouch, touchVars
    <3>2. stale \cap Fingers = {} BY <3>1 DEF TouchSamples
    <3>3. ~dialog_release_barrier' => stale \cap Buttons = {} BY <3>1 DEF PadSamples
    <3>4. QED BY <1>1, <3>1, <3>2, <3>3 DEF StateTypes, PadFits
  <2>2. CASE BarrierStays \/ PadMissing
    <3>1. /\ missing_samples' = missing_samples
          /\ UNCHANGED <<previous, barrier, dialog_release_barrier>>
      BY <2>2 DEF BarrierStays, PadMissing, Pad, touchVars, padVars
    <3>2. QED BY <1>1, <3>1 DEF StateTypes, PadFits, DialogFits
  <2>3. CASE TouchMissing
    <3>1. /\ missing_samples < Missing - 1 /\ missing_samples' = missing_samples + 1
          /\ UNCHANGED <<previous, barrier, dialog_release_barrier>>
      BY <2>3 DEF TouchMissing, padVars
    <3>2. missing_samples' \in 0 .. Missing BY <1>1, <3>1, InputAssumption DEF StateTypes
    <3>3. QED BY <1>1, <3>1, <3>2 DEF StateTypes, PadFits, DialogFits
  <2>4. CASE PadUnderFingers
    <3>1. /\ fingers # {} /\ previous' \subseteq Buttons /\ missing_samples' = missing_samples
          /\ UNCHANGED <<barrier, dialog_release_barrier>>
      BY <2>4 DEF PadUnderFingers, Pad, PadSamples, touchVars
    <3>2. QED BY <1>1, <3>1 DEF StateTypes, PadFits, DialogFits
  <2>5. CASE PadBarrier
    <3>1. /\ barrier /\ fingers = {} /\ previous' = {} /\ missing_samples' = missing_samples
          /\ (\E b \in PadSamples : barrier' = (b # {})) /\ UNCHANGED dialog_release_barrier
      BY <2>5 DEF PadBarrier, Pad, touchVars
    <3>2. QED BY <1>1, <3>1 DEF StateTypes, PadFits, DialogFits
  <2>6. QED BY <2>1, <2>2, <2>3, <2>4, <2>5
<1>7. StateTypes' BY <1>1, <1>2, <1>6 DEF StateTypes, Phases
<1>8. PadFits' BY <1>1, <1>2, <1>6 DEF PadFits
<1>9. DialogFits'
  <2>1. ~running /\ visual # "running" /\ pending_commit = 0
    BY <1>1, <1>2 DEF DialogFits
  <2>2. QED BY <1>1, <1>2, <1>6, <2>1 DEF DialogFits
<1>10. NothingStale BY <1>2, <1>3, NoneStarts
<1>11. QED BY <1>4, <1>5, <1>7, <1>8, <1>9, <1>10 DEF InputInv, ControlFits

LEMMA TouchEndsKeeps ==
  ASSUME InputInv, TouchLost \/ TouchError
  PROVE  InputInv' /\ NothingStale
<1>1. StateTypes /\ SourcesFit /\ PadFits /\ DialogFits BY DEF InputInv, ControlFits
<1>2. /\ phase = "touch" /\ phase' = "pad" /\ release_touches
      /\ missing_samples' \in {missing_samples, Missing}
      /\ ~dialog_release_barrier /\ dialog_release_barrier' = dialog_release_barrier
      /\ UNCHANGED <<stale, visual, requested, running, pending_commit, gameDown>>
  BY DEF TouchLost, TouchError, Poll, imeVars
<1>3. missing_samples' \in 0 .. Missing BY <1>1, <1>2, InputAssumption DEF StateTypes
<1>4. /\ StreamFits' /\ TextFits' /\ NothingStale
      /\ ids' = (IF touch_old = {} THEN ids ELSE {})
      /\ game_keys' = (IF touch_old = {} THEN game_keys ELSE {})
      /\ held' = (IF touch_old = {} THEN held ELSE FALSE)
      /\ previous' = previous /\ touch_old' = {} /\ fingers' = {}
      /\ barrier' = (IF touch_old = {} THEN barrier ELSE TRUE)
  BY <1>2, TouchesReleased
<1>5. StateTypes' BY <1>1, <1>2, <1>3, <1>4 DEF StateTypes, Phases
<1>6. SourcesFit' BY <1>1, <1>4 DEF SourcesFit
<1>7. PadFits' BY <1>1, <1>2, <1>4 DEF PadFits, SourcesFit
<1>8. DialogFits' BY <1>1, <1>2, <1>4 DEF DialogFits
<1>9. QED BY <1>4, <1>5, <1>6, <1>7, <1>8 DEF InputInv, ControlFits

LEMMA TouchSampleKeeps ==
  ASSUME InputInv, TouchSample
  PROVE  InputInv' /\ NothingStale
<1>1. /\ StateTypes /\ SourcesFit /\ PadFits /\ DialogFits /\ ids \in SUBSET Sources
      /\ game_keys \in SUBSET KeyButtons /\ held \in BOOLEAN
      /\ (held <=> Pointer \in ids) /\ touch_old = ids \cap Fingers /\ fingers = touch_old
  BY DEF InputInv, ControlFits, StreamFits, StateTypes, SourcesFit
<1>2. /\ ~dialog_release_barrier /\ dialog_release_barrier' = dialog_release_barrier
      /\ phase = "touch" /\ phase' = "pad" /\ missing_samples' = 0
      /\ UNCHANGED <<stale, visual, requested, running, pending_commit, gameDown>>
  BY DEF TouchSample, Poll, imeVars
<1> DEFINE Sampled(t, moved) ==
      LET ended == touch_old \ t
          begun == t \ touch_old
          any == ended \cup begun \cup moved # {}
      IN /\ Emit(If(any, Ups) \o Calls("up", ended) \o Calls("down", begun) \o Calls("move", moved))
         /\ fingers' = (fingers \ ended) \cup begun \cup moved
         /\ (IF any THEN ReleasePad(previous) ELSE UNCHANGED padVars)
         /\ touch_old' = t
<1>3a. \E t \in TouchSamples : \E moved \in SUBSET (touch_old \cap t) : Sampled(t, moved)
  BY DEF TouchSample
<1> HIDE DEF Sampled
<1>3b. PICK t \in TouchSamples : \E moved \in SUBSET (touch_old \cap t) : Sampled(t, moved) BY <1>3a
<1>3c. PICK moved \in SUBSET (touch_old \cap t) : Sampled(t, moved) BY <1>3b
<1>4. PICK ended : ended = touch_old \ t OBVIOUS
<1>5. PICK begun : begun = t \ touch_old OBVIOUS
<1>6. PICK any : any = (ended \cup begun \cup moved # {}) OBVIOUS
<1>7. PICK I0 : I0 = IF any THEN ids \ {Pointer} ELSE ids OBVIOUS
<1>8. PICK calls : calls = If(any, Ups) \o Calls("up", ended) \o Calls("down", begun) \o Calls("move", moved)
  OBVIOUS
<1>9. /\ Emit(calls) /\ fingers' = (fingers \ ended) \cup begun \cup moved
      /\ game_keys' = (IF any THEN {} ELSE game_keys) /\ held' = (IF any THEN FALSE ELSE held)
      /\ barrier' = (IF any THEN TRUE ELSE barrier) /\ previous' = previous
      /\ touch_old' = t
  BY <1>3c, <1>4, <1>5, <1>6, <1>8 DEF Sampled, ReleasePad, padVars
<1>10. /\ t \in SUBSET Fingers /\ ended \in SUBSET Fingers /\ begun \in SUBSET Fingers
       /\ moved \in SUBSET Fingers
  BY <1>1, <1>4, <1>5 DEF TouchSamples
<1>11. /\ ended \in SUBSET Sources /\ begun \in SUBSET Sources /\ moved \in SUBSET Sources
       /\ IsFiniteSet(ended) /\ IsFiniteSet(begun) /\ IsFiniteSet(moved)
  BY <1>10, FiniteSources
<1>12. I0 \in SUBSET Sources /\ game_keys' \in SUBSET KeyButtons BY <1>1, <1>7, <1>9
<1>13. PICK K2 : K2 = game_keys' OBVIOUS
<1>14. Leads(If(any, Ups), ids, game_keys, I0, K2)
  <2>1. CASE any
    <3>1. Leads(Ups, ids, game_keys, ids \ {Pointer}, {}) BY <1>1, UpsLead
    <3>2. QED BY <1>7, <1>9, <1>13, <2>1, <3>1 DEF If
  <2>2. CASE ~any
    <3>1. Leads(<<>>, ids, game_keys, ids, game_keys) BY <1>1, LeadsNone
    <3>2. QED BY <1>7, <1>9, <1>13, <2>2, <3>1 DEF If
  <2>3. QED BY <2>1, <2>2, <1>6
<1>15. PICK I2 : I2 = (I0 \ ended) \cup begun OBVIOUS
<1>16. Leads(calls, ids, game_keys, I2, K2)
  <2>1. K2 \in SUBSET KeyButtons BY <1>12, <1>13
  <2>2. Leads(Calls("up", ended), I0, K2, I0 \ ended, K2) BY <1>11, <1>12, <2>1, LeadsUps
  <2>3. I0 \ ended \in SUBSET Sources BY <1>12
  <2>4. Leads(Calls("down", begun), I0 \ ended, K2, I2, K2)
    BY <1>11, <1>15, <2>1, <2>3, LeadsDowns
  <2>5. I2 \in SUBSET Sources BY <1>11, <1>12, <1>15
  <2>6. Leads(Calls("move", moved), I2, K2, I2, K2) BY <1>11, <2>1, <2>5, LeadsMoves
  <2>7. Leads(If(any, Ups) \o Calls("up", ended), ids, game_keys, I0 \ ended, K2)
    BY <1>1, <1>14, <2>2, LeadsJoin
  <2>8. Leads(If(any, Ups) \o Calls("up", ended) \o Calls("down", begun), ids, game_keys, I2, K2)
    BY <1>1, <2>7, <2>4, LeadsJoin
  <2>9. Leads(If(any, Ups) \o Calls("up", ended) \o Calls("down", begun) \o Calls("move", moved),
              ids, game_keys, I2, K2)
    BY <1>1, <2>8, <2>6, LeadsJoin
  <2>10. QED BY <1>8, <2>9
<1>17. pending_commit # 1 /\ phase # "after" BY <1>1, <1>2 DEF DialogFits
<1>18. ids' = I2 /\ StreamFits' /\ TextFits'
  <2>1. Leads(calls, ids, game_keys, I2, game_keys') BY <1>13, <1>16
  <2>2. QED BY <1>2, <1>9, <1>17, <2>1, ControlsFeed
<1>19. fingers' = t /\ I2 \cap Fingers = t
  <2>1. Pointer \notin Fingers BY InputAssumption
  <2>2. I0 \cap Fingers = touch_old BY <1>1, <1>7, <2>1
  <2>3. I2 \cap Fingers = t BY <1>4, <1>5, <1>10, <1>15, <2>2
  <2>4. fingers' = t BY <1>1, <1>4, <1>5, <1>9
  <2>5. QED BY <2>3, <2>4
<1>20. Pointer \in I2 <=> Pointer \in I0 BY <1>10, <1>15, InputAssumption
<1>21. held' <=> Pointer \in I2 BY <1>1, <1>7, <1>9, <1>20
<1>22. SourcesFit' BY <1>9, <1>18, <1>19, <1>21 DEF SourcesFit
<1>23. StateTypes'
  <2>1. missing_samples' \in 0 .. Missing BY <1>2, InputAssumption
  <2>2. held' \in BOOLEAN /\ barrier' \in BOOLEAN BY <1>1, <1>9 DEF StateTypes
  <2>3. game_keys' \subseteq KeyButtons /\ previous' \subseteq Buttons
    BY <1>1, <1>9, <1>12 DEF StateTypes
  <2>4. touch_old' \subseteq Fingers /\ fingers' \subseteq Fingers BY <1>9, <1>10, <1>19
  <2>5. QED BY <1>1, <1>2, <2>1, <2>2, <2>3, <2>4 DEF StateTypes, Phases
<1>24. PadFits'
  <2>1. CASE any BY <1>9, <2>1 DEF PadFits
  <2>2. CASE ~any
    <3>1. fingers' = fingers BY <1>1, <1>6, <1>9, <2>2
    <3>2. QED BY <1>1, <1>2, <1>9, <2>2, <3>1 DEF PadFits
  <2>3. QED BY <1>6, <2>1, <2>2
<1>25. DialogFits' BY <1>1, <1>2 DEF DialogFits
<1>26. NothingStale BY <1>1, <1>2 DEF NothingStale, DialogFits
<1>27. QED BY <1>18, <1>22, <1>23, <1>24, <1>25, <1>26 DEF InputInv, ControlFits

\* The steps of the pad that end all it holds.
LEMMA PadEndsKeeps ==
  ASSUME InputInv, PadError \/ PadChord \/ PadShoulders
  PROVE  InputInv' /\ NothingStale
<1>1. /\ StateTypes /\ SourcesFit /\ PadFits /\ DialogFits /\ ids \in SUBSET Sources
      /\ game_keys \in SUBSET KeyButtons /\ held \in BOOLEAN
      /\ (held <=> Pointer \in ids)
  BY DEF InputInv, ControlFits, StreamFits, StateTypes, SourcesFit
<1>2. /\ phase = "pad" /\ phase' = "pump" /\ Emit(Ups)
      /\ held' = FALSE /\ game_keys' = {} /\ visual' \in {visual, "requested"}
      /\ UNCHANGED <<stale, requested, running, pending_commit, gameDown>>
      /\ UNCHANGED <<touch_old, missing_samples, fingers, dialog_release_barrier>>
  BY DEF PadError, PadChord, PadShoulders, Pad, Poll, ReleasePad, touchVars, imeVars
<1>3. previous' \subseteq Buttons /\ barrier' \in BOOLEAN
  <2>1. CASE PadError BY <2>1 DEF PadError, ReleasePad
  <2>2. CASE PadChord BY <2>2 DEF PadChord, ReleasePad, PadSamples
  <2>3. CASE PadShoulders BY <1>1, <2>3 DEF PadShoulders, PadSamples, StateTypes
  <2>4. QED BY <2>1, <2>2, <2>3
<1>4. PICK I2 : I2 = ids \ {Pointer} OBVIOUS
<1>5. Leads(Ups, ids, game_keys, I2, game_keys') BY <1>1, <1>2, <1>4, UpsLead
<1>6. pending_commit # 1 /\ phase # "after" BY <1>1, <1>2 DEF DialogFits
<1>7. ids' = I2 /\ StreamFits' /\ TextFits' BY <1>2, <1>5, <1>6, ControlsFeed
<1>8. SourcesFit'
  <2>1. I2 \cap Fingers = ids \cap Fingers BY <1>4, InputAssumption
  <2>2. QED BY <1>1, <1>2, <1>4, <1>7, <2>1 DEF SourcesFit
<1>9. StateTypes' BY <1>1, <1>2, <1>3 DEF StateTypes, Phases
<1>10. PadFits' BY <1>2 DEF PadFits
<1>11. DialogFits' BY <1>1, <1>2 DEF DialogFits
<1>12. NothingStale BY <1>2, <1>4, <1>7 DEF NothingStale
<1>13. QED BY <1>7, <1>8, <1>9, <1>10, <1>11, <1>12 DEF InputInv, ControlFits

\* Calls that are made on a condition.
LEMMA LeadsIf ==
  ASSUME NEW I \in SUBSET Sources, NEW K \in SUBSET KeyButtons, NEW c, NEW I2, NEW K2,
         NEW condition \in BOOLEAN, condition => Leads(c, I, K, I2, K2)
  PROVE  Leads(If(condition, c), I, K, IF condition THEN I2 ELSE I, IF condition THEN K2 ELSE K)
BY LeadsNone DEF If

LEMMA PadButtonsKeeps ==
  ASSUME InputInv, PadButtons
  PROVE  InputInv' /\ NothingStale
<1>1. /\ StateTypes /\ SourcesFit /\ PadFits /\ DialogFits /\ ids \in SUBSET Sources
      /\ game_keys \in SUBSET KeyButtons /\ held \in BOOLEAN /\ previous \in SUBSET Buttons
      /\ (held <=> Pointer \in ids) /\ game_keys \subseteq previous
  BY DEF InputInv, ControlFits, StreamFits, StateTypes, SourcesFit, PadFits
<1>2. /\ phase = "pad" /\ phase' = "pump" /\ fingers = {} /\ ~barrier /\ barrier' = barrier
      /\ UNCHANGED <<stale, visual, requested, running, pending_commit, gameDown>>
      /\ UNCHANGED <<touch_old, missing_samples, fingers, dialog_release_barrier>>
  BY DEF PadButtons, Pad, PadFree, Poll, touchVars, imeVars
<1> DEFINE Sampled(b, back, drag) ==
      LET pressed  == b \ previous
          released == previous \ b
          keysDown == pressed \cap (IF back THEN KeyButtons ELSE KeyButtons \ {"circle"})
          keysUp   == released \cap game_keys
          pointer  == held /\ "circle" \notin pressed
      IN /\ Emit(Calls("keydown", keysDown \cap {"start"}) \o Calls("keyup", keysUp \cap {"start"})
                 \o If(held /\ ~pointer, <<<<"up", Pointer>>>>)
                 \o Calls("keydown", keysDown \cap {"circle"}) \o Calls("keyup", keysUp \cap {"circle"})
                 \o If("cross" \in pressed, <<<<"down", Pointer>>>>)
                 \o If("cross" \notin pressed /\ pointer /\ drag, <<<<"move", Pointer>>>>)
                 \o If(pointer /\ "cross" \in released, <<<<"up", Pointer>>>>))
         /\ game_keys' = (game_keys \cup keysDown) \ keysUp
         /\ held' = ("cross" \in pressed \/ (pointer /\ "cross" \notin released))
         /\ previous' = b
<1>3. \E b \in {x \in PadSamples : "shoulders" \notin x}, back \in BOOLEAN, drag \in BOOLEAN : Sampled(b, back, drag)
  BY DEF PadButtons
<1> HIDE DEF Sampled
<1>4. PICK b \in PadSamples, back \in BOOLEAN, drag \in BOOLEAN : Sampled(b, back, drag) BY <1>3
<1>5. PICK pressed : pressed = b \ previous OBVIOUS
<1>6. PICK released : released = previous \ b OBVIOUS
<1>7. PICK down : down = pressed \cap (IF back THEN KeyButtons ELSE KeyButtons \ {"circle"}) OBVIOUS
<1>8. PICK up : up = released \cap game_keys OBVIOUS
<1>9. PICK pointer \in BOOLEAN : pointer = (held /\ "circle" \notin pressed) BY <1>1
<1>10. PICK s1 : s1 = down \cap {"start"} OBVIOUS
<1>11. PICK s2 : s2 = up \cap {"start"} OBVIOUS
<1>12. PICK s3 : s3 = down \cap {"circle"} OBVIOUS
<1>13. PICK s4 : s4 = up \cap {"circle"} OBVIOUS
<1>14. PICK u1 \in BOOLEAN : u1 = (held /\ ~pointer) BY <1>1, <1>9
<1>15. PICK d1 \in BOOLEAN : d1 = ("cross" \in pressed)
  <2>1. CASE "cross" \in pressed
    <3>1. TRUE = ("cross" \in pressed) BY <2>1
    <3>2. QED BY <3>1
  <2>2. CASE "cross" \notin pressed
    <3>1. FALSE = ("cross" \in pressed) BY <2>2
    <3>2. QED BY <3>1
  <2>3. QED BY <2>1, <2>2
<1>16. PICK m1 \in BOOLEAN : m1 = ("cross" \notin pressed /\ pointer /\ drag) OBVIOUS
<1>17. PICK u2 \in BOOLEAN : u2 = (pointer /\ "cross" \in released) OBVIOUS
<1>18. PICK calls : calls = Calls("keydown", s1) \o Calls("keyup", s2) \o If(u1, <<<<"up", Pointer>>>>)
                            \o Calls("keydown", s3) \o Calls("keyup", s4)
                            \o If(d1, <<<<"down", Pointer>>>>) \o If(m1, <<<<"move", Pointer>>>>)
                            \o If(u2, <<<<"up", Pointer>>>>)
  OBVIOUS
<1>19. /\ Emit(calls) /\ game_keys' = (game_keys \cup down) \ up
       /\ held' = (d1 \/ (pointer /\ ~u2)) /\ previous' = b
  <2>1. Emit(calls)
    BY <1>4, <1>5, <1>6, <1>7, <1>8, <1>9, <1>10, <1>11, <1>12, <1>13, <1>14, <1>15, <1>16, <1>17,
        <1>18
       DEF Sampled
  <2>2. game_keys' = (game_keys \cup down) \ up /\ previous' = b
    BY <1>4, <1>5, <1>6, <1>7, <1>8 DEF Sampled
  <2>3. held' = ("cross" \in pressed \/ (pointer /\ "cross" \notin released))
    BY <1>4, <1>5, <1>6, <1>9 DEF Sampled
  <2>4. QED BY <1>15, <1>17, <2>1, <2>2, <2>3
<1>20. /\ down \in SUBSET KeyButtons /\ down \cap game_keys = {} /\ up \in SUBSET game_keys
       /\ down \cap up = {} /\ ~(d1 /\ u2) /\ b \in SUBSET Buttons
  BY <1>1, <1>5, <1>6, <1>7, <1>8, <1>15, <1>17 DEF PadSamples
<1>21. /\ IsFiniteSet(s1) /\ IsFiniteSet(s2) /\ IsFiniteSet(s3) /\ IsFiniteSet(s4)
       /\ s1 \in SUBSET KeyButtons /\ s2 \in SUBSET KeyButtons /\ s3 \in SUBSET KeyButtons
       /\ s4 \in SUBSET KeyButtons
  <2>1. s1 \in SUBSET KeyButtons /\ s3 \in SUBSET KeyButtons BY <1>10, <1>12, <1>20
  <2>2. s2 \in SUBSET KeyButtons /\ s4 \in SUBSET KeyButtons BY <1>1, <1>11, <1>13, <1>20
  <2>3. QED BY <2>1, <2>2, FiniteKeys
<1>22. PICK K1 : K1 = game_keys \cup s1 OBVIOUS
<1>23. PICK K2 : K2 = K1 \ s2 OBVIOUS
<1>24. PICK K3 : K3 = K2 \cup s3 OBVIOUS
<1>25. PICK K4 : K4 = K3 \ s4 OBVIOUS
<1>26. /\ K1 \in SUBSET KeyButtons /\ K2 \in SUBSET KeyButtons /\ K3 \in SUBSET KeyButtons
       /\ K4 \in SUBSET KeyButtons
  BY <1>1, <1>21, <1>22, <1>23, <1>24, <1>25
<1>27. K4 = (game_keys \cup down) \ up
  <2>1. down = s1 \cup s3 /\ up = s2 \cup s4
    BY <1>1, <1>10, <1>11, <1>12, <1>13, <1>20, InputAssumption
  <2>2. QED BY <1>20, <1>22, <1>23, <1>24, <1>25, <2>1
<1>28. PICK I1 : I1 = IF u1 THEN ids \ {Pointer} ELSE ids OBVIOUS
<1>29. PICK I2 : I2 = IF d1 THEN I1 \cup {Pointer} ELSE I1 OBVIOUS
<1>30. PICK I3 : I3 = IF u2 THEN I2 \ {Pointer} ELSE I2 OBVIOUS
<1>31. I1 \in SUBSET Sources /\ I2 \in SUBSET Sources /\ I3 \in SUBSET Sources /\ Pointer \in Sources
  BY <1>1, <1>28, <1>29, <1>30 DEF Sources
<1>32. Leads(Calls("keydown", s1), ids, game_keys, ids, K1)
  <2>1. s1 \cap game_keys = {} BY <1>10, <1>20
  <2>2. QED BY <1>1, <1>21, <1>22, <2>1, LeadsKeyDowns
<1>33. Leads(Calls("keyup", s2), ids, K1, ids, K2)
  <2>1. s2 \in SUBSET K1 BY <1>11, <1>20, <1>22
  <2>2. QED BY <1>1, <1>21, <1>23, <1>26, <2>1, LeadsKeyUps
<1>34. Leads(If(u1, <<<<"up", Pointer>>>>), ids, K2, I1, K2)
  <2>1. Leads(<<<<"up", Pointer>>>>, ids, K2, ids \ {Pointer}, K2) BY <1>1, <1>26, <1>31, LeadsUp
  <2>2. Leads(<<>>, ids, K2, ids, K2) BY <1>1, <1>26, LeadsNone
  <2>3. QED BY <1>28, <2>1, <2>2 DEF If
<1>35. Leads(Calls("keydown", s3), I1, K2, I1, K3)
  <2>1. s3 \cap K2 = {} BY <1>10, <1>12, <1>20, <1>22, <1>23
  <2>2. QED BY <1>21, <1>24, <1>26, <1>31, <2>1, LeadsKeyDowns
<1>36. Leads(Calls("keyup", s4), I1, K3, I1, K4)
  <2>1. s4 \in SUBSET K3 BY <1>11, <1>13, <1>20, <1>22, <1>23, <1>24
  <2>2. QED BY <1>21, <1>25, <1>26, <1>31, <2>1, LeadsKeyUps
<1>37. Leads(If(d1, <<<<"down", Pointer>>>>), I1, K4, I2, K4)
  <2>1. Leads(<<<<"down", Pointer>>>>, I1, K4, I1 \cup {Pointer}, K4) BY <1>26, <1>31, LeadsDown
  <2>2. Leads(<<>>, I1, K4, I1, K4) BY <1>26, <1>31, LeadsNone
  <2>3. QED BY <1>29, <2>1, <2>2 DEF If
<1>38. Leads(If(m1, <<<<"move", Pointer>>>>), I2, K4, I2, K4)
  <2>1. Leads(<<<<"move", Pointer>>>>, I2, K4, I2, K4) BY <1>26, <1>31, LeadsMove
  <2>2. Leads(<<>>, I2, K4, I2, K4) BY <1>26, <1>31, LeadsNone
  <2>3. QED BY <2>1, <2>2 DEF If
<1>39. Leads(If(u2, <<<<"up", Pointer>>>>), I2, K4, I3, K4)
  <2>1. Leads(<<<<"up", Pointer>>>>, I2, K4, I2 \ {Pointer}, K4) BY <1>26, <1>31, LeadsUp
  <2>2. Leads(<<>>, I2, K4, I2, K4) BY <1>26, <1>31, LeadsNone
  <2>3. QED BY <1>30, <2>1, <2>2 DEF If
<1>40. Leads(calls, ids, game_keys, I3, K4)
  <2>1. Leads(Calls("keydown", s1) \o Calls("keyup", s2), ids, game_keys, ids, K2)
    BY <1>1, <1>32, <1>33, LeadsJoin
  <2>2. PICK c2 : c2 = Calls("keydown", s1) \o Calls("keyup", s2) \o If(u1, <<<<"up", Pointer>>>>) OBVIOUS
  <2>3. Leads(c2, ids, game_keys, I1, K2) BY <1>1, <1>34, <2>1, <2>2, LeadsJoin
  <2>4. PICK c3 : c3 = c2 \o Calls("keydown", s3) \o Calls("keyup", s4) OBVIOUS
  <2>5. Leads(c2 \o Calls("keydown", s3), ids, game_keys, I1, K3) BY <1>1, <1>35, <2>3, LeadsJoin
  <2>6. Leads(c3, ids, game_keys, I1, K4) BY <1>1, <1>36, <2>4, <2>5, LeadsJoin
  <2>7. PICK c4 : c4 = c3 \o If(d1, <<<<"down", Pointer>>>>) \o If(m1, <<<<"move", Pointer>>>>) OBVIOUS
  <2>8. Leads(c3 \o If(d1, <<<<"down", Pointer>>>>), ids, game_keys, I2, K4)
    BY <1>1, <1>37, <2>6, LeadsJoin
  <2>9. Leads(c4, ids, game_keys, I2, K4) BY <1>1, <1>38, <2>7, <2>8, LeadsJoin
  <2>10. Leads(c4 \o If(u2, <<<<"up", Pointer>>>>), ids, game_keys, I3, K4)
    BY <1>1, <1>39, <2>9, LeadsJoin
  <2>11. calls = c4 \o If(u2, <<<<"up", Pointer>>>>) BY <1>18, <2>2, <2>4, <2>7
  <2>12. QED BY <2>10, <2>11
<1>41. pending_commit # 1 /\ phase # "after" BY <1>1, <1>2 DEF DialogFits
<1>42. ids' = I3 /\ StreamFits' /\ TextFits'
  <2>1. Leads(calls, ids, game_keys, I3, game_keys') BY <1>19, <1>27, <1>40
  <2>2. QED BY <1>2, <1>19, <1>41, <2>1, ControlsFeed
<1>43. SourcesFit'
  <2>1. I3 \cap Fingers = ids \cap Fingers BY <1>28, <1>29, <1>30, InputAssumption
  <2>2. Pointer \in I3 <=> d1 \/ (pointer /\ ~u2)
    <3>1. Pointer \in I1 <=> pointer BY <1>1, <1>9, <1>14, <1>28
    <3>2. Pointer \in I2 <=> d1 \/ pointer BY <3>1, <1>29
    <3>3. Pointer \in I3 <=> (d1 \/ pointer) /\ ~u2 BY <3>2, <1>30
    <3>4. QED BY <3>3, <1>20
  <2>3. QED BY <1>1, <1>2, <1>19, <1>42, <2>1, <2>2 DEF SourcesFit
<1>44. StateTypes'
  <2>1. game_keys' \subseteq KeyButtons /\ previous' \subseteq Buttons BY <1>19, <1>20, <1>26, <1>27
  <2>2. held' \in BOOLEAN BY <1>19
  <2>3. QED BY <1>1, <1>2, <2>1, <2>2 DEF StateTypes, Phases
<1>45. PadFits'
  <2>1. (game_keys \cup down) \ up \subseteq b BY <1>1, <1>5, <1>6, <1>7, <1>8
  <2>2. ~dialog_release_barrier BY <1>1, <1>2 DEF DialogFits
  <2>3. QED BY <1>2, <1>19, <2>1, <2>2 DEF PadFits
<1>46. DialogFits' BY <1>1, <1>2 DEF DialogFits
<1>47. NothingStale BY <1>1, <1>2 DEF NothingStale, DialogFits
<1>48. QED BY <1>42, <1>43, <1>44, <1>45, <1>46, <1>47 DEF InputInv, ControlFits

\* What the game drains is the front of the queue, and what stays is the rest of it.
LEMMA DrainSplits ==
  ASSUME NEW q \in Seq(Events), NEW n \in 0 .. Len(q)
  PROVE  /\ SubSeq(q, 1, n) \in Seq(Events) /\ SubSeq(q, n + 1, Len(q)) \in Seq(Events)
         /\ Len(SubSeq(q, n + 1, Len(q))) = Len(q) - n
         /\ \A i \in 1 .. Len(q) - n : SubSeq(q, n + 1, Len(q))[i] = q[n + i]
         /\ SubSeq(q, 1, n) \o SubSeq(q, n + 1, Len(q)) = q
<1>1. Len(q) \in Nat /\ n \in Nat /\ n =< Len(q) /\ \A i \in 1 .. Len(q) : q[i] \in Events
  BY LenProperties
<1>2. SubSeq(q, 1, n) \in Seq(Events)
  <2>1. \A i \in 1 .. n : q[i] \in Events BY <1>1
  <2>2. 1 \in Int /\ n \in Int BY <1>1
  <2>3. QED BY <2>1, <2>2, SubSeqProperties
<1>3. PICK a \in Int : a = n + 1 BY <1>1
<1>4. PICK b \in Int : b = Len(q) BY <1>1
<1>5. /\ SubSeq(q, a, b) \in Seq(Events)
      /\ Len(SubSeq(q, a, b)) = (IF a =< b THEN b - a + 1 ELSE 0)
      /\ \A i \in 1 .. b - a + 1 : SubSeq(q, a, b)[i] = q[a + i - 1]
  <2>1. \A i \in a .. b : q[i] \in Events BY <1>1, <1>3, <1>4
  <2>2. QED BY <2>1, SubSeqProperties
<1>6. Len(SubSeq(q, a, b)) = Len(q) - n
  <2>1. CASE n < Len(q) BY <1>1, <1>3, <1>4, <1>5, <2>1
  <2>2. CASE n = Len(q)
    <3>1. ~(a =< b) BY <1>1, <1>3, <1>4, <2>2
    <3>2. Len(SubSeq(q, a, b)) = 0 BY <1>5, <3>1
    <3>3. QED BY <1>1, <2>2, <3>2
  <2>3. QED BY <1>1, <2>1, <2>2
<1>7. ASSUME NEW i \in 1 .. Len(q) - n PROVE SubSeq(q, a, b)[i] = q[n + i]
  <2>1. i \in 1 .. b - a + 1 /\ a + i - 1 = n + i BY <1>1, <1>3, <1>4
  <2>2. QED BY <1>5, <2>1
<1>8. SubSeq(q, 1, n) \o SubSeq(q, n + 1, Len(q)) = q
  <2>1. 1 \in 1 .. Len(q) + 1 /\ n \in 1 - 1 .. Len(q) /\ Len(q) \in n .. Len(q) BY <1>1
  <2>2. SubSeq(q, 1, n) \o SubSeq(q, n + 1, Len(q)) = SubSeq(q, 1, Len(q))
    BY <2>1, ConcatAdjacentSubSeq
  <2>3. QED BY <2>2, SubSeqFull
<1>9. SubSeq(q, a, b) = SubSeq(q, n + 1, Len(q)) BY <1>3, <1>4
<1>10. QED BY <1>2, <1>5, <1>6, <1>7, <1>8, <1>9

LEMMA DrainKeeps ==
  ASSUME InputInv, DrainSome
  PROVE  InputInv' /\ NothingStale
<1>1. /\ StateTypes /\ SourcesFit /\ PadFits /\ DialogFits /\ TextFits
      /\ ids \in SUBSET Sources /\ input_queue \in Seq(Events) /\ Len(input_queue) =< QueueCap
      /\ lost \in BOOLEAN /\ gameDown \in Downs
      /\ (~lost => FoldLeft(Apply, gameDown, input_queue) = ids \cup game_keys)
      /\ (TextsIn(input_queue) # {} => pending_commit = 1)
  BY DEF InputInv, ControlFits, StreamFits, Downs, TextFits
<1>2. PICK n \in 0 .. Len(input_queue) : Drain(n) BY DEF DrainSome
<1>3. PICK q : q = input_queue OBVIOUS
<1>4. PICK front : front = SubSeq(q, 1, n) OBVIOUS
<1>5. PICK rest : rest = SubSeq(q, n + 1, Len(q)) OBVIOUS
<1>6. /\ phase = "pump" /\ phase' = "after"
      /\ gameDown' = (IF lost THEN {} ELSE FoldLeft(Apply, gameDown, front))
      /\ input_queue' = rest
      /\ pending_commit' = (IF pending_commit = 1 /\ \E i \in 1 .. n : q[i][1] = "text" THEN 2
                            ELSE pending_commit)
      /\ UNCHANGED <<stale, touch_old, missing_samples, dialog_release_barrier, fingers, held,
                     game_keys, previous, barrier, visual, requested, running, ids, lost>>
  BY <1>2, <1>3, <1>4, <1>5 DEF Drain, touchVars, padVars
<1>7. /\ q \in Seq(Events) /\ n \in 0 .. Len(q) /\ Len(q) \in Nat /\ n \in Nat /\ n =< Len(q)
  BY <1>1, <1>3, LenProperties
<1>8. /\ front \in Seq(Events) /\ rest \in Seq(Events) /\ Len(rest) = Len(q) - n
      /\ (\A i \in 1 .. Len(q) - n : rest[i] = q[n + i])
      /\ front \o rest = q
  BY <1>4, <1>5, <1>7, DrainSplits
<1>9. StreamFits'
  <2>1. gameDown' \in Downs
    <3>1. FoldLeft(Apply, gameDown, front) \in Downs BY <1>1, <1>8, AppliesTyped
    <3>2. {} \in Downs BY DEF Downs
    <3>3. QED BY <1>6, <3>1, <3>2
  <2>2. ASSUME ~lost' PROVE FoldLeft(Apply, gameDown', input_queue') = ids' \cup game_keys'
    <3>1. FoldLeft(Apply, gameDown, front \o rest) = FoldLeft(Apply, FoldLeft(Apply, gameDown, front), rest)
      BY <1>1, <1>8, AppliesJoin
    <3>2. ~lost BY <1>6, <2>2
    <3>3. gameDown' = FoldLeft(Apply, gameDown, front) BY <1>6, <3>2
    <3>4. FoldLeft(Apply, gameDown, q) = ids \cup game_keys BY <1>1, <1>3, <3>2
    <3>5. QED BY <1>6, <1>8, <3>1, <3>3, <3>4
  <2>3. Len(input_queue') =< QueueCap
    <3>1. Len(q) =< QueueCap BY <1>1, <1>3
    <3>2. QED BY <1>6, <1>7, <1>8, <3>1, InputAssumption
  <2>4. QED BY <1>1, <1>6, <1>8, <2>1, <2>2, <2>3 DEF StreamFits, Downs
<1>10. TextFits'
  <2>1. \A i \in TextsIn(rest) : n + i \in TextsIn(q)
    <3>1. TAKE i \in TextsIn(rest)
    <3>2. i \in 1 .. Len(q) - n /\ rest[i][1] = "text" BY <1>8 DEF TextsIn
    <3>3. n + i \in 1 .. Len(q) BY <1>7, <3>2
    <3>4. QED BY <1>8, <3>2, <3>3 DEF TextsIn
  <2>2. \A i, j \in TextsIn(q) : i = j BY <1>1, <1>3 DEF TextFits
  <2>3. ASSUME NEW i \in TextsIn(rest), NEW j \in TextsIn(rest) PROVE i = j
    <3>1. n + i = n + j BY <2>1, <2>2
    <3>2. i \in Int /\ j \in Int BY DEF TextsIn
    <3>3. QED BY <1>7, <3>1, <3>2
  <2>4. CASE \E i \in 1 .. n : q[i][1] = "text"
    <3>1. PICK i \in 1 .. n : q[i][1] = "text" BY <2>4
    <3>2. i \in TextsIn(q) BY <1>7, <3>1 DEF TextsIn
    <3>3. pending_commit = 1 BY <1>1, <1>3, <3>2
    <3>4. pending_commit' = 2 BY <1>6, <2>4, <3>3
    <3>5. TextsIn(rest) = {}
      <4>1. SUFFICES ASSUME NEW j \in TextsIn(rest) PROVE FALSE OBVIOUS
      <4>2. n + j = i BY <2>1, <2>2, <3>2
      <4>3. j \in Nat /\ j > 0 BY DEF TextsIn
      <4>4. QED BY <1>7, <4>2, <4>3
    <3>6. TextsIn(input_queue') = {} BY <1>6, <3>5
    <3>7. QED BY <1>6, <3>4, <3>6 DEF TextFits
  <2>5. CASE ~(\E i \in 1 .. n : q[i][1] = "text")
    <3>1. pending_commit' = pending_commit BY <1>6, <2>5
    <3>2. TextsIn(rest) # {} <=> TextsIn(q) # {}
      <4>1. ASSUME NEW i \in TextsIn(q) PROVE i - n \in TextsIn(rest)
        <5>1. i \in 1 .. Len(q) /\ q[i][1] = "text" BY DEF TextsIn
        <5>2. ~(i \in 1 .. n) BY <2>5, <5>1
        <5>3. i - n \in 1 .. Len(q) - n /\ n + (i - n) = i BY <1>7, <5>1, <5>2
        <5>4. QED BY <1>8, <5>1, <5>3 DEF TextsIn
      <4>2. QED BY <2>1, <4>1
    <3>3. pending_commit = 1 <=> TextsIn(q) # {} BY <1>1, <1>3 DEF TextFits
    <3>4. QED BY <1>6, <2>3, <3>1, <3>2, <3>3 DEF TextFits
  <2>6. QED BY <2>4, <2>5
<1>11. StateTypes' BY <1>1, <1>6 DEF StateTypes, Phases
<1>12. SourcesFit' BY <1>1, <1>6 DEF SourcesFit
<1>13. PadFits' BY <1>1, <1>6 DEF PadFits
<1>14. DialogFits'
  <2>1. pending_commit' # 0 => pending_commit # 0 BY <1>6
  <2>2. QED BY <1>1, <1>6, <2>1 DEF DialogFits
<1>15. NothingStale BY <1>6, NoneStarts
<1>16. QED BY <1>9, <1>10, <1>11, <1>12, <1>13, <1>14, <1>15 DEF InputInv, ControlFits

LEMMA AfterFrameKeeps ==
  ASSUME InputInv, AfterFrame
  PROVE  InputInv' /\ NothingStale
<1>1. StateTypes /\ SourcesFit /\ PadFits /\ DialogFits /\ TextFits /\ StreamFits
  BY DEF InputInv, ControlFits
<1>2. /\ phase = "after" /\ phase' = "tick"
      /\ pending_commit' = (IF pending_commit = 2 THEN 0 ELSE pending_commit)
      /\ UNCHANGED <<stale, touch_old, missing_samples, dialog_release_barrier, fingers, held,
                     game_keys, previous, barrier, visual, requested, running, ids, input_queue,
                     lost, gameDown>>
  BY DEF AfterFrame, touchVars, padVars, streamVars
<1>3. StreamFits' BY <1>1, <1>2 DEF StreamFits
<1>4. TextFits' BY <1>1, <1>2 DEF TextFits
<1>5. StateTypes' BY <1>1, <1>2 DEF StateTypes, Phases
<1>6. SourcesFit' BY <1>1, <1>2 DEF SourcesFit
<1>7. PadFits' BY <1>1, <1>2 DEF PadFits
<1>8. DialogFits' BY <1>1, <1>2 DEF DialogFits
<1>9. NothingStale BY <1>2, NoneStarts
<1>10. QED BY <1>3, <1>4, <1>5, <1>6, <1>7, <1>8, <1>9 DEF InputInv, ControlFits

LEMMA InputStutters ==
  ASSUME InputInv, UNCHANGED inputVars
  PROVE  InputInv' /\ NothingStale
<1>1. StateTypes /\ SourcesFit /\ PadFits /\ DialogFits /\ TextFits /\ StreamFits
  BY DEF InputInv, ControlFits
<1>2. UNCHANGED <<phase, pending_commit, stale, touch_old, missing_samples, dialog_release_barrier,
                  fingers, held, game_keys, previous, barrier, visual, requested, running, ids,
                  input_queue, lost, gameDown>>
  BY DEF inputVars, touchVars, padVars, imeVars, streamVars
<1>3. StreamFits' BY <1>1, <1>2 DEF StreamFits
<1>4. TextFits' BY <1>1, <1>2 DEF TextFits
<1>5. StateTypes' BY <1>1, <1>2 DEF StateTypes
<1>6. SourcesFit' BY <1>1, <1>2 DEF SourcesFit
<1>7. PadFits' BY <1>1, <1>2 DEF PadFits
<1>8. DialogFits' BY <1>1, <1>2 DEF DialogFits
<1>9. NothingStale BY <1>2, NoneStarts
<1>10. QED BY <1>3, <1>4, <1>5, <1>6, <1>7, <1>8, <1>9 DEF InputInv, ControlFits

LEMMA InputStarts == InputInit => InputInv
<1> SUFFICES ASSUME InputInit PROVE InputInv OBVIOUS
<1>1. /\ phase = "tick" /\ stale = {} /\ touch_old = {} /\ missing_samples = 0
      /\ dialog_release_barrier = FALSE /\ fingers = {} /\ held = FALSE /\ game_keys = {}
      /\ previous = {} /\ barrier = FALSE /\ visual = "off" /\ requested = FALSE
      /\ running = FALSE /\ pending_commit = 0 /\ ids = {} /\ input_queue = <<>>
      /\ lost = FALSE /\ gameDown = {}
  BY DEF InputInit
<1>2. {} \in Downs /\ FoldLeft(Apply, {}, <<>>) = {}
  <2>1. {} \in Downs BY DEF Downs
  <2>2. QED BY <2>1, AppliesNone
<1>3. <<>> \in Seq(Events) /\ Len(<<>>) = 0 /\ 0 =< QueueCap BY InputAssumption
<1>4. StreamFits BY <1>1, <1>2, <1>3 DEF StreamFits, Downs
<1>5. TextsIn(<<>>) = {} BY <1>3 DEF TextsIn
<1>6. TextFits BY <1>1, <1>5 DEF TextFits
<1>7. 0 \in 0 .. Missing BY InputAssumption
<1>8. StateTypes
  <2>1. /\ held \in BOOLEAN /\ barrier \in BOOLEAN /\ dialog_release_barrier \in BOOLEAN
        /\ requested \in BOOLEAN /\ running \in BOOLEAN
    BY <1>1
  <2>2. missing_samples \in 0 .. Missing /\ pending_commit \in 0 .. 2 BY <1>1, <1>7
  <2>3. QED BY <1>1, <2>1, <2>2 DEF StateTypes, Phases
<1>9. SourcesFit BY <1>1 DEF SourcesFit
<1>10. PadFits BY <1>1 DEF PadFits
<1>11. DialogFits BY <1>1 DEF DialogFits
<1>12. QED BY <1>4, <1>6, <1>8, <1>9, <1>10, <1>11 DEF InputInv, ControlFits

LEMMA InputStepKeeps == InputInv /\ [InputNext]_inputVars => InputInv' /\ NothingStale
<1> SUFFICES ASSUME InputInv, [InputNext]_inputVars PROVE InputInv' /\ NothingStale OBVIOUS
<1>1. CASE TickRestarts \/ TickQuiet BY <1>1, TickKeeps
<1>2. CASE VisualStep BY <1>2, VisualKeeps
<1>3. CASE NumericStep BY <1>3, NumericKeeps
<1>4. CASE TouchStep
  BY <1>4, QuietPollKeeps, TouchEndsKeeps, TouchSampleKeeps DEF TouchStep
<1>5. CASE PadStep
  BY <1>5, QuietPollKeeps, PadEndsKeeps, PadButtonsKeeps DEF PadStep
<1>6. CASE DrainSome BY <1>6, DrainKeeps
<1>7. CASE AfterFrame BY <1>7, AfterFrameKeeps
<1>8. CASE UNCHANGED inputVars BY <1>8, InputStutters
<1>9. QED BY <1>1, <1>2, <1>3, <1>4, <1>5, <1>6, <1>7, <1>8 DEF InputNext

LEMMA InputInvariant == InputSpec => []InputInv
<1>1. InputInit => InputInv BY InputStarts
<1>2. InputInv /\ [InputNext]_inputVars => InputInv' BY InputStepKeeps
<1>3. QED BY <1>1, <1>2, PTL DEF InputSpec

LEMMA InvMeansTheSame == InputInv => GameSeesTheSame
<1> SUFFICES ASSUME InputInv PROVE GameSeesTheSame OBVIOUS
<1>1. StateTypes /\ SourcesFit /\ StreamFits BY DEF InputInv, ControlFits
<1>2. InputTypeOK
  <2>1. /\ ids \subseteq Fingers \cup {Pointer} /\ Len(input_queue) =< QueueCap /\ lost \in BOOLEAN
    BY <1>1 DEF StreamFits, Sources
  <2>2. {held, barrier, dialog_release_barrier, requested, running, lost} \subseteq BOOLEAN
    BY <1>1, <2>1 DEF StateTypes
  <2>3. QED BY <1>1, <2>1, <2>2 DEF StateTypes, InputTypeOK
<1>3. /\ touch_old = fingers /\ fingers = ids \cap Fingers /\ (held <=> Pointer \in ids)
      /\ (~lost => FoldLeft(Apply, gameDown, input_queue) = ids \cup game_keys)
  BY <1>1 DEF SourcesFit, StreamFits
<1>4. QED BY <1>2, <1>3 DEF GameSeesTheSame

LEMMA InvMeansOnItsWay == InputInv => CommitIsOnItsWay
<1> SUFFICES ASSUME InputInv PROVE CommitIsOnItsWay OBVIOUS
<1>1. TextFits BY DEF InputInv
<1>2. TextsIn(input_queue) # {} <=> \E i \in 1 .. Len(input_queue) : input_queue[i][1] = "text"
  BY DEF TextsIn
<1>3. QED BY <1>1, <1>2 DEF TextFits, CommitIsOnItsWay

\* The four records of what is down agree, and the game, having drained the queue,
\* will be of the same mind: for any fingers, any capacity of the queue and any
\* samples (GameSeesTheSame; controls.c:135-219, java.c:232-262).
THEOREM TheGameSeesTheSame == InputSpec => []GameSeesTheSame
<1>1. InputSpec => []InputInv BY InputInvariant
<1>2. InputInv => GameSeesTheSame BY InvMeansTheSame
<1>3. QED BY <1>1, <1>2, PTL

\* A text on its way stays in the queue, alone, until the game has taken it
\* (CommitIsOnItsWay; numeric_input.c:22-35).
THEOREM CommitsArrive == InputSpec => []CommitIsOnItsWay
<1>1. InputSpec => []InputInv BY InputInvariant
<1>2. InputInv => CommitIsOnItsWay BY InvMeansOnItsWay
<1>3. QED BY <1>1, <1>2, PTL

LEMMA StaleStepIsBlocked ==
  InputInv /\ [InputNext]_inputVars =>
    [ /\ (ids' \ ids) \cap stale = {}
      /\ (game_keys' \ game_keys) \cap stale = {}
      /\ "cross" \in stale => Pointer \notin ids' \ ids ]_inputVars
<1>1. InputInv /\ [InputNext]_inputVars => NothingStale BY InputStepKeeps
<1>2. QED BY <1>1 DEF NothingStale

\* What a dialog left pressed starts nothing in the game before it is released
\* (StaleIsBlocked; controls.c:321-356).
THEOREM StaleNeverStarts == InputSpec => StaleIsBlocked
<1>1. InputSpec => []InputInv BY InputInvariant
<1>2. InputInv /\ [InputNext]_inputVars =>
        [ /\ (ids' \ ids) \cap stale = {}
          /\ (game_keys' \ game_keys) \cap stale = {}
          /\ "cross" \in stale => Pointer \notin ids' \ ids ]_inputVars
  BY StaleStepIsBlocked
<1>3. QED BY <1>1, <1>2, PTL DEF InputSpec, StaleIsBlocked

=============================================================================
