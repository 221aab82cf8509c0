---------------------------- MODULE CondDestroy ----------------------------
(***************************************************************************)
(* Destruction of a condition variable: pthread_cond_destroy_soloader of   *)
(* reimpl/pthr.c and the replaced pthread_cond_destroy of                  *)
(* reimpl/pthread_cond_native.c, against waiters that are still leaving.   *)
(*                                                                         *)
(* Waiting and signalling belong to pthreads-embedded and are external:    *)
(* a signal that finds no wake-up under way shuts the gate semBlockLock,    *)
(* and the last of the waiters it wakes opens it.  A waiter counts itself   *)
(* out under mtxUnblockLock.  They are modelled only as far as the fields   *)
(* the destruction reads require.                                          *)
(*                                                                         *)
(* The program signals and waits no more once it destroys; waiters that are *)
(* in the condition, awake or not, stay.                                    *)
(***************************************************************************)
EXTENDS Integers, FiniteSets

CONSTANTS
  Waiters, Destroyer, Other, None,
  Cap   \* bound: waits counted since the last signal, tokens in the queue

ASSUME CondAssumption ==
  /\ IsFiniteSet(Waiters) /\ Destroyer # Other /\ Cap \in Nat
  /\ {Destroyer, Other} \cap Waiters = {} /\ None \notin Waiters \cup {Destroyer, Other}

VARIABLES
  alive,        \* the condition exists
  gate,         \* semBlockLock: 1 open, 0 shut
  queue,        \* semBlockQueue
  mtx,          \* the holder of mtxUnblockLock
  blocked, gone, toUnblock, \* nWaitersBlocked, nWaitersGone, nWaitersToUnblock
  bridge, list, \* the holders of pthr_mutex and pte_cond_list_lock
  pc, rc,       \* rc: the result the destroyer will return
  allAwake      \* history: at its call no waiter was left asleep

condVars == <<alive, gate, queue, blocked, gone, toUnblock>>
lockVars == <<mtx, bridge, list>>
vars == <<condVars, lockVars, pc, rc, allAwake>>

WaiterLabels == {"out", "queued", "cleanup", "retract", "open"}
DestroyLabels == {"idle", "bridge", "list", "gate", "try", "check", "unlist", "unbridge"}

Goto(t, label) == pc' = [pc EXCEPT ![t] = label]
Destroying == pc[Destroyer] # "idle"

-----------------------------------------------------------------------------
(* pthreads-embedded: wait, signal and broadcast.                           *)

Enter(w) ==
  /\ pc[w] = "out" /\ alive /\ ~Destroying /\ gate = 1 /\ blocked < Cap
  /\ blocked' = blocked + 1
  /\ Goto(w, "queued")
  /\ UNCHANGED <<alive, gate, queue, gone, toUnblock, lockVars, rc, allAwake>>

Wake(w) ==
  /\ pc[w] = "queued" /\ queue > 0
  /\ queue' = queue - 1
  /\ Goto(w, "cleanup")
  /\ UNCHANGED <<alive, gate, blocked, gone, toUnblock, lockVars, rc, allAwake>>

TimeOut(w) ==
  /\ pc[w] = "queued"
  /\ Goto(w, "cleanup")
  /\ UNCHANGED <<condVars, lockVars, rc, allAwake>>

BeginRetract(w) ==
  /\ pc[w] = "cleanup" /\ mtx = None
  /\ mtx' = w
  /\ Goto(w, "retract")
  /\ UNCHANGED <<condVars, bridge, list, rc, allAwake>>

RetractUnsignalled(w) ==
  /\ pc[w] = "retract" /\ toUnblock = 0
  /\ gone' = gone + 1
  /\ mtx' = None
  /\ Goto(w, "out")
  /\ UNCHANGED <<alive, gate, queue, blocked, toUnblock, bridge, list, rc, allAwake>>

RetractSignalled(w) ==
  /\ pc[w] = "retract" /\ toUnblock > 0
  /\ toUnblock' = toUnblock - 1
  /\ mtx' = None
  /\ Goto(w, IF toUnblock = 1 THEN "open" ELSE "out")
  /\ UNCHANGED <<alive, gate, queue, blocked, gone, bridge, list, rc, allAwake>>

OpenGate(w) ==
  /\ pc[w] = "open"
  /\ gate' = gate + 1
  /\ Goto(w, "out")
  /\ UNCHANGED <<alive, queue, blocked, gone, toUnblock, lockVars, rc, allAwake>>

\* n is 1 for a signal and everybody for a broadcast.
SignalFirst(n) ==
  /\ alive /\ ~Destroying /\ mtx = None /\ gate = 1
  /\ toUnblock = 0 /\ blocked > gone /\ n \in {1, blocked - gone} /\ queue + n =< Cap
  /\ gate' = 0
  /\ gone' = 0 /\ blocked' = blocked - gone - n
  /\ toUnblock' = n
  /\ queue' = queue + n
  /\ UNCHANGED <<alive, lockVars, pc, rc, allAwake>>

SignalMore(n) ==
  /\ alive /\ ~Destroying /\ mtx = None
  /\ toUnblock > 0 /\ blocked > 0 /\ n \in {1, blocked} /\ queue + n =< Cap
  /\ blocked' = blocked - n
  /\ toUnblock' = toUnblock + n
  /\ queue' = queue + n
  /\ UNCHANGED <<alive, gate, gone, lockVars, pc, rc, allAwake>>

-----------------------------------------------------------------------------
(* pthread_cond_destroy_soloader around __wrap_pthread_cond_destroy.        *)

DestroyCall ==
  /\ pc[Destroyer] = "idle" /\ alive
  /\ allAwake' = (blocked = gone)
  /\ rc' = "none"
  /\ Goto(Destroyer, "bridge")
  /\ UNCHANGED <<condVars, lockVars>>

\* PTHR_LOCK, which Other's init calls take as well.
LockBridge(t) ==
  /\ pc[t] = "bridge" /\ bridge = None
  /\ bridge' = t
  /\ Goto(t, "list")
  /\ UNCHANGED <<condVars, mtx, list, rc, allAwake>>

LockList(t) ==
  /\ pc[t] = "list" /\ list = None
  /\ list' = t
  /\ Goto(t, IF t = Destroyer THEN "gate" ELSE "unlist")
  /\ UNCHANGED <<condVars, mtx, bridge, rc, allAwake>>

\* Mutant: the gate is not waited for, so woken waiters may still come.
IgnoreGate ==
  /\ pc[Destroyer] = "gate"
  /\ Goto(Destroyer, "try")
  /\ UNCHANGED <<condVars, lockVars, rc, allAwake>>

CloseGate ==
  /\ pc[Destroyer] = "gate" /\ gate > 0
  /\ gate' = gate - 1
  /\ Goto(Destroyer, "try")
  /\ UNCHANGED <<alive, queue, blocked, gone, toUnblock, lockVars, rc, allAwake>>

GateInterrupted ==
  /\ pc[Destroyer] = "gate"
  /\ rc' = "EINTR"
  /\ Goto(Destroyer, "unlist")
  /\ UNCHANGED <<condVars, lockVars, allAwake>>

TryLock ==
  /\ pc[Destroyer] = "try" /\ mtx = None
  /\ mtx' = Destroyer
  /\ Goto(Destroyer, "check")
  /\ UNCHANGED <<condVars, bridge, list, rc, allAwake>>

TryLockBusy ==
  /\ pc[Destroyer] = "try" /\ mtx # None
  /\ gate' = gate + 1
  /\ rc' = "EBUSY"
  /\ Goto(Destroyer, "unlist")
  /\ UNCHANGED <<alive, queue, blocked, gone, toUnblock, lockVars, allAwake>>

\* Mutant: the busy exit leaves the gate shut.
StillWaitedShuts ==
  /\ pc[Destroyer] = "check" /\ blocked > gone
  /\ mtx' = None
  /\ rc' = "EBUSY"
  /\ Goto(Destroyer, "unlist")
  /\ UNCHANGED <<condVars, bridge, list, allAwake>>

StillWaited ==
  /\ pc[Destroyer] = "check" /\ blocked > gone
  /\ gate' = gate + 1
  /\ mtx' = None
  /\ rc' = "EBUSY"
  /\ Goto(Destroyer, "unlist")
  /\ UNCHANGED <<alive, queue, blocked, gone, toUnblock, bridge, list, allAwake>>

\* Both semaphores and the mutex go, the condition is unlinked and freed.
Free ==
  /\ pc[Destroyer] = "check" /\ blocked =< gone
  /\ alive' = FALSE
  /\ mtx' = None
  /\ rc' = "OK"
  /\ Goto(Destroyer, "unlist")
  /\ UNCHANGED <<gate, queue, blocked, gone, toUnblock, bridge, list, allAwake>>

UnlockList(t) ==
  /\ pc[t] = "unlist"
  /\ list' = None
  /\ Goto(t, "unbridge")
  /\ UNCHANGED <<condVars, mtx, bridge, rc, allAwake>>

UnlockBridge(t) ==
  /\ pc[t] = "unbridge"
  /\ bridge' = None
  /\ Goto(t, "idle")
  /\ UNCHANGED <<condVars, mtx, list, rc, allAwake>>

-----------------------------------------------------------------------------
(* Other creates a condition of its own; the destroyer a new one.           *)

OtherCall ==
  /\ pc[Other] = "idle"
  /\ Goto(Other, "bridge")
  /\ UNCHANGED <<condVars, lockVars, rc, allAwake>>

Create ==
  /\ pc[Destroyer] = "idle" /\ ~alive
  /\ alive' = TRUE
  /\ gate' = 1 /\ queue' = 0 /\ blocked' = 0 /\ gone' = 0 /\ toUnblock' = 0
  /\ UNCHANGED <<lockVars, pc, rc, allAwake>>

Init ==
  /\ alive = TRUE /\ gate = 1 /\ queue = 0
  /\ blocked = 0 /\ gone = 0 /\ toUnblock = 0
  /\ mtx = None /\ bridge = None /\ list = None
  /\ pc = [t \in Waiters \cup {Destroyer, Other} |-> IF t \in Waiters THEN "out" ELSE "idle"]
  /\ rc = "none" /\ allAwake = FALSE

Leave(w) ==
  BeginRetract(w) \/ RetractUnsignalled(w) \/ RetractSignalled(w) \/ OpenGate(w)
DestroyStep == CloseGate \/ TryLock \/ TryLockBusy \/ StillWaited \/ Free
BridgeStep(t) ==
  LockBridge(t) \/ LockList(t) \/ UnlockList(t) \/ UnlockBridge(t)

Next ==
  \/ \E w \in Waiters : Enter(w) \/ Wake(w) \/ TimeOut(w) \/ Leave(w)
  \/ \E n \in 1 .. Cardinality(Waiters) : SignalFirst(n) \/ SignalMore(n)
  \/ DestroyCall \/ DestroyStep \/ GateInterrupted \/ OtherCall \/ Create
  \/ \E t \in {Destroyer, Other} : BridgeStep(t)

\* Threads that can run do, and the bridge's lock is handed to every thread that
\* waits for it.  Which of the waiters is next is left open, nobody has to time
\* out and nothing interrupts the wait for the gate.
Fairness ==
  /\ WF_vars(\E w \in Waiters : Wake(w)) /\ WF_vars(\E w \in Waiters : Leave(w))
  /\ WF_vars(DestroyStep)
  /\ \A t \in {Destroyer, Other} : SF_vars(BridgeStep(t))

Spec == Init /\ [][Next]_vars /\ Fairness

-----------------------------------------------------------------------------
TypeOK ==
  /\ alive \in BOOLEAN /\ gate \in {0, 1} /\ queue \in 0 .. Cap
  /\ blocked \in Nat /\ gone \in Nat /\ toUnblock \in Nat
  /\ mtx \in Waiters \cup {Destroyer, None}
  /\ bridge \in {Destroyer, Other, None} /\ list \in {Destroyer, Other, None}
  /\ \A w \in Waiters : pc[w] \in WaiterLabels
  /\ \A t \in {Destroyer, Other} : pc[t] \in DestroyLabels
  /\ rc \in {"none", "OK", "EINTR", "EBUSY"}

\* No waiter is anywhere inside a condition that is freed: the gate keeps the
\* destroyer away until the last woken waiter has opened it, and the counters
\* show the others (pthread_cond_native.c:146-178).
FreedIsUnused ==
  /\ TypeOK
  /\ ~alive => \A w \in Waiters : pc[w] = "out"

\* "A condition variable can be destroyed immediately after all the threads
\* that are blocked on it are awakened" (pthread_cond_native.c:70-72): such a
\* destruction is never told that the condition is busy.
AwakenedMayGo == allAwake => rc # "EBUSY"

\* Every destruction and every initialisation that needs the same two locks
\* returns, whichever exit is taken and while waiters stay asleep.
CallsReturn ==
  \A t \in {Destroyer, Other} : pc[t] # "idle" ~> pc[t] = "idle"
=============================================================================
