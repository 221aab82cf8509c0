---------------------------- MODULE KernelWaits ----------------------------
(* The waits without a limit that this code adds to the libraries it links:   *)
(* pthread_cond_destroy for the gate (CondDestroy), and the fence around      *)
(* VitaGL's collector (GraphicsGc).  They share no state, so a behaviour uses *)
(* one of them and leaves the other alone.                                    *)
EXTENDS CondDestroy

CONSTANTS Renderers, maxCount

\* maxCount is 1 to 64, or init_collector ends the process (graphics_gc.c:28-32).
ASSUME GcAssumption == IsFiniteSet(Renderers) /\ maxCount \in 1 .. 64

VARIABLES tokens, requests, collector, at, exited, used

Gc == INSTANCE GraphicsGc

gcVars == <<tokens, requests, collector, at, exited>>
allVars == <<vars, gcVars, used>>

AllInit == Init /\ Gc!Init /\ used \in {"condition", "collector"}

CallCondition == used = "condition" /\ Next /\ UNCHANGED <<gcVars, used>>
CallCollector == used = "collector" /\ Gc!Next /\ UNCHANGED <<vars, used>>

AllSpec ==
  AllInit /\ [][CallCondition \/ CallCollector]_allVars /\ Fairness /\ Gc!Fairness

\* GraphicsGc!FenceIsComplete, where it is explained: behind a fence of
\* __wrap_sceKernelSignalSema no collection is queued, running or about to be.
FenceIsComplete == Gc!FenceIsComplete

\* Whoever waits without a limit returns: a destruction or an initialisation of a
\* condition, whichever exit is taken, and a request for a collection, however
\* many threads ask for one and hold each other's tokens.
WaitsReturn == CallsReturn /\ Gc!RequestsReturn
=============================================================================
