----------------------------- MODULE GraphicsGc -----------------------------
(***************************************************************************)
(* The fence utils/graphics_gc.c puts around a request to VitaGL's          *)
(* collector.  gc_mutex[0] counts requests, gc_mutex[1] tokens: a request    *)
(* takes one, and the worker gives it back once the list's cursors are       *)
(* reset.  The wrapped signal returns only when all tokens were back.        *)
(*                                                                         *)
(* Taking the token, the worker and the semaphores are external.  Requests   *)
(* come from the renderer and from allocations that ran out of memory.  A    *)
(* wait that takes too long and a semaphore call that fails end the process.  *)
(***************************************************************************)
EXTENDS Integers, FiniteSets

CONSTANTS
  Renderers,    \* threads that ask for a collection
  maxCount      \* of gc_mutex[1]

VARIABLES
  tokens,       \* of gc_mutex[1]
  requests,     \* of gc_mutex[0]
  collector,    \* "idle", "purging" or "reset"
  at,           \* each renderer: "drawing", "take", "request", "fence" or "release"
  exited        \* gc_failure

semaphores == <<tokens, requests>>
vars == <<semaphores, collector, at, exited>>

Go(r, label) == at' = [at EXCEPT ![r] = label]

-----------------------------------------------------------------------------
(* A request: __wrap_sceKernelWaitSema for a token, then the signal.         *)

Collect(r) ==
  /\ ~exited /\ at[r] = "drawing"
  /\ Go(r, "take")
  /\ UNCHANGED <<semaphores, collector, exited>>

TakeToken(r) ==
  /\ ~exited /\ at[r] = "take" /\ tokens > 0
  /\ tokens' = tokens - 1
  /\ Go(r, "request")
  /\ UNCHANGED <<requests, collector, exited>>

Request(r) ==
  /\ ~exited /\ at[r] = "request"
  /\ requests' = requests + 1
  /\ Go(r, "fence")
  /\ UNCHANGED <<tokens, collector, exited>>

\* Mutant: the fence waits for one token, as the request did.
FenceOne(r) ==
  /\ ~exited /\ at[r] = "fence" /\ tokens > 0
  /\ tokens' = 0
  /\ Go(r, "release")
  /\ UNCHANGED <<requests, collector, exited>>

Fence(r) ==
  /\ ~exited /\ at[r] = "fence" /\ tokens = maxCount
  /\ tokens' = 0
  /\ Go(r, "release")
  /\ UNCHANGED <<requests, collector, exited>>

Release(r) ==
  /\ ~exited /\ at[r] = "release"
  /\ tokens' = tokens + maxCount
  /\ Go(r, "drawing")
  /\ UNCHANGED <<requests, collector, exited>>

gc_failure ==
  /\ ~exited /\ \E r \in Renderers : at[r] # "drawing"
  /\ exited' = TRUE
  /\ UNCHANGED <<semaphores, collector, at>>

Exited == exited /\ UNCHANGED vars

-----------------------------------------------------------------------------
(* VitaGL's worker.                                                         *)

Purge ==
  /\ ~exited /\ collector = "idle" /\ requests > 0
  /\ requests' = requests - 1
  /\ collector' = "purging"
  /\ UNCHANGED <<tokens, at, exited>>

ResetCursors ==
  /\ ~exited /\ collector = "purging"
  /\ collector' = "reset"
  /\ UNCHANGED <<semaphores, at, exited>>

GiveToken ==
  /\ ~exited /\ collector = "reset"
  /\ tokens' = tokens + 1
  /\ collector' = "idle"
  /\ UNCHANGED <<requests, at, exited>>

-----------------------------------------------------------------------------
Init ==
  /\ tokens = maxCount /\ requests = 0
  /\ collector = "idle"
  /\ at = [r \in Renderers |-> "drawing"]
  /\ exited = FALSE

Proceed(r) == TakeToken(r) \/ Request(r) \/ Fence(r) \/ Release(r)

Next ==
  \/ \E r \in Renderers : Collect(r) \/ Proceed(r)
  \/ gc_failure \/ Exited
  \/ Purge \/ ResetCursors \/ GiveToken

\* A thread that can run does, and a semaphore is handed to all that wait.
Fairness ==
  /\ WF_vars(Purge \/ ResetCursors \/ GiveToken)
  /\ \A r \in Renderers : SF_vars(Proceed(r))

Spec == Init /\ [][Next]_vars /\ Fairness

-----------------------------------------------------------------------------
TypeOK ==
  /\ tokens \in 0 .. maxCount /\ requests \in Nat
  /\ collector \in {"idle", "purging", "reset"}
  /\ at \in [Renderers -> {"drawing", "take", "request", "fence", "release"}]
  /\ exited \in BOOLEAN

\* When a fence has closed, no request is left, queued or half done: the worker is
\* off the cursors, and no other thread is between its token and its request
\* (graphics_gc.c:1-5, 52-55).
FenceIsComplete ==
  /\ TypeOK
  /\ \A r \in Renderers : at[r] = "release" =>
       /\ requests = 0 /\ collector = "idle"
       /\ \A q \in Renderers \ {r} : at[q] # "request" /\ at[q] # "release"

\* Every request returns, unless the process was ended.
RequestsReturn == \A r \in Renderers : at[r] # "drawing" ~> at[r] = "drawing" \/ exited
=============================================================================
