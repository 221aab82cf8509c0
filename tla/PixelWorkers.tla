---------------------------- MODULE PixelWorkers ----------------------------
(***************************************************************************)
(* The texture workers of utils/pixel_workers.c.                           *)
(*                                                                         *)
(* A caller converts an image alone, or publishes it as the current job and *)
(* converts it together with the worker threads: everybody claims strips of *)
(* rows from next_row, and the caller returns once pending is 0.  The       *)
(* kernel semaphores only shorten the sleeps.  Every access to a shared     *)
(* atomic is one action.                                                    *)
(*                                                                         *)
(* Data abstracted: a pixel row is the number of times it was written, and  *)
(* the size test dw * dh >= PIXEL_PARALLEL_MIN is a choice of the caller.   *)
(* The counters behind pvz2_pixels_format_stats are left out.               *)
(***************************************************************************)
EXTENDS Integers, FiniteSets

CONSTANTS
  Workers,     \* the threads pvz2_pixels_init may create
  Callers,     \* threads that convert textures; each has one buffer at a time
  Heights,     \* the out_heights they ask for
  Strip,       \* rows claimed at a time (16)
  Generations, \* generation counts modulo this (2^32)
  None

ASSUME PixelAssumption ==
  /\ IsFiniteSet(Workers) /\ IsFiniteSet(Callers)
  /\ Workers \cap Callers = {} /\ None \notin Workers \cup Callers
  /\ Heights \subseteq Nat \ {0} /\ Strip \in Nat \ {0}
  /\ Generations \in Nat /\ Generations > 1

Actors == Workers \cup Callers
Rows   == UNION {0 .. h - 1 : h \in Heights}

VARIABLES
  pool,        \* the workers that were created (worker_count of them)
  jobDst, jobRows,   \* current_job: whose buffer, and its out_height
  pending, generation, nextRow,
  start,       \* worker_start[i], a semaphore of at most 1
  completion,  \* the completion semaphore, at most one per worker
  submit,      \* the holder of submit_lock, or None
  pc,
  dst, rows,   \* each thread's copy of the job
  first,       \* the strip it has claimed
  seen,        \* the generation a worker has seen
  toSignal,    \* the workers a caller has still to signal
  written      \* per buffer and row: how often the call wrote it

sharedVars == <<jobDst, jobRows, pending, generation, nextRow>>
semaVars   == <<start, completion>>
localVars  == <<dst, rows, first, seen, toSignal>>
vars == <<pool, sharedVars, semaVars, submit, pc, localVars, written>>

WorkerLabels == {"look", "wait", "copy", "claim", "write", "decrement", "signal"}
CallerLabels == {"idle", "inline", "publishJob", "publishRows", "publishPending",
                 "publishGeneration", "signal", "claim", "write", "look", "wait", "return"}

Goto(a, label) == pc' = [pc EXCEPT ![a] = label]

-----------------------------------------------------------------------------
(* pixel_claim_rows and pixel_rows, run by callers and workers.             *)

\* Mutant: the strips overlap by a row.
ClaimOverlapping(a, next) ==
  /\ pc[a] = "claim" /\ nextRow < rows[a]
  /\ first' = [first EXCEPT ![a] = nextRow]
  /\ nextRow' = nextRow + Strip - 1
  /\ Goto(a, next)
  /\ UNCHANGED <<pool, jobDst, jobRows, pending, generation, semaVars, submit,
                 dst, rows, seen, toSignal, written>>

\* next_row goes up by a strip for whoever asks, also past the end.
Claim(a, next) ==
  /\ pc[a] = "claim" /\ nextRow < rows[a]
  /\ first' = [first EXCEPT ![a] = nextRow]
  /\ nextRow' = nextRow + Strip
  /\ Goto(a, next)
  /\ UNCHANGED <<pool, jobDst, jobRows, pending, generation, semaVars, submit,
                 dst, rows, seen, toSignal, written>>

ClaimNothing(a, next) ==
  /\ pc[a] = "claim" /\ nextRow >= rows[a]
  /\ nextRow' = nextRow + Strip
  /\ Goto(a, next)
  /\ UNCHANGED <<pool, jobDst, jobRows, pending, generation, semaVars, submit,
                 localVars, written>>

\* The rows of the claimed strip, clipped at the last row.
MyRows(a) == {r \in Rows : first[a] <= r /\ r < first[a] + Strip /\ r < rows[a]}

\* A history variable: twice is as bad as more often.
Again(n) == IF n = 0 THEN 1 ELSE 2

Write(a) ==
  /\ pc[a] = "write"
  /\ written' = [b \in DOMAIN written |->
                   IF b[1] = dst[a] /\ b[2] \in MyRows(a) THEN Again(written[b])
                   ELSE written[b]]
  /\ first' = [first EXCEPT ![a] = 0]
  /\ Goto(a, "claim")
  /\ UNCHANGED <<pool, sharedVars, semaVars, submit, dst, rows, seen, toSignal>>

-----------------------------------------------------------------------------
(* pvz2_pixels_convert_into.  Calls with bad arguments return at once.      *)

\* The image is worth sharing out and no other caller is doing so.
Parallel(h, big) == big /\ pool # {} /\ h > Cardinality(pool)

Begin(c, h, label) ==
  /\ pc[c] = "idle"
  /\ rows' = [rows EXCEPT ![c] = h]
  /\ dst' = [dst EXCEPT ![c] = c]
  /\ Goto(c, label)
  /\ UNCHANGED <<pool, sharedVars, semaVars, first, seen, toSignal, written>>

\* Mutant: the lock is not tried.
ConvertUnlocked(c, h, big) ==
  /\ Parallel(h, big)
  /\ submit' = c
  /\ Begin(c, h, "publishJob")

\* trylock(submit_lock) succeeds.
ConvertShared(c, h, big) ==
  /\ Parallel(h, big) /\ submit = None
  /\ submit' = c
  /\ Begin(c, h, "publishJob")

ConvertAlone(c, h, big) ==
  /\ ~Parallel(h, big) \/ submit # None
  /\ Begin(c, h, "inline")
  /\ UNCHANGED submit

\* pixel_rows(&job, 0, dh).
ConvertInline(c) ==
  /\ pc[c] = "inline"
  /\ written' = [b \in DOMAIN written |->
                   IF b[1] = c /\ b[2] < rows[c] THEN Again(written[b]) ELSE written[b]]
  /\ Goto(c, "return")
  /\ UNCHANGED <<pool, sharedVars, semaVars, submit, localVars>>

PublishJob(c) ==
  /\ pc[c] = "publishJob"
  /\ jobDst' = c /\ jobRows' = rows[c]
  /\ Goto(c, "publishRows")
  /\ UNCHANGED <<pool, pending, generation, nextRow, semaVars, submit, localVars, written>>

PublishRows(c) ==
  /\ pc[c] = "publishRows"
  /\ nextRow' = 0
  /\ Goto(c, "publishPending")
  /\ UNCHANGED <<pool, jobDst, jobRows, pending, generation, semaVars, submit,
                 localVars, written>>

PublishPending(c) ==
  /\ pc[c] = "publishPending"
  /\ pending' = Cardinality(pool)
  /\ Goto(c, "publishGeneration")
  /\ UNCHANGED <<pool, jobDst, jobRows, nextRow, generation, semaVars, submit,
                 localVars, written>>

\* The release store that hands the job to the workers.
PublishGeneration(c) ==
  /\ pc[c] = "publishGeneration"
  /\ generation' = (generation + 1) % Generations
  /\ toSignal' = [toSignal EXCEPT ![c] = pool]
  /\ Goto(c, "signal")
  /\ UNCHANGED <<pool, jobDst, jobRows, pending, nextRow, semaVars, submit,
                 dst, rows, first, seen, written>>

\* sceKernelSignalSema; its result is ignored, so it may have done nothing.
SignalWorker(c, w) ==
  /\ pc[c] = "signal" /\ w \in toSignal[c]
  /\ start' \in {start, [start EXCEPT ![w] = 1]}
  /\ toSignal' = [toSignal EXCEPT ![c] = @ \ {w}]
  /\ UNCHANGED <<pool, sharedVars, completion, submit, pc, dst, rows, first, seen, written>>

AllSignalled(c) ==
  /\ pc[c] = "signal" /\ toSignal[c] = {}
  /\ Goto(c, "claim")
  /\ UNCHANGED <<pool, sharedVars, semaVars, submit, localVars, written>>

\* while (pending) pixel_wait(completion, 10 ms).
PendingLeft(c) ==
  /\ pc[c] = "look" /\ pending # 0
  /\ Goto(c, "wait")
  /\ UNCHANGED <<pool, sharedVars, semaVars, submit, localVars, written>>

NothingPending(c) ==
  /\ pc[c] = "look" /\ pending = 0
  /\ Goto(c, "return")
  /\ UNCHANGED <<pool, sharedVars, semaVars, submit, localVars, written>>

CompletionSignalled(c) ==
  /\ pc[c] = "wait" /\ completion > 0
  /\ completion' = completion - 1
  /\ Goto(c, "look")
  /\ UNCHANGED <<pool, sharedVars, start, submit, localVars, written>>

\* submit_lock is released by its holder; the buffer is the caller's again.
Return(c) ==
  /\ pc[c] = "return"
  /\ submit' = IF submit = c THEN None ELSE submit
  /\ rows' = [rows EXCEPT ![c] = 0]
  /\ dst' = [dst EXCEPT ![c] = None]
  /\ written' = [b \in DOMAIN written |-> IF b[1] = c THEN 0 ELSE written[b]]
  /\ Goto(c, "idle")
  /\ UNCHANGED <<pool, sharedVars, semaVars, first, seen, toSignal>>

-----------------------------------------------------------------------------
(* pixel_worker.                                                            *)

SeeGeneration(w) ==
  /\ pc[w] = "look" /\ generation # seen[w]
  /\ seen' = [seen EXCEPT ![w] = generation]
  /\ Goto(w, "copy")
  /\ UNCHANGED <<pool, sharedVars, semaVars, submit, dst, rows, first, toSignal, written>>

SeeNothing(w) ==
  /\ pc[w] = "look" /\ generation = seen[w]
  /\ Goto(w, "wait")
  /\ UNCHANGED <<pool, sharedVars, semaVars, submit, localVars, written>>

StartSignalled(w) ==
  /\ pc[w] = "wait" /\ start[w] = 1
  /\ start' = [start EXCEPT ![w] = 0]
  /\ Goto(w, "look")
  /\ UNCHANGED <<pool, sharedVars, completion, submit, localVars, written>>

CopyJob(w) ==
  /\ pc[w] = "copy"
  /\ dst' = [dst EXCEPT ![w] = jobDst]
  /\ rows' = [rows EXCEPT ![w] = jobRows]
  /\ Goto(w, "claim")
  /\ UNCHANGED <<pool, sharedVars, semaVars, submit, first, seen, toSignal, written>>

\* The last the worker has to do with the job.
Decrement(w) ==
  /\ pc[w] = "decrement"
  /\ pending' = pending - 1
  /\ rows' = [rows EXCEPT ![w] = 0]
  /\ dst' = [dst EXCEPT ![w] = None]
  /\ Goto(w, "signal")
  /\ UNCHANGED <<pool, jobDst, jobRows, generation, nextRow, semaVars, submit,
                 first, seen, toSignal, written>>

SignalCompletion(w) ==
  /\ pc[w] = "signal"
  /\ completion' \in {completion} \cup
                     (IF completion < Cardinality(Workers) THEN {completion + 1} ELSE {})
  /\ Goto(w, "look")
  /\ UNCHANGED <<pool, sharedVars, start, submit, localVars, written>>

\* Mutant: an untimed wait.
NeverTimedOut(a) == FALSE /\ UNCHANGED vars

\* pixel_wait is bounded: 100 ms for a worker, 10 ms for a caller, and 1 ms
\* when the kernel refuses the semaphore.
TimedOut(a) ==
  /\ pc[a] = "wait"
  /\ Goto(a, "look")
  /\ UNCHANGED <<pool, sharedVars, semaVars, submit, localVars, written>>

-----------------------------------------------------------------------------

\* pvz2_pixels_init runs before any caller.  It stops at the first semaphore
\* or thread it cannot create, so that the pool may be smaller, or empty.
Init ==
  /\ pool \in SUBSET Workers
  /\ jobDst = None /\ jobRows = 0
  /\ pending = 0 /\ generation = 0 /\ nextRow = 0
  /\ start = [w \in Workers |-> 0]
  /\ completion = 0
  /\ submit = None
  /\ pc = [a \in Actors |-> IF a \in Workers THEN "look" ELSE "idle"]
  /\ dst = [a \in Actors |-> None]
  /\ rows = [a \in Actors |-> 0]
  /\ first = [a \in Actors |-> 0]
  /\ seen = [w \in Workers |-> 0]
  /\ toSignal = [c \in Callers |-> {}]
  /\ written = [b \in Callers \X Rows |-> 0]

WorkerStep(w) ==
  \/ SeeGeneration(w) \/ SeeNothing(w) \/ StartSignalled(w) \/ TimedOut(w)
  \/ CopyJob(w) \/ Claim(w, "write") \/ Write(w) \/ ClaimNothing(w, "decrement")
  \/ Decrement(w) \/ SignalCompletion(w)

CallerStep(c) ==
  \/ ConvertInline(c)
  \/ PublishJob(c) \/ PublishRows(c) \/ PublishPending(c) \/ PublishGeneration(c)
  \/ (\E w \in Workers : SignalWorker(c, w)) \/ AllSignalled(c)
  \/ Claim(c, "write") \/ Write(c) \/ ClaimNothing(c, "look")
  \/ PendingLeft(c) \/ NothingPending(c) \/ CompletionSignalled(c) \/ TimedOut(c)
  \/ Return(c)

Call(c) == \E h \in Heights, big \in BOOLEAN :
             ConvertShared(c, h, big) \/ ConvertAlone(c, h, big)

Next ==
  \/ \E w \in pool : WorkerStep(w)
  \/ \E c \in Callers : CallerStep(c) \/ Call(c)

\* The kernel runs every ready thread, and every wait is bounded.  Nobody has
\* to call, and no signal has to arrive.
Fairness ==
  /\ \A w \in Workers : WF_vars(w \in pool /\ WorkerStep(w))
  /\ \A c \in Callers : WF_vars(CallerStep(c))

Spec == Init /\ [][Next]_vars
FairSpec == Spec /\ Fairness

-----------------------------------------------------------------------------
(* Properties.                                                              *)

TypeOK ==
  /\ pool \subseteq Workers
  /\ jobDst \in Callers \cup {None} /\ jobRows \in Heights \cup {0}
  /\ pending \in 0 .. Cardinality(Workers)
  /\ generation \in 0 .. Generations - 1
  /\ nextRow \in Nat
  /\ start \in [Workers -> {0, 1}]
  /\ completion \in 0 .. Cardinality(Workers)
  /\ submit \in Callers \cup {None}
  /\ pc \in [Actors -> WorkerLabels \cup CallerLabels]
  /\ dst \in [Actors -> Callers \cup {None}]
  /\ rows \in [Actors -> Heights \cup {0}]
  /\ first \in [Actors -> Nat]
  /\ seen \in [Workers -> 0 .. Generations - 1]
  /\ toSignal \in [Callers -> SUBSET Workers]
  /\ written \in [Callers \X Rows -> 0 .. 2]

\* The workers that have still to decrement pending for the published job.
Owing == {w \in pool : \/ generation # seen[w]
                       \/ pc[w] \in {"copy", "claim", "write", "decrement"}}

Working(c) == pc[c] \in {"signal", "claim", "write", "look", "wait"}

\* A worker between its copy of the job and its decrement works on the buffer
\* of a caller that has not left pvz2_pixels_convert_into, and its copy is the
\* job that caller published, not a torn or a later one ("Never return a buffer
\* while a worker still owns its rows").  pending never reaches 0 early or wraps
\* below it: it counts the workers that still owe a decrement, also when the
\* generation has wrapped.
WorkerHasLiveJob ==
  /\ TypeOK
  /\ \A w \in pool :
       pc[w] \in {"claim", "write"} =>
         /\ dst[w] \in Callers
         /\ Working(dst[w]) /\ submit = dst[w]
         /\ rows[w] = rows[dst[w]]
  /\ \A c \in Callers : Working(c) => pending = Cardinality(Owing)

\* What a caller is given: every row converted, by one thread.
RowsConvertedOnce ==
  \A c \in Callers :
    pc[c] = "return" => \A r \in Rows : written[<<c, r>>] = IF r < rows[c] THEN 1 ELSE 0

\* Every call returns although any notification may be lost or coalesced
\* ("a coalesced/missing wake cannot strand a job").
CallsReturn == \A c \in Callers : pc[c] # "idle" ~> pc[c] = "idle"
=============================================================================
