---------------------------- MODULE OpenSLPlayer ----------------------------
(***************************************************************************)
(* The OpenSL ES player of reimpl/opensl_audio.c over the one audio port of *)
(* java.c.                                                                 *)
(*                                                                         *)
(* FMOD's threads (Controllers) create a player, enqueue PCM buffers that   *)
(* they keep owning, play, pause, stop, clear and destroy.  A player's own  *)
(* thread outputs the buffers one by one and calls FMOD back after each;    *)
(* the callback takes a lock of FMOD's that a controller may hold while it  *)
(* calls in, and may itself enqueue, clear or destroy.  Every section under *)
(* p->mutex is one action, and so is every access outside it.               *)
(*                                                                         *)
(* FMOD's side of the contract (external): it enqueues no buffer that is    *)
(* still queued, and destroys a player only while no other thread is in a   *)
(* call of it and while it does not hold the lock its callback takes.       *)
(* Left out: the serial numbers and statistics, formats and volume.         *)
(***************************************************************************)
EXTENDS Integers, FiniteSets

CONSTANTS
  Controllers,   \* FMOD's threads
  PlayThread,    \* the one that creates, plays, stops, clears and destroys
  Players,       \* the addresses calloc may return
  Buffers,       \* FMOD's PCM buffers
  Ring,          \* slots of queue[] (64)
  Capacity,      \* the numBuffers a player is created with
  None

ASSUME PlayerAssumption ==
  /\ PlayThread \in Controllers
  /\ Controllers \cap Players = {} /\ None \notin Controllers \cup Players \cup Buffers
  /\ Ring \in Nat \ {0} /\ Capacity \in 1 .. Ring

VARIABLES
  gPlayer,       \* g_player
  alive,         \* the players allocated
  queue, head, count, busy, clearing, playing, playState, portOpen,
  threadStarted, threadStop, destroyOnExit,   \* the fields of OpenslPlayer
  port,          \* g_audio_port is open
  asleep,        \* who waits on p->changed: controllers, and players' threads
  lock,          \* who holds FMOD's lock, or None
  pc, my,        \* where a controller is, and the player of its call
  wpc, data,     \* where a player's thread is, and the buffer it outputs
  disturbed      \* players whose output somebody else's port access hit

queueVars  == <<queue, head, count>>
stateVars  == <<playing, playState, portOpen>>
threadVars == <<threadStarted, threadStop, destroyOnExit>>
callVars   == <<pc, my>>
workVars   == <<wpc, data>>
vars == <<gPlayer, alive, queueVars, busy, clearing, stateVars, threadVars,
          port, asleep, lock, callVars, workVars, disturbed>>

States == {"stopped", "paused", "playing"}

Call(t, label) == /\ pc' = [pc EXCEPT ![t] = label]
                  /\ my' = [my EXCEPT ![t] = gPlayer]
Goto(t, label) == pc' = [pc EXCEPT ![t] = label] /\ UNCHANGED my
Return(t)      == pc' = [pc EXCEPT ![t] = "idle"] /\ my' = [my EXCEPT ![t] = None]
Work(p, label) == wpc' = [wpc EXCEPT ![p] = label]

\* Who sleeps on the condition variable of p.
Sleepers(p)  == {a \in asleep : a = p \/ (a \in Controllers /\ my[a] = p)}
Broadcast(p) == asleep' = asleep \ Sleepers(p)
Signal(p)    == IF Sleepers(p) = {} THEN asleep' = asleep
                ELSE \E a \in Sleepers(p) : asleep' = asleep \ {a}

\* Somebody other than the thread of p opens, closes or resets the port: the
\* outputs that run are hit.
Outputting == {p \in Players : wpc[p] = "output"}
TouchPort(p) == disturbed' = disturbed \cup (Outputting \ {p})

\* A call may begin: there is a player and nobody is destroying it.
CanCall(t) == /\ pc[t] = "idle" /\ gPlayer # None
              /\ \A u \in Controllers : pc[u] # "join"

-----------------------------------------------------------------------------
(* eng_create_audio_player.  If there is a player it is destroyed first.    *)

Create(t, p) ==
  /\ t = PlayThread /\ pc[t] = "idle" /\ lock # t
  /\ gPlayer = None /\ p \notin alive
  /\ gPlayer' = p
  /\ alive' = alive \cup {p}
  /\ queue' = [queue EXCEPT ![p] = [i \in 0 .. Ring - 1 |-> None]]
  /\ head' = [head EXCEPT ![p] = 0]
  /\ count' = [count EXCEPT ![p] = 0]
  /\ busy' = [busy EXCEPT ![p] = FALSE]
  /\ clearing' = [clearing EXCEPT ![p] = FALSE]
  /\ playing' = [playing EXCEPT ![p] = FALSE]
  /\ playState' = [playState EXCEPT ![p] = "stopped"]
  /\ portOpen' = [portOpen EXCEPT ![p] = FALSE]
  /\ threadStarted' = [threadStarted EXCEPT ![p] = FALSE]
  /\ threadStop' = [threadStop EXCEPT ![p] = FALSE]
  /\ destroyOnExit' = [destroyOnExit EXCEPT ![p] = FALSE]
  /\ wpc' = [wpc EXCEPT ![p] = "none"]
  /\ UNCHANGED <<port, asleep, lock, callVars, data, disturbed>>

-----------------------------------------------------------------------------
(* player_enqueue_common, called by a controller or by a callback.          *)

Queued(p) == {queue[p][(head[p] + i) % Ring] : i \in 0 .. count[p] - 1}

Put(p, b) ==
  /\ count[p] # Capacity /\ b \notin Queued(p)
  /\ queue' = [queue EXCEPT ![p][(head[p] + count[p]) % Ring] = b]
  /\ count' = [count EXCEPT ![p] = @ + 1]
  /\ Signal(p)
  /\ UNCHANGED <<gPlayer, alive, head, busy, clearing, stateVars, threadVars, port,
                 callVars, data, disturbed>>

\* A full queue is refused: SL_RESULT_BUFFER_INSUFFICIENT changes nothing.
Enqueue(t, b) ==
  /\ CanCall(t)
  /\ Put(gPlayer, b)
  /\ UNCHANGED <<lock, wpc>>

-----------------------------------------------------------------------------
(* player_clear_common.                                                     *)

ClearCall(t) ==
  /\ t = PlayThread /\ CanCall(t)
  /\ Call(t, "clear")
  /\ clearing' = [clearing EXCEPT ![gPlayer] = TRUE]
  /\ UNCHANGED <<gPlayer, alive, queueVars, busy, stateVars, threadVars, port, asleep,
                 lock, workVars, disturbed>>

\* Mutant: a clear does not wait for the output.
ClearFinishBusy(t) ==
  /\ pc[t] = "clear" /\ t \notin asleep
  /\ head' = [head EXCEPT ![my[t]] = 0]
  /\ count' = [count EXCEPT ![my[t]] = 0]
  /\ clearing' = [clearing EXCEPT ![my[t]] = FALSE]
  /\ TouchPort(None)
  /\ Broadcast(my[t])
  /\ Return(t)
  /\ UNCHANGED <<gPlayer, alive, queue, busy, stateVars, threadVars, port, lock, workVars>>

\* audio_reset_stream, with the mutex held.
ClearFinish(t) ==
  /\ pc[t] = "clear" /\ t \notin asleep /\ ~busy[my[t]]
  /\ head' = [head EXCEPT ![my[t]] = 0]
  /\ count' = [count EXCEPT ![my[t]] = 0]
  /\ clearing' = [clearing EXCEPT ![my[t]] = FALSE]
  /\ TouchPort(None)
  /\ Broadcast(my[t])
  /\ Return(t)
  /\ UNCHANGED <<gPlayer, alive, queue, busy, stateVars, threadVars, port, lock, workVars>>

\* A clear and a stop wait while a buffer is being output.
WaitForOutput(t) ==
  /\ pc[t] \in {"clear", "stopping"} /\ t \notin asleep /\ busy[my[t]]
  /\ asleep' = asleep \cup {t}
  /\ UNCHANGED <<gPlayer, alive, queueVars, busy, clearing, stateVars, threadVars, port,
                 lock, callVars, workVars, disturbed>>

-----------------------------------------------------------------------------
(* player_play_set_state.  play_state is stored first, outside the lock.    *)

SetPlayState(t, state) ==
  /\ t = PlayThread /\ CanCall(t)
  /\ playState' = [playState EXCEPT ![gPlayer] = state]
  /\ Call(t, state)
  /\ UNCHANGED <<gPlayer, alive, queueVars, busy, clearing, playing, portOpen, threadVars,
                 port, asleep, lock, workVars, disturbed>>

\* audio_open_port keeps a port that is open already.
PlayOpen(t) ==
  /\ pc[t] = "playing" /\ ~portOpen[my[t]]
  /\ portOpen' = [portOpen EXCEPT ![my[t]] = TRUE]
  /\ playing' = [playing EXCEPT ![my[t]] = TRUE]
  /\ port' = TRUE
  /\ IF port THEN UNCHANGED disturbed ELSE TouchPort(None)
  /\ Goto(t, "thread")
  /\ UNCHANGED <<gPlayer, alive, queueVars, busy, clearing, playState, threadVars, asleep,
                 lock, workVars>>

PlayOpenFails(t) ==
  /\ pc[t] = "playing" /\ ~portOpen[my[t]] /\ ~port
  /\ playing' = [playing EXCEPT ![my[t]] = FALSE]
  /\ playState' = [playState EXCEPT ![my[t]] = "stopped"]
  /\ Return(t)
  /\ UNCHANGED <<gPlayer, alive, queueVars, busy, clearing, portOpen, threadVars, port,
                 asleep, lock, workVars, disturbed>>

PlayAgain(t) ==
  /\ pc[t] = "playing" /\ portOpen[my[t]]
  /\ playing' = [playing EXCEPT ![my[t]] = TRUE]
  /\ Goto(t, "thread")
  /\ UNCHANGED <<gPlayer, alive, queueVars, busy, clearing, playState, portOpen, threadVars,
                 port, asleep, lock, workVars, disturbed>>

\* Mutant: the parked thread is not told.
ThreadNotWoken(t) ==
  /\ pc[t] = "thread" /\ threadStarted[my[t]]
  /\ Return(t)
  /\ UNCHANGED <<gPlayer, alive, queueVars, busy, clearing, stateVars, threadVars, port,
                 asleep, lock, workVars, disturbed>>

\* opensl_start_thread.
ThreadWoken(t) ==
  /\ pc[t] = "thread" /\ threadStarted[my[t]]
  /\ Broadcast(my[t])
  /\ Return(t)
  /\ UNCHANGED <<gPlayer, alive, queueVars, busy, clearing, stateVars, threadVars, port,
                 lock, workVars, disturbed>>

ThreadCreated(t) ==
  /\ pc[t] = "thread" /\ ~threadStarted[my[t]]
  /\ threadStop' = [threadStop EXCEPT ![my[t]] = FALSE]
  /\ threadStarted' = [threadStarted EXCEPT ![my[t]] = TRUE]
  /\ Work(my[t], "loop")
  /\ Return(t)
  /\ UNCHANGED <<gPlayer, alive, queueVars, busy, clearing, stateVars, destroyOnExit, port,
                 asleep, lock, data, disturbed>>

ThreadFails(t) ==
  /\ pc[t] = "thread" /\ ~threadStarted[my[t]]
  /\ threadStop' = [threadStop EXCEPT ![my[t]] = FALSE]
  /\ playing' = [playing EXCEPT ![my[t]] = FALSE]
  /\ playState' = [playState EXCEPT ![my[t]] = "stopped"]
  /\ Return(t)
  /\ UNCHANGED <<gPlayer, alive, queueVars, busy, clearing, portOpen, threadStarted,
                 destroyOnExit, port, asleep, lock, workVars, disturbed>>

\* The thread is not told: it looks when its buffer is out.
Pause(t) ==
  /\ pc[t] = "paused"
  /\ playing' = [playing EXCEPT ![my[t]] = FALSE]
  /\ Return(t)
  /\ UNCHANGED <<gPlayer, alive, queueVars, busy, clearing, playState, portOpen, threadVars,
                 port, asleep, lock, workVars, disturbed>>

StopBegin(t) ==
  /\ pc[t] = "stopped"
  /\ playing' = [playing EXCEPT ![my[t]] = FALSE]
  /\ Goto(t, "stopping")
  /\ UNCHANGED <<gPlayer, alive, queueVars, busy, clearing, playState, portOpen, threadVars,
                 port, asleep, lock, workVars, disturbed>>

\* Mutant: the port is closed under the output.
StopFinishBusy(t) ==
  /\ pc[t] = "stopping" /\ t \notin asleep
  /\ port' = (port /\ ~portOpen[my[t]])
  /\ IF portOpen[my[t]] THEN TouchPort(None) ELSE UNCHANGED disturbed
  /\ portOpen' = [portOpen EXCEPT ![my[t]] = FALSE]
  /\ Return(t)
  /\ UNCHANGED <<gPlayer, alive, queueVars, busy, clearing, playing, playState, threadVars,
                 asleep, lock, workVars>>

\* The output is over: the port is closed and the thread stays parked.
StopFinish(t) ==
  /\ pc[t] = "stopping" /\ t \notin asleep /\ ~busy[my[t]]
  /\ port' = (port /\ ~portOpen[my[t]])
  /\ IF portOpen[my[t]] THEN TouchPort(None) ELSE UNCHANGED disturbed
  /\ portOpen' = [portOpen EXCEPT ![my[t]] = FALSE]
  /\ Return(t)
  /\ UNCHANGED <<gPlayer, alive, queueVars, busy, clearing, playing, playState, threadVars,
                 asleep, lock, workVars>>

-----------------------------------------------------------------------------
(* obj_destroy, opensl_stop_thread and player_release.                      *)

\* player_release, by a controller or by the player's own thread.
Release(p, self) ==
  /\ alive' = alive \ {p}
  /\ port' = (port /\ ~portOpen[p])
  /\ IF portOpen[p] THEN TouchPort(self) ELSE UNCHANGED disturbed

\* The player has a thread: it is told to stop, then joined.
DestroyJoins(t) ==
  /\ t = PlayThread /\ CanCall(t) /\ lock # t
  /\ \A u \in Controllers : pc[u] = "idle"
  /\ threadStarted[gPlayer]
  /\ threadStop' = [threadStop EXCEPT ![gPlayer] = TRUE]
  /\ Broadcast(gPlayer)
  /\ Call(t, "join")
  /\ UNCHANGED <<gPlayer, alive, queueVars, busy, clearing, stateVars, threadStarted,
                 destroyOnExit, port, lock, workVars, disturbed>>

DestroyJoined(t) ==
  /\ pc[t] = "join" /\ wpc[my[t]] = "gone"
  /\ threadStarted' = [threadStarted EXCEPT ![my[t]] = FALSE]
  /\ gPlayer' = None
  /\ Release(my[t], None)
  /\ Return(t)
  /\ UNCHANGED <<queueVars, busy, clearing, stateVars, threadStop, destroyOnExit, asleep,
                 lock, workVars>>

DestroyAtOnce(t) ==
  /\ t = PlayThread /\ CanCall(t) /\ lock # t
  /\ \A u \in Controllers : pc[u] = "idle"
  /\ ~threadStarted[gPlayer]
  /\ gPlayer' = None
  /\ Release(gPlayer, None)
  /\ UNCHANGED <<queueVars, busy, clearing, stateVars, threadVars, asleep, lock,
                 callVars, workVars>>

-----------------------------------------------------------------------------
(* opensl_audio_thread.                                                     *)

Ready(p) == playing[p] /\ count[p] > 0 /\ ~clearing[p]

Park(p) ==
  /\ wpc[p] = "loop" /\ p \notin asleep
  /\ ~threadStop[p] /\ ~Ready(p)
  /\ asleep' = asleep \cup {p}
  /\ UNCHANGED <<gPlayer, alive, queueVars, busy, clearing, stateVars, threadVars, port,
                 lock, callVars, workVars, disturbed>>

\* The buffer stays at the head of the queue while it is output.
Take(p) ==
  /\ wpc[p] = "loop" /\ p \notin asleep
  /\ ~threadStop[p] /\ Ready(p)
  /\ busy' = [busy EXCEPT ![p] = TRUE]
  /\ data' = [data EXCEPT ![p] = queue[p][head[p]]]
  /\ Work(p, "output")
  /\ TouchPort(p)
  /\ UNCHANGED <<gPlayer, alive, queueVars, clearing, stateVars, threadVars, port, asleep,
                 lock, callVars>>

\* audio_output_i16_frames, outside the mutex.  It opens the port if need be.
Output(p) ==
  /\ wpc[p] = "output"
  /\ port' \in {port, TRUE}
  /\ disturbed' = disturbed \ {p}
  /\ Work(p, "pop")
  /\ UNCHANGED <<gPlayer, alive, queueVars, busy, clearing, stateVars, threadVars, asleep,
                 lock, callVars, data>>

\* Mutant: nobody is told that the output is over.
PopQuietly(p) ==
  /\ wpc[p] = "pop"
  /\ head' = [head EXCEPT ![p] = (@ + 1) % Ring]
  /\ count' = [count EXCEPT ![p] = @ - 1]
  /\ busy' = [busy EXCEPT ![p] = FALSE]
  /\ data' = [data EXCEPT ![p] = None]
  /\ Work(p, "check")
  /\ UNCHANGED <<gPlayer, alive, queue, clearing, stateVars, threadVars, port, asleep, lock,
                 callVars, disturbed>>

Pop(p) ==
  /\ wpc[p] = "pop"
  /\ head' = [head EXCEPT ![p] = (@ + 1) % Ring]
  /\ count' = [count EXCEPT ![p] = @ - 1]
  /\ busy' = [busy EXCEPT ![p] = FALSE]
  /\ data' = [data EXCEPT ![p] = None]
  /\ Broadcast(p)
  /\ Work(p, "check")
  /\ UNCHANGED <<gPlayer, alive, queue, clearing, stateVars, threadVars, port, lock,
                 callVars, disturbed>>

\* opensl_call_queue_callback: not after a stop request.
WorkerMoves(p, from, to) ==
  /\ wpc[p] = from
  /\ Work(p, to)
  /\ UNCHANGED <<gPlayer, alive, queueVars, busy, clearing, stateVars, threadVars, port,
                 asleep, callVars, data, disturbed>>

CallBack(p)     == ~threadStop[p] /\ WorkerMoves(p, "check", "callback") /\ UNCHANGED lock
SkipCallback(p) == threadStop[p] /\ WorkerMoves(p, "check", "loop") /\ UNCHANGED lock

\* FMOD's callback: it takes the lock, makes at most one call and returns.
CallbackLocks(p)   == lock = None /\ WorkerMoves(p, "callback", "locked") /\ lock' = p
CallbackReturns(p) == WorkerMoves(p, "locked", "loop") /\ lock' = None

CallbackEnqueues(p, b) ==
  /\ wpc[p] = "locked" /\ gPlayer = p
  /\ Put(p, b)
  /\ Work(p, "loop") /\ lock' = None

\* Clear from the player's own thread: its output is over.
CallbackClears(p) ==
  /\ wpc[p] = "locked" /\ gPlayer = p
  /\ head' = [head EXCEPT ![p] = 0]
  /\ count' = [count EXCEPT ![p] = 0]
  /\ clearing' = [clearing EXCEPT ![p] = FALSE]
  /\ TouchPort(p)
  /\ Broadcast(p)
  /\ Work(p, "loop") /\ lock' = None
  /\ UNCHANGED <<gPlayer, alive, queue, busy, stateVars, threadVars, port, callVars, data>>

\* obj_destroy from the player's own thread: it releases the player on its way
\* out, and is detached.
CallbackDestroys(p) ==
  /\ wpc[p] = "locked" /\ gPlayer = p
  /\ \A u \in Controllers : pc[u] = "idle"
  /\ destroyOnExit' = [destroyOnExit EXCEPT ![p] = TRUE]
  /\ threadStop' = [threadStop EXCEPT ![p] = TRUE]
  /\ gPlayer' = None
  /\ Work(p, "loop") /\ lock' = None
  /\ UNCHANGED <<alive, queueVars, busy, clearing, stateVars, threadStarted, port, asleep,
                 callVars, data, disturbed>>

Exit(p) ==
  /\ wpc[p] = "loop" /\ p \notin asleep
  /\ threadStop[p]
  /\ Work(p, "gone")
  /\ IF destroyOnExit[p] THEN Release(p, p) ELSE UNCHANGED <<alive, port, disturbed>>
  /\ UNCHANGED <<gPlayer, queueVars, busy, clearing, stateVars, threadVars, asleep, lock,
                 callVars, data>>

-----------------------------------------------------------------------------

\* FMOD holds its lock over any number of calls.
GameLock(t) ==
  /\ t = PlayThread /\ pc[t] = "idle" /\ lock = None
  /\ lock' = t
  /\ UNCHANGED <<gPlayer, alive, queueVars, busy, clearing, stateVars, threadVars, port,
                 asleep, callVars, workVars, disturbed>>

GameUnlock(t) ==
  /\ pc[t] = "idle" /\ lock = t
  /\ lock' = None
  /\ UNCHANGED <<gPlayer, alive, queueVars, busy, clearing, stateVars, threadVars, port,
                 asleep, callVars, workVars, disturbed>>

Init ==
  /\ gPlayer = None /\ alive = {}
  /\ queue = [p \in Players |-> [i \in 0 .. Ring - 1 |-> None]]
  /\ head = [p \in Players |-> 0]
  /\ count = [p \in Players |-> 0]
  /\ busy = [p \in Players |-> FALSE]
  /\ clearing = [p \in Players |-> FALSE]
  /\ playing = [p \in Players |-> FALSE]
  /\ playState = [p \in Players |-> "stopped"]
  /\ portOpen = [p \in Players |-> FALSE]
  /\ threadStarted = [p \in Players |-> FALSE]
  /\ threadStop = [p \in Players |-> FALSE]
  /\ destroyOnExit = [p \in Players |-> FALSE]
  /\ port = FALSE /\ asleep = {} /\ lock = None
  /\ pc = [t \in Controllers |-> "idle"]
  /\ my = [t \in Controllers |-> None]
  /\ wpc = [p \in Players |-> "none"]
  /\ data = [p \in Players |-> None]
  /\ disturbed = {}

\* The rest of a call that has begun.
CallStep(t) ==
  \/ ClearFinish(t) \/ WaitForOutput(t)
  \/ PlayOpen(t) \/ PlayOpenFails(t) \/ PlayAgain(t)
  \/ ThreadWoken(t) \/ ThreadCreated(t) \/ ThreadFails(t)
  \/ Pause(t) \/ StopBegin(t) \/ StopFinish(t)
  \/ DestroyJoined(t)

WorkerStep(p) ==
  \/ Park(p) \/ Take(p) \/ Output(p) \/ Pop(p) \/ CallBack(p) \/ SkipCallback(p)
  \/ CallbackLocks(p) \/ CallbackReturns(p)
  \/ (\E b \in Buffers : CallbackEnqueues(p, b))
  \/ CallbackClears(p) \/ CallbackDestroys(p)
  \/ Exit(p)

Begin(t) ==
  \/ (\E p \in Players : Create(t, p))
  \/ (\E b \in Buffers : Enqueue(t, b))
  \/ (\E state \in States : SetPlayState(t, state))
  \/ ClearCall(t) \/ DestroyJoins(t) \/ DestroyAtOnce(t)
  \/ GameLock(t) \/ GameUnlock(t)

Next ==
  \/ \E t \in Controllers : Begin(t) \/ CallStep(t)
  \/ \E p \in Players : WorkerStep(p)

\* Threads run until they sleep; the audio port takes every block at last; the
\* callback makes the calls it likes and returns.
Fairness ==
  /\ \A t \in Controllers : WF_vars(CallStep(t))
  /\ \A p \in Players : WF_vars(WorkerStep(p))

Spec == Init /\ [][Next]_vars
FairSpec == Spec /\ Fairness

-----------------------------------------------------------------------------
(* Properties.                                                              *)

TypeOK ==
  /\ gPlayer \in Players \cup {None} /\ alive \subseteq Players
  /\ queue \in [Players -> [0 .. Ring - 1 -> Buffers \cup {None}]]
  /\ head \in [Players -> 0 .. Ring - 1]
  /\ count \in [Players -> 0 .. Capacity]
  /\ busy \in [Players -> BOOLEAN]
  /\ clearing \in [Players -> BOOLEAN]
  /\ playing \in [Players -> BOOLEAN]
  /\ playState \in [Players -> States]
  /\ portOpen \in [Players -> BOOLEAN]
  /\ threadStarted \in [Players -> BOOLEAN]
  /\ threadStop \in [Players -> BOOLEAN]
  /\ destroyOnExit \in [Players -> BOOLEAN]
  /\ port \in BOOLEAN
  /\ asleep \subseteq Controllers \cup Players
  /\ lock \in Controllers \cup Players \cup {None}
  /\ pc \in [Controllers -> States \cup {"idle", "clear", "thread", "stopping", "join"}]
  /\ my \in [Controllers -> Players \cup {None}]
  /\ wpc \in [Players -> {"none", "loop", "output", "pop", "check", "callback", "locked", "gone"}]
  /\ data \in [Players -> Buffers \cup {None}]
  /\ disturbed \subseteq Players

\* The buffer a player's thread outputs is still the head of its queue: no clear
\* has given it back and no enqueue has overwritten it ("Clear guarantees that
\* the caller can release its buffers on return").  A released player has no
\* thread left and nobody sleeps on its condition variable: the thread that
\* releases it is the last to use it.
OutputIsQueued ==
  /\ TypeOK
  /\ \A p \in Players :
       /\ wpc[p] \in {"output", "pop"} =>
            busy[p] /\ count[p] > 0 /\ queue[p][head[p]] = data[p]
       /\ p \notin alive => wpc[p] \in {"none", "gone"} /\ Sleepers(p) = {}

\* Nobody opens, closes or resets the port while a player's thread outputs
\* ("Only this thread touches the output port and PCM accumulator during
\* playback").
PortIsQuiet == disturbed = {}

\* A player that has been told to stop is silent once the call has returned.
StopSilences ==
  \A p \in alive :
    playState[p] = "stopped" /\ (\A t \in Controllers : my[t] # p) =>
      ~playing[p] /\ ~busy[p]

\* A thread with buffers to play does not sleep, unless the call that gave it
\* the work is about to wake it.  Enqueue wakes one sleeper only: it must never
\* be a waiting clear or stop.
NoLostWakeup ==
  \A p \in alive : p \in asleep /\ (Ready(p) \/ threadStop[p]) =>
    \E t \in Controllers : my[t] = p /\ pc[t] = "thread"

\* A callback has cleared while another clear waits, and lowered their flag.
FlagLowered == \E t \in Controllers : pc[t] = "clear" /\ ~clearing[my[t]]

\* Every call returns, also when its caller holds the lock the callback waits
\* for (the deadlock of rc14: a stop must not join the thread).  The exception
\* is real: once a callback has lowered the flag, a queue that is fed without a
\* pause may keep the first clear waiting.
CallsReturn == \A t \in Controllers : []<>(pc[t] = "idle") \/ <>FlagLowered
=============================================================================
