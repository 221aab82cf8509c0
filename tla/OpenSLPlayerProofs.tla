-------------------------- MODULE OpenSLPlayerProofs --------------------------
(***************************************************************************)
(* Proofs about OpenSLPlayer for any number of players, of FMOD's threads  *)
(* and buffers, and any ring and capacity.                                 *)
(***************************************************************************)
EXTENDS OpenSLPlayer, TLAPS

\* A call of PlayThread is about the current player and keeps it; it sleeps
\* only while that player's buffer is output.
CallFits ==
  /\ TypeOK
  /\ \A t \in Controllers :
       /\ pc[t] = "idle" => my[t] = None
       /\ pc[t] # "idle" => t = PlayThread /\ my[t] = gPlayer /\ gPlayer \in Players
       /\ t \in asleep => pc[t] \in {"clear", "stopping"} /\ busy[my[t]]

\* A player that is not the current one is released, or its own thread is about
\* to release it.
PlayerFits ==
  \A p \in Players :
    /\ p \notin alive => p # gPlayer /\ wpc[p] \in {"none", "gone"}
    /\ p \in alive /\ p # gPlayer => wpc[p] = "loop" /\ threadStop[p] /\ destroyOnExit[p]
    /\ p = gPlayer => /\ ~destroyOnExit[p]
                      /\ threadStop[p] => pc[PlayThread] = "join"
                      /\ threadStarted[p] <=> wpc[p] # "none"
    /\ p \in asleep => p = gPlayer /\ wpc[p] = "loop"

\* The buffer that is output stays at the head of the queue, and its port open.
OutputFits ==
  \A p \in Players :
    /\ busy[p] <=> wpc[p] \in {"output", "pop"}
    /\ busy[p] => count[p] > 0 /\ queue[p][head[p]] = data[p]
    /\ p = gPlayer /\ (busy[p] \/ playing[p]) => portOpen[p]

\* The state a call stores first is the one it establishes.
StateFits ==
  /\ pc[PlayThread] \in {"playing", "thread"} => playState[my[PlayThread]] = "playing"
  /\ pc[PlayThread] = "paused" => playState[my[PlayThread]] = "paused"
  /\ pc[PlayThread] = "stopping" => ~playing[my[PlayThread]]
  /\ \A p \in alive :
       playState[p] = "stopped" /\ ~(my[PlayThread] = p /\ pc[PlayThread] \in {"stopped", "stopping"}) =>
          ~playing[p] /\ ~busy[p]

IInv == CallFits /\ PlayerFits /\ OutputFits /\ StateFits /\ NoLostWakeup

-----------------------------------------------------------------------------
\* The slot behind the queue is not its head while the queue is not full.
LEMMA TailIsFree ==
  ASSUME NEW h \in 0 .. Ring - 1, NEW n \in 1 .. Ring - 1
  PROVE  (h + n) % Ring \in 0 .. Ring - 1 /\ (h + n) % Ring # h
<1>1. Ring \in Nat \ {0}
  BY PlayerAssumption
<1>2. CASE h + n < Ring
  <2>1. (h + n) % Ring = h + n
    BY <1>1, <1>2
  <2>2. QED BY <1>1, <1>2, <2>1
<1>3. CASE h + n >= Ring
  <2>1. (h + n) % Ring = h + n - Ring
    BY <1>1, <1>3
  <2>2. QED BY <1>1, <1>3, <2>1
<1>4. QED BY <1>1, <1>2, <1>3

LEMMA SlotOf ==
  ASSUME NEW n \in Nat
  PROVE  n % Ring \in 0 .. Ring - 1
BY PlayerAssumption

\* A step keeps the types, and a call its player.
LEMMA CallKeeps ==
  ASSUME IInv, Next
  PROVE  CallFits'
<1> USE PlayerAssumption
  DEF queueVars, stateVars, threadVars, callVars, workVars, States, IInv, CallFits, TypeOK
<1>0. Ring \in Nat \ {0} /\ Capacity \in 1 .. Ring
  BY PlayerAssumption
<1>1. ASSUME NEW t \in Controllers, NEW p \in Players, Create(t, p) PROVE CallFits'
  BY <1>1 DEF Create
<1>2. ASSUME NEW t \in Controllers, NEW b \in Buffers, Enqueue(t, b) PROVE CallFits'
  <2>1. gPlayer \in Players /\ head[gPlayer] \in 0 .. Ring - 1 /\ count[gPlayer] \in 0 .. Capacity
    BY <1>2 DEF Enqueue, Put, Signal, Sleepers, CanCall
  <2>2. (head[gPlayer] + count[gPlayer]) % Ring \in 0 .. Ring - 1
    <3>1. head[gPlayer] + count[gPlayer] \in Nat
      BY <2>1, <1>0
    <3>2. QED BY ONLY <3>1, SlotOf
  <2>3. /\ queue' \in [Players -> [0 .. Ring - 1 -> Buffers \cup {None}]]
        /\ count' \in [Players -> 0 .. Capacity]
    BY <1>2, <2>1, <2>2 DEF Enqueue, Put, Signal, Sleepers, CanCall
  <2>4. asleep' \subseteq asleep
    BY <1>2 DEF Enqueue, Put, Signal, Sleepers, CanCall
  <2>5. QED BY <1>2, <2>3, <2>4 DEF Enqueue, Put, Signal, Sleepers, CanCall
<1>3. ASSUME NEW t \in Controllers, NEW state \in States, SetPlayState(t, state)
      PROVE  CallFits'
  BY <1>3 DEF SetPlayState, Call, CanCall
<1>4. ASSUME NEW t \in Controllers, ClearCall(t) PROVE CallFits'
  BY <1>4 DEF ClearCall, Call, CanCall
<1>5. ASSUME NEW t \in Controllers, DestroyJoins(t) PROVE CallFits'
  BY <1>5 DEF DestroyJoins, Call, Broadcast, Sleepers, CanCall
<1>6. ASSUME NEW t \in Controllers, DestroyAtOnce(t) PROVE CallFits'
  BY <1>6 DEF DestroyAtOnce, Release, TouchPort, Outputting, CanCall
<1>7. ASSUME NEW t \in Controllers, GameLock(t) PROVE CallFits'
  BY <1>7 DEF GameLock
<1>8. ASSUME NEW t \in Controllers, GameUnlock(t) PROVE CallFits'
  BY <1>8 DEF GameUnlock
<1>9. ASSUME NEW t \in Controllers, ClearFinish(t) PROVE CallFits'
  <2>1. disturbed' \subseteq Players
    BY <1>9 DEF ClearFinish, Return, Broadcast, Sleepers, TouchPort, Outputting
  <2>2. asleep' \subseteq asleep /\ \A u \in asleep' : my[u] = my[t] => u \notin Controllers
    BY <1>9 DEF ClearFinish, Broadcast, Sleepers
  <2>3. /\ head' \in [Players -> 0 .. Ring - 1] /\ count' \in [Players -> 0 .. Capacity]
        /\ clearing' \in [Players -> BOOLEAN]
    <3>1. 0 \in 0 .. Ring - 1 /\ 0 \in 0 .. Capacity
      BY ONLY <1>0
    <3>2. my[t] \in Players
      BY <1>9 DEF ClearFinish
    <3>3. QED BY <1>9, <3>1, <3>2 DEF ClearFinish
  <2>4. QED BY <1>9, <2>1, <2>2, <2>3 DEF ClearFinish, Return
<1>10. ASSUME NEW t \in Controllers, WaitForOutput(t) PROVE CallFits'
  BY <1>10 DEF WaitForOutput
<1>11. ASSUME NEW t \in Controllers, PlayOpen(t) PROVE CallFits'
  <2>1. disturbed' \subseteq Players
    BY <1>11 DEF PlayOpen, Goto, TouchPort, Outputting
  <2>2. QED BY <1>11, <2>1, ZenonT(30) DEF PlayOpen, Goto
<1>12. ASSUME NEW t \in Controllers, PlayOpenFails(t) PROVE CallFits'
  BY <1>12 DEF PlayOpenFails, Return
<1>13. ASSUME NEW t \in Controllers, PlayAgain(t) PROVE CallFits'
  BY <1>13, ZenonT(30) DEF PlayAgain, Goto
<1>14. ASSUME NEW t \in Controllers, ThreadWoken(t) PROVE CallFits'
  BY <1>14 DEF ThreadWoken, Return, Broadcast, Sleepers
<1>15. ASSUME NEW t \in Controllers, ThreadCreated(t) PROVE CallFits'
  BY <1>15 DEF ThreadCreated, Return, Work
<1>16. ASSUME NEW t \in Controllers, ThreadFails(t) PROVE CallFits'
  BY <1>16 DEF ThreadFails, Return
<1>17. ASSUME NEW t \in Controllers, Pause(t) PROVE CallFits'
  BY <1>17 DEF Pause, Return
<1>18. ASSUME NEW t \in Controllers, StopBegin(t) PROVE CallFits'
  BY <1>18, ZenonT(30) DEF StopBegin, Goto
<1>19. ASSUME NEW t \in Controllers, StopFinish(t) PROVE CallFits'
  BY <1>19 DEF StopFinish, Return, TouchPort, Outputting
<1>20. ASSUME NEW t \in Controllers, DestroyJoined(t) PROVE CallFits'
  BY <1>20 DEF DestroyJoined, Return, Release, TouchPort, Outputting
<1>21. ASSUME NEW p \in Players, Park(p) PROVE CallFits'
  BY <1>21 DEF Park, Ready
<1>22. ASSUME NEW p \in Players, Take(p) PROVE CallFits'
  BY <1>22 DEF Take, Ready, Work, TouchPort, Outputting
<1>23. ASSUME NEW p \in Players, Output(p) PROVE CallFits'
  BY <1>23 DEF Output, Work
<1>24. ASSUME NEW p \in Players, Pop(p) PROVE CallFits'
  <2>1. count[p] \in 1 .. Capacity /\ head[p] \in 0 .. Ring - 1
    BY <1>24 DEF Pop, Work, Broadcast, Sleepers, OutputFits
  <2>2. count[p] - 1 \in 0 .. Capacity /\ (head[p] + 1) % Ring \in 0 .. Ring - 1
    <3>1. head[p] + 1 \in Nat /\ count[p] - 1 \in 0 .. Capacity
      BY <2>1, <1>0
    <3>2. QED BY ONLY <3>1, SlotOf
  <2>3. count' \in [Players -> 0 .. Capacity] /\ head' \in [Players -> 0 .. Ring - 1]
    BY <1>24, <2>2 DEF Pop, Work, Broadcast, Sleepers
  <2>4. QED BY <1>24, <2>3, SMTT(30) DEF Pop, Work, Broadcast, Sleepers
<1>25. ASSUME NEW p \in Players, CallBack(p) PROVE CallFits'
  BY <1>25 DEF CallBack, WorkerMoves, Work
<1>26. ASSUME NEW p \in Players, SkipCallback(p) PROVE CallFits'
  BY <1>26 DEF SkipCallback, WorkerMoves, Work
<1>27. ASSUME NEW p \in Players, CallbackLocks(p) PROVE CallFits'
  BY <1>27 DEF CallbackLocks, WorkerMoves, Work
<1>28. ASSUME NEW p \in Players, CallbackReturns(p) PROVE CallFits'
  BY <1>28 DEF CallbackReturns, WorkerMoves, Work
<1>29. ASSUME NEW p \in Players, NEW b \in Buffers, CallbackEnqueues(p, b) PROVE CallFits'
  <2>1. gPlayer \in Players /\ head[gPlayer] \in 0 .. Ring - 1 /\ count[gPlayer] \in 0 .. Capacity
    BY <1>29 DEF CallbackEnqueues, Put, Work, Signal, Sleepers
  <2>2. (head[gPlayer] + count[gPlayer]) % Ring \in 0 .. Ring - 1
    <3>1. head[gPlayer] + count[gPlayer] \in Nat
      BY <2>1, <1>0
    <3>2. QED BY ONLY <3>1, SlotOf
  <2>3. /\ queue' \in [Players -> [0 .. Ring - 1 -> Buffers \cup {None}]]
        /\ count' \in [Players -> 0 .. Capacity]
    BY <1>29, <2>1, <2>2 DEF CallbackEnqueues, Put, Work, Signal, Sleepers
  <2>4. asleep' \subseteq asleep
    BY <1>29 DEF CallbackEnqueues, Put, Work, Signal, Sleepers
  <2>5. QED BY <1>29, <2>3, <2>4 DEF CallbackEnqueues, Put, Work, Signal, Sleepers
<1>30. ASSUME NEW p \in Players, CallbackClears(p) PROVE CallFits'
  BY <1>30 DEF CallbackClears, Work, Broadcast, Sleepers, TouchPort, Outputting
<1>31. ASSUME NEW p \in Players, CallbackDestroys(p) PROVE CallFits'
  BY <1>31 DEF CallbackDestroys, Work
<1>32. ASSUME NEW p \in Players, Exit(p) PROVE CallFits'
  <2>1. disturbed' \subseteq Players
    BY <1>32 DEF Exit, Work, Release, TouchPort, Outputting
  <2>2. alive' \subseteq Players /\ port' \in BOOLEAN
    <3>1. CASE destroyOnExit[p]
      <4>1. alive' = alive \ {p} /\ port' = (port /\ ~portOpen[p])
        BY <1>32, <3>1 DEF Exit, Release
      <4>2. QED BY <4>1
    <3>2. CASE ~destroyOnExit[p]
      BY <1>32, <3>2 DEF Exit
    <3>3. QED BY <3>1, <3>2
  <2>3. QED BY <1>32, <2>1, <2>2 DEF Exit, Work
<1>33. QED BY ONLY <1>1, <1>2, <1>3, <1>4, <1>5, <1>6, <1>7, <1>8, <1>9,
         <1>10, <1>11, <1>12, <1>13, <1>14, <1>15, <1>16, <1>17, <1>18,
         <1>19, <1>20, <1>21, <1>22, <1>23, <1>24, <1>25, <1>26, <1>27,
         <1>28, <1>29, <1>30, <1>31, <1>32, Next
      DEF Next, Begin, CallStep, WorkerStep

\* A player is released by its last user.
LEMMA PlayerKeeps ==
  ASSUME IInv, Next
  PROVE  PlayerFits'
<1> USE PlayerAssumption
  DEF queueVars, stateVars, threadVars, callVars, workVars, States, IInv, CallFits, TypeOK
<1>1. ASSUME NEW t \in Controllers, NEW p \in Players, Create(t, p) PROVE PlayerFits'
  BY <1>1 DEF Create, PlayerFits
<1>2. ASSUME NEW t \in Controllers, NEW b \in Buffers, Enqueue(t, b) PROVE PlayerFits'
  BY <1>2 DEF Enqueue, Put, Signal, Sleepers, CanCall, PlayerFits
<1>3. ASSUME NEW t \in Controllers, NEW state \in States, SetPlayState(t, state)
      PROVE  PlayerFits'
  BY <1>3 DEF SetPlayState, Call, CanCall, PlayerFits
<1>4. ASSUME NEW t \in Controllers, ClearCall(t) PROVE PlayerFits'
  BY <1>4 DEF ClearCall, Call, CanCall, PlayerFits
<1>5. ASSUME NEW t \in Controllers, DestroyJoins(t) PROVE PlayerFits'
  BY <1>5 DEF DestroyJoins, Call, Broadcast, Sleepers, CanCall, PlayerFits
<1>6. ASSUME NEW t \in Controllers, DestroyAtOnce(t) PROVE PlayerFits'
  BY <1>6 DEF DestroyAtOnce, Release, TouchPort, Outputting, CanCall, PlayerFits
<1>7. ASSUME NEW t \in Controllers, GameLock(t) PROVE PlayerFits'
  BY <1>7 DEF GameLock, PlayerFits
<1>8. ASSUME NEW t \in Controllers, GameUnlock(t) PROVE PlayerFits'
  BY <1>8 DEF GameUnlock, PlayerFits
<1>9. ASSUME NEW t \in Controllers, ClearFinish(t) PROVE PlayerFits'
  BY <1>9 DEF ClearFinish, Return, Broadcast, Sleepers, TouchPort, Outputting, PlayerFits
<1>10. ASSUME NEW t \in Controllers, WaitForOutput(t) PROVE PlayerFits'
  BY <1>10 DEF WaitForOutput, PlayerFits
<1>11. ASSUME NEW t \in Controllers, PlayOpen(t) PROVE PlayerFits'
  BY <1>11 DEF PlayOpen, Goto, TouchPort, Outputting, PlayerFits
<1>12. ASSUME NEW t \in Controllers, PlayOpenFails(t) PROVE PlayerFits'
  BY <1>12 DEF PlayOpenFails, Return, PlayerFits
<1>13. ASSUME NEW t \in Controllers, PlayAgain(t) PROVE PlayerFits'
  BY <1>13 DEF PlayAgain, Goto, PlayerFits
<1>14. ASSUME NEW t \in Controllers, ThreadWoken(t) PROVE PlayerFits'
  BY <1>14 DEF ThreadWoken, Return, Broadcast, Sleepers, PlayerFits
<1>15. ASSUME NEW t \in Controllers, ThreadCreated(t) PROVE PlayerFits'
  BY <1>15 DEF ThreadCreated, Return, Work, PlayerFits
<1>16. ASSUME NEW t \in Controllers, ThreadFails(t) PROVE PlayerFits'
  BY <1>16 DEF ThreadFails, Return, PlayerFits
<1>17. ASSUME NEW t \in Controllers, Pause(t) PROVE PlayerFits'
  BY <1>17 DEF Pause, Return, PlayerFits
<1>18. ASSUME NEW t \in Controllers, StopBegin(t) PROVE PlayerFits'
  BY <1>18 DEF StopBegin, Goto, PlayerFits
<1>19. ASSUME NEW t \in Controllers, StopFinish(t) PROVE PlayerFits'
  BY <1>19 DEF StopFinish, Return, TouchPort, Outputting, PlayerFits
<1>20. ASSUME NEW t \in Controllers, DestroyJoined(t) PROVE PlayerFits'
  BY <1>20 DEF DestroyJoined, Return, Release, TouchPort, Outputting, PlayerFits
<1>21. ASSUME NEW p \in Players, Park(p) PROVE PlayerFits'
  BY <1>21 DEF Park, Ready, PlayerFits
<1>22. ASSUME NEW p \in Players, Take(p) PROVE PlayerFits'
  BY <1>22 DEF Take, Ready, Work, TouchPort, Outputting, PlayerFits
<1>23. ASSUME NEW p \in Players, Output(p) PROVE PlayerFits'
  BY <1>23 DEF Output, Work, PlayerFits
<1>24. ASSUME NEW p \in Players, Pop(p) PROVE PlayerFits'
  BY <1>24 DEF Pop, Work, Broadcast, Sleepers, PlayerFits
<1>25. ASSUME NEW p \in Players, CallBack(p) PROVE PlayerFits'
  BY <1>25 DEF CallBack, WorkerMoves, Work, PlayerFits
<1>26. ASSUME NEW p \in Players, SkipCallback(p) PROVE PlayerFits'
  BY <1>26 DEF SkipCallback, WorkerMoves, Work, PlayerFits
<1>27. ASSUME NEW p \in Players, CallbackLocks(p) PROVE PlayerFits'
  BY <1>27 DEF CallbackLocks, WorkerMoves, Work, PlayerFits
<1>28. ASSUME NEW p \in Players, CallbackReturns(p) PROVE PlayerFits'
  BY <1>28 DEF CallbackReturns, WorkerMoves, Work, PlayerFits
<1>29. ASSUME NEW p \in Players, NEW b \in Buffers, CallbackEnqueues(p, b) PROVE PlayerFits'
  BY <1>29 DEF CallbackEnqueues, Put, Work, Signal, Sleepers, PlayerFits
<1>30. ASSUME NEW p \in Players, CallbackClears(p) PROVE PlayerFits'
  BY <1>30 DEF CallbackClears, Work, Broadcast, Sleepers, TouchPort, Outputting, PlayerFits
<1>31. ASSUME NEW p \in Players, CallbackDestroys(p) PROVE PlayerFits'
  BY <1>31 DEF CallbackDestroys, Work, PlayerFits
<1>32. ASSUME NEW p \in Players, Exit(p) PROVE PlayerFits'
  BY <1>32 DEF Exit, Work, Release, TouchPort, Outputting, PlayerFits
<1>33. QED BY ONLY <1>1, <1>2, <1>3, <1>4, <1>5, <1>6, <1>7, <1>8, <1>9,
         <1>10, <1>11, <1>12, <1>13, <1>14, <1>15, <1>16, <1>17, <1>18,
         <1>19, <1>20, <1>21, <1>22, <1>23, <1>24, <1>25, <1>26, <1>27,
         <1>28, <1>29, <1>30, <1>31, <1>32, Next
      DEF Next, Begin, CallStep, WorkerStep

\* Nothing takes the head of the queue, or the port, from a running output.
LEMMA OutputKeeps ==
  ASSUME IInv, Next
  PROVE  OutputFits'
<1> USE PlayerAssumption
  DEF queueVars, stateVars, threadVars, callVars, workVars, States, IInv, CallFits, TypeOK,
      PlayerFits
<1>1. ASSUME NEW t \in Controllers, NEW p \in Players, Create(t, p) PROVE OutputFits'
  BY <1>1 DEF Create, OutputFits
<1>2. ASSUME NEW t \in Controllers, NEW b \in Buffers, Enqueue(t, b) PROVE OutputFits'
  <2>1. gPlayer \in Players /\ head[gPlayer] \in 0 .. Ring - 1 /\ count[gPlayer] \in 0 .. Capacity - 1
    BY <1>2 DEF Enqueue, Put, Signal, Sleepers, CanCall
  <2>2. busy[gPlayer] => (head[gPlayer] + count[gPlayer]) % Ring # head[gPlayer]
    <3>1. busy[gPlayer] => count[gPlayer] \in 1 .. Ring - 1
      BY <2>1 DEF OutputFits
    <3>2. QED BY ONLY <2>1, <3>1, TailIsFree
  <2>3. busy[gPlayer] => queue'[gPlayer][head[gPlayer]] = queue[gPlayer][head[gPlayer]]
    BY <1>2, <2>1, <2>2 DEF Enqueue, Put, Signal, Sleepers, CanCall
  <2>4. \A p \in Players \ {gPlayer} : queue'[p] = queue[p] /\ count'[p] = count[p]
    BY <1>2, <2>1 DEF Enqueue, Put, Signal, Sleepers, CanCall
  <2>5. count'[gPlayer] = count[gPlayer] + 1
    BY <1>2, <2>1 DEF Enqueue, Put, Signal, Sleepers, CanCall
  <2>6. /\ UNCHANGED <<head, busy, data, wpc, gPlayer, portOpen, playing>>
    BY <1>2 DEF Enqueue, Put, Signal, Sleepers, CanCall
  <2>7. QED BY <2>1, <2>3, <2>4, <2>5, <2>6 DEF OutputFits
<1>3. ASSUME NEW t \in Controllers, NEW state \in States, SetPlayState(t, state)
      PROVE  OutputFits'
  BY <1>3 DEF SetPlayState, Call, CanCall, OutputFits
<1>4. ASSUME NEW t \in Controllers, ClearCall(t) PROVE OutputFits'
  BY <1>4 DEF ClearCall, Call, CanCall, OutputFits
<1>5. ASSUME NEW t \in Controllers, DestroyJoins(t) PROVE OutputFits'
  BY <1>5 DEF DestroyJoins, Call, Broadcast, Sleepers, CanCall, OutputFits
<1>6. ASSUME NEW t \in Controllers, DestroyAtOnce(t) PROVE OutputFits'
  BY <1>6 DEF DestroyAtOnce, Release, TouchPort, Outputting, CanCall, OutputFits
<1>7. ASSUME NEW t \in Controllers, GameLock(t) PROVE OutputFits'
  BY <1>7 DEF GameLock, OutputFits
<1>8. ASSUME NEW t \in Controllers, GameUnlock(t) PROVE OutputFits'
  BY <1>8 DEF GameUnlock, OutputFits
<1>9. ASSUME NEW t \in Controllers, ClearFinish(t) PROVE OutputFits'
  BY <1>9 DEF ClearFinish, Return, Broadcast, Sleepers, TouchPort, Outputting, OutputFits
<1>10. ASSUME NEW t \in Controllers, WaitForOutput(t) PROVE OutputFits'
  BY <1>10 DEF WaitForOutput, OutputFits
<1>11. ASSUME NEW t \in Controllers, PlayOpen(t) PROVE OutputFits'
  BY <1>11 DEF PlayOpen, Goto, TouchPort, Outputting, OutputFits
<1>12. ASSUME NEW t \in Controllers, PlayOpenFails(t) PROVE OutputFits'
  BY <1>12 DEF PlayOpenFails, Return, OutputFits
<1>13. ASSUME NEW t \in Controllers, PlayAgain(t) PROVE OutputFits'
  BY <1>13 DEF PlayAgain, Goto, OutputFits
<1>14. ASSUME NEW t \in Controllers, ThreadWoken(t) PROVE OutputFits'
  BY <1>14 DEF ThreadWoken, Return, Broadcast, Sleepers, OutputFits
<1>15. ASSUME NEW t \in Controllers, ThreadCreated(t) PROVE OutputFits'
  BY <1>15 DEF ThreadCreated, Return, Work, OutputFits
<1>16. ASSUME NEW t \in Controllers, ThreadFails(t) PROVE OutputFits'
  BY <1>16 DEF ThreadFails, Return, OutputFits
<1>17. ASSUME NEW t \in Controllers, Pause(t) PROVE OutputFits'
  BY <1>17 DEF Pause, Return, OutputFits
<1>18. ASSUME NEW t \in Controllers, StopBegin(t) PROVE OutputFits'
  BY <1>18 DEF StopBegin, Goto, OutputFits
<1>19. ASSUME NEW t \in Controllers, StopFinish(t) PROVE OutputFits'
  <2>1. /\ my[t] = gPlayer /\ gPlayer \in Players /\ ~playing[gPlayer] /\ ~busy[gPlayer]
    BY <1>19 DEF StopFinish, StateFits
  <2>2. \A p \in Players : p # gPlayer => portOpen'[p] = portOpen[p]
    BY <1>19, <2>1 DEF StopFinish
  <2>3. UNCHANGED <<head, count, queue, busy, data, wpc, gPlayer, playing>>
    BY <1>19 DEF StopFinish
  <2>4. QED BY <2>1, <2>2, <2>3 DEF OutputFits
<1>20. ASSUME NEW t \in Controllers, DestroyJoined(t) PROVE OutputFits'
  BY <1>20 DEF DestroyJoined, Return, Release, TouchPort, Outputting, OutputFits
<1>21. ASSUME NEW p \in Players, Park(p) PROVE OutputFits'
  BY <1>21 DEF Park, Ready, OutputFits
<1>22. ASSUME NEW p \in Players, Take(p) PROVE OutputFits'
  BY <1>22 DEF Take, Ready, Work, TouchPort, Outputting, OutputFits
<1>23. ASSUME NEW p \in Players, Output(p) PROVE OutputFits'
  BY <1>23 DEF Output, Work, OutputFits
<1>24. ASSUME NEW p \in Players, Pop(p) PROVE OutputFits'
  BY <1>24 DEF Pop, Work, Broadcast, Sleepers, OutputFits
<1>25. ASSUME NEW p \in Players, CallBack(p) PROVE OutputFits'
  BY <1>25 DEF CallBack, WorkerMoves, Work, OutputFits
<1>26. ASSUME NEW p \in Players, SkipCallback(p) PROVE OutputFits'
  BY <1>26 DEF SkipCallback, WorkerMoves, Work, OutputFits
<1>27. ASSUME NEW p \in Players, CallbackLocks(p) PROVE OutputFits'
  BY <1>27 DEF CallbackLocks, WorkerMoves, Work, OutputFits
<1>28. ASSUME NEW p \in Players, CallbackReturns(p) PROVE OutputFits'
  BY <1>28 DEF CallbackReturns, WorkerMoves, Work, OutputFits
<1>29. ASSUME NEW p \in Players, NEW b \in Buffers, CallbackEnqueues(p, b) PROVE OutputFits'
  BY <1>29 DEF CallbackEnqueues, Put, Work, Signal, Sleepers, OutputFits
<1>30. ASSUME NEW p \in Players, CallbackClears(p) PROVE OutputFits'
  BY <1>30 DEF CallbackClears, Work, Broadcast, Sleepers, TouchPort, Outputting, OutputFits
<1>31. ASSUME NEW p \in Players, CallbackDestroys(p) PROVE OutputFits'
  BY <1>31 DEF CallbackDestroys, Work, OutputFits
<1>32. ASSUME NEW p \in Players, Exit(p) PROVE OutputFits'
  BY <1>32 DEF Exit, Work, Release, TouchPort, Outputting, OutputFits
<1>33. QED BY ONLY <1>1, <1>2, <1>3, <1>4, <1>5, <1>6, <1>7, <1>8, <1>9,
         <1>10, <1>11, <1>12, <1>13, <1>14, <1>15, <1>16, <1>17, <1>18,
         <1>19, <1>20, <1>21, <1>22, <1>23, <1>24, <1>25, <1>26, <1>27,
         <1>28, <1>29, <1>30, <1>31, <1>32, Next
      DEF Next, Begin, CallStep, WorkerStep

\* A call that stops a player leaves it silent.
LEMMA StateKeeps ==
  ASSUME IInv, Next
  PROVE  StateFits'
<1> USE PlayerAssumption
  DEF queueVars, stateVars, threadVars, callVars, workVars, States, IInv, CallFits, TypeOK,
      PlayerFits, OutputFits
<1>1. ASSUME NEW t \in Controllers, NEW p \in Players, Create(t, p) PROVE StateFits'
  BY <1>1 DEF Create, StateFits
<1>2. ASSUME NEW t \in Controllers, NEW b \in Buffers, Enqueue(t, b) PROVE StateFits'
  BY <1>2 DEF Enqueue, Put, Signal, Sleepers, CanCall, StateFits
<1>3. ASSUME NEW t \in Controllers, NEW state \in States, SetPlayState(t, state)
      PROVE  StateFits'
  BY <1>3 DEF SetPlayState, Call, CanCall, StateFits
<1>4. ASSUME NEW t \in Controllers, ClearCall(t) PROVE StateFits'
  BY <1>4 DEF ClearCall, Call, CanCall, StateFits
<1>5. ASSUME NEW t \in Controllers, DestroyJoins(t) PROVE StateFits'
  BY <1>5 DEF DestroyJoins, Call, Broadcast, Sleepers, CanCall, StateFits
<1>6. ASSUME NEW t \in Controllers, DestroyAtOnce(t) PROVE StateFits'
  BY <1>6 DEF DestroyAtOnce, Release, TouchPort, Outputting, CanCall, StateFits
<1>7. ASSUME NEW t \in Controllers, GameLock(t) PROVE StateFits'
  BY <1>7 DEF GameLock, StateFits
<1>8. ASSUME NEW t \in Controllers, GameUnlock(t) PROVE StateFits'
  BY <1>8 DEF GameUnlock, StateFits
<1>9. ASSUME NEW t \in Controllers, ClearFinish(t) PROVE StateFits'
  BY <1>9 DEF ClearFinish, Return, Broadcast, Sleepers, TouchPort, Outputting, StateFits
<1>10. ASSUME NEW t \in Controllers, WaitForOutput(t) PROVE StateFits'
  BY <1>10 DEF WaitForOutput, StateFits
<1>11. ASSUME NEW t \in Controllers, PlayOpen(t) PROVE StateFits'
  BY <1>11 DEF PlayOpen, Goto, TouchPort, Outputting, StateFits
<1>12. ASSUME NEW t \in Controllers, PlayOpenFails(t) PROVE StateFits'
  BY <1>12 DEF PlayOpenFails, Return, StateFits
<1>13. ASSUME NEW t \in Controllers, PlayAgain(t) PROVE StateFits'
  BY <1>13 DEF PlayAgain, Goto, StateFits
<1>14. ASSUME NEW t \in Controllers, ThreadWoken(t) PROVE StateFits'
  BY <1>14 DEF ThreadWoken, Return, Broadcast, Sleepers, StateFits
<1>15. ASSUME NEW t \in Controllers, ThreadCreated(t) PROVE StateFits'
  BY <1>15 DEF ThreadCreated, Return, Work, StateFits
<1>16. ASSUME NEW t \in Controllers, ThreadFails(t) PROVE StateFits'
  <2>1. my[t] = gPlayer /\ t = PlayThread /\ ~busy[gPlayer]
    <3>1. my[t] = gPlayer /\ t = PlayThread /\ gPlayer \in Players /\ ~threadStarted[gPlayer]
      BY <1>16 DEF ThreadFails
    <3>2. wpc[gPlayer] = "none"
      BY <3>1
    <3>3. QED BY <3>1, <3>2
  <2>2. pc'[PlayThread] = "idle" /\ my'[PlayThread] = None
    BY <1>16, <2>1 DEF ThreadFails, Return
  <2>3. \A p \in alive : p # gPlayer => playing'[p] = playing[p] /\ playState'[p] = playState[p]
    BY <1>16, <2>1 DEF ThreadFails
  <2>4. gPlayer \in alive => ~playing'[gPlayer]
    BY <1>16, <2>1 DEF ThreadFails
  <2>5. alive' = alive /\ busy' = busy
    BY <1>16 DEF ThreadFails
  <2>6. \A p \in alive : p # gPlayer /\ playState[p] = "stopped" => ~playing[p] /\ ~busy[p]
    BY <2>1 DEF StateFits
  <2>7. \A p \in alive' : playState'[p] = "stopped" => ~playing'[p] /\ ~busy'[p]
    BY <2>1, <2>3, <2>4, <2>5, <2>6
  <2>8. QED BY <2>2, <2>7 DEF StateFits
<1>17. ASSUME NEW t \in Controllers, Pause(t) PROVE StateFits'
  BY <1>17 DEF Pause, Return, StateFits
<1>18. ASSUME NEW t \in Controllers, StopBegin(t) PROVE StateFits'
  BY <1>18 DEF StopBegin, Goto, StateFits
<1>19. ASSUME NEW t \in Controllers, StopFinish(t) PROVE StateFits'
  BY <1>19 DEF StopFinish, Return, TouchPort, Outputting, StateFits
<1>20. ASSUME NEW t \in Controllers, DestroyJoined(t) PROVE StateFits'
  BY <1>20 DEF DestroyJoined, Return, Release, TouchPort, Outputting, StateFits
<1>21. ASSUME NEW p \in Players, Park(p) PROVE StateFits'
  BY <1>21 DEF Park, Ready, StateFits
<1>22. ASSUME NEW p \in Players, Take(p) PROVE StateFits'
  BY <1>22 DEF Take, Ready, Work, TouchPort, Outputting, StateFits
<1>23. ASSUME NEW p \in Players, Output(p) PROVE StateFits'
  BY <1>23 DEF Output, Work, StateFits
<1>24. ASSUME NEW p \in Players, Pop(p) PROVE StateFits'
  BY <1>24 DEF Pop, Work, Broadcast, Sleepers, StateFits
<1>25. ASSUME NEW p \in Players, CallBack(p) PROVE StateFits'
  BY <1>25 DEF CallBack, WorkerMoves, Work, StateFits
<1>26. ASSUME NEW p \in Players, SkipCallback(p) PROVE StateFits'
  BY <1>26 DEF SkipCallback, WorkerMoves, Work, StateFits
<1>27. ASSUME NEW p \in Players, CallbackLocks(p) PROVE StateFits'
  BY <1>27 DEF CallbackLocks, WorkerMoves, Work, StateFits
<1>28. ASSUME NEW p \in Players, CallbackReturns(p) PROVE StateFits'
  BY <1>28 DEF CallbackReturns, WorkerMoves, Work, StateFits
<1>29. ASSUME NEW p \in Players, NEW b \in Buffers, CallbackEnqueues(p, b) PROVE StateFits'
  BY <1>29 DEF CallbackEnqueues, Put, Work, Signal, Sleepers, StateFits
<1>30. ASSUME NEW p \in Players, CallbackClears(p) PROVE StateFits'
  BY <1>30 DEF CallbackClears, Work, Broadcast, Sleepers, TouchPort, Outputting, StateFits
<1>31. ASSUME NEW p \in Players, CallbackDestroys(p) PROVE StateFits'
  BY <1>31 DEF CallbackDestroys, Work, StateFits
<1>32. ASSUME NEW p \in Players, Exit(p) PROVE StateFits'
  BY <1>32 DEF Exit, Work, Release, TouchPort, Outputting, StateFits
<1>33. QED BY ONLY <1>1, <1>2, <1>3, <1>4, <1>5, <1>6, <1>7, <1>8, <1>9,
         <1>10, <1>11, <1>12, <1>13, <1>14, <1>15, <1>16, <1>17, <1>18,
         <1>19, <1>20, <1>21, <1>22, <1>23, <1>24, <1>25, <1>26, <1>27,
         <1>28, <1>29, <1>30, <1>31, <1>32, Next
      DEF Next, Begin, CallStep, WorkerStep

\* Whoever gives a sleeping thread work wakes it, or is about to.
LEMMA WakeKeeps ==
  ASSUME IInv, Next
  PROVE  NoLostWakeup'
<1> USE PlayerAssumption
  DEF queueVars, stateVars, threadVars, callVars, workVars, States, IInv, CallFits, TypeOK,
      PlayerFits, OutputFits
<1>1. ASSUME NEW t \in Controllers, NEW p \in Players, Create(t, p) PROVE NoLostWakeup'
  BY <1>1 DEF Create, NoLostWakeup, Ready
<1>2. ASSUME NEW t \in Controllers, NEW b \in Buffers, Enqueue(t, b) PROVE NoLostWakeup'
  BY <1>2 DEF Enqueue, Put, Signal, Sleepers, CanCall, NoLostWakeup, Ready
<1>3. ASSUME NEW t \in Controllers, NEW state \in States, SetPlayState(t, state)
      PROVE  NoLostWakeup'
  BY <1>3 DEF SetPlayState, Call, CanCall, NoLostWakeup, Ready
<1>4. ASSUME NEW t \in Controllers, ClearCall(t) PROVE NoLostWakeup'
  BY <1>4 DEF ClearCall, Call, CanCall, NoLostWakeup, Ready
<1>5. ASSUME NEW t \in Controllers, DestroyJoins(t) PROVE NoLostWakeup'
  BY <1>5 DEF DestroyJoins, Call, Broadcast, Sleepers, CanCall, NoLostWakeup, Ready
<1>6. ASSUME NEW t \in Controllers, DestroyAtOnce(t) PROVE NoLostWakeup'
  BY <1>6 DEF DestroyAtOnce, Release, TouchPort, Outputting, CanCall, NoLostWakeup, Ready
<1>7. ASSUME NEW t \in Controllers, GameLock(t) PROVE NoLostWakeup'
  BY <1>7 DEF GameLock, NoLostWakeup, Ready
<1>8. ASSUME NEW t \in Controllers, GameUnlock(t) PROVE NoLostWakeup'
  BY <1>8 DEF GameUnlock, NoLostWakeup, Ready
<1>9. ASSUME NEW t \in Controllers, ClearFinish(t) PROVE NoLostWakeup'
  BY <1>9
    DEF ClearFinish, Return, Broadcast, Sleepers, TouchPort, Outputting, NoLostWakeup, Ready
<1>10. ASSUME NEW t \in Controllers, WaitForOutput(t) PROVE NoLostWakeup'
  BY <1>10 DEF WaitForOutput, NoLostWakeup, Ready
<1>11. ASSUME NEW t \in Controllers, PlayOpen(t) PROVE NoLostWakeup'
  BY <1>11 DEF PlayOpen, Goto, TouchPort, Outputting, NoLostWakeup, Ready
<1>12. ASSUME NEW t \in Controllers, PlayOpenFails(t) PROVE NoLostWakeup'
  BY <1>12 DEF PlayOpenFails, Return, NoLostWakeup, Ready
<1>13. ASSUME NEW t \in Controllers, PlayAgain(t) PROVE NoLostWakeup'
  BY <1>13 DEF PlayAgain, Goto, NoLostWakeup, Ready
<1>14. ASSUME NEW t \in Controllers, ThreadWoken(t) PROVE NoLostWakeup'
  BY <1>14 DEF ThreadWoken, Return, Broadcast, Sleepers, NoLostWakeup, Ready
<1>15. ASSUME NEW t \in Controllers, ThreadCreated(t) PROVE NoLostWakeup'
  BY <1>15 DEF ThreadCreated, Return, Work, NoLostWakeup, Ready
<1>16. ASSUME NEW t \in Controllers, ThreadFails(t) PROVE NoLostWakeup'
  BY <1>16 DEF ThreadFails, Return, NoLostWakeup, Ready
<1>17. ASSUME NEW t \in Controllers, Pause(t) PROVE NoLostWakeup'
  BY <1>17 DEF Pause, Return, NoLostWakeup, Ready
<1>18. ASSUME NEW t \in Controllers, StopBegin(t) PROVE NoLostWakeup'
  BY <1>18 DEF StopBegin, Goto, NoLostWakeup, Ready
<1>19. ASSUME NEW t \in Controllers, StopFinish(t) PROVE NoLostWakeup'
  BY <1>19 DEF StopFinish, Return, TouchPort, Outputting, NoLostWakeup, Ready
<1>20. ASSUME NEW t \in Controllers, DestroyJoined(t) PROVE NoLostWakeup'
  BY <1>20 DEF DestroyJoined, Return, Release, TouchPort, Outputting, NoLostWakeup, Ready
<1>21. ASSUME NEW p \in Players, Park(p) PROVE NoLostWakeup'
  BY <1>21 DEF Park, Ready, NoLostWakeup, Ready
<1>22. ASSUME NEW p \in Players, Take(p) PROVE NoLostWakeup'
  BY <1>22 DEF Take, Ready, Work, TouchPort, Outputting, NoLostWakeup, Ready
<1>23. ASSUME NEW p \in Players, Output(p) PROVE NoLostWakeup'
  BY <1>23 DEF Output, Work, NoLostWakeup, Ready
<1>24. ASSUME NEW p \in Players, Pop(p) PROVE NoLostWakeup'
  BY <1>24 DEF Pop, Work, Broadcast, Sleepers, NoLostWakeup, Ready
<1>25. ASSUME NEW p \in Players, CallBack(p) PROVE NoLostWakeup'
  BY <1>25 DEF CallBack, WorkerMoves, Work, NoLostWakeup, Ready
<1>26. ASSUME NEW p \in Players, SkipCallback(p) PROVE NoLostWakeup'
  BY <1>26 DEF SkipCallback, WorkerMoves, Work, NoLostWakeup, Ready
<1>27. ASSUME NEW p \in Players, CallbackLocks(p) PROVE NoLostWakeup'
  BY <1>27 DEF CallbackLocks, WorkerMoves, Work, NoLostWakeup, Ready
<1>28. ASSUME NEW p \in Players, CallbackReturns(p) PROVE NoLostWakeup'
  BY <1>28 DEF CallbackReturns, WorkerMoves, Work, NoLostWakeup, Ready
<1>29. ASSUME NEW p \in Players, NEW b \in Buffers, CallbackEnqueues(p, b)
       PROVE  NoLostWakeup'
  BY <1>29 DEF CallbackEnqueues, Put, Work, Signal, Sleepers, NoLostWakeup, Ready
<1>30. ASSUME NEW p \in Players, CallbackClears(p) PROVE NoLostWakeup'
  BY <1>30
    DEF CallbackClears, Work, Broadcast, Sleepers, TouchPort, Outputting, NoLostWakeup,
        Ready
<1>31. ASSUME NEW p \in Players, CallbackDestroys(p) PROVE NoLostWakeup'
  BY <1>31 DEF CallbackDestroys, Work, NoLostWakeup, Ready
<1>32. ASSUME NEW p \in Players, Exit(p) PROVE NoLostWakeup'
  BY <1>32 DEF Exit, Work, Release, TouchPort, Outputting, NoLostWakeup, Ready
<1>33. QED BY ONLY <1>1, <1>2, <1>3, <1>4, <1>5, <1>6, <1>7, <1>8, <1>9,
         <1>10, <1>11, <1>12, <1>13, <1>14, <1>15, <1>16, <1>17, <1>18,
         <1>19, <1>20, <1>21, <1>22, <1>23, <1>24, <1>25, <1>26, <1>27,
         <1>28, <1>29, <1>30, <1>31, <1>32, Next
      DEF Next, Begin, CallStep, WorkerStep

-----------------------------------------------------------------------------
LEMMA Start == Init => IInv
<1> SUFFICES ASSUME Init PROVE IInv
  OBVIOUS
<1> USE PlayerAssumption DEF Init
<1>1. 0 \in 0 .. Ring - 1 /\ 0 \in 0 .. Capacity
  OBVIOUS
<1>2. TypeOK
  BY <1>1 DEF TypeOK, States
<1>3. CallFits
  BY <1>2 DEF CallFits
<1>4. PlayerFits /\ OutputFits /\ StateFits /\ NoLostWakeup
  BY DEF PlayerFits, OutputFits, StateFits, NoLostWakeup
<1>5. QED BY <1>3, <1>4 DEF IInv

LEMMA Stutter == IInv /\ UNCHANGED vars => IInv'
<1> SUFFICES ASSUME IInv, UNCHANGED vars PROVE IInv'
  OBVIOUS
<1> USE DEF vars, queueVars, stateVars, threadVars, callVars, workVars, IInv
<1>1. CallFits'
  BY DEF CallFits, TypeOK
<1>2. PlayerFits' /\ OutputFits'
  BY DEF PlayerFits, OutputFits
<1>3. StateFits' /\ NoLostWakeup'
  BY DEF StateFits, NoLostWakeup, Ready
<1>4. QED BY <1>1, <1>2, <1>3

\* A call keeps its player, a player its thread, and an output the head of its
\* queue, whatever FMOD's threads and callbacks do (opensl_audio.c).
THEOREM Invariant == Spec => []IInv
<1>1. IInv /\ [Next]_vars => IInv'
  BY CallKeeps, PlayerKeeps, OutputKeeps, StateKeeps, WakeKeeps, Stutter DEF IInv
<1>2. QED BY Start, <1>1, PTL DEF Spec

\* The buffer that is output is the head of the queue until it is popped, and a
\* released player has no thread and no sleeper ("Clear guarantees that the
\* caller can release its buffers on return").
THEOREM HeadIsOutput == Spec => []OutputIsQueued
<1>1. IInv => OutputIsQueued
  <2> SUFFICES ASSUME IInv PROVE OutputIsQueued
    OBVIOUS
  <2>1. ASSUME NEW p \in Players, p \notin alive
        PROVE  wpc[p] \in {"none", "gone"} /\ Sleepers(p) = {}
    BY <2>1, PlayerAssumption DEF IInv, CallFits, PlayerFits, Sleepers
  <2>2. QED BY <2>1 DEF IInv, CallFits, OutputFits, OutputIsQueued
<1>2. QED BY Invariant, <1>1, PTL

\* A player that was told to stop is silent once the call has returned
\* (player_play_set_state waits for the running output).
THEOREM StopIsSilent == Spec => []StopSilences
<1>1. IInv => StopSilences
  BY PlayerAssumption DEF IInv, StateFits, StopSilences
<1>2. QED BY Invariant, <1>1, PTL

\* A thread with work sleeps only while the call that gave it the work is about
\* to wake it: no pthread_cond_signal goes to the wrong sleeper.
THEOREM WakeupsArrive == Spec => []NoLostWakeup
<1>1. IInv => NoLostWakeup
  BY DEF IInv
<1>2. QED BY Invariant, <1>1, PTL

\* Only a player that its own callback destroyed, and that closes the port on
\* its way out, ever touches the port while another one outputs.
OnlyExitDisturbs ==
  [][disturbed' \subseteq disturbed \/ \E p \in Players : Exit(p) /\ destroyOnExit[p]]_vars

LEMMA CurrentOutputs ==
  ASSUME IInv
  PROVE  Outputting \subseteq {gPlayer} /\ \A p \in Outputting : busy[p] /\ portOpen[p]
BY DEF IInv, CallFits, TypeOK, PlayerFits, OutputFits, Outputting

\* Only the current player outputs, and not while its port is opened, closed or
\* reset.
LEMMA TouchesFit ==
  ASSUME IInv, Next
  PROVE  disturbed' \subseteq disturbed \/ \E q \in Players : Exit(q) /\ destroyOnExit[q]
<1> USE PlayerAssumption
  DEF queueVars, stateVars, threadVars, callVars, workVars, States, IInv, CallFits, TypeOK,
      PlayerFits, OutputFits
<1>1. ASSUME NEW t \in Controllers, NEW p \in Players, Create(t, p)
      PROVE  disturbed' \subseteq disturbed \/ \E q \in Players : Exit(q) /\ destroyOnExit[q]
  BY <1>1 DEF Create
<1>2. ASSUME NEW t \in Controllers, NEW b \in Buffers, Enqueue(t, b)
      PROVE  disturbed' \subseteq disturbed \/ \E q \in Players : Exit(q) /\ destroyOnExit[q]
  BY <1>2 DEF Enqueue, Put, Signal, Sleepers, CanCall
<1>3. ASSUME NEW t \in Controllers, NEW state \in States, SetPlayState(t, state)
      PROVE  disturbed' \subseteq disturbed \/ \E q \in Players : Exit(q) /\ destroyOnExit[q]
  BY <1>3 DEF SetPlayState, Call, CanCall
<1>4. ASSUME NEW t \in Controllers, ClearCall(t)
      PROVE  disturbed' \subseteq disturbed \/ \E q \in Players : Exit(q) /\ destroyOnExit[q]
  BY <1>4 DEF ClearCall, Call, CanCall
<1>5. ASSUME NEW t \in Controllers, DestroyJoins(t)
      PROVE  disturbed' \subseteq disturbed \/ \E q \in Players : Exit(q) /\ destroyOnExit[q]
  BY <1>5 DEF DestroyJoins, Call, Broadcast, Sleepers, CanCall
<1>6. ASSUME NEW t \in Controllers, DestroyAtOnce(t)
      PROVE  disturbed' \subseteq disturbed \/ \E q \in Players : Exit(q) /\ destroyOnExit[q]
  <2>1. Outputting = {}
    BY <1>6, CurrentOutputs DEF DestroyAtOnce, CanCall, Outputting
  <2>2. QED BY <1>6, <2>1 DEF DestroyAtOnce, Release, TouchPort, CanCall
<1>7. ASSUME NEW t \in Controllers, GameLock(t)
      PROVE  disturbed' \subseteq disturbed \/ \E q \in Players : Exit(q) /\ destroyOnExit[q]
  BY <1>7 DEF GameLock
<1>8. ASSUME NEW t \in Controllers, GameUnlock(t)
      PROVE  disturbed' \subseteq disturbed \/ \E q \in Players : Exit(q) /\ destroyOnExit[q]
  BY <1>8 DEF GameUnlock
<1>9. ASSUME NEW t \in Controllers, ClearFinish(t)
      PROVE  disturbed' \subseteq disturbed \/ \E q \in Players : Exit(q) /\ destroyOnExit[q]
  <2>1. Outputting = {}
    BY <1>9, CurrentOutputs DEF ClearFinish
  <2>2. QED BY <1>9, <2>1 DEF ClearFinish, Return, Broadcast, Sleepers, TouchPort
<1>10. ASSUME NEW t \in Controllers, WaitForOutput(t)
       PROVE  disturbed' \subseteq disturbed \/ \E q \in Players : Exit(q) /\ destroyOnExit[q]
  BY <1>10 DEF WaitForOutput
<1>11. ASSUME NEW t \in Controllers, PlayOpen(t)
       PROVE  disturbed' \subseteq disturbed \/ \E q \in Players : Exit(q) /\ destroyOnExit[q]
  <2>1. Outputting = {}
    BY <1>11, CurrentOutputs DEF PlayOpen
  <2>2. QED BY <1>11, <2>1 DEF PlayOpen, Goto, TouchPort
<1>12. ASSUME NEW t \in Controllers, PlayOpenFails(t)
       PROVE  disturbed' \subseteq disturbed \/ \E q \in Players : Exit(q) /\ destroyOnExit[q]
  BY <1>12 DEF PlayOpenFails, Return
<1>13. ASSUME NEW t \in Controllers, PlayAgain(t)
       PROVE  disturbed' \subseteq disturbed \/ \E q \in Players : Exit(q) /\ destroyOnExit[q]
  BY <1>13 DEF PlayAgain, Goto
<1>14. ASSUME NEW t \in Controllers, ThreadWoken(t)
       PROVE  disturbed' \subseteq disturbed \/ \E q \in Players : Exit(q) /\ destroyOnExit[q]
  BY <1>14 DEF ThreadWoken, Return, Broadcast, Sleepers
<1>15. ASSUME NEW t \in Controllers, ThreadCreated(t)
       PROVE  disturbed' \subseteq disturbed \/ \E q \in Players : Exit(q) /\ destroyOnExit[q]
  BY <1>15 DEF ThreadCreated, Return, Work
<1>16. ASSUME NEW t \in Controllers, ThreadFails(t)
       PROVE  disturbed' \subseteq disturbed \/ \E q \in Players : Exit(q) /\ destroyOnExit[q]
  BY <1>16 DEF ThreadFails, Return
<1>17. ASSUME NEW t \in Controllers, Pause(t)
       PROVE  disturbed' \subseteq disturbed \/ \E q \in Players : Exit(q) /\ destroyOnExit[q]
  BY <1>17 DEF Pause, Return
<1>18. ASSUME NEW t \in Controllers, StopBegin(t)
       PROVE  disturbed' \subseteq disturbed \/ \E q \in Players : Exit(q) /\ destroyOnExit[q]
  BY <1>18 DEF StopBegin, Goto
<1>19. ASSUME NEW t \in Controllers, StopFinish(t)
       PROVE  disturbed' \subseteq disturbed \/ \E q \in Players : Exit(q) /\ destroyOnExit[q]
  <2>1. Outputting = {}
    BY <1>19, CurrentOutputs DEF StopFinish
  <2>2. QED BY <1>19, <2>1 DEF StopFinish, Return, TouchPort
<1>20. ASSUME NEW t \in Controllers, DestroyJoined(t)
       PROVE  disturbed' \subseteq disturbed \/ \E q \in Players : Exit(q) /\ destroyOnExit[q]
  <2>1. Outputting = {}
    BY <1>20, CurrentOutputs DEF DestroyJoined, Outputting
  <2>2. QED BY <1>20, <2>1 DEF DestroyJoined, Return, Release, TouchPort
<1>21. ASSUME NEW p \in Players, Park(p)
       PROVE  disturbed' \subseteq disturbed \/ \E q \in Players : Exit(q) /\ destroyOnExit[q]
  BY <1>21 DEF Park, Ready
<1>22. ASSUME NEW p \in Players, Take(p)
       PROVE  disturbed' \subseteq disturbed \/ \E q \in Players : Exit(q) /\ destroyOnExit[q]
  <2>1. p = gPlayer
    BY <1>22 DEF Take
  <2>2. QED BY <1>22, <2>1, CurrentOutputs DEF Take, TouchPort
<1>23. ASSUME NEW p \in Players, Output(p)
       PROVE  disturbed' \subseteq disturbed \/ \E q \in Players : Exit(q) /\ destroyOnExit[q]
  BY <1>23 DEF Output, Work
<1>24. ASSUME NEW p \in Players, Pop(p)
       PROVE  disturbed' \subseteq disturbed \/ \E q \in Players : Exit(q) /\ destroyOnExit[q]
  BY <1>24 DEF Pop, Work, Broadcast, Sleepers
<1>25. ASSUME NEW p \in Players, CallBack(p)
       PROVE  disturbed' \subseteq disturbed \/ \E q \in Players : Exit(q) /\ destroyOnExit[q]
  BY <1>25 DEF CallBack, WorkerMoves, Work
<1>26. ASSUME NEW p \in Players, SkipCallback(p)
       PROVE  disturbed' \subseteq disturbed \/ \E q \in Players : Exit(q) /\ destroyOnExit[q]
  BY <1>26 DEF SkipCallback, WorkerMoves, Work
<1>27. ASSUME NEW p \in Players, CallbackLocks(p)
       PROVE  disturbed' \subseteq disturbed \/ \E q \in Players : Exit(q) /\ destroyOnExit[q]
  BY <1>27 DEF CallbackLocks, WorkerMoves, Work
<1>28. ASSUME NEW p \in Players, CallbackReturns(p)
       PROVE  disturbed' \subseteq disturbed \/ \E q \in Players : Exit(q) /\ destroyOnExit[q]
  BY <1>28 DEF CallbackReturns, WorkerMoves, Work
<1>29. ASSUME NEW p \in Players, NEW b \in Buffers, CallbackEnqueues(p, b)
       PROVE  disturbed' \subseteq disturbed \/ \E q \in Players : Exit(q) /\ destroyOnExit[q]
  BY <1>29 DEF CallbackEnqueues, Put, Work, Signal, Sleepers
<1>30. ASSUME NEW p \in Players, CallbackClears(p)
       PROVE  disturbed' \subseteq disturbed \/ \E q \in Players : Exit(q) /\ destroyOnExit[q]
  <2>1. p = gPlayer
    BY <1>30 DEF CallbackClears
  <2>2. QED BY <1>30, <2>1, CurrentOutputs DEF CallbackClears, TouchPort
<1>31. ASSUME NEW p \in Players, CallbackDestroys(p)
       PROVE  disturbed' \subseteq disturbed \/ \E q \in Players : Exit(q) /\ destroyOnExit[q]
  BY <1>31 DEF CallbackDestroys, Work
<1>32. ASSUME NEW p \in Players, Exit(p)
       PROVE  disturbed' \subseteq disturbed \/ \E q \in Players : Exit(q) /\ destroyOnExit[q]
  <2>1. CASE destroyOnExit[p]
    BY <1>32, <2>1
  <2>2. CASE ~destroyOnExit[p]
    BY <1>32, <2>2 DEF Exit
  <2>3. QED BY <2>1, <2>2
<1>33. QED BY ONLY <1>1, <1>2, <1>3, <1>4, <1>5, <1>6, <1>7, <1>8, <1>9,
         <1>10, <1>11, <1>12, <1>13, <1>14, <1>15, <1>16, <1>17, <1>18,
         <1>19, <1>20, <1>21, <1>22, <1>23, <1>24, <1>25, <1>26, <1>27,
         <1>28, <1>29, <1>30, <1>31, <1>32, Next
      DEF Next, Begin, CallStep, WorkerStep

\* Only its own callback makes a player release itself.
LEMMA SelfDestroyFits ==
  ASSUME TypeOK, Next, \A p \in Players : ~CallbackDestroys(p)
  PROVE  \A q \in Players : destroyOnExit'[q] => destroyOnExit[q]
<1> USE PlayerAssumption
  DEF queueVars, stateVars, threadVars, callVars, workVars, States, TypeOK
<1>1. ASSUME NEW t \in Controllers, NEW p \in Players, Create(t, p)
      PROVE  \A q \in Players : destroyOnExit'[q] => destroyOnExit[q]
  BY <1>1 DEF Create
<1>2. ASSUME NEW t \in Controllers, NEW b \in Buffers, Enqueue(t, b)
      PROVE  \A q \in Players : destroyOnExit'[q] => destroyOnExit[q]
  BY <1>2 DEF Enqueue, Put, Signal, Sleepers, CanCall
<1>3. ASSUME NEW t \in Controllers, NEW state \in States, SetPlayState(t, state)
      PROVE  \A q \in Players : destroyOnExit'[q] => destroyOnExit[q]
  BY <1>3 DEF SetPlayState, Call, CanCall
<1>4. ASSUME NEW t \in Controllers, ClearCall(t)
      PROVE  \A q \in Players : destroyOnExit'[q] => destroyOnExit[q]
  BY <1>4 DEF ClearCall, Call, CanCall
<1>5. ASSUME NEW t \in Controllers, DestroyJoins(t)
      PROVE  \A q \in Players : destroyOnExit'[q] => destroyOnExit[q]
  BY <1>5 DEF DestroyJoins, Call, Broadcast, Sleepers, CanCall
<1>6. ASSUME NEW t \in Controllers, DestroyAtOnce(t)
      PROVE  \A q \in Players : destroyOnExit'[q] => destroyOnExit[q]
  BY <1>6 DEF DestroyAtOnce, Release, TouchPort, CanCall
<1>7. ASSUME NEW t \in Controllers, GameLock(t)
      PROVE  \A q \in Players : destroyOnExit'[q] => destroyOnExit[q]
  BY <1>7 DEF GameLock
<1>8. ASSUME NEW t \in Controllers, GameUnlock(t)
      PROVE  \A q \in Players : destroyOnExit'[q] => destroyOnExit[q]
  BY <1>8 DEF GameUnlock
<1>9. ASSUME NEW t \in Controllers, ClearFinish(t)
      PROVE  \A q \in Players : destroyOnExit'[q] => destroyOnExit[q]
  BY <1>9 DEF ClearFinish, Return, Broadcast, Sleepers, TouchPort
<1>10. ASSUME NEW t \in Controllers, WaitForOutput(t)
       PROVE  \A q \in Players : destroyOnExit'[q] => destroyOnExit[q]
  BY <1>10 DEF WaitForOutput
<1>11. ASSUME NEW t \in Controllers, PlayOpen(t)
       PROVE  \A q \in Players : destroyOnExit'[q] => destroyOnExit[q]
  BY <1>11 DEF PlayOpen, Goto, TouchPort
<1>12. ASSUME NEW t \in Controllers, PlayOpenFails(t)
       PROVE  \A q \in Players : destroyOnExit'[q] => destroyOnExit[q]
  BY <1>12 DEF PlayOpenFails, Return
<1>13. ASSUME NEW t \in Controllers, PlayAgain(t)
       PROVE  \A q \in Players : destroyOnExit'[q] => destroyOnExit[q]
  BY <1>13 DEF PlayAgain, Goto
<1>14. ASSUME NEW t \in Controllers, ThreadWoken(t)
       PROVE  \A q \in Players : destroyOnExit'[q] => destroyOnExit[q]
  BY <1>14 DEF ThreadWoken, Return, Broadcast, Sleepers
<1>15. ASSUME NEW t \in Controllers, ThreadCreated(t)
       PROVE  \A q \in Players : destroyOnExit'[q] => destroyOnExit[q]
  BY <1>15 DEF ThreadCreated, Return, Work
<1>16. ASSUME NEW t \in Controllers, ThreadFails(t)
       PROVE  \A q \in Players : destroyOnExit'[q] => destroyOnExit[q]
  BY <1>16 DEF ThreadFails, Return
<1>17. ASSUME NEW t \in Controllers, Pause(t)
       PROVE  \A q \in Players : destroyOnExit'[q] => destroyOnExit[q]
  BY <1>17 DEF Pause, Return
<1>18. ASSUME NEW t \in Controllers, StopBegin(t)
       PROVE  \A q \in Players : destroyOnExit'[q] => destroyOnExit[q]
  BY <1>18 DEF StopBegin, Goto
<1>19. ASSUME NEW t \in Controllers, StopFinish(t)
       PROVE  \A q \in Players : destroyOnExit'[q] => destroyOnExit[q]
  BY <1>19 DEF StopFinish, Return, TouchPort
<1>20. ASSUME NEW t \in Controllers, DestroyJoined(t)
       PROVE  \A q \in Players : destroyOnExit'[q] => destroyOnExit[q]
  BY <1>20 DEF DestroyJoined, Return, Release, TouchPort
<1>21. ASSUME NEW p \in Players, Park(p)
       PROVE  \A q \in Players : destroyOnExit'[q] => destroyOnExit[q]
  BY <1>21 DEF Park, Ready
<1>22. ASSUME NEW p \in Players, Take(p)
       PROVE  \A q \in Players : destroyOnExit'[q] => destroyOnExit[q]
  BY <1>22 DEF Take, Ready, Work, TouchPort
<1>23. ASSUME NEW p \in Players, Output(p)
       PROVE  \A q \in Players : destroyOnExit'[q] => destroyOnExit[q]
  BY <1>23 DEF Output, Work
<1>24. ASSUME NEW p \in Players, Pop(p)
       PROVE  \A q \in Players : destroyOnExit'[q] => destroyOnExit[q]
  BY <1>24 DEF Pop, Work, Broadcast, Sleepers
<1>25. ASSUME NEW p \in Players, CallBack(p)
       PROVE  \A q \in Players : destroyOnExit'[q] => destroyOnExit[q]
  BY <1>25 DEF CallBack, WorkerMoves, Work
<1>26. ASSUME NEW p \in Players, SkipCallback(p)
       PROVE  \A q \in Players : destroyOnExit'[q] => destroyOnExit[q]
  BY <1>26 DEF SkipCallback, WorkerMoves, Work
<1>27. ASSUME NEW p \in Players, CallbackLocks(p)
       PROVE  \A q \in Players : destroyOnExit'[q] => destroyOnExit[q]
  BY <1>27 DEF CallbackLocks, WorkerMoves, Work
<1>28. ASSUME NEW p \in Players, CallbackReturns(p)
       PROVE  \A q \in Players : destroyOnExit'[q] => destroyOnExit[q]
  BY <1>28 DEF CallbackReturns, WorkerMoves, Work
<1>29. ASSUME NEW p \in Players, NEW b \in Buffers, CallbackEnqueues(p, b)
       PROVE  \A q \in Players : destroyOnExit'[q] => destroyOnExit[q]
  BY <1>29 DEF CallbackEnqueues, Put, Work, Signal, Sleepers
<1>30. ASSUME NEW p \in Players, CallbackClears(p)
       PROVE  \A q \in Players : destroyOnExit'[q] => destroyOnExit[q]
  BY <1>30 DEF CallbackClears, Work, Broadcast, Sleepers, TouchPort
<1>31. ASSUME NEW p \in Players, CallbackDestroys(p)
       PROVE  \A q \in Players : destroyOnExit'[q] => destroyOnExit[q]
  BY <1>31 DEF CallbackDestroys, Work
<1>32. ASSUME NEW p \in Players, Exit(p)
       PROVE  \A q \in Players : destroyOnExit'[q] => destroyOnExit[q]
  BY <1>32 DEF Exit, Work, Release, TouchPort
<1>33. QED BY ONLY <1>1, <1>2, <1>3, <1>4, <1>5, <1>6, <1>7, <1>8, <1>9,
         <1>10, <1>11, <1>12, <1>13, <1>14, <1>15, <1>16, <1>17, <1>18,
         <1>19, <1>20, <1>21, <1>22, <1>23, <1>24, <1>25, <1>26, <1>27,
         <1>28, <1>29, <1>30, <1>31, <1>32, Next
      DEF Next, Begin, CallStep, WorkerStep


THEOREM PortTouches == Spec => OnlyExitDisturbs
<1>1. ASSUME IInv, [Next]_vars
      PROVE  [disturbed' \subseteq disturbed \/ \E p \in Players : Exit(p) /\ destroyOnExit[p]]_vars
  BY <1>1, TouchesFit
<1>2. QED BY Invariant, <1>1, PTL DEF Spec, OnlyExitDisturbs

\* While FMOD does not destroy a player from that player's own callback, nobody
\* touches the port during an output, however many players follow each other
\* ("Only this thread touches the output port and PCM accumulator during
\* playback").
THEOREM QuietWithoutSelfDestroy ==
  Spec /\ [][\A p \in Players : ~CallbackDestroys(p)]_vars => []PortIsQuiet
<1> DEFINE Safe == PortIsQuiet /\ \A p \in Players : ~destroyOnExit[p]
<1>1. Init => Safe
  BY DEF Init, PortIsQuiet
<1>2. ASSUME IInv, Safe, [Next]_vars, [\A p \in Players : ~CallbackDestroys(p)]_vars
      PROVE  Safe'
  <2>1. CASE UNCHANGED vars
    BY <1>2, <2>1 DEF vars, threadVars, PortIsQuiet
  <2>2. CASE Next /\ ~UNCHANGED vars
    <3>1. \A q \in Players : ~destroyOnExit'[q]
      BY <1>2, <2>2, SelfDestroyFits DEF IInv, CallFits
    <3>2. disturbed' \subseteq disturbed
      BY <1>2, <2>2, TouchesFit
    <3>3. QED BY <1>2, <3>1, <3>2 DEF PortIsQuiet
  <2>3. QED BY <1>2, <2>1, <2>2
<1>3. Safe => PortIsQuiet
  OBVIOUS
<1> HIDE DEF Safe
<1>4. QED BY Invariant, <1>1, <1>2, <1>3, PTL DEF Spec

=============================================================================
