------------------------------ MODULE AssetVfd ------------------------------
(***************************************************************************)
(* The virtual asset descriptors of reimpl/io.c.                           *)
(*                                                                         *)
(* An asset handed to the game is a slot of g_asset_vfds.  Several slots   *)
(* share few kernel descriptors: a slot keeps its raw descriptor while the *)
(* cache has room, a trim takes it away from a slot nobody reads, and the  *)
(* next read opens the path again.  Every lock section of the code is one  *)
(* action here; open(), pread() and close() of the kernel are actions of   *)
(* their own, because the code calls them with the lock released.          *)
(*                                                                         *)
(* Data abstracted: a path is a member of Files, the bytes of a read are   *)
(* the file and the range they come from.  last_used and g_asset_vfd_clock *)
(* are left out: a trim takes any idle slot, which includes the least      *)
(* recently used one (the order is only a preference, and the clock wraps).*)
(* Likewise a free slot or a free kernel descriptor is any free one.       *)
(***************************************************************************)
EXTENDS Integers, FiniteSets

CONSTANTS
  Threads,      \* threads of the game that use assets
  Slots,        \* ASSET_VFD_MAX virtual descriptors
  Files,        \* paths that can be opened
  Fds,          \* the kernel's descriptors, shared with nobody else here
  None,         \* -1 in raw_fd, no path, no answer
  Length,       \* the length every asset is opened with
  MaxPos,       \* bound: the largest position lseek is asked for
  SoftMax,      \* ASSET_VFD_RAW_CACHE_SOFT_MAX
  RetryTarget,  \* ASSET_VFD_RAW_CACHE_RETRY_TARGET
  MaxGen        \* bound: how often one slot is reserved

ASSUME SetsAssumption ==
  /\ IsFiniteSet(Threads) /\ IsFiniteSet(Slots) /\ IsFiniteSet(Fds)
  /\ None \notin Files \cup Fds \cup Threads \cup Slots \cup (Slots \X BOOLEAN)
ASSUME NumbersAssumption ==
  /\ Length \in Nat /\ MaxPos \in Nat /\ MaxGen \in Nat
  /\ SoftMax \in Nat \ {0} /\ RetryTarget \in Nat

\* The values of AssetVfd.used.
Free     == 0
Open     == 1
Closing  == 2
Reserved == 3

VARIABLES
  used, path, pos, raw, busy, reading, gen,   \* the fields of g_asset_vfds[slot]
  live,      \* g_asset_vfd_live_raw
  asleep,    \* threads waiting on g_asset_vfd_idle
  kernel,    \* the path each kernel descriptor is open on, or None
  pc,        \* where each thread is
  my,        \* the slot of the thread's call
  mygen,     \* the generation read on entry
  fd,        \* the local raw_fd of open, read or close
  off,       \* the local offset of a read
  count,     \* the local count of a read
  shared,    \* !positioned
  temporary, \* the local temporary of a read
  target,    \* target_open of a running trim
  victim,    \* its close_fd
  caller,    \* where the thread goes when the trim returns
  got        \* the bytes in the reader's buffer: <<file, offset, bytes>>

slotVars  == <<used, path, pos, raw, busy, reading, gen>>
readVars  == <<off, count, shared, temporary, got>>
callVars  == <<my, mygen, fd, off, count, shared, temporary, got>>
trimVars  == <<target, victim, caller>>
vars == <<slotVars, live, asleep, kernel, pc, callVars, trimVars>>

Positions == 0 .. MaxPos + Length
Bytes     == (Files \cup {None}) \X Positions \X (0 .. Length)
Callers   == {"reserve", "openRetry", "readOpen", "idle"}
Labels    == Callers \cup {"trim", "trimClose", "openRaw", "openFail", "publish",
                           "readWait", "adopt", "pread", "closeTemp", "finish",
                           "seekWait", "closeWait", "closeRaw"}

\* A reader between the pin and the unpin of its slot.
Pinned(t) == \/ pc[t] \in {"readOpen", "adopt", "pread", "closeTemp", "finish"}
             \/ pc[t] \in {"trim", "trimClose"} /\ caller[t] = "readOpen"

Pins(s)    == {t \in Threads : Pinned(t) /\ my[t] = s}
RawSlots   == {s \in Slots : raw[s] # None}
FreeFds    == {d \in Fds : kernel[d] = None}
\* Mutant: a descriptor under a running pread counts as idle.
EvictableBusy(s) == used[s] # Free /\ raw[s] # None
Evictable(s) == used[s] # Free /\ raw[s] # None /\ busy[s] = 0

NoBytes == <<None, 0, 0>>

\* The call is over and its locals are gone.
Return(t) ==
  /\ pc' = [pc EXCEPT ![t] = "idle"]
  /\ my' = [my EXCEPT ![t] = None]
  /\ mygen' = [mygen EXCEPT ![t] = 0]
  /\ fd' = [fd EXCEPT ![t] = None]
  /\ off' = [off EXCEPT ![t] = 0]
  /\ count' = [count EXCEPT ![t] = 0]
  /\ shared' = [shared EXCEPT ![t] = FALSE]
  /\ temporary' = [temporary EXCEPT ![t] = FALSE]
  /\ got' = [got EXCEPT ![t] = NoBytes]

Goto(t, label) == pc' = [pc EXCEPT ![t] = label]

\* Mutant: nobody is woken.
NoBroadcast    == UNCHANGED asleep
Broadcast      == asleep' = {}

-----------------------------------------------------------------------------
(* asset_vfd_trim_cached_fds(target), called with the lock released.        *)

TrimCall(t, open, back) ==
  /\ target' = [target EXCEPT ![t] = open]
  /\ caller' = [caller EXCEPT ![t] = back]
  /\ Goto(t, "trim")
  /\ UNCHANGED victim

\* The cache is small enough, or every cached descriptor is being read.
TrimReturn(t) ==
  /\ pc[t] = "trim"
  /\ live <= target[t] \/ \A s \in Slots : ~Evictable(s)
  /\ Goto(t, caller[t])
  /\ target' = [target EXCEPT ![t] = 0]
  /\ caller' = [caller EXCEPT ![t] = "idle"]
  /\ UNCHANGED <<slotVars, live, asleep, kernel, callVars, victim>>

\* The slot gives its descriptor up under the lock ...
TrimEvict(t) ==
  /\ pc[t] = "trim"
  /\ live > target[t]
  /\ \E s \in Slots :
       /\ Evictable(s)
       /\ victim' = [victim EXCEPT ![t] = raw[s]]
       /\ raw' = [raw EXCEPT ![s] = None]
  /\ live' = IF live > 0 THEN live - 1 ELSE live
  /\ Goto(t, "trimClose")
  /\ UNCHANGED <<used, path, pos, busy, reading, gen, asleep, kernel, callVars,
                 target, caller>>

\* ... and it is closed after the unlock; the loop looks again.
TrimClose(t) ==
  /\ pc[t] = "trimClose"
  /\ kernel' = [kernel EXCEPT ![victim[t]] = None]
  /\ victim' = [victim EXCEPT ![t] = None]
  /\ Goto(t, "trim")
  /\ UNCHANGED <<slotVars, live, asleep, callVars, target, caller>>

\* AAsset streams trim to the retry target, the code only after EMFILE or ENFILE
\* (asset_manager.cpp:74-75), here at any time.
StreamTrim(t) ==
  /\ pc[t] = "idle"
  /\ TrimCall(t, RetryTarget, "idle")
  /\ UNCHANGED <<slotVars, live, asleep, kernel, callVars>>

-----------------------------------------------------------------------------
(* asset_vfd_open.                                                          *)

OpenCall(t) ==
  /\ pc[t] = "idle"
  /\ TrimCall(t, SoftMax, "reserve")
  /\ UNCHANGED <<slotVars, live, asleep, kernel, callVars>>

\* A free slot is reserved but not published: used = 3 is no descriptor yet.
Reserve(t, f) ==
  /\ pc[t] = "reserve"
  /\ \E s \in Slots :
       /\ used[s] = Free
       /\ gen[s] < MaxGen
       /\ used' = [used EXCEPT ![s] = Reserved]
       /\ gen'  = [gen EXCEPT ![s] = @ + 1]
       /\ path' = [path EXCEPT ![s] = f]
       /\ pos'  = [pos EXCEPT ![s] = 0]
       /\ raw'  = [raw EXCEPT ![s] = None]
       /\ busy' = [busy EXCEPT ![s] = 0]
       /\ reading' = [reading EXCEPT ![s] = FALSE]
       /\ my'   = [my EXCEPT ![t] = s]
  /\ Goto(t, "openRaw")
  /\ UNCHANGED <<live, asleep, kernel, mygen, fd, readVars, trimVars>>

\* EMFILE: no slot.  (MaxGen is the bound above, not the code's.)
ReserveFails(t) ==
  /\ pc[t] = "reserve"
  /\ \A s \in Slots : used[s] # Free \/ gen[s] = MaxGen
  /\ Goto(t, "idle")
  /\ UNCHANGED <<slotVars, live, asleep, kernel, callVars, trimVars>>

\* open() outside the lock.  The kernel may refuse although a descriptor is
\* free: the rest of the program has files open too.
KernelOpen(t, next) ==
  \E d \in FreeFds :
    /\ kernel' = [kernel EXCEPT ![d] = path[my[t]]]
    /\ fd' = [fd EXCEPT ![t] = d]
    /\ Goto(t, next)

OpenRaw(t) ==
  /\ pc[t] \in {"openRaw", "openRetry"}
  /\ KernelOpen(t, "publish")
  /\ UNCHANGED <<slotVars, live, asleep, my, mygen, readVars, trimVars>>

\* EMFILE or ENFILE: trim to the retry target and open once more.
OpenRawExhausted(t) ==
  /\ pc[t] = "openRaw"
  /\ TrimCall(t, RetryTarget, "openRetry")
  /\ UNCHANGED <<slotVars, live, asleep, kernel, callVars>>

\* Another error, or the second failure.
OpenRawFails(t) ==
  /\ pc[t] \in {"openRaw", "openRetry"}
  /\ Goto(t, "openFail")
  /\ UNCHANGED <<slotVars, live, asleep, kernel, callVars, trimVars>>

OpenUnreserve(t) ==
  /\ pc[t] = "openFail"
  /\ used' = [used EXCEPT ![my[t]] = Free]
  /\ path' = [path EXCEPT ![my[t]] = None]
  /\ my' = [my EXCEPT ![t] = None]
  /\ Goto(t, "idle")
  /\ UNCHANGED <<pos, raw, busy, reading, gen, live, asleep, kernel,
                 mygen, fd, readVars, trimVars>>

\* Mutant: the cache is not trimmed after the open.
OpenPublishOnly(t) ==
  /\ pc[t] = "publish"
  /\ raw'  = [raw EXCEPT ![my[t]] = fd[t]]
  /\ used' = [used EXCEPT ![my[t]] = Open]
  /\ live' = live + 1
  /\ Return(t)
  /\ UNCHANGED <<path, pos, busy, reading, gen, asleep, kernel, trimVars>>

OpenPublish(t) ==
  /\ pc[t] = "publish"
  /\ raw'  = [raw EXCEPT ![my[t]] = fd[t]]
  /\ used' = [used EXCEPT ![my[t]] = Open]
  /\ live' = live + 1
  /\ my' = [my EXCEPT ![t] = None]
  /\ fd' = [fd EXCEPT ![t] = None]
  /\ TrimCall(t, SoftMax, "idle")
  /\ UNCHANGED <<path, pos, busy, reading, gen, asleep, kernel, mygen, readVars>>

-----------------------------------------------------------------------------
(* asset_vfd_read and asset_vfd_pread: asset_vfd_read_at.  A call with a bad *)
(* descriptor, a count of 0 or a position past the end returns at once and   *)
(* changes nothing.                                                          *)

ReadPin(t, s, g, sh, from, n) ==
  /\ n > 0 /\ from < Length
  /\ off'    = [off EXCEPT ![t] = from]
  /\ count'  = [count EXCEPT ![t] = IF n > Length - from THEN Length - from ELSE n]
  /\ shared' = [shared EXCEPT ![t] = sh]
  /\ my'     = [my EXCEPT ![t] = s]
  /\ mygen'  = [mygen EXCEPT ![t] = g]
  /\ fd'     = [fd EXCEPT ![t] = raw[s]]
  /\ temporary' = [temporary EXCEPT ![t] = (raw[s] = None)]
  /\ busy'    = [busy EXCEPT ![s] = @ + 1]
  /\ reading' = [reading EXCEPT ![s] = @ \/ sh]
  /\ pc' = [pc EXCEPT ![t] = IF raw[s] = None THEN "trim" ELSE "pread"]
  /\ target' = [target EXCEPT ![t] = IF raw[s] = None THEN SoftMax - 1 ELSE @]
  /\ caller' = [caller EXCEPT ![t] = IF raw[s] = None THEN "readOpen" ELSE @]
  /\ UNCHANGED <<used, path, pos, raw, gen, live, kernel, got, victim>>

PreadCall(t, s, o, n) ==
  /\ pc[t] = "idle" /\ used[s] = Open
  /\ ReadPin(t, s, gen[s], FALSE, o, n)
  /\ UNCHANGED asleep

ReadCall(t, s, n) ==
  /\ pc[t] = "idle" /\ used[s] = Open /\ ~reading[s]
  /\ ReadPin(t, s, gen[s], TRUE, pos[s], n)
  /\ UNCHANGED asleep

\* Another thread reads at the shared position: wait for g_asset_vfd_idle.
ReadCallSleeps(t, s, n) ==
  /\ pc[t] = "idle" /\ used[s] = Open /\ reading[s]
  /\ Goto(t, "readWait")
  /\ asleep' = asleep \cup {t}
  /\ my' = [my EXCEPT ![t] = s]
  /\ mygen' = [mygen EXCEPT ![t] = gen[s]]
  /\ count' = [count EXCEPT ![t] = n]
  /\ UNCHANGED <<slotVars, live, kernel, fd, off, shared, temporary, got, trimVars>>

\* Woken by a broadcast: the slot may have been closed, and opened again.
StillMine(t) == used[my[t]] = Open /\ gen[my[t]] = mygen[t]

ReadWake(t) ==
  /\ pc[t] = "readWait" /\ t \notin asleep
  /\ StillMine(t) /\ ~reading[my[t]]
  /\ ReadPin(t, my[t], mygen[t], TRUE, pos[my[t]], count[t])
  /\ UNCHANGED asleep

\* EBADF, or nothing left to read.
ReadWakeReturns(t) ==
  /\ pc[t] = "readWait" /\ t \notin asleep
  /\ StillMine(t) => ~reading[my[t]] /\ (count[t] = 0 \/ pos[my[t]] >= Length)
  /\ Return(t)
  /\ UNCHANGED <<slotVars, live, asleep, kernel, trimVars>>

\* Another reader, or another seek's wait, came first.
WakeSleeps(t) ==
  /\ pc[t] \in {"readWait", "seekWait"} /\ t \notin asleep
  /\ StillMine(t) /\ reading[my[t]]
  /\ asleep' = asleep \cup {t}
  /\ UNCHANGED <<slotVars, live, kernel, pc, callVars, trimVars>>

\* The slot had no descriptor: open the path again, outside the lock.
ReadOpen(t) ==
  /\ pc[t] = "readOpen"
  /\ KernelOpen(t, "adopt")
  /\ UNCHANGED <<slotVars, live, asleep, my, mygen, readVars, trimVars>>

ReadOpenFails(t) ==
  /\ pc[t] = "readOpen"
  /\ Goto(t, "finish")
  /\ UNCHANGED <<slotVars, live, asleep, kernel, callVars, trimVars>>

\* The slot takes the descriptor if it is still open, has none and there is room.
Adoptable(t) == used[my[t]] = Open /\ raw[my[t]] = None /\ live < SoftMax

Adopt(t) ==
  /\ pc[t] = "adopt" /\ Adoptable(t)
  /\ raw' = [raw EXCEPT ![my[t]] = fd[t]]
  /\ live' = live + 1
  /\ temporary' = [temporary EXCEPT ![t] = FALSE]
  /\ Goto(t, "pread")
  /\ UNCHANGED <<used, path, pos, busy, reading, gen, asleep, kernel,
                 my, mygen, fd, off, count, shared, got, trimVars>>

\* Mutant of KeepTemporary: the descriptor no slot adopted is forgotten.
KeepTemporaryForgets(t) ==
  /\ pc[t] = "adopt" /\ ~Adoptable(t)
  /\ temporary' = [temporary EXCEPT ![t] = FALSE]
  /\ Goto(t, "pread")
  /\ UNCHANGED <<slotVars, live, asleep, kernel, my, mygen, fd, off, count,
                 shared, got, trimVars>>

KeepTemporary(t) ==
  /\ pc[t] = "adopt" /\ ~Adoptable(t)
  /\ Goto(t, "pread")
  /\ UNCHANGED <<slotVars, live, asleep, kernel, callVars, trimVars>>

\* pread_full: the whole count, less at the end of the file or after an error.
Pread(t) ==
  /\ pc[t] = "pread"
  /\ \E n \in 0 .. count[t] :
       got' = [got EXCEPT ![t] = <<kernel[fd[t]], off[t], n>>]
  /\ Goto(t, IF temporary[t] THEN "closeTemp" ELSE "finish")
  /\ UNCHANGED <<slotVars, live, asleep, kernel, my, mygen, fd, off, count,
                 shared, temporary, trimVars>>

CloseTemporary(t) ==
  /\ pc[t] = "closeTemp"
  /\ kernel' = [kernel EXCEPT ![fd[t]] = None]
  /\ Goto(t, "finish")
  /\ UNCHANGED <<slotVars, live, asleep, callVars, trimVars>>

\* Mutant: a positioned read moves the shared position too.
ReadFinishMoves(t) ==
  /\ pc[t] = "finish"
  /\ LET s == my[t]
     IN /\ pos' = IF got[t][3] > 0 THEN [pos EXCEPT ![s] = off[t] + got[t][3]] ELSE pos
        /\ reading' = IF shared[t] THEN [reading EXCEPT ![s] = FALSE] ELSE reading
        /\ busy' = [busy EXCEPT ![s] = @ - 1]
  /\ Broadcast
  /\ Return(t)
  /\ UNCHANGED <<used, path, raw, gen, live, kernel, trimVars>>

\* The last lock section: move the shared position, unpin, wake everyone.
ReadFinish(t) ==
  /\ pc[t] = "finish"
  /\ LET s == my[t]
     IN /\ pos' = IF shared[t] /\ got[t][3] > 0
                  THEN [pos EXCEPT ![s] = off[t] + got[t][3]] ELSE pos
        /\ reading' = IF shared[t] THEN [reading EXCEPT ![s] = FALSE] ELSE reading
        /\ busy' = [busy EXCEPT ![s] = @ - 1]
  /\ Broadcast
  /\ Return(t)
  /\ UNCHANGED <<used, path, raw, gen, live, kernel, trimVars>>

-----------------------------------------------------------------------------
(* asset_vfd_lseek.  Any whence and offset: some position, never a negative  *)
(* one (EINVAL).  It waits for a shared reader as a shared read does.        *)

\* Mutant: the position moves under a shared read.
SeekCallAtOnce(t, s, p) ==
  /\ pc[t] = "idle" /\ used[s] = Open
  /\ pos' = [pos EXCEPT ![s] = p]
  /\ UNCHANGED <<used, path, raw, busy, reading, gen, live, asleep, kernel, pc,
                 callVars, trimVars>>

SeekCall(t, s, p) ==
  /\ pc[t] = "idle" /\ used[s] = Open /\ ~reading[s]
  /\ pos' = [pos EXCEPT ![s] = p]
  /\ UNCHANGED <<used, path, raw, busy, reading, gen, live, asleep, kernel, pc,
                 callVars, trimVars>>

SeekCallSleeps(t, s, p) ==
  /\ pc[t] = "idle" /\ used[s] = Open /\ reading[s]
  /\ Goto(t, "seekWait")
  /\ asleep' = asleep \cup {t}
  /\ my' = [my EXCEPT ![t] = s]
  /\ mygen' = [mygen EXCEPT ![t] = gen[s]]
  /\ off' = [off EXCEPT ![t] = p]
  /\ UNCHANGED <<slotVars, live, kernel, fd, count, shared, temporary, got, trimVars>>

SeekWake(t) ==
  /\ pc[t] = "seekWait" /\ t \notin asleep
  /\ StillMine(t) /\ ~reading[my[t]]
  /\ pos' = [pos EXCEPT ![my[t]] = off[t]]
  /\ Return(t)
  /\ UNCHANGED <<used, path, raw, busy, reading, gen, live, asleep, kernel, trimVars>>

\* EBADF; or EINVAL, for an offset or a whence that is only looked at after the wait.
SeekWakeReturns(t) ==
  /\ pc[t] = "seekWait" /\ t \notin asleep
  /\ StillMine(t) => ~reading[my[t]]
  /\ Return(t)
  /\ UNCHANGED <<slotVars, live, asleep, kernel, trimVars>>

-----------------------------------------------------------------------------
(* asset_vfd_close.                                                          *)

\* No reader is left: the slot is free and its descriptor, if any, is closed
\* after the unlock.
Recycle(t, s) ==
  /\ used' = [used EXCEPT ![s] = Free]
  /\ path' = [path EXCEPT ![s] = None]
  /\ pos'  = [pos EXCEPT ![s] = 0]
  /\ raw'  = [raw EXCEPT ![s] = None]
  /\ busy' = [busy EXCEPT ![s] = 0]
  /\ live' = IF raw[s] # None /\ live > 0 THEN live - 1 ELSE live
  /\ fd'   = [fd EXCEPT ![t] = raw[s]]
  /\ my'   = [my EXCEPT ![t] = None]
  /\ Goto(t, IF raw[s] = None THEN "idle" ELSE "closeRaw")
  /\ UNCHANGED <<reading, gen, mygen, readVars>>

\* Mutant: a close does not wait for the reads.
CloseCallBusy(t, s) ==
  /\ pc[t] = "idle" /\ used[s] = Open
  /\ Recycle(t, s)
  /\ asleep' = {}
  /\ UNCHANGED <<kernel, trimVars>>

CloseCall(t, s) ==
  /\ pc[t] = "idle" /\ used[s] = Open /\ busy[s] = 0
  /\ Recycle(t, s)
  /\ asleep' = {}
  /\ UNCHANGED <<kernel, trimVars>>

\* The slot is closing: no read begins on it, everyone is woken, and the close
\* waits for the reads that run.
CloseCallWaits(t, s) ==
  /\ pc[t] = "idle" /\ used[s] = Open /\ busy[s] # 0
  /\ used' = [used EXCEPT ![s] = Closing]
  /\ asleep' = {t}
  /\ my' = [my EXCEPT ![t] = s]
  /\ Goto(t, "closeWait")
  /\ UNCHANGED <<path, pos, raw, busy, reading, gen, live, kernel, mygen, fd,
                 readVars, trimVars>>

CloseWake(t) ==
  /\ pc[t] = "closeWait" /\ t \notin asleep /\ busy[my[t]] = 0
  /\ Recycle(t, my[t])
  /\ UNCHANGED <<asleep, kernel, trimVars>>

CloseWakeSleeps(t) ==
  /\ pc[t] = "closeWait" /\ t \notin asleep /\ busy[my[t]] # 0
  /\ asleep' = asleep \cup {t}
  /\ UNCHANGED <<slotVars, live, kernel, pc, callVars, trimVars>>

CloseRaw(t) ==
  /\ pc[t] = "closeRaw"
  /\ kernel' = [kernel EXCEPT ![fd[t]] = None]
  /\ Return(t)
  /\ UNCHANGED <<slotVars, live, asleep, trimVars>>

-----------------------------------------------------------------------------

Init ==
  /\ used = [s \in Slots |-> Free]
  /\ path = [s \in Slots |-> None]
  /\ pos  = [s \in Slots |-> 0]
  /\ raw  = [s \in Slots |-> None]
  /\ busy = [s \in Slots |-> 0]
  /\ reading = [s \in Slots |-> FALSE]
  /\ gen  = [s \in Slots |-> 0]
  /\ live = 0
  /\ asleep = {}
  /\ kernel = [d \in Fds |-> None]
  /\ pc = [t \in Threads |-> "idle"]
  /\ my = [t \in Threads |-> None]
  /\ mygen = [t \in Threads |-> 0]
  /\ fd = [t \in Threads |-> None]
  /\ off = [t \in Threads |-> 0]
  /\ count = [t \in Threads |-> 0]
  /\ shared = [t \in Threads |-> FALSE]
  /\ temporary = [t \in Threads |-> FALSE]
  /\ target = [t \in Threads |-> 0]
  /\ victim = [t \in Threads |-> None]
  /\ caller = [t \in Threads |-> "idle"]
  /\ got = [t \in Threads |-> NoBytes]

\* What a thread does once it is in a call.  It never waits for another call.
Progress(t) ==
  \/ TrimReturn(t) \/ TrimEvict(t) \/ TrimClose(t)
  \/ (\E f \in Files : Reserve(t, f)) \/ ReserveFails(t)
  \/ OpenRaw(t) \/ OpenRawExhausted(t) \/ OpenRawFails(t)
  \/ OpenUnreserve(t) \/ OpenPublish(t)
  \/ ReadWake(t) \/ ReadWakeReturns(t) \/ WakeSleeps(t)
  \/ ReadOpen(t) \/ ReadOpenFails(t) \/ Adopt(t) \/ KeepTemporary(t)
  \/ Pread(t) \/ CloseTemporary(t) \/ ReadFinish(t)
  \/ SeekWake(t) \/ SeekWakeReturns(t)
  \/ CloseWake(t) \/ CloseWakeSleeps(t) \/ CloseRaw(t)

Call(t) ==
  \/ OpenCall(t) \/ StreamTrim(t)
  \/ \E s \in Slots :
       \/ \E n \in 0 .. Length + 1 :
            \/ \E o \in 0 .. Length : PreadCall(t, s, o, n)
            \/ ReadCall(t, s, n) \/ ReadCallSleeps(t, s, n)
       \/ \E p \in 0 .. MaxPos : SeekCall(t, s, p) \/ SeekCallSleeps(t, s, p)
       \/ CloseCall(t, s) \/ CloseCallWaits(t, s)

Next == \E t \in Threads : Progress(t) \/ Call(t)

\* A running call is scheduled until it returns or sleeps; nobody has to call.
Fairness == \A t \in Threads : WF_vars(Progress(t))

Spec == Init /\ [][Next]_vars
FairSpec == Spec /\ Fairness

-----------------------------------------------------------------------------
(* Properties.                                                              *)

TableOK ==
  /\ used \in [Slots -> 0 .. 3]
  /\ path \in [Slots -> Files \cup {None}]
  /\ pos \in [Slots -> Positions]
  /\ raw \in [Slots -> Fds \cup {None}]
  /\ busy \in [Slots -> Int]
  /\ reading \in [Slots -> BOOLEAN]
  /\ gen \in [Slots -> Nat]
  /\ live \in Int
  /\ asleep \subseteq Threads
  /\ kernel \in [Fds -> Files \cup {None}]

CallsOK ==
  /\ pc \in [Threads -> Labels]
  /\ my \in [Threads -> Slots \cup {None}]
  /\ mygen \in [Threads -> Nat]
  /\ fd \in [Threads -> Fds \cup {None}]
  /\ off \in [Threads -> Positions]
  /\ count \in [Threads -> 0 .. Length + 1]
  /\ shared \in [Threads -> BOOLEAN]
  /\ temporary \in [Threads -> BOOLEAN]
  /\ target \in [Threads -> Nat]
  /\ victim \in [Threads -> Fds \cup {None}]
  /\ caller \in [Threads -> Callers]
  /\ got \in [Threads -> Bytes]

TypeOK == TableOK /\ CallsOK

\* The descriptors a thread holds outside the table: it must close or hand
\* over each of them.
Holds(t, d) ==
  \/ pc[t] = "trimClose" /\ victim[t] = d
  \/ pc[t] \in {"publish", "adopt", "closeRaw"} /\ fd[t] = d
  \/ pc[t] \in {"pread", "closeTemp"} /\ temporary[t] /\ fd[t] = d

Owners(d) == {s \in Slots : raw[s] = d} \cup {t \in Threads : Holds(t, d)}

\* Every open kernel descriptor has exactly one owner, a slot or a running
\* call, and nobody owns a closed one: nothing is leaked and nothing is closed
\* twice, whatever a trim, an adoption and a close do at once.
OneOwner ==
  \A d \in Fds : Cardinality(Owners(d)) = IF kernel[d] = None THEN 0 ELSE 1

\* While a read is in pread, its descriptor is open and is open on the path of
\* the slot it was called on: no trim closed it and no other open got its
\* number ("Trim cannot close a busy descriptor").
ReadsItsOwnFile ==
  /\ TypeOK
  /\ \A t \in Threads :
       pc[t] = "pread" => /\ kernel[fd[t]] = path[my[t]]
                         /\ kernel[fd[t]] # None
                         /\ (~temporary[t] => raw[my[t]] = fd[t])

\* A pinned slot is not recycled: it is the incarnation the read was called on
\* ("close cannot recycle a busy virtual slot"), and busy counts the pins.
PinnedSlotStays ==
  /\ \A t \in Threads : Pinned(t) => /\ used[my[t]] \in {Open, Closing}
                                     /\ gen[my[t]] = mygen[t]
  /\ \A s \in Slots : busy[s] = Cardinality(Pins(s))

\* Between the first and the last lock section of a shared read the position
\* is the one it read at: no other read and no lseek comes between.
SharedReadIsAtomic ==
  \A t \in Threads :
    Pinned(t) /\ shared[t] =>
      /\ reading[my[t]]
      /\ pos[my[t]] = off[t]
      /\ \A u \in Threads \ {t} : (Pinned(u) /\ shared[u] => my[u] # my[t])

\* A thread asleep on g_asset_vfd_idle has somebody to wake it: a shared reader
\* of its slot, or for a close any reader.
SleeperHasWaker ==
  \A t \in asleep :
    \E u \in Threads :
      /\ Pinned(u) /\ my[u] = my[t]
      /\ (pc[t] \in {"readWait", "seekWait"} => shared[u] /\ mygen[u] = mygen[t])

\* g_asset_vfd_live_raw is the number of cached descriptors: the "> 0" guards
\* before its decrements never hide a wrong count.  The cache passes its soft
\* limit only by the opens that have published and not yet trimmed, and by
\* readers that hold every cached descriptor at once.
Publishers ==
  {t \in Threads : /\ pc[t] \in {"trim", "trimClose"}
                   /\ caller[t] = "idle" /\ target[t] = SoftMax}
CacheIsBounded ==
  /\ live = Cardinality(RawSlots)
  /\ \/ live <= SoftMax + Cardinality(Publishers)
     \/ live < Cardinality(Threads) + Cardinality(Publishers)

\* The descriptors behave as files with a position (AssetFiles): the slot's
\* cached, evicted, reopened or temporary kernel descriptors do not show.
Promise ==
  INSTANCE AssetFiles WITH
    state <- [s \in Slots |-> IF used[s] = Open THEN "open"
                              ELSE IF used[s] = Closing THEN "closing" ELSE "free"],
    file <- [s \in Slots |-> IF used[s] \in {Open, Closing} THEN path[s] ELSE None],
    pos <- [s \in Slots |-> IF used[s] \in {Open, Closing} THEN pos[s] ELSE 0],
    reader <- [t \in Threads |-> IF Pinned(t) THEN <<my[t], shared[t]>> ELSE None],
    bytes <- got
ActsAsFiles == Promise!Spec
=============================================================================
