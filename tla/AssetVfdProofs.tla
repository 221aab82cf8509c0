--------------------------- MODULE AssetVfdProofs ---------------------------
(***************************************************************************)
(* Proofs about AssetVfd for any number of threads, slots and kernel       *)
(* descriptors, any cache size and any file length: first the invariant of  *)
(* the reads, then every kernel descriptor has one owner, the cache stays   *)
(* bounded, sleepers are woken, and the descriptors implement AssetFiles.   *)
(***************************************************************************)
EXTENDS AssetVfd, FiniteSetTheorems, TLAPS

\* A thread that has reserved its slot and has not published it.
Opening(t) == \/ pc[t] \in {"openRaw", "openRetry", "openFail", "publish"}
              \/ pc[t] \in {"trim", "trimClose"} /\ caller[t] = "openRetry"

InCall(t) == Opening(t) \/ Pinned(t) \/ pc[t] \in {"readWait", "seekWait", "closeWait"}

\* The locals of a call fit the place it is at.
LocalsFit ==
  \A t \in Threads :
    /\ InCall(t) => my[t] \in Slots
    /\ pc[t] \in {"publish", "adopt", "pread", "closeTemp", "closeRaw"} => fd[t] \in Fds
    /\ pc[t] = "trimClose" => victim[t] \in Fds
    /\ pc[t] \in {"readOpen", "adopt", "closeTemp"} => temporary[t]
    /\ pc[t] \in {"trim", "trimClose"} /\ caller[t] = "readOpen" => temporary[t]
    /\ Pinned(t) => off[t] < Length /\ off[t] + count[t] <= Length
    /\ Pinned(t) => off[t] + got[t][3] <= Length
    /\ pc[t] \notin {"closeTemp", "finish"} => got[t] = NoBytes

\* A slot belongs to one opener while it is reserved and to one closer while
\* it is closing; readers pin slots that are open or closing.
SlotsOwned ==
  /\ \A s \in Slots : used[s] # Free => path[s] \in Files
  /\ \A s \in Slots : raw[s] # None => used[s] \in {Open, Closing}
  /\ \A t \in Threads : Opening(t) => used[my[t]] = Reserved
  /\ \A t, u \in Threads : Opening(t) /\ Opening(u) /\ my[t] = my[u] => t = u
  /\ \A t \in Threads : pc[t] = "closeWait" => used[my[t]] = Closing
  /\ \A t, u \in Threads :
       pc[t] = "closeWait" /\ pc[u] = "closeWait" /\ my[t] = my[u] => t = u
  /\ \A t \in Threads : Pinned(t) => used[my[t]] \in {Open, Closing} /\ gen[my[t]] = mygen[t]

BusyCounts == \A s \in Slots : busy[s] = Cardinality(Pins(s))

\* A cached descriptor is open on the path of its slot, and of one slot only.
CachedFds ==
  /\ \A s \in Slots : raw[s] # None => kernel[raw[s]] = path[s]
  /\ \A s, r \in Slots : raw[s] # None /\ raw[s] = raw[r] => s = r

\* A descriptor a thread holds is open, in no slot, and held by nobody else.
HeldFds ==
  /\ \A t \in Threads, d \in Fds :
       Holds(t, d) => kernel[d] # None /\ \A s \in Slots : raw[s] # d
  /\ \A t, u \in Threads, d \in Fds : Holds(t, d) /\ Holds(u, d) => t = u

\* The descriptor a read or an open uses is open on the path of its slot.
UsedFds ==
  /\ \A t \in Threads :
       (\/ pc[t] \in {"publish", "adopt"}
        \/ pc[t] \in {"pread", "closeTemp"} /\ temporary[t])
       => kernel[fd[t]] = path[my[t]]
  /\ \A t \in Threads : pc[t] = "pread" /\ ~temporary[t] => raw[my[t]] = fd[t]

\* A slot that counts no pin is pinned by nobody.
Unpinned == \A s \in Slots : busy[s] = 0 => \A t \in Threads : Pinned(t) => my[t] # s

IInv == /\ TypeOK /\ LocalsFit /\ SlotsOwned /\ BusyCounts
        /\ CachedFds /\ HeldFds /\ UsedFds /\ SharedReadIsAtomic

-----------------------------------------------------------------------------
\* The pins of a slot can be counted.
LEMMA PinsFinite == \A s : IsFiniteSet(Pins(s))
<1>1. \A s : Pins(s) \subseteq Threads
  BY DEF Pins
<1>2. QED BY <1>1, FS_Subset, SetsAssumption

\* One more reader, one more pin ...
LEMMA PinCounted ==
  ASSUME BusyCounts, busy \in [Slots -> Int], NEW s \in Slots, NEW t, t \notin Pins(s),
         busy' = [busy EXCEPT ![s] = @ + 1], Pins(s)' = Pins(s) \cup {t},
         \A r \in Slots \ {s} : Pins(r)' = Pins(r)
  PROVE  BusyCounts'
<1>1. Cardinality(Pins(s)') = Cardinality(Pins(s)) + 1
  BY PinsFinite, FS_AddElement
<1>2. QED BY <1>1 DEF BusyCounts

\* ... and one less.
LEMMA UnpinCounted ==
  ASSUME BusyCounts, busy \in [Slots -> Int], NEW s \in Slots, NEW t, t \in Pins(s),
         busy' = [busy EXCEPT ![s] = @ - 1], Pins(s)' = Pins(s) \ {t},
         \A r \in Slots \ {s} : Pins(r)' = Pins(r)
  PROVE  BusyCounts'
<1>1. Cardinality(Pins(s)') = Cardinality(Pins(s)) - 1
  BY PinsFinite, FS_RemoveElement
<1>2. QED BY <1>1 DEF BusyCounts



\* A trim takes a descriptor only from a slot nobody pins.
LEMMA TrimKeeps ==
  ASSUME TypeOK, LocalsFit, SlotsOwned, BusyCounts, CachedFds, HeldFds, UsedFds,
         SharedReadIsAtomic, Unpinned, NEW t \in Threads
  PROVE  /\ TrimReturn(t) => IInv'
         /\ TrimEvict(t) => IInv'
         /\ TrimClose(t) => IInv'
         /\ StreamTrim(t) => IInv'
<1> USE NumbersAssumption, SetsAssumption
      DEF slotVars, callVars, readVars, trimVars, TypeOK, TableOK, CallsOK, LocalsFit,
          InCall, Opening, Pinned, Free, Open, Closing, Reserved
<1>1. ASSUME TrimReturn(t) PROVE IInv'
  <2> USE <1>1 DEF TrimReturn, Goto, Evictable
  <2>1. TypeOK'
    BY DEF Labels, Callers, Positions, Bytes, NoBytes
  <2>2. LocalsFit'
    BY DEF Labels, Callers, Positions, Bytes, NoBytes, SlotsOwned
  <2>3. SlotsOwned'
    <3>1. /\ \A u \in Threads : (Opening(u)' <=> Opening(u)) /\ (Pinned(u)' <=> Pinned(u))
          /\ \A u \in Threads : pc'[u] = pc[u] \/ pc'[u] \in Callers
      BY DEF Callers
    <3>2. QED BY <3>1 DEF Callers, SlotsOwned
  <2>4. BusyCounts'
    <3>1. busy' = busy /\ \A r \in Slots : Pins(r)' = Pins(r)
      BY DEF SlotsOwned, Pins, Callers
    <3>2. QED BY <3>1 DEF BusyCounts
  <2>5. CachedFds'
    BY DEF SlotsOwned, CachedFds, HeldFds, UsedFds, Holds, Unpinned
  <2>6. HeldFds'
    <3>1. /\ \A u \in Threads : (Opening(u)' <=> Opening(u)) /\ (Pinned(u)' <=> Pinned(u))
          /\ \A u \in Threads : pc'[u] = pc[u] \/ pc'[u] \in Callers
      BY DEF Callers
    <3>2. \A u \in Threads, d \in Fds : Holds(u, d)' => Holds(u, d)
      BY DEF Callers, Holds
    <3>3. QED BY <3>2 DEF HeldFds
  <2>7. UsedFds'
    <3>1. /\ \A u \in Threads : (Opening(u)' <=> Opening(u)) /\ (Pinned(u)' <=> Pinned(u))
          /\ \A u \in Threads : pc'[u] = pc[u] \/ pc'[u] \in Callers
      BY DEF Callers
    <3>2. \A u \in Threads : pc'[u] \in {"publish", "adopt", "pread", "closeTemp"} => pc'[u] = pc[u]
      BY <3>1 DEF Callers
    <3>3. QED BY <3>2 DEF UsedFds
  <2>8. SharedReadIsAtomic'
    <3>1. /\ \A u \in Threads : (Opening(u)' <=> Opening(u)) /\ (Pinned(u)' <=> Pinned(u))
          /\ \A u \in Threads : pc'[u] = pc[u] \/ pc'[u] \in Callers
      BY DEF Callers
    <3>2. QED BY <3>1 DEF SharedReadIsAtomic
  <2>9. QED BY <2>1, <2>2, <2>3, <2>4, <2>5, <2>6, <2>7, <2>8 DEF IInv
<1>2. ASSUME TrimEvict(t) PROVE IInv'
  <2> USE <1>2 DEF TrimEvict, Goto, Evictable
  <2>1. TypeOK'
    BY DEF Labels, Callers, Positions, Bytes, NoBytes
  <2>2. LocalsFit'
    BY DEF Labels, Callers, Positions, Bytes, NoBytes, SlotsOwned
  <2>3. SlotsOwned'
    BY DEF SlotsOwned, Unpinned
  <2>4. BusyCounts'
    <3>1. busy' = busy /\ \A r \in Slots : Pins(r)' = Pins(r)
      BY DEF SlotsOwned, Pins, Callers
    <3>2. QED BY <3>1 DEF BusyCounts
  <2>5. CachedFds'
    BY DEF SlotsOwned, CachedFds, HeldFds, UsedFds, Holds, Unpinned
  <2>6. HeldFds'
    BY DEF SlotsOwned, CachedFds, HeldFds, UsedFds, Holds, Unpinned
  <2>7. UsedFds'
    BY DEF SlotsOwned, CachedFds, HeldFds, UsedFds, Holds, Unpinned
  <2>8. SharedReadIsAtomic'
    BY DEF SlotsOwned, SharedReadIsAtomic, Unpinned
  <2>9. QED BY <2>1, <2>2, <2>3, <2>4, <2>5, <2>6, <2>7, <2>8 DEF IInv
<1>3. ASSUME TrimClose(t) PROVE IInv'
  <2> USE <1>3 DEF TrimClose, Goto
  <2>1. TypeOK'
    BY DEF Labels, Callers, Positions, Bytes, NoBytes
  <2>2. LocalsFit'
    BY DEF Labels, Callers, Positions, Bytes, NoBytes, SlotsOwned
  <2>3. SlotsOwned'
    BY DEF SlotsOwned, Unpinned
  <2>4. BusyCounts'
    <3>1. busy' = busy /\ \A r \in Slots : Pins(r)' = Pins(r)
      BY DEF SlotsOwned, Pins, Callers
    <3>2. QED BY <3>1 DEF BusyCounts
  <2>5. CachedFds'
    BY DEF SlotsOwned, CachedFds, HeldFds, UsedFds, Holds, Unpinned
  <2>6. HeldFds'
    BY DEF SlotsOwned, CachedFds, HeldFds, UsedFds, Holds, Unpinned
  <2>7. UsedFds'
    BY DEF SlotsOwned, CachedFds, HeldFds, UsedFds, Holds, Unpinned
  <2>8. SharedReadIsAtomic'
    BY DEF SlotsOwned, SharedReadIsAtomic, Unpinned
  <2>9. QED BY <2>1, <2>2, <2>3, <2>4, <2>5, <2>6, <2>7, <2>8 DEF IInv
<1>4. ASSUME StreamTrim(t) PROVE IInv'
  <2> USE <1>4 DEF StreamTrim, TrimCall, Goto
  <2>1. TypeOK'
    BY DEF Labels, Callers, Positions, Bytes, NoBytes
  <2>2. LocalsFit'
    BY DEF Labels, Callers, Positions, Bytes, NoBytes, SlotsOwned
  <2>3. SlotsOwned'
    BY DEF SlotsOwned, Unpinned
  <2>4. BusyCounts'
    <3>1. busy' = busy /\ \A r \in Slots : Pins(r)' = Pins(r)
      BY DEF SlotsOwned, Pins, Callers
    <3>2. QED BY <3>1 DEF BusyCounts
  <2>5. CachedFds'
    BY DEF SlotsOwned, CachedFds, HeldFds, UsedFds, Holds, Unpinned
  <2>6. HeldFds'
    BY DEF SlotsOwned, CachedFds, HeldFds, UsedFds, Holds, Unpinned
  <2>7. UsedFds'
    BY DEF SlotsOwned, CachedFds, HeldFds, UsedFds, Holds, Unpinned
  <2>8. SharedReadIsAtomic'
    BY DEF SlotsOwned, SharedReadIsAtomic, Unpinned
  <2>9. QED BY <2>1, <2>2, <2>3, <2>4, <2>5, <2>6, <2>7, <2>8 DEF IInv
<1>5. QED BY <1>1, <1>2, <1>3, <1>4

\* An open owns its reserved slot until it publishes or frees it.
LEMMA OpenKeeps ==
  ASSUME TypeOK, LocalsFit, SlotsOwned, BusyCounts, CachedFds, HeldFds, UsedFds,
         SharedReadIsAtomic, Unpinned, NEW t \in Threads
  PROVE  /\ OpenCall(t) => IInv'
         /\ (\E f \in Files : Reserve(t, f)) => IInv'
         /\ ReserveFails(t) => IInv'
         /\ OpenRaw(t) => IInv'
         /\ OpenRawExhausted(t) => IInv'
         /\ OpenRawFails(t) => IInv'
         /\ OpenUnreserve(t) => IInv'
         /\ OpenPublish(t) => IInv'
<1> USE NumbersAssumption, SetsAssumption
      DEF slotVars, callVars, readVars, trimVars, TypeOK, TableOK, CallsOK, LocalsFit,
          InCall, Opening, Pinned, Free, Open, Closing, Reserved
<1>1. ASSUME OpenCall(t) PROVE IInv'
  <2> USE <1>1 DEF OpenCall, TrimCall, Goto
  <2>1. TypeOK'
    BY DEF Labels, Callers, Positions, Bytes, NoBytes
  <2>2. LocalsFit'
    BY DEF Labels, Callers, Positions, Bytes, NoBytes, SlotsOwned
  <2>3. SlotsOwned'
    BY DEF SlotsOwned, Unpinned
  <2>4. BusyCounts'
    <3>1. busy' = busy /\ \A r \in Slots : Pins(r)' = Pins(r)
      BY DEF SlotsOwned, Pins, Callers
    <3>2. QED BY <3>1 DEF BusyCounts
  <2>5. CachedFds'
    BY DEF SlotsOwned, CachedFds, HeldFds, UsedFds, Holds, Unpinned
  <2>6. HeldFds'
    BY DEF SlotsOwned, CachedFds, HeldFds, UsedFds, Holds, Unpinned
  <2>7. UsedFds'
    BY DEF SlotsOwned, CachedFds, HeldFds, UsedFds, Holds, Unpinned
  <2>8. SharedReadIsAtomic'
    BY DEF SlotsOwned, SharedReadIsAtomic, Unpinned
  <2>9. QED BY <2>1, <2>2, <2>3, <2>4, <2>5, <2>6, <2>7, <2>8 DEF IInv
<1>2. ASSUME NEW f \in Files, Reserve(t, f) PROVE IInv'
  <2> USE <1>2 DEF Reserve, Goto
  <2>1. TypeOK'
    BY DEF Labels, Callers, Positions, Bytes, NoBytes
  <2>2. LocalsFit'
    BY DEF Labels, Callers, Positions, Bytes, NoBytes, SlotsOwned
  <2>3. SlotsOwned'
    BY DEF SlotsOwned, Unpinned
  <2>4. BusyCounts'
    <3>1. PICK s \in Slots :
            /\ used[s] = Free
            /\ used' = [used EXCEPT ![s] = Reserved]
            /\ path' = [path EXCEPT ![s] = f]
            /\ pos' = [pos EXCEPT ![s] = 0]
            /\ raw' = [raw EXCEPT ![s] = None]
            /\ busy' = [busy EXCEPT ![s] = 0]
            /\ reading' = [reading EXCEPT ![s] = FALSE]
            /\ my' = [my EXCEPT ![t] = s]
      OBVIOUS
    <3>2. \A u \in Threads : Pinned(u) => my[u] \in Slots /\ my[u] # s
      BY <3>1, SMTT(30) DEF SlotsOwned
    <3>3. \A u \in Threads : Opening(u) => my[u] \in Slots /\ my[u] # s
      BY <3>1 DEF SlotsOwned
    <3>4. \A u \in Threads : Pinned(u)' => Pinned(u) /\ u # t
      OBVIOUS
    <3>5. \A r \in Slots : Pins(r)' = Pins(r)
      BY <3>1, <3>2 DEF Pins
    <3>6. Pins(s) = {}
      BY <3>2 DEF Pins
    <3>7. busy[s] = 0
      BY <3>6, FS_EmptySet DEF BusyCounts
    <3>8. busy' = busy
      BY <3>1, <3>7
    <3>9. QED BY <3>5, <3>8 DEF BusyCounts
  <2>5. CachedFds'
    BY DEF SlotsOwned, CachedFds, HeldFds, UsedFds, Holds, Unpinned
  <2>6. HeldFds'
    BY DEF SlotsOwned, CachedFds, HeldFds, UsedFds, Holds, Unpinned
  <2>7. UsedFds'
    <3>1. PICK s \in Slots :
            /\ used[s] = Free
            /\ used' = [used EXCEPT ![s] = Reserved]
            /\ path' = [path EXCEPT ![s] = f]
            /\ pos' = [pos EXCEPT ![s] = 0]
            /\ raw' = [raw EXCEPT ![s] = None]
            /\ busy' = [busy EXCEPT ![s] = 0]
            /\ reading' = [reading EXCEPT ![s] = FALSE]
            /\ my' = [my EXCEPT ![t] = s]
      OBVIOUS
    <3>2. \A u \in Threads : Pinned(u) => my[u] \in Slots /\ my[u] # s
      BY <3>1, SMTT(30) DEF SlotsOwned
    <3>3. \A u \in Threads : Opening(u) => my[u] \in Slots /\ my[u] # s
      BY <3>1 DEF SlotsOwned
    <3>4. \A u \in Threads : Pinned(u)' => Pinned(u) /\ u # t
      OBVIOUS
    <3>5. \A u \in Threads : pc'[u] \in {"publish", "adopt", "pread", "closeTemp"} =>
            /\ pc[u] = pc'[u] /\ u # t
            /\ my[u] \in Slots /\ my[u] # s
      BY <3>2, <3>3
    <3>6. QED BY <3>1, <3>5 DEF UsedFds
  <2>8. SharedReadIsAtomic'
    <3>1. PICK s \in Slots :
            /\ used[s] = Free
            /\ used' = [used EXCEPT ![s] = Reserved]
            /\ path' = [path EXCEPT ![s] = f]
            /\ pos' = [pos EXCEPT ![s] = 0]
            /\ raw' = [raw EXCEPT ![s] = None]
            /\ busy' = [busy EXCEPT ![s] = 0]
            /\ reading' = [reading EXCEPT ![s] = FALSE]
            /\ my' = [my EXCEPT ![t] = s]
      OBVIOUS
    <3>2. \A u \in Threads : Pinned(u) => my[u] \in Slots /\ my[u] # s
      BY <3>1, SMTT(30) DEF SlotsOwned
    <3>3. \A u \in Threads : Opening(u) => my[u] \in Slots /\ my[u] # s
      BY <3>1 DEF SlotsOwned
    <3>4. \A u \in Threads : Pinned(u)' => Pinned(u) /\ u # t
      OBVIOUS
    <3>5. QED BY <3>1, <3>2, <3>4 DEF SharedReadIsAtomic
  <2>9. QED BY <2>1, <2>2, <2>3, <2>4, <2>5, <2>6, <2>7, <2>8 DEF IInv
<1>3. ASSUME ReserveFails(t) PROVE IInv'
  <2> USE <1>3 DEF ReserveFails, Goto
  <2>1. TypeOK'
    BY DEF Labels, Callers, Positions, Bytes, NoBytes
  <2>2. LocalsFit'
    BY DEF Labels, Callers, Positions, Bytes, NoBytes, SlotsOwned
  <2>3. SlotsOwned'
    BY DEF SlotsOwned, Unpinned
  <2>4. BusyCounts'
    <3>1. busy' = busy /\ \A r \in Slots : Pins(r)' = Pins(r)
      BY DEF SlotsOwned, Pins, Callers
    <3>2. QED BY <3>1 DEF BusyCounts
  <2>5. CachedFds'
    BY DEF SlotsOwned, CachedFds, HeldFds, UsedFds, Holds, Unpinned
  <2>6. HeldFds'
    BY DEF SlotsOwned, CachedFds, HeldFds, UsedFds, Holds, Unpinned
  <2>7. UsedFds'
    BY DEF SlotsOwned, CachedFds, HeldFds, UsedFds, Holds, Unpinned
  <2>8. SharedReadIsAtomic'
    BY DEF SlotsOwned, SharedReadIsAtomic, Unpinned
  <2>9. QED BY <2>1, <2>2, <2>3, <2>4, <2>5, <2>6, <2>7, <2>8 DEF IInv
<1>4. ASSUME OpenRaw(t) PROVE IInv'
  <2> USE <1>4 DEF OpenRaw, Goto, KernelOpen, FreeFds
  <2>1. TypeOK'
    BY DEF Labels, Callers, Positions, Bytes, NoBytes
  <2>2. LocalsFit'
    BY DEF Labels, Callers, Positions, Bytes, NoBytes, SlotsOwned
  <2>3. SlotsOwned'
    BY DEF SlotsOwned, Unpinned
  <2>4. BusyCounts'
    <3>1. busy' = busy /\ \A r \in Slots : Pins(r)' = Pins(r)
      BY DEF SlotsOwned, Pins, Callers
    <3>2. QED BY <3>1 DEF BusyCounts
  <2>5. CachedFds'
    <3>1. PICK d \in Fds : /\ kernel[d] = None
                          /\ kernel' = [kernel EXCEPT ![d] = path[my[t]]]
                          /\ fd' = [fd EXCEPT ![t] = d]
      OBVIOUS
    <3>2. path[my[t]] \in Files /\ path[my[t]] # None
      BY DEF SlotsOwned
    <3>3. \A s \in Slots : raw[s] # d
      BY <3>1, SMTT(30) DEF CachedFds, SlotsOwned
    <3>4. \A u \in Threads : ~Holds(u, d)
      BY <3>1 DEF HeldFds
    <3>5. QED BY <3>1, <3>3 DEF CachedFds, TypeOK, TableOK
  <2>6. HeldFds'
    <3>1. PICK d \in Fds : /\ kernel[d] = None
                          /\ kernel' = [kernel EXCEPT ![d] = path[my[t]]]
                          /\ fd' = [fd EXCEPT ![t] = d]
      OBVIOUS
    <3>2. path[my[t]] \in Files /\ path[my[t]] # None
      BY DEF SlotsOwned
    <3>3. \A s \in Slots : raw[s] # d
      BY <3>1, SMTT(30) DEF CachedFds, SlotsOwned
    <3>4. \A u \in Threads : ~Holds(u, d)
      BY <3>1 DEF HeldFds
    <3>5. \A u \in Threads, e \in Fds : Holds(u, e)' =>
            \/ u = t /\ e = d
            \/ u # t /\ e # d /\ Holds(u, e)
      BY <3>1, <3>4 DEF Holds
    <3>6. QED BY <3>1, <3>2, <3>3, <3>5, SMTT(30) DEF HeldFds
  <2>7. UsedFds'
    BY DEF SlotsOwned, CachedFds, HeldFds, UsedFds, Holds, Unpinned
  <2>8. SharedReadIsAtomic'
    BY DEF SlotsOwned, SharedReadIsAtomic, Unpinned
  <2>9. QED BY <2>1, <2>2, <2>3, <2>4, <2>5, <2>6, <2>7, <2>8 DEF IInv
<1>5. ASSUME OpenRawExhausted(t) PROVE IInv'
  <2> USE <1>5 DEF OpenRawExhausted, TrimCall, Goto
  <2>1. TypeOK'
    BY DEF Labels, Callers, Positions, Bytes, NoBytes
  <2>2. LocalsFit'
    BY DEF Labels, Callers, Positions, Bytes, NoBytes, SlotsOwned
  <2>3. SlotsOwned'
    BY DEF SlotsOwned, Unpinned
  <2>4. BusyCounts'
    <3>1. busy' = busy /\ \A r \in Slots : Pins(r)' = Pins(r)
      BY DEF SlotsOwned, Pins, Callers
    <3>2. QED BY <3>1 DEF BusyCounts
  <2>5. CachedFds'
    BY DEF SlotsOwned, CachedFds, HeldFds, UsedFds, Holds, Unpinned
  <2>6. HeldFds'
    BY DEF SlotsOwned, CachedFds, HeldFds, UsedFds, Holds, Unpinned
  <2>7. UsedFds'
    BY DEF SlotsOwned, CachedFds, HeldFds, UsedFds, Holds, Unpinned
  <2>8. SharedReadIsAtomic'
    BY DEF SlotsOwned, SharedReadIsAtomic, Unpinned
  <2>9. QED BY <2>1, <2>2, <2>3, <2>4, <2>5, <2>6, <2>7, <2>8 DEF IInv
<1>6. ASSUME OpenRawFails(t) PROVE IInv'
  <2> USE <1>6 DEF OpenRawFails, Goto
  <2>1. TypeOK'
    BY DEF Labels, Callers, Positions, Bytes, NoBytes
  <2>2. LocalsFit'
    BY DEF Labels, Callers, Positions, Bytes, NoBytes, SlotsOwned
  <2>3. SlotsOwned'
    BY DEF SlotsOwned, Unpinned
  <2>4. BusyCounts'
    <3>1. busy' = busy /\ \A r \in Slots : Pins(r)' = Pins(r)
      BY DEF SlotsOwned, Pins, Callers
    <3>2. QED BY <3>1 DEF BusyCounts
  <2>5. CachedFds'
    BY DEF SlotsOwned, CachedFds, HeldFds, UsedFds, Holds, Unpinned
  <2>6. HeldFds'
    BY DEF SlotsOwned, CachedFds, HeldFds, UsedFds, Holds, Unpinned
  <2>7. UsedFds'
    BY DEF SlotsOwned, CachedFds, HeldFds, UsedFds, Holds, Unpinned
  <2>8. SharedReadIsAtomic'
    BY DEF SlotsOwned, SharedReadIsAtomic, Unpinned
  <2>9. QED BY <2>1, <2>2, <2>3, <2>4, <2>5, <2>6, <2>7, <2>8 DEF IInv
<1>7. ASSUME OpenUnreserve(t) PROVE IInv'
  <2> USE <1>7 DEF OpenUnreserve, Goto
  <2>1. TypeOK'
    BY DEF Labels, Callers, Positions, Bytes, NoBytes
  <2>2. LocalsFit'
    BY DEF Labels, Callers, Positions, Bytes, NoBytes, SlotsOwned
  <2>3. SlotsOwned'
    BY DEF SlotsOwned, Unpinned
  <2>4. BusyCounts'
    <3>1. busy' = busy /\ \A r \in Slots : Pins(r)' = Pins(r)
      BY DEF SlotsOwned, Pins, Callers
    <3>2. QED BY <3>1 DEF BusyCounts
  <2>5. CachedFds'
    <3>1. my[t] \in Slots /\ raw[my[t]] = None
      BY DEF SlotsOwned
    <3>2. QED BY <3>1 DEF CachedFds
  <2>6. HeldFds'
    BY DEF SlotsOwned, CachedFds, HeldFds, UsedFds, Holds, Unpinned
  <2>7. UsedFds'
    <3>1. my[t] \in Slots /\ Opening(t) /\ used[my[t]] = Reserved
      BY DEF SlotsOwned
    <3>2. \A u \in Threads : pc'[u] \in {"publish", "adopt", "pread", "closeTemp"} =>
            /\ pc[u] = pc'[u] /\ u # t
            /\ Opening(u) \/ Pinned(u)
      OBVIOUS
    <3>3. \A u \in Threads : u # t /\ Opening(u) => my[u] \in Slots /\ my[u] # my[t]
      BY <3>1 DEF SlotsOwned
    <3>5. \A u \in Threads : u # t /\ Pinned(u) => my[u] \in Slots /\ my[u] # my[t]
      BY <3>1 DEF SlotsOwned
    <3>6. QED BY <3>1, <3>2, <3>3, <3>5 DEF UsedFds
  <2>8. SharedReadIsAtomic'
    BY DEF SlotsOwned, SharedReadIsAtomic, Unpinned
  <2>9. QED BY <2>1, <2>2, <2>3, <2>4, <2>5, <2>6, <2>7, <2>8 DEF IInv
<1>8. ASSUME OpenPublish(t) PROVE IInv'
  <2> USE <1>8 DEF OpenPublish, TrimCall, Goto
  <2>1. TypeOK'
    BY DEF Labels, Callers, Positions, Bytes, NoBytes
  <2>2. LocalsFit'
    BY DEF Labels, Callers, Positions, Bytes, NoBytes, SlotsOwned
  <2>3. SlotsOwned'
    BY DEF SlotsOwned, Unpinned
  <2>4. BusyCounts'
    <3>1. busy' = busy /\ \A r \in Slots : Pins(r)' = Pins(r)
      BY DEF SlotsOwned, Pins, Callers
    <3>2. QED BY <3>1 DEF BusyCounts
  <2>5. CachedFds'
    BY DEF SlotsOwned, CachedFds, HeldFds, UsedFds, Holds, Unpinned
  <2>6. HeldFds'
    BY DEF SlotsOwned, CachedFds, HeldFds, UsedFds, Holds, Unpinned
  <2>7. UsedFds'
    <3>1. my[t] \in Slots /\ Opening(t) /\ used[my[t]] = Reserved
      BY DEF SlotsOwned
    <3>2. \A u \in Threads : pc'[u] \in {"publish", "adopt", "pread", "closeTemp"} =>
            /\ pc[u] = pc'[u] /\ u # t
            /\ Opening(u) \/ Pinned(u)
      OBVIOUS
    <3>3. \A u \in Threads : u # t /\ Pinned(u) => my[u] \in Slots /\ my[u] # my[t]
      BY <3>1 DEF SlotsOwned
    <3>4. QED BY <3>1, <3>2, <3>3 DEF UsedFds
  <2>8. SharedReadIsAtomic'
    BY DEF SlotsOwned, SharedReadIsAtomic, Unpinned
  <2>9. QED BY <2>1, <2>2, <2>3, <2>4, <2>5, <2>6, <2>7, <2>8 DEF IInv
<1>9. QED BY <1>1, <1>2, <1>3, <1>4, <1>5, <1>6, <1>7, <1>8

\* A read pins the slot it begins on; a shared one waits for the last.
LEMMA ReadBeginKeeps ==
  ASSUME TypeOK, LocalsFit, SlotsOwned, BusyCounts, CachedFds, HeldFds, UsedFds,
         SharedReadIsAtomic, Unpinned, NEW t \in Threads
  PROVE  /\ (\E s \in Slots, o \in 0 .. Length, n \in 0 .. Length + 1 : PreadCall(t, s, o, n)) => IInv'
         /\ (\E s \in Slots, n \in 0 .. Length + 1 : ReadCall(t, s, n)) => IInv'
         /\ (\E s \in Slots, n \in 0 .. Length + 1 : ReadCallSleeps(t, s, n)) => IInv'
         /\ ReadWake(t) => IInv'
         /\ ReadWakeReturns(t) => IInv'
         /\ WakeSleeps(t) => IInv'
<1> USE NumbersAssumption, SetsAssumption
      DEF slotVars, callVars, readVars, trimVars, TypeOK, TableOK, CallsOK, LocalsFit,
          InCall, Opening, Pinned, Free, Open, Closing, Reserved
<1>1. ASSUME NEW s \in Slots, NEW o \in 0 .. Length, NEW n \in 0 .. Length + 1, PreadCall(t, s, o, n) PROVE IInv'
  <2> USE <1>1 DEF PreadCall, ReadPin
  <2>1. TypeOK'
    BY DEF Labels, Callers, Positions, Bytes, NoBytes
  <2>2. LocalsFit'
    <3> USE DEF Positions, Bytes, NoBytes
    <3>1. CASE raw[s] = None
      <4>1. temporary' = [temporary EXCEPT ![t] = TRUE]
        BY <3>1, Zenon
      <4>2. temporary'[t] /\ pc'[t] = "trim" /\ caller'[t] = "readOpen" /\ my'[t] = s
        BY <3>1, <4>1
      <4>3. \A u \in Threads \ {t} : temporary'[u] = temporary[u]
        BY <4>1
      <4>4. QED BY <3>1, <4>2, <4>3
    <3>2. CASE raw[s] # None
      BY <3>2
    <3>3. QED BY <3>1, <3>2
  <2>3. SlotsOwned'
    BY DEF SlotsOwned, Unpinned
  <2>4. BusyCounts'
    <3>0. PICK r \in Slots : r = s
      OBVIOUS
    <3>1. t \notin Pins(r) /\ Pins(r)' = Pins(r) \cup {t}
      BY <3>0 DEF Pins
    <3>2. \A q \in Slots \ {r} : Pins(q)' = Pins(q)
      BY <3>0 DEF Pins
    <3>3. busy' = [busy EXCEPT ![r] = @ + 1]
      BY <3>0
    <3>4. QED BY <3>1, <3>2, <3>3, PinCounted
  <2>5. CachedFds'
    BY DEF SlotsOwned, CachedFds, HeldFds, UsedFds, Holds, Unpinned
  <2>6. HeldFds'
    <3>1. \A u \in Threads, d \in Fds : Holds(u, d)' => Holds(u, d)
      BY DEF Holds, TypeOK, CallsOK
    <3>2. QED BY <3>1 DEF HeldFds
  <2>7. UsedFds'
    BY DEF SlotsOwned, CachedFds, HeldFds, UsedFds, Holds, Unpinned
  <2>8. SharedReadIsAtomic'
    BY DEF SlotsOwned, SharedReadIsAtomic, Unpinned
  <2>9. QED BY <2>1, <2>2, <2>3, <2>4, <2>5, <2>6, <2>7, <2>8 DEF IInv
<1>2. ASSUME NEW s \in Slots, NEW n \in 0 .. Length + 1, ReadCall(t, s, n) PROVE IInv'
  <2> USE <1>2 DEF ReadCall, ReadPin
  <2>1. TypeOK'
    BY DEF Labels, Callers, Positions, Bytes, NoBytes
  <2>2. LocalsFit'
    <3> USE DEF Positions, Bytes, NoBytes
    <3>1. CASE raw[s] = None
      <4>1. temporary' = [temporary EXCEPT ![t] = TRUE]
        BY <3>1, Zenon
      <4>2. temporary'[t] /\ pc'[t] = "trim" /\ caller'[t] = "readOpen" /\ my'[t] = s
        BY <3>1, <4>1
      <4>3. \A u \in Threads \ {t} : temporary'[u] = temporary[u]
        BY <4>1
      <4>4. QED BY <3>1, <4>2, <4>3
    <3>2. CASE raw[s] # None
      BY <3>2
    <3>3. QED BY <3>1, <3>2
  <2>3. SlotsOwned'
    BY DEF SlotsOwned, Unpinned
  <2>4. BusyCounts'
    <3>0. PICK r \in Slots : r = s
      OBVIOUS
    <3>1. t \notin Pins(r) /\ Pins(r)' = Pins(r) \cup {t}
      BY <3>0 DEF Pins
    <3>2. \A q \in Slots \ {r} : Pins(q)' = Pins(q)
      BY <3>0 DEF Pins
    <3>3. busy' = [busy EXCEPT ![r] = @ + 1]
      BY <3>0
    <3>4. QED BY <3>1, <3>2, <3>3, PinCounted
  <2>5. CachedFds'
    BY DEF SlotsOwned, CachedFds, HeldFds, UsedFds, Holds, Unpinned
  <2>6. HeldFds'
    BY DEF SlotsOwned, CachedFds, HeldFds, UsedFds, Holds, Unpinned
  <2>7. UsedFds'
    BY DEF SlotsOwned, CachedFds, HeldFds, UsedFds, Holds, Unpinned
  <2>8. SharedReadIsAtomic'
    <3>1. \A u \in Threads : Pinned(u)' => u = t \/ Pinned(u)
      OBVIOUS
    <3>2. \A u \in Threads \ {t} : Pinned(u)' /\ shared'[u] =>
            /\ Pinned(u) /\ my[u] # s
            /\ shared'[u] = shared[u] /\ my'[u] = my[u] /\ off'[u] = off[u]
      BY <3>1 DEF SharedReadIsAtomic
    <3>3. s \in Slots /\ my'[t] = s /\ off'[t] = pos[s] /\ reading'[s]
      BY ZenonT(30)
    <3>4. \A r \in Slots : r # s => reading'[r] = reading[r]
      OBVIOUS
    <3>5. QED BY <3>2, <3>3, <3>4 DEF SharedReadIsAtomic
  <2>9. QED BY <2>1, <2>2, <2>3, <2>4, <2>5, <2>6, <2>7, <2>8 DEF IInv
<1>3. ASSUME NEW s \in Slots, NEW n \in 0 .. Length + 1, ReadCallSleeps(t, s, n) PROVE IInv'
  <2> USE <1>3 DEF ReadCallSleeps, Goto
  <2>1. TypeOK'
    BY DEF Labels, Callers, Positions, Bytes, NoBytes
  <2>2. LocalsFit'
    BY DEF Labels, Callers, Positions, Bytes, NoBytes, SlotsOwned
  <2>3. SlotsOwned'
    BY DEF SlotsOwned, Unpinned
  <2>4. BusyCounts'
    <3>1. busy' = busy /\ \A r \in Slots : Pins(r)' = Pins(r)
      BY DEF SlotsOwned, Pins, Callers
    <3>2. QED BY <3>1 DEF BusyCounts
  <2>5. CachedFds'
    BY DEF SlotsOwned, CachedFds, HeldFds, UsedFds, Holds, Unpinned
  <2>6. HeldFds'
    BY DEF SlotsOwned, CachedFds, HeldFds, UsedFds, Holds, Unpinned
  <2>7. UsedFds'
    BY DEF SlotsOwned, CachedFds, HeldFds, UsedFds, Holds, Unpinned
  <2>8. SharedReadIsAtomic'
    BY DEF SlotsOwned, SharedReadIsAtomic, Unpinned
  <2>9. QED BY <2>1, <2>2, <2>3, <2>4, <2>5, <2>6, <2>7, <2>8 DEF IInv
<1>4. ASSUME ReadWake(t) PROVE IInv'
  <2> USE <1>4 DEF ReadWake, ReadPin, StillMine
  <2>1. TypeOK'
    BY DEF Labels, Callers, Positions, Bytes, NoBytes
  <2>2. LocalsFit'
    <3> USE DEF Positions, Bytes, NoBytes
    <3>1. CASE raw[my[t]] = None
      <4>1. temporary' = [temporary EXCEPT ![t] = TRUE]
        BY <3>1, Zenon
      <4>2. temporary'[t] /\ pc'[t] = "trim" /\ caller'[t] = "readOpen" /\ my'[t] = my[t]
        BY <3>1, <4>1
      <4>3. \A u \in Threads \ {t} : temporary'[u] = temporary[u]
        BY <4>1
      <4>4. QED BY <3>1, <4>2, <4>3
    <3>2. CASE raw[my[t]] # None
      BY <3>2
    <3>3. QED BY <3>1, <3>2
  <2>3. SlotsOwned'
    BY DEF SlotsOwned, Unpinned
  <2>4. BusyCounts'
    <3>0. PICK r \in Slots : r = my[t]
      OBVIOUS
    <3>1. t \notin Pins(r) /\ Pins(r)' = Pins(r) \cup {t}
      BY <3>0 DEF Pins
    <3>2. \A q \in Slots \ {r} : Pins(q)' = Pins(q)
      BY <3>0 DEF Pins
    <3>3. busy' = [busy EXCEPT ![r] = @ + 1]
      BY <3>0
    <3>4. QED BY <3>1, <3>2, <3>3, PinCounted
  <2>5. CachedFds'
    BY DEF SlotsOwned, CachedFds, HeldFds, UsedFds, Holds, Unpinned
  <2>6. HeldFds'
    BY DEF SlotsOwned, CachedFds, HeldFds, UsedFds, Holds, Unpinned
  <2>7. UsedFds'
    BY DEF SlotsOwned, CachedFds, HeldFds, UsedFds, Holds, Unpinned
  <2>8. SharedReadIsAtomic'
    <3>1. \A u \in Threads : Pinned(u)' => u = t \/ Pinned(u)
      OBVIOUS
    <3>2. \A u \in Threads \ {t} : Pinned(u)' /\ shared'[u] =>
            /\ Pinned(u) /\ my[u] # my[t]
            /\ shared'[u] = shared[u] /\ my'[u] = my[u] /\ off'[u] = off[u]
      BY <3>1 DEF SharedReadIsAtomic
    <3>3. my[t] \in Slots /\ my'[t] = my[t] /\ off'[t] = pos[my[t]] /\ reading'[my[t]]
      BY ZenonT(30)
    <3>4. \A r \in Slots : r # my[t] => reading'[r] = reading[r]
      OBVIOUS
    <3>5. QED BY <3>2, <3>3, <3>4 DEF SharedReadIsAtomic
  <2>9. QED BY <2>1, <2>2, <2>3, <2>4, <2>5, <2>6, <2>7, <2>8 DEF IInv
<1>5. ASSUME ReadWakeReturns(t) PROVE IInv'
  <2> USE <1>5 DEF ReadWakeReturns, Return, StillMine
  <2>1. TypeOK'
    BY DEF Labels, Callers, Positions, Bytes, NoBytes
  <2>2. LocalsFit'
    BY DEF Labels, Callers, Positions, Bytes, NoBytes, SlotsOwned
  <2>3. SlotsOwned'
    BY DEF SlotsOwned, Unpinned
  <2>4. BusyCounts'
    <3>1. busy' = busy /\ \A r \in Slots : Pins(r)' = Pins(r)
      BY DEF SlotsOwned, Pins, Callers
    <3>2. QED BY <3>1 DEF BusyCounts
  <2>5. CachedFds'
    BY DEF SlotsOwned, CachedFds, HeldFds, UsedFds, Holds, Unpinned
  <2>6. HeldFds'
    BY DEF SlotsOwned, CachedFds, HeldFds, UsedFds, Holds, Unpinned
  <2>7. UsedFds'
    BY DEF SlotsOwned, CachedFds, HeldFds, UsedFds, Holds, Unpinned
  <2>8. SharedReadIsAtomic'
    BY DEF SlotsOwned, SharedReadIsAtomic, Unpinned
  <2>9. QED BY <2>1, <2>2, <2>3, <2>4, <2>5, <2>6, <2>7, <2>8 DEF IInv
<1>6. ASSUME WakeSleeps(t) PROVE IInv'
  <2> USE <1>6 DEF WakeSleeps, StillMine
  <2>1. TypeOK'
    BY DEF Labels, Callers, Positions, Bytes, NoBytes
  <2>2. LocalsFit'
    BY DEF Labels, Callers, Positions, Bytes, NoBytes, SlotsOwned
  <2>3. SlotsOwned'
    BY DEF SlotsOwned, Unpinned
  <2>4. BusyCounts'
    <3>1. busy' = busy /\ \A r \in Slots : Pins(r)' = Pins(r)
      BY DEF SlotsOwned, Pins, Callers
    <3>2. QED BY <3>1 DEF BusyCounts
  <2>5. CachedFds'
    BY DEF SlotsOwned, CachedFds, HeldFds, UsedFds, Holds, Unpinned
  <2>6. HeldFds'
    BY DEF SlotsOwned, CachedFds, HeldFds, UsedFds, Holds, Unpinned
  <2>7. UsedFds'
    BY DEF SlotsOwned, CachedFds, HeldFds, UsedFds, Holds, Unpinned
  <2>8. SharedReadIsAtomic'
    BY DEF SlotsOwned, SharedReadIsAtomic, Unpinned
  <2>9. QED BY <2>1, <2>2, <2>3, <2>4, <2>5, <2>6, <2>7, <2>8 DEF IInv
<1>7. QED BY <1>1, <1>2, <1>3, <1>4, <1>5, <1>6

\* A pinned read uses its slot's descriptor or one of its own.
LEMMA ReadRunKeeps ==
  ASSUME TypeOK, LocalsFit, SlotsOwned, BusyCounts, CachedFds, HeldFds, UsedFds,
         SharedReadIsAtomic, Unpinned, NEW t \in Threads
  PROVE  /\ ReadOpen(t) => IInv'
         /\ ReadOpenFails(t) => IInv'
         /\ Adopt(t) => IInv'
         /\ KeepTemporary(t) => IInv'
         /\ Pread(t) => IInv'
         /\ CloseTemporary(t) => IInv'
         /\ ReadFinish(t) => IInv'
<1> USE NumbersAssumption, SetsAssumption
      DEF slotVars, callVars, readVars, trimVars, TypeOK, TableOK, CallsOK, LocalsFit,
          InCall, Opening, Pinned, Free, Open, Closing, Reserved
<1>1. ASSUME ReadOpen(t) PROVE IInv'
  <2> USE <1>1 DEF ReadOpen, Goto, KernelOpen, FreeFds
  <2>1. TypeOK'
    BY DEF Labels, Callers, Positions, Bytes, NoBytes
  <2>2. LocalsFit'
    BY DEF Labels, Callers, Positions, Bytes, NoBytes, SlotsOwned
  <2>3. SlotsOwned'
    BY DEF SlotsOwned, Unpinned
  <2>4. BusyCounts'
    <3>1. busy' = busy /\ \A r \in Slots : Pins(r)' = Pins(r)
      BY DEF SlotsOwned, Pins, Callers
    <3>2. QED BY <3>1 DEF BusyCounts
  <2>5. CachedFds'
    <3>1. PICK d \in Fds : /\ kernel[d] = None
                          /\ kernel' = [kernel EXCEPT ![d] = path[my[t]]]
                          /\ fd' = [fd EXCEPT ![t] = d]
      OBVIOUS
    <3>2. path[my[t]] \in Files /\ path[my[t]] # None
      BY SMTT(30) DEF SlotsOwned
    <3>3. \A s \in Slots : raw[s] # d
      BY <3>1 DEF CachedFds, SlotsOwned
    <3>4. \A u \in Threads : ~Holds(u, d)
      BY <3>1 DEF HeldFds
    <3>5. QED BY <3>1, <3>3 DEF CachedFds, TypeOK, TableOK
  <2>6. HeldFds'
    <3>1. PICK d \in Fds : /\ kernel[d] = None
                          /\ kernel' = [kernel EXCEPT ![d] = path[my[t]]]
                          /\ fd' = [fd EXCEPT ![t] = d]
      OBVIOUS
    <3>2. path[my[t]] \in Files /\ path[my[t]] # None
      BY SMTT(30) DEF SlotsOwned
    <3>3. \A s \in Slots : raw[s] # d
      BY <3>1 DEF CachedFds, SlotsOwned
    <3>4. \A u \in Threads : ~Holds(u, d)
      BY <3>1 DEF HeldFds
    <3>5. \A u \in Threads, e \in Fds : Holds(u, e)' =>
            \/ u = t /\ e = d
            \/ u # t /\ e # d /\ Holds(u, e)
      BY <3>1, <3>4 DEF Holds
    <3>6. QED BY <3>1, <3>2, <3>3, <3>5 DEF HeldFds
  <2>7. UsedFds'
    BY DEF SlotsOwned, CachedFds, HeldFds, UsedFds, Holds, Unpinned
  <2>8. SharedReadIsAtomic'
    BY DEF SlotsOwned, SharedReadIsAtomic, Unpinned
  <2>9. QED BY <2>1, <2>2, <2>3, <2>4, <2>5, <2>6, <2>7, <2>8 DEF IInv
<1>2. ASSUME ReadOpenFails(t) PROVE IInv'
  <2> USE <1>2 DEF ReadOpenFails, Goto
  <2>1. TypeOK'
    BY DEF Labels, Callers, Positions, Bytes, NoBytes
  <2>2. LocalsFit'
    BY DEF Labels, Callers, Positions, Bytes, NoBytes, SlotsOwned
  <2>3. SlotsOwned'
    BY DEF SlotsOwned, Unpinned
  <2>4. BusyCounts'
    <3>1. busy' = busy /\ \A r \in Slots : Pins(r)' = Pins(r)
      BY DEF SlotsOwned, Pins, Callers
    <3>2. QED BY <3>1 DEF BusyCounts
  <2>5. CachedFds'
    BY DEF SlotsOwned, CachedFds, HeldFds, UsedFds, Holds, Unpinned
  <2>6. HeldFds'
    BY DEF SlotsOwned, CachedFds, HeldFds, UsedFds, Holds, Unpinned
  <2>7. UsedFds'
    BY DEF SlotsOwned, CachedFds, HeldFds, UsedFds, Holds, Unpinned
  <2>8. SharedReadIsAtomic'
    BY DEF SlotsOwned, SharedReadIsAtomic, Unpinned
  <2>9. QED BY <2>1, <2>2, <2>3, <2>4, <2>5, <2>6, <2>7, <2>8 DEF IInv
<1>3. ASSUME Adopt(t) PROVE IInv'
  <2> USE <1>3 DEF Adopt, Goto, Adoptable
  <2>1. TypeOK'
    BY DEF Labels, Callers, Positions, Bytes, NoBytes
  <2>2. LocalsFit'
    BY DEF Labels, Callers, Positions, Bytes, NoBytes, SlotsOwned
  <2>3. SlotsOwned'
    BY DEF SlotsOwned, Unpinned
  <2>4. BusyCounts'
    <3>1. busy' = busy /\ \A r \in Slots : Pins(r)' = Pins(r)
      BY DEF SlotsOwned, Pins, Callers
    <3>2. QED BY <3>1 DEF BusyCounts
  <2>5. CachedFds'
    BY DEF SlotsOwned, CachedFds, HeldFds, UsedFds, Holds, Unpinned
  <2>6. HeldFds'
    BY DEF SlotsOwned, CachedFds, HeldFds, UsedFds, Holds, Unpinned
  <2>7. UsedFds'
    BY DEF SlotsOwned, CachedFds, HeldFds, UsedFds, Holds, Unpinned
  <2>8. SharedReadIsAtomic'
    BY DEF SlotsOwned, SharedReadIsAtomic, Unpinned
  <2>9. QED BY <2>1, <2>2, <2>3, <2>4, <2>5, <2>6, <2>7, <2>8 DEF IInv
<1>4. ASSUME KeepTemporary(t) PROVE IInv'
  <2> USE <1>4 DEF KeepTemporary, Goto, Adoptable
  <2>1. TypeOK'
    BY DEF Labels, Callers, Positions, Bytes, NoBytes
  <2>2. LocalsFit'
    BY DEF Labels, Callers, Positions, Bytes, NoBytes, SlotsOwned
  <2>3. SlotsOwned'
    BY DEF SlotsOwned, Unpinned
  <2>4. BusyCounts'
    <3>1. busy' = busy /\ \A r \in Slots : Pins(r)' = Pins(r)
      BY DEF SlotsOwned, Pins, Callers
    <3>2. QED BY <3>1 DEF BusyCounts
  <2>5. CachedFds'
    BY DEF SlotsOwned, CachedFds, HeldFds, UsedFds, Holds, Unpinned
  <2>6. HeldFds'
    BY DEF SlotsOwned, CachedFds, HeldFds, UsedFds, Holds, Unpinned
  <2>7. UsedFds'
    <3>1. \A u \in Threads \ {t} : pc'[u] = pc[u]
      OBVIOUS
    <3>2. pc[t] = "adopt" /\ pc'[t] = "pread" /\ kernel[fd[t]] = path[my[t]]
      BY DEF UsedFds
    <3>3. temporary[t]
      OBVIOUS
    <3>4. QED BY <3>1, <3>2, <3>3 DEF UsedFds
  <2>8. SharedReadIsAtomic'
    BY DEF SlotsOwned, SharedReadIsAtomic, Unpinned
  <2>9. QED BY <2>1, <2>2, <2>3, <2>4, <2>5, <2>6, <2>7, <2>8 DEF IInv
<1>5. ASSUME Pread(t) PROVE IInv'
  <2> USE <1>5 DEF Pread, Goto
  <2>1. TypeOK'
    BY DEF Labels, Callers, Positions, Bytes, NoBytes
  <2>2. LocalsFit'
    BY DEF Labels, Callers, Positions, Bytes, NoBytes, SlotsOwned
  <2>3. SlotsOwned'
    BY DEF SlotsOwned, Unpinned
  <2>4. BusyCounts'
    <3>1. busy' = busy /\ \A r \in Slots : Pins(r)' = Pins(r)
      BY DEF SlotsOwned, Pins, Callers
    <3>2. QED BY <3>1 DEF BusyCounts
  <2>5. CachedFds'
    BY DEF SlotsOwned, CachedFds, HeldFds, UsedFds, Holds, Unpinned
  <2>6. HeldFds'
    BY DEF SlotsOwned, CachedFds, HeldFds, UsedFds, Holds, Unpinned
  <2>7. UsedFds'
    BY DEF SlotsOwned, CachedFds, HeldFds, UsedFds, Holds, Unpinned
  <2>8. SharedReadIsAtomic'
    BY DEF SlotsOwned, SharedReadIsAtomic, Unpinned
  <2>9. QED BY <2>1, <2>2, <2>3, <2>4, <2>5, <2>6, <2>7, <2>8 DEF IInv
<1>6. ASSUME CloseTemporary(t) PROVE IInv'
  <2> USE <1>6 DEF CloseTemporary, Goto
  <2>1. TypeOK'
    BY DEF Labels, Callers, Positions, Bytes, NoBytes
  <2>2. LocalsFit'
    BY DEF Labels, Callers, Positions, Bytes, NoBytes, SlotsOwned
  <2>3. SlotsOwned'
    BY DEF SlotsOwned, Unpinned
  <2>4. BusyCounts'
    <3>1. busy' = busy /\ \A r \in Slots : Pins(r)' = Pins(r)
      BY DEF SlotsOwned, Pins, Callers
    <3>2. QED BY <3>1 DEF BusyCounts
  <2>5. CachedFds'
    <3>1. fd[t] \in Fds /\ Holds(t, fd[t])
      BY DEF Holds
    <3>2. \A s \in Slots : raw[s] # fd[t]
      BY <3>1 DEF HeldFds
    <3>3. \A u \in Threads \ {t} : ~Holds(u, fd[t])
      BY <3>1 DEF HeldFds
    <3>4. QED BY <3>1, <3>2 DEF CachedFds, TypeOK, TableOK
  <2>6. HeldFds'
    <3>1. fd[t] \in Fds /\ Holds(t, fd[t])
      BY DEF Holds
    <3>2. \A s \in Slots : raw[s] # fd[t]
      BY <3>1 DEF HeldFds
    <3>3. \A u \in Threads \ {t} : ~Holds(u, fd[t])
      BY <3>1 DEF HeldFds
    <3>4. \A u \in Threads, e \in Fds : Holds(u, e)' => u # t /\ e # fd[t] /\ Holds(u, e)
      BY <3>3 DEF Holds
    <3>5. QED BY <3>1, <3>4 DEF HeldFds
  <2>7. UsedFds'
    <3>1. fd[t] \in Fds /\ Holds(t, fd[t])
      BY DEF Holds
    <3>2. \A s \in Slots : raw[s] # fd[t]
      BY <3>1 DEF HeldFds
    <3>3. \A u \in Threads \ {t} : ~Holds(u, fd[t])
      BY <3>1 DEF HeldFds
    <3>4. \A u \in Threads : pc'[u] \in {"publish", "adopt", "pread", "closeTemp"} =>
            u # t /\ pc'[u] = pc[u] /\ fd[u] \in Fds
      OBVIOUS
    <3>5. QED BY <3>1, <3>2, <3>3, <3>4 DEF UsedFds, Holds
  <2>8. SharedReadIsAtomic'
    BY DEF SlotsOwned, SharedReadIsAtomic, Unpinned
  <2>9. QED BY <2>1, <2>2, <2>3, <2>4, <2>5, <2>6, <2>7, <2>8 DEF IInv
<1>7. ASSUME ReadFinish(t) PROVE IInv'
  <2> USE <1>7 DEF ReadFinish, Return, Broadcast
  <2>1. TypeOK'
    BY DEF Labels, Callers, Positions, Bytes, NoBytes
  <2>2. LocalsFit'
    BY DEF Labels, Callers, Positions, Bytes, NoBytes, SlotsOwned
  <2>3. SlotsOwned'
    BY DEF SlotsOwned, Unpinned
  <2>4. BusyCounts'
    <3>0. PICK s \in Slots : s = my[t]
      OBVIOUS
    <3>1. t \in Pins(s) /\ Pins(s)' = Pins(s) \ {t}
      BY <3>0 DEF Pins
    <3>2. \A r \in Slots \ {s} : Pins(r)' = Pins(r)
      BY <3>0 DEF Pins
    <3>3. busy' = [busy EXCEPT ![s] = @ - 1]
      BY <3>0
    <3>4. QED BY <3>1, <3>2, <3>3, UnpinCounted
  <2>5. CachedFds'
    BY DEF SlotsOwned, CachedFds, HeldFds, UsedFds, Holds, Unpinned
  <2>6. HeldFds'
    BY DEF SlotsOwned, CachedFds, HeldFds, UsedFds, Holds, Unpinned
  <2>7. UsedFds'
    BY DEF SlotsOwned, CachedFds, HeldFds, UsedFds, Holds, Unpinned
  <2>8. SharedReadIsAtomic'
    BY DEF SlotsOwned, SharedReadIsAtomic, Unpinned
  <2>9. QED BY <2>1, <2>2, <2>3, <2>4, <2>5, <2>6, <2>7, <2>8 DEF IInv
<1>8. QED BY <1>1, <1>2, <1>3, <1>4, <1>5, <1>6, <1>7

\* A seek moves the position only while no shared read runs.
LEMMA SeekKeeps ==
  ASSUME TypeOK, LocalsFit, SlotsOwned, BusyCounts, CachedFds, HeldFds, UsedFds,
         SharedReadIsAtomic, Unpinned, NEW t \in Threads
  PROVE  /\ (\E s \in Slots, p \in 0 .. MaxPos : SeekCall(t, s, p)) => IInv'
         /\ (\E s \in Slots, p \in 0 .. MaxPos : SeekCallSleeps(t, s, p)) => IInv'
         /\ SeekWake(t) => IInv'
         /\ SeekWakeReturns(t) => IInv'
<1> USE NumbersAssumption, SetsAssumption
      DEF slotVars, callVars, readVars, trimVars, TypeOK, TableOK, CallsOK, LocalsFit,
          InCall, Opening, Pinned, Free, Open, Closing, Reserved
<1>1. ASSUME NEW s \in Slots, NEW p \in 0 .. MaxPos, SeekCall(t, s, p) PROVE IInv'
  <2> USE <1>1 DEF SeekCall
  <2>1. TypeOK'
    BY DEF Labels, Callers, Positions, Bytes, NoBytes
  <2>2. LocalsFit'
    BY DEF Labels, Callers, Positions, Bytes, NoBytes, SlotsOwned
  <2>3. SlotsOwned'
    BY DEF SlotsOwned, Unpinned
  <2>4. BusyCounts'
    <3>1. busy' = busy /\ \A r \in Slots : Pins(r)' = Pins(r)
      BY DEF SlotsOwned, Pins, Callers
    <3>2. QED BY <3>1 DEF BusyCounts
  <2>5. CachedFds'
    BY DEF SlotsOwned, CachedFds, HeldFds, UsedFds, Holds, Unpinned
  <2>6. HeldFds'
    BY DEF SlotsOwned, CachedFds, HeldFds, UsedFds, Holds, Unpinned
  <2>7. UsedFds'
    BY DEF SlotsOwned, CachedFds, HeldFds, UsedFds, Holds, Unpinned
  <2>8. SharedReadIsAtomic'
    BY DEF SlotsOwned, SharedReadIsAtomic, Unpinned
  <2>9. QED BY <2>1, <2>2, <2>3, <2>4, <2>5, <2>6, <2>7, <2>8 DEF IInv
<1>2. ASSUME NEW s \in Slots, NEW p \in 0 .. MaxPos, SeekCallSleeps(t, s, p) PROVE IInv'
  <2> USE <1>2 DEF SeekCallSleeps, Goto
  <2>1. TypeOK'
    BY DEF Labels, Callers, Positions, Bytes, NoBytes
  <2>2. LocalsFit'
    BY DEF Labels, Callers, Positions, Bytes, NoBytes, SlotsOwned
  <2>3. SlotsOwned'
    BY DEF SlotsOwned, Unpinned
  <2>4. BusyCounts'
    <3>1. busy' = busy /\ \A r \in Slots : Pins(r)' = Pins(r)
      BY DEF SlotsOwned, Pins, Callers
    <3>2. QED BY <3>1 DEF BusyCounts
  <2>5. CachedFds'
    BY DEF SlotsOwned, CachedFds, HeldFds, UsedFds, Holds, Unpinned
  <2>6. HeldFds'
    BY DEF SlotsOwned, CachedFds, HeldFds, UsedFds, Holds, Unpinned
  <2>7. UsedFds'
    BY DEF SlotsOwned, CachedFds, HeldFds, UsedFds, Holds, Unpinned
  <2>8. SharedReadIsAtomic'
    BY DEF SlotsOwned, SharedReadIsAtomic, Unpinned
  <2>9. QED BY <2>1, <2>2, <2>3, <2>4, <2>5, <2>6, <2>7, <2>8 DEF IInv
<1>3. ASSUME SeekWake(t) PROVE IInv'
  <2> USE <1>3 DEF SeekWake, Return, StillMine
  <2>1. TypeOK'
    BY DEF Labels, Callers, Positions, Bytes, NoBytes
  <2>2. LocalsFit'
    BY DEF Labels, Callers, Positions, Bytes, NoBytes, SlotsOwned
  <2>3. SlotsOwned'
    BY DEF SlotsOwned, Unpinned
  <2>4. BusyCounts'
    <3>1. busy' = busy /\ \A r \in Slots : Pins(r)' = Pins(r)
      BY DEF SlotsOwned, Pins, Callers
    <3>2. QED BY <3>1 DEF BusyCounts
  <2>5. CachedFds'
    BY DEF SlotsOwned, CachedFds, HeldFds, UsedFds, Holds, Unpinned
  <2>6. HeldFds'
    BY DEF SlotsOwned, CachedFds, HeldFds, UsedFds, Holds, Unpinned
  <2>7. UsedFds'
    BY DEF SlotsOwned, CachedFds, HeldFds, UsedFds, Holds, Unpinned
  <2>8. SharedReadIsAtomic'
    BY DEF SlotsOwned, SharedReadIsAtomic, Unpinned
  <2>9. QED BY <2>1, <2>2, <2>3, <2>4, <2>5, <2>6, <2>7, <2>8 DEF IInv
<1>4. ASSUME SeekWakeReturns(t) PROVE IInv'
  <2> USE <1>4 DEF SeekWakeReturns, Return, StillMine
  <2>1. TypeOK'
    BY DEF Labels, Callers, Positions, Bytes, NoBytes
  <2>2. LocalsFit'
    BY DEF Labels, Callers, Positions, Bytes, NoBytes, SlotsOwned
  <2>3. SlotsOwned'
    BY DEF SlotsOwned, Unpinned
  <2>4. BusyCounts'
    <3>1. busy' = busy /\ \A r \in Slots : Pins(r)' = Pins(r)
      BY DEF SlotsOwned, Pins, Callers
    <3>2. QED BY <3>1 DEF BusyCounts
  <2>5. CachedFds'
    BY DEF SlotsOwned, CachedFds, HeldFds, UsedFds, Holds, Unpinned
  <2>6. HeldFds'
    BY DEF SlotsOwned, CachedFds, HeldFds, UsedFds, Holds, Unpinned
  <2>7. UsedFds'
    BY DEF SlotsOwned, CachedFds, HeldFds, UsedFds, Holds, Unpinned
  <2>8. SharedReadIsAtomic'
    BY DEF SlotsOwned, SharedReadIsAtomic, Unpinned
  <2>9. QED BY <2>1, <2>2, <2>3, <2>4, <2>5, <2>6, <2>7, <2>8 DEF IInv
<1>5. QED BY <1>1, <1>2, <1>3, <1>4

\* A close frees a slot only when no read pins it.
LEMMA CloseKeeps ==
  ASSUME TypeOK, LocalsFit, SlotsOwned, BusyCounts, CachedFds, HeldFds, UsedFds,
         SharedReadIsAtomic, Unpinned, NEW t \in Threads
  PROVE  /\ (\E s \in Slots : CloseCall(t, s)) => IInv'
         /\ (\E s \in Slots : CloseCallWaits(t, s)) => IInv'
         /\ CloseWake(t) => IInv'
         /\ CloseWakeSleeps(t) => IInv'
         /\ CloseRaw(t) => IInv'
<1> USE NumbersAssumption, SetsAssumption
      DEF slotVars, callVars, readVars, trimVars, TypeOK, TableOK, CallsOK, LocalsFit,
          InCall, Opening, Pinned, Free, Open, Closing, Reserved
<1>1. ASSUME NEW s \in Slots, CloseCall(t, s) PROVE IInv'
  <2> USE <1>1 DEF CloseCall, Recycle, Goto
  <2>1. TypeOK'
    BY DEF Labels, Callers, Positions, Bytes, NoBytes
  <2>2. LocalsFit'
    BY DEF Labels, Callers, Positions, Bytes, NoBytes, SlotsOwned
  <2>3. SlotsOwned'
    BY DEF SlotsOwned, Unpinned
  <2>4. BusyCounts'
    <3>1. busy' = busy /\ \A r \in Slots : Pins(r)' = Pins(r)
      BY DEF SlotsOwned, Pins, Callers
    <3>2. QED BY <3>1 DEF BusyCounts
  <2>5. CachedFds'
    BY DEF SlotsOwned, CachedFds, HeldFds, UsedFds, Holds, Unpinned
  <2>6. HeldFds'
    BY DEF SlotsOwned, CachedFds, HeldFds, UsedFds, Holds, Unpinned
  <2>7. UsedFds'
    BY DEF SlotsOwned, CachedFds, HeldFds, UsedFds, Holds, Unpinned
  <2>8. SharedReadIsAtomic'
    BY DEF SlotsOwned, SharedReadIsAtomic, Unpinned
  <2>9. QED BY <2>1, <2>2, <2>3, <2>4, <2>5, <2>6, <2>7, <2>8 DEF IInv
<1>2. ASSUME NEW s \in Slots, CloseCallWaits(t, s) PROVE IInv'
  <2> USE <1>2 DEF CloseCallWaits, Goto
  <2>1. TypeOK'
    BY DEF Labels, Callers, Positions, Bytes, NoBytes
  <2>2. LocalsFit'
    BY DEF Labels, Callers, Positions, Bytes, NoBytes, SlotsOwned
  <2>3. SlotsOwned'
    BY DEF SlotsOwned, Unpinned
  <2>4. BusyCounts'
    <3>1. busy' = busy /\ \A r \in Slots : Pins(r)' = Pins(r)
      BY DEF SlotsOwned, Pins, Callers
    <3>2. QED BY <3>1 DEF BusyCounts
  <2>5. CachedFds'
    BY DEF SlotsOwned, CachedFds, HeldFds, UsedFds, Holds, Unpinned
  <2>6. HeldFds'
    BY DEF SlotsOwned, CachedFds, HeldFds, UsedFds, Holds, Unpinned
  <2>7. UsedFds'
    BY DEF SlotsOwned, CachedFds, HeldFds, UsedFds, Holds, Unpinned
  <2>8. SharedReadIsAtomic'
    BY DEF SlotsOwned, SharedReadIsAtomic, Unpinned
  <2>9. QED BY <2>1, <2>2, <2>3, <2>4, <2>5, <2>6, <2>7, <2>8 DEF IInv
<1>3. ASSUME CloseWake(t) PROVE IInv'
  <2> USE <1>3 DEF CloseWake, Recycle, Goto
  <2>1. TypeOK'
    BY DEF Labels, Callers, Positions, Bytes, NoBytes
  <2>2. LocalsFit'
    BY DEF Labels, Callers, Positions, Bytes, NoBytes, SlotsOwned
  <2>3. SlotsOwned'
    BY DEF SlotsOwned, Unpinned
  <2>4. BusyCounts'
    <3>1. busy' = busy /\ \A r \in Slots : Pins(r)' = Pins(r)
      BY DEF SlotsOwned, Pins, Callers
    <3>2. QED BY <3>1 DEF BusyCounts
  <2>5. CachedFds'
    BY DEF SlotsOwned, CachedFds, HeldFds, UsedFds, Holds, Unpinned
  <2>6. HeldFds'
    BY DEF SlotsOwned, CachedFds, HeldFds, UsedFds, Holds, Unpinned
  <2>7. UsedFds'
    BY DEF SlotsOwned, CachedFds, HeldFds, UsedFds, Holds, Unpinned
  <2>8. SharedReadIsAtomic'
    BY DEF SlotsOwned, SharedReadIsAtomic, Unpinned
  <2>9. QED BY <2>1, <2>2, <2>3, <2>4, <2>5, <2>6, <2>7, <2>8 DEF IInv
<1>4. ASSUME CloseWakeSleeps(t) PROVE IInv'
  <2> USE <1>4 DEF CloseWakeSleeps
  <2>1. TypeOK'
    BY DEF Labels, Callers, Positions, Bytes, NoBytes
  <2>2. LocalsFit'
    BY DEF Labels, Callers, Positions, Bytes, NoBytes, SlotsOwned
  <2>3. SlotsOwned'
    BY DEF SlotsOwned, Unpinned
  <2>4. BusyCounts'
    <3>1. busy' = busy /\ \A r \in Slots : Pins(r)' = Pins(r)
      BY DEF SlotsOwned, Pins, Callers
    <3>2. QED BY <3>1 DEF BusyCounts
  <2>5. CachedFds'
    BY DEF SlotsOwned, CachedFds, HeldFds, UsedFds, Holds, Unpinned
  <2>6. HeldFds'
    BY DEF SlotsOwned, CachedFds, HeldFds, UsedFds, Holds, Unpinned
  <2>7. UsedFds'
    BY DEF SlotsOwned, CachedFds, HeldFds, UsedFds, Holds, Unpinned
  <2>8. SharedReadIsAtomic'
    BY DEF SlotsOwned, SharedReadIsAtomic, Unpinned
  <2>9. QED BY <2>1, <2>2, <2>3, <2>4, <2>5, <2>6, <2>7, <2>8 DEF IInv
<1>5. ASSUME CloseRaw(t) PROVE IInv'
  <2> USE <1>5 DEF CloseRaw, Return
  <2>1. TypeOK'
    BY DEF Labels, Callers, Positions, Bytes, NoBytes
  <2>2. LocalsFit'
    BY DEF Labels, Callers, Positions, Bytes, NoBytes, SlotsOwned
  <2>3. SlotsOwned'
    BY DEF SlotsOwned, Unpinned
  <2>4. BusyCounts'
    <3>1. busy' = busy /\ \A r \in Slots : Pins(r)' = Pins(r)
      BY DEF SlotsOwned, Pins, Callers
    <3>2. QED BY <3>1 DEF BusyCounts
  <2>5. CachedFds'
    BY DEF SlotsOwned, CachedFds, HeldFds, UsedFds, Holds, Unpinned
  <2>6. HeldFds'
    BY DEF SlotsOwned, CachedFds, HeldFds, UsedFds, Holds, Unpinned
  <2>7. UsedFds'
    BY DEF SlotsOwned, CachedFds, HeldFds, UsedFds, Holds, Unpinned
  <2>8. SharedReadIsAtomic'
    BY DEF SlotsOwned, SharedReadIsAtomic, Unpinned
  <2>9. QED BY <2>1, <2>2, <2>3, <2>4, <2>5, <2>6, <2>7, <2>8 DEF IInv
<1>6. QED BY <1>1, <1>2, <1>3, <1>4, <1>5

\* A step that changes nothing keeps everything.
LEMMA StutterKeeps ==
  ASSUME IInv, UNCHANGED vars
  PROVE  IInv'
<1> USE DEF vars, slotVars, callVars, readVars, trimVars, IInv
<1>1. TypeOK' BY DEF TypeOK, TableOK, CallsOK
<1>2. LocalsFit' BY DEF LocalsFit, InCall, Opening, Pinned
<1>3. SlotsOwned' BY DEF SlotsOwned, Opening, Pinned
<1>4. BusyCounts' BY DEF BusyCounts, Pins, Pinned
<1>5. CachedFds' BY DEF CachedFds
<1>6. HeldFds' BY DEF HeldFds, Holds
<1>7. UsedFds' BY DEF UsedFds
<1>8. SharedReadIsAtomic' BY DEF SharedReadIsAtomic, Pinned
<1>9. QED BY <1>1, <1>2, <1>3, <1>4, <1>5, <1>6, <1>7, <1>8

\* busy counts the pins, so a slot it says nobody pins is pinned by nobody.
LEMMA CountedMeansUnpinned ==
  ASSUME BusyCounts
  PROVE  Unpinned
<1>1. SUFFICES ASSUME NEW s \in Slots, busy[s] = 0 PROVE Pins(s) = {}
  BY DEF Unpinned, Pins
<1>2. Cardinality(Pins(s)) = 0
  BY <1>1 DEF BusyCounts
<1>3. QED BY <1>2, PinsFinite, FS_EmptySet

\* Nothing is reserved, open or pinned at the start.
LEMMA InitEstablishes == Init => IInv
<1> SUFFICES ASSUME Init PROVE IInv
  OBVIOUS
<1> USE SetsAssumption, NumbersAssumption DEF Init
<1>1. TypeOK
  BY DEF TypeOK, TableOK, CallsOK, Free, Labels, Callers, Positions, Bytes, NoBytes
<1>2. \A t \in Threads : ~Pinned(t) /\ ~Opening(t)
  BY DEF Pinned, Opening
<1>3. LocalsFit
  BY <1>2 DEF LocalsFit, InCall, NoBytes
<1>4. SlotsOwned
  BY <1>2 DEF SlotsOwned, Free
<1>5. BusyCounts
  <2>1. \A s \in Slots : Pins(s) = {}
    BY <1>2 DEF Pins
  <2>2. QED BY <2>1, FS_EmptySet DEF BusyCounts
<1>6. CachedFds /\ HeldFds /\ UsedFds
  BY DEF CachedFds, HeldFds, UsedFds, Holds
<1>7. SharedReadIsAtomic
  BY <1>2 DEF SharedReadIsAtomic
<1>8. QED BY <1>1, <1>3, <1>4, <1>5, <1>6, <1>7 DEF IInv

LEMMA NextKeeps == IInv /\ [Next]_vars => IInv'
<1>1. ASSUME IInv, NEW t \in Threads, Progress(t) PROVE IInv'
  BY <1>1, CountedMeansUnpinned, TrimKeeps, OpenKeeps, ReadBeginKeeps, ReadRunKeeps,
     SeekKeeps, CloseKeeps
  DEF Progress, IInv
<1>2. ASSUME IInv, NEW t \in Threads, Call(t) PROVE IInv'
  BY <1>2, CountedMeansUnpinned, TrimKeeps, OpenKeeps, ReadBeginKeeps, ReadRunKeeps,
     SeekKeeps, CloseKeeps
  DEF Call, IInv
<1>3. QED BY <1>1, <1>2, StutterKeeps DEF Next

THEOREM Invariant == Spec => []IInv
BY InitEstablishes, NextKeeps, PTL DEF Spec

\* Every field of the descriptor table and every local of a running call keeps
\* its range: a position never passes MaxPos + Length and a clipped read never
\* runs past the end of its asset, for any number of threads, slots and
\* descriptors.
THEOREM TypeCorrect == Spec => []TypeOK
<1>1. IInv => TypeOK BY DEF IInv
<1>2. QED BY <1>1, Invariant, PTL

\* asset_vfd_read_at preads only a descriptor that is open on the path of the
\* slot the read was called on: a trim evicts a slot only at busy = 0, and a
\* temporary descriptor is held by its reader alone.
THEOREM ReadsOwnFile == Spec => []ReadsItsOwnFile
<1>1. IInv => ReadsItsOwnFile
  <2> SUFFICES ASSUME IInv, NEW t \in Threads, pc[t] = "pread"
               PROVE  /\ kernel[fd[t]] = path[my[t]]
                      /\ kernel[fd[t]] # None
                      /\ (~temporary[t] => raw[my[t]] = fd[t])
    BY DEF ReadsItsOwnFile, IInv
  <2>1. my[t] \in Slots /\ used[my[t]] \in {Open, Closing}
    BY DEF IInv, LocalsFit, InCall, Pinned, SlotsOwned
  <2>2. path[my[t]] \in Files /\ path[my[t]] # None
    BY <2>1, SetsAssumption DEF IInv, SlotsOwned, Free, Open, Closing
  <2>3. ~temporary[t] => raw[my[t]] = fd[t] /\ kernel[fd[t]] = path[my[t]]
    <3>1. ~temporary[t] => raw[my[t]] = fd[t]
      BY DEF IInv, UsedFds
    <3>2. fd[t] # None
      BY SetsAssumption DEF IInv, LocalsFit
    <3>3. QED BY <2>1, <3>1, <3>2 DEF IInv, CachedFds
  <2>4. temporary[t] => kernel[fd[t]] = path[my[t]]
    BY DEF IInv, UsedFds
  <2>5. QED BY <2>2, <2>3, <2>4
<1>2. QED BY <1>1, Invariant, PTL

\* asset_vfd_close and a reuse of the slot wait for every read of it: a pinned
\* slot is the incarnation the read was called on, and busy is the number of
\* its readers.
THEOREM PinnedStays == Spec => []PinnedSlotStays
<1>1. IInv => PinnedSlotStays
  BY DEF IInv, SlotsOwned, BusyCounts, PinnedSlotStays
<1>2. QED BY <1>1, Invariant, PTL

\* No lseek and no other read() changes the position while a read() is between
\* its two lock sections, however many threads use the descriptor.
THEOREM SharedAtomic == Spec => []SharedReadIsAtomic
<1>1. IInv => SharedReadIsAtomic BY DEF IInv
<1>2. QED BY <1>1, Invariant, PTL

-----------------------------------------------------------------------------
(* From the invariant of the reads: owners, the cache, sleepers.            *)

\* An open kernel descriptor belongs to some slot or some call.
NoLeak ==
  \A d \in Fds : kernel[d] # None =>
    (\E s \in Slots : raw[s] = d) \/ (\E t \in Threads : Holds(t, d))

\* Only a wait sleeps.
SleepersFit == \A t \in asleep : pc[t] \in {"readWait", "seekWait", "closeWait"}

\* A slot marked as being read is pinned by a shared reader.
ReadingIsRead ==
  \A s \in Slots : reading[s] =>
    \E u \in Threads : Pinned(u) /\ my[u] = s /\ shared[u]

\* A reserved slot is at its beginning, bytes are of the offset asked for, and
\* a seek waits for a position it may set.
ReservedIsNew == \A s \in Slots : used[s] = Reserved => pos[s] = 0
AnswersFit ==
  \A t \in Threads : /\ got[t][3] > 0 => got[t][2] = off[t]
                     /\ pc[t] = "seekWait" => off[t] \in 0 .. MaxPos

\* The cached descriptors are counted.
LiveCounts == live = Cardinality(RawSlots)
Bounded == \/ live <= SoftMax + Cardinality(Publishers)
           \/ live < Cardinality(Threads) + Cardinality(Publishers)

MoreInv == /\ NoLeak /\ SleepersFit /\ ReadingIsRead /\ SleeperHasWaker
           /\ ReservedIsNew /\ AnswersFit /\ LiveCounts /\ Bounded

-----------------------------------------------------------------------------
\* The locals of a call are its thread's own.
Stays(u) ==
  /\ pc'[u] = pc[u] /\ my'[u] = my[u] /\ mygen'[u] = mygen[u] /\ fd'[u] = fd[u]
  /\ off'[u] = off[u] /\ count'[u] = count[u] /\ shared'[u] = shared[u]
  /\ temporary'[u] = temporary[u] /\ target'[u] = target[u]
  /\ victim'[u] = victim[u] /\ caller'[u] = caller[u] /\ got'[u] = got[u]

\* A step of one thread leaves the locals of the others alone.
LEMMA OthersStay ==
  ASSUME TypeOK,
         NEW t \in Threads, Progress(t) \/ Call(t)
  PROVE  \A u \in Threads \ {t} : Stays(u)
<1> USE SetsAssumption, NumbersAssumption
      DEF slotVars, callVars, readVars, trimVars, TypeOK, CallsOK, Stays
<1>1. ASSUME TrimReturn(t) PROVE \A u \in Threads \ {t} : Stays(u)
  BY <1>1 DEF TrimReturn, Goto, Evictable
<1>2. ASSUME TrimEvict(t) PROVE \A u \in Threads \ {t} : Stays(u)
  BY <1>2 DEF TrimEvict, Goto, Evictable
<1>3. ASSUME TrimClose(t) PROVE \A u \in Threads \ {t} : Stays(u)
  BY <1>3 DEF TrimClose, Goto
<1>4. ASSUME NEW f \in Files, Reserve(t, f) PROVE \A u \in Threads \ {t} : Stays(u)
  BY <1>4 DEF Reserve, Goto
<1>5. ASSUME ReserveFails(t) PROVE \A u \in Threads \ {t} : Stays(u)
  BY <1>5 DEF ReserveFails, Goto
<1>6. ASSUME OpenRaw(t) PROVE \A u \in Threads \ {t} : Stays(u)
  BY <1>6 DEF OpenRaw, Goto, KernelOpen, FreeFds
<1>7. ASSUME OpenRawExhausted(t) PROVE \A u \in Threads \ {t} : Stays(u)
  BY <1>7 DEF OpenRawExhausted, TrimCall, Goto
<1>8. ASSUME OpenRawFails(t) PROVE \A u \in Threads \ {t} : Stays(u)
  BY <1>8 DEF OpenRawFails, Goto
<1>9. ASSUME OpenUnreserve(t) PROVE \A u \in Threads \ {t} : Stays(u)
  BY <1>9 DEF OpenUnreserve, Goto
<1>10. ASSUME OpenPublish(t) PROVE \A u \in Threads \ {t} : Stays(u)
  BY <1>10 DEF OpenPublish, TrimCall, Goto
<1>11. ASSUME ReadWake(t) PROVE \A u \in Threads \ {t} : Stays(u)
  BY <1>11 DEF ReadWake, ReadPin, StillMine
<1>12. ASSUME ReadWakeReturns(t) PROVE \A u \in Threads \ {t} : Stays(u)
  BY <1>12 DEF ReadWakeReturns, Return, StillMine
<1>13. ASSUME WakeSleeps(t) PROVE \A u \in Threads \ {t} : Stays(u)
  BY <1>13 DEF WakeSleeps, StillMine
<1>14. ASSUME ReadOpen(t) PROVE \A u \in Threads \ {t} : Stays(u)
  BY <1>14 DEF ReadOpen, Goto, KernelOpen, FreeFds
<1>15. ASSUME ReadOpenFails(t) PROVE \A u \in Threads \ {t} : Stays(u)
  BY <1>15 DEF ReadOpenFails, Goto
<1>16. ASSUME Adopt(t) PROVE \A u \in Threads \ {t} : Stays(u)
  BY <1>16 DEF Adopt, Goto, Adoptable
<1>17. ASSUME KeepTemporary(t) PROVE \A u \in Threads \ {t} : Stays(u)
  BY <1>17 DEF KeepTemporary, Goto, Adoptable
<1>18. ASSUME Pread(t) PROVE \A u \in Threads \ {t} : Stays(u)
  BY <1>18 DEF Pread, Goto
<1>19. ASSUME CloseTemporary(t) PROVE \A u \in Threads \ {t} : Stays(u)
  BY <1>19 DEF CloseTemporary, Goto
<1>20. ASSUME ReadFinish(t) PROVE \A u \in Threads \ {t} : Stays(u)
  BY <1>20 DEF ReadFinish, Return, Broadcast
<1>21. ASSUME SeekWake(t) PROVE \A u \in Threads \ {t} : Stays(u)
  BY <1>21 DEF SeekWake, Return, StillMine
<1>22. ASSUME SeekWakeReturns(t) PROVE \A u \in Threads \ {t} : Stays(u)
  BY <1>22 DEF SeekWakeReturns, Return, StillMine
<1>23. ASSUME CloseWake(t) PROVE \A u \in Threads \ {t} : Stays(u)
  BY <1>23 DEF CloseWake, Recycle, Goto
<1>24. ASSUME CloseWakeSleeps(t) PROVE \A u \in Threads \ {t} : Stays(u)
  BY <1>24 DEF CloseWakeSleeps
<1>25. ASSUME CloseRaw(t) PROVE \A u \in Threads \ {t} : Stays(u)
  BY <1>25 DEF CloseRaw, Return
<1>26. ASSUME OpenCall(t) PROVE \A u \in Threads \ {t} : Stays(u)
  BY <1>26 DEF OpenCall, TrimCall, Goto
<1>27. ASSUME StreamTrim(t) PROVE \A u \in Threads \ {t} : Stays(u)
  BY <1>27 DEF StreamTrim, TrimCall, Goto
<1>28. ASSUME NEW s \in Slots, NEW o \in 0 .. Length, NEW n \in 0 .. Length + 1,
              PreadCall(t, s, o, n)
       PROVE  \A u \in Threads \ {t} : Stays(u)
  BY <1>28 DEF PreadCall, ReadPin
<1>29. ASSUME NEW s \in Slots, NEW n \in 0 .. Length + 1, ReadCall(t, s, n)
       PROVE  \A u \in Threads \ {t} : Stays(u)
  BY <1>29 DEF ReadCall, ReadPin
<1>30. ASSUME NEW s \in Slots, NEW n \in 0 .. Length + 1, ReadCallSleeps(t, s, n)
       PROVE  \A u \in Threads \ {t} : Stays(u)
  BY <1>30 DEF ReadCallSleeps, Goto
<1>31. ASSUME NEW s \in Slots, NEW p \in 0 .. MaxPos, SeekCall(t, s, p)
       PROVE  \A u \in Threads \ {t} : Stays(u)
  BY <1>31 DEF SeekCall
<1>32. ASSUME NEW s \in Slots, NEW p \in 0 .. MaxPos, SeekCallSleeps(t, s, p)
       PROVE  \A u \in Threads \ {t} : Stays(u)
  BY <1>32 DEF SeekCallSleeps, Goto
<1>33. ASSUME NEW s \in Slots, CloseCall(t, s) PROVE \A u \in Threads \ {t} : Stays(u)
  BY <1>33 DEF CloseCall, Recycle, Goto
<1>34. ASSUME NEW s \in Slots, CloseCallWaits(t, s) PROVE \A u \in Threads \ {t} : Stays(u)
  BY <1>34 DEF CloseCallWaits, Goto
<1>35. QED BY <1>1, <1>2, <1>3, <1>4, <1>5, <1>6, <1>7, <1>8, <1>9, <1>10,
         <1>11, <1>12, <1>13, <1>14, <1>15, <1>16, <1>17, <1>18, <1>19,
         <1>20, <1>21, <1>22, <1>23, <1>24, <1>25, <1>26, <1>27, <1>28,
         <1>29, <1>30, <1>31, <1>32, <1>33, <1>34 DEF Progress, Call

\* What a step opens or takes out of the table it holds.
LEMMA NothingLeaks ==
  ASSUME IInv, MoreInv,
         NEW t \in Threads, Progress(t) \/ Call(t)
  PROVE  NoLeak'
<1> USE SetsAssumption, NumbersAssumption
      DEF slotVars, callVars, readVars, trimVars, IInv, TypeOK, TableOK, CallsOK, MoreInv,
          NoLeak, LocalsFit
<1>0. \A u \in Threads \ {t} : /\ Stays(u) /\ (Pinned(u)' <=> Pinned(u))
                              /\ \A d : Holds(u, d)' <=> Holds(u, d)
  BY OthersStay DEF IInv, Stays, Pinned, Holds
<1>1. ASSUME TrimReturn(t) PROVE NoLeak'
  BY <1>1, <1>0 DEF TrimReturn, Goto, Evictable, Holds, InCall, Opening, Pinned
<1>2. ASSUME TrimEvict(t) PROVE NoLeak'
  BY <1>2, <1>0 DEF TrimEvict, Goto, Evictable, Holds, InCall, Opening, Pinned
<1>3. ASSUME TrimClose(t) PROVE NoLeak'
  BY <1>3, <1>0 DEF TrimClose, Goto, Holds, InCall, Opening, Pinned
<1>4. ASSUME NEW f \in Files, Reserve(t, f) PROVE NoLeak'
  <2>1. PICK s \in Slots : used[s] = Free /\ raw' = [raw EXCEPT ![s] = None]
    BY <1>4 DEF Reserve, Goto
  <2>2. raw' = raw
    BY <2>1 DEF SlotsOwned, Free, Open, Closing
  <2>3. \A d : ~Holds(t, d)
    BY <1>4 DEF Reserve, Goto, Holds
  <2>4. QED BY <1>4, <2>2, <2>3, <1>0 DEF Reserve, Goto
<1>5. ASSUME ReserveFails(t) PROVE NoLeak'
  BY <1>5, <1>0 DEF ReserveFails, Goto, Holds, InCall, Opening, Pinned
<1>6. ASSUME OpenRaw(t) PROVE NoLeak'
  BY <1>6, <1>0 DEF OpenRaw, Goto, KernelOpen, FreeFds, Holds, InCall, Opening, Pinned
<1>7. ASSUME OpenRawExhausted(t) PROVE NoLeak'
  BY <1>7, <1>0 DEF OpenRawExhausted, TrimCall, Goto, Holds, InCall, Opening, Pinned
<1>8. ASSUME OpenRawFails(t) PROVE NoLeak'
  BY <1>8, <1>0 DEF OpenRawFails, Goto, Holds, InCall, Opening, Pinned
<1>9. ASSUME OpenUnreserve(t) PROVE NoLeak'
  BY <1>9, <1>0 DEF OpenUnreserve, Goto, Holds, InCall, Opening, Pinned
<1>10. ASSUME OpenPublish(t) PROVE NoLeak'
  <2>1. raw[my[t]] = None
    BY <1>10 DEF OpenPublish, SlotsOwned, InCall, Opening, Open, Closing, Reserved
  <2>2. QED BY <1>10, <2>1, <1>0 DEF OpenPublish, TrimCall, Goto, Holds, InCall, Opening
<1>11. ASSUME ReadWake(t) PROVE NoLeak'
  BY <1>11, <1>0, SMTT(30) DEF ReadWake, ReadPin, StillMine, Holds, InCall, Opening, Pinned
<1>12. ASSUME ReadWakeReturns(t) PROVE NoLeak'
  BY <1>12, <1>0, SMTT(30) DEF ReadWakeReturns, Return, StillMine, Holds, InCall, Opening, Pinned
<1>13. ASSUME WakeSleeps(t) PROVE NoLeak'
  BY <1>13, <1>0 DEF WakeSleeps, StillMine, Holds, InCall, Opening, Pinned
<1>14. ASSUME ReadOpen(t) PROVE NoLeak'
  BY <1>14, <1>0 DEF ReadOpen, Goto, KernelOpen, FreeFds, Holds, InCall, Opening, Pinned
<1>15. ASSUME ReadOpenFails(t) PROVE NoLeak'
  BY <1>15, <1>0 DEF ReadOpenFails, Goto, Holds, InCall, Opening, Pinned
<1>16. ASSUME Adopt(t) PROVE NoLeak'
  BY <1>16, <1>0 DEF Adopt, Goto, Adoptable, Holds, InCall, Opening, Pinned
<1>17. ASSUME KeepTemporary(t) PROVE NoLeak'
  BY <1>17, <1>0 DEF KeepTemporary, Goto, Adoptable, Holds, InCall, Opening, Pinned
<1>18. ASSUME Pread(t) PROVE NoLeak'
  BY <1>18, <1>0 DEF Pread, Goto, Holds, InCall, Opening, Pinned
<1>19. ASSUME CloseTemporary(t) PROVE NoLeak'
  BY <1>19, <1>0 DEF CloseTemporary, Goto, Holds, InCall, Opening, Pinned
<1>20. ASSUME ReadFinish(t) PROVE NoLeak'
  BY <1>20, <1>0, SMTT(30) DEF ReadFinish, Return, Broadcast, Holds, InCall, Opening, Pinned
<1>21. ASSUME SeekWake(t) PROVE NoLeak'
  BY <1>21, <1>0, SMTT(30) DEF SeekWake, Return, StillMine, Holds, InCall, Opening, Pinned
<1>22. ASSUME SeekWakeReturns(t) PROVE NoLeak'
  BY <1>22, <1>0, SMTT(30) DEF SeekWakeReturns, Return, StillMine, Holds, InCall, Opening, Pinned
<1>23. ASSUME CloseWake(t) PROVE NoLeak'
  BY <1>23, <1>0 DEF CloseWake, Recycle, Goto, Holds, InCall, Opening, Pinned
<1>24. ASSUME CloseWakeSleeps(t) PROVE NoLeak'
  BY <1>24, <1>0 DEF CloseWakeSleeps, Holds, InCall, Opening, Pinned
<1>25. ASSUME CloseRaw(t) PROVE NoLeak'
  BY <1>25, <1>0 DEF CloseRaw, Return, Holds, InCall, Opening, Pinned
<1>26. ASSUME OpenCall(t) PROVE NoLeak'
  BY <1>26, <1>0 DEF OpenCall, TrimCall, Goto, Holds, InCall, Opening, Pinned
<1>27. ASSUME StreamTrim(t) PROVE NoLeak'
  BY <1>27, <1>0 DEF StreamTrim, TrimCall, Goto, Holds, InCall, Opening, Pinned
<1>28. ASSUME NEW s \in Slots, NEW o \in 0 .. Length, NEW n \in 0 .. Length + 1,
              PreadCall(t, s, o, n)
       PROVE  NoLeak'
  BY <1>28, <1>0 DEF PreadCall, ReadPin, Holds, InCall, Opening, Pinned
<1>29. ASSUME NEW s \in Slots, NEW n \in 0 .. Length + 1, ReadCall(t, s, n) PROVE NoLeak'
  BY <1>29, <1>0 DEF ReadCall, ReadPin, Holds, InCall, Opening, Pinned
<1>30. ASSUME NEW s \in Slots, NEW n \in 0 .. Length + 1, ReadCallSleeps(t, s, n)
       PROVE  NoLeak'
  BY <1>30, <1>0 DEF ReadCallSleeps, Goto, Holds, InCall, Opening, Pinned
<1>31. ASSUME NEW s \in Slots, NEW p \in 0 .. MaxPos, SeekCall(t, s, p) PROVE NoLeak'
  BY <1>31, <1>0 DEF SeekCall, Holds, InCall, Opening, Pinned
<1>32. ASSUME NEW s \in Slots, NEW p \in 0 .. MaxPos, SeekCallSleeps(t, s, p) PROVE NoLeak'
  BY <1>32, <1>0 DEF SeekCallSleeps, Goto, Holds, InCall, Opening, Pinned
<1>33. ASSUME NEW s \in Slots, CloseCall(t, s) PROVE NoLeak'
  BY <1>33, <1>0 DEF CloseCall, Recycle, Goto, Holds, InCall, Opening, Pinned
<1>34. ASSUME NEW s \in Slots, CloseCallWaits(t, s) PROVE NoLeak'
  BY <1>34, <1>0 DEF CloseCallWaits, Goto, Holds, InCall, Opening, Pinned
<1>35. QED BY <1>1, <1>2, <1>3, <1>4, <1>5, <1>6, <1>7, <1>8, <1>9, <1>10,
         <1>11, <1>12, <1>13, <1>14, <1>15, <1>16, <1>17, <1>18, <1>19,
         <1>20, <1>21, <1>22, <1>23, <1>24, <1>25, <1>26, <1>27, <1>28,
         <1>29, <1>30, <1>31, <1>32, <1>33, <1>34 DEF Progress, Call

\* Whoever goes to sleep is in a wait.
LEMMA SleepersKeep ==
  ASSUME IInv, MoreInv,
         NEW t \in Threads, Progress(t) \/ Call(t)
  PROVE  SleepersFit'
<1> USE SetsAssumption, NumbersAssumption
      DEF slotVars, callVars, readVars, trimVars, IInv, TypeOK, TableOK, CallsOK, MoreInv,
          SleepersFit
<1>1. ASSUME TrimReturn(t) PROVE SleepersFit'
  BY <1>1 DEF TrimReturn, Goto, Evictable, Broadcast
<1>2. ASSUME TrimEvict(t) PROVE SleepersFit'
  BY <1>2 DEF TrimEvict, Goto, Evictable, Broadcast
<1>3. ASSUME TrimClose(t) PROVE SleepersFit'
  BY <1>3 DEF TrimClose, Goto, Broadcast
<1>4. ASSUME NEW f \in Files, Reserve(t, f) PROVE SleepersFit'
  BY <1>4 DEF Reserve, Goto, Broadcast
<1>5. ASSUME ReserveFails(t) PROVE SleepersFit'
  BY <1>5 DEF ReserveFails, Goto, Broadcast
<1>6. ASSUME OpenRaw(t) PROVE SleepersFit'
  BY <1>6 DEF OpenRaw, Goto, KernelOpen, FreeFds, Broadcast
<1>7. ASSUME OpenRawExhausted(t) PROVE SleepersFit'
  BY <1>7 DEF OpenRawExhausted, TrimCall, Goto, Broadcast
<1>8. ASSUME OpenRawFails(t) PROVE SleepersFit'
  BY <1>8 DEF OpenRawFails, Goto, Broadcast
<1>9. ASSUME OpenUnreserve(t) PROVE SleepersFit'
  BY <1>9 DEF OpenUnreserve, Goto, Broadcast
<1>10. ASSUME OpenPublish(t) PROVE SleepersFit'
  BY <1>10 DEF OpenPublish, TrimCall, Goto, Broadcast
<1>11. ASSUME ReadWake(t) PROVE SleepersFit'
  BY <1>11 DEF ReadWake, ReadPin, StillMine, Broadcast
<1>12. ASSUME ReadWakeReturns(t) PROVE SleepersFit'
  BY <1>12 DEF ReadWakeReturns, Return, StillMine, Broadcast
<1>13. ASSUME WakeSleeps(t) PROVE SleepersFit'
  BY <1>13 DEF WakeSleeps, StillMine, Broadcast
<1>14. ASSUME ReadOpen(t) PROVE SleepersFit'
  BY <1>14 DEF ReadOpen, Goto, KernelOpen, FreeFds, Broadcast
<1>15. ASSUME ReadOpenFails(t) PROVE SleepersFit'
  BY <1>15 DEF ReadOpenFails, Goto, Broadcast
<1>16. ASSUME Adopt(t) PROVE SleepersFit'
  BY <1>16 DEF Adopt, Goto, Adoptable, Broadcast
<1>17. ASSUME KeepTemporary(t) PROVE SleepersFit'
  BY <1>17 DEF KeepTemporary, Goto, Adoptable, Broadcast
<1>18. ASSUME Pread(t) PROVE SleepersFit'
  BY <1>18 DEF Pread, Goto, Broadcast
<1>19. ASSUME CloseTemporary(t) PROVE SleepersFit'
  BY <1>19 DEF CloseTemporary, Goto, Broadcast
<1>20. ASSUME ReadFinish(t) PROVE SleepersFit'
  BY <1>20 DEF ReadFinish, Return, Broadcast, Broadcast
<1>21. ASSUME SeekWake(t) PROVE SleepersFit'
  BY <1>21 DEF SeekWake, Return, StillMine, Broadcast
<1>22. ASSUME SeekWakeReturns(t) PROVE SleepersFit'
  BY <1>22 DEF SeekWakeReturns, Return, StillMine, Broadcast
<1>23. ASSUME CloseWake(t) PROVE SleepersFit'
  BY <1>23 DEF CloseWake, Recycle, Goto, Broadcast
<1>24. ASSUME CloseWakeSleeps(t) PROVE SleepersFit'
  BY <1>24 DEF CloseWakeSleeps, Broadcast
<1>25. ASSUME CloseRaw(t) PROVE SleepersFit'
  BY <1>25 DEF CloseRaw, Return, Broadcast
<1>26. ASSUME OpenCall(t) PROVE SleepersFit'
  BY <1>26 DEF OpenCall, TrimCall, Goto, Broadcast
<1>27. ASSUME StreamTrim(t) PROVE SleepersFit'
  BY <1>27 DEF StreamTrim, TrimCall, Goto, Broadcast
<1>28. ASSUME NEW s \in Slots, NEW o \in 0 .. Length, NEW n \in 0 .. Length + 1,
              PreadCall(t, s, o, n)
       PROVE  SleepersFit'
  BY <1>28 DEF PreadCall, ReadPin, Broadcast
<1>29. ASSUME NEW s \in Slots, NEW n \in 0 .. Length + 1, ReadCall(t, s, n)
       PROVE  SleepersFit'
  BY <1>29 DEF ReadCall, ReadPin, Broadcast
<1>30. ASSUME NEW s \in Slots, NEW n \in 0 .. Length + 1, ReadCallSleeps(t, s, n)
       PROVE  SleepersFit'
  BY <1>30 DEF ReadCallSleeps, Goto, Broadcast
<1>31. ASSUME NEW s \in Slots, NEW p \in 0 .. MaxPos, SeekCall(t, s, p) PROVE SleepersFit'
  BY <1>31 DEF SeekCall, Broadcast
<1>32. ASSUME NEW s \in Slots, NEW p \in 0 .. MaxPos, SeekCallSleeps(t, s, p)
       PROVE  SleepersFit'
  BY <1>32 DEF SeekCallSleeps, Goto, Broadcast
<1>33. ASSUME NEW s \in Slots, CloseCall(t, s) PROVE SleepersFit'
  BY <1>33 DEF CloseCall, Recycle, Goto, Broadcast
<1>34. ASSUME NEW s \in Slots, CloseCallWaits(t, s) PROVE SleepersFit'
  BY <1>34 DEF CloseCallWaits, Goto, Broadcast
<1>35. QED BY <1>1, <1>2, <1>3, <1>4, <1>5, <1>6, <1>7, <1>8, <1>9, <1>10,
         <1>11, <1>12, <1>13, <1>14, <1>15, <1>16, <1>17, <1>18, <1>19,
         <1>20, <1>21, <1>22, <1>23, <1>24, <1>25, <1>26, <1>27, <1>28,
         <1>29, <1>30, <1>31, <1>32, <1>33, <1>34 DEF Progress, Call

\* Positions move on open slots only.
LEMMA NewKeeps ==
  ASSUME IInv, MoreInv,
         NEW t \in Threads, Progress(t) \/ Call(t)
  PROVE  ReservedIsNew'
<1> USE SetsAssumption, NumbersAssumption
      DEF slotVars, callVars, readVars, trimVars, IInv, TypeOK, TableOK, CallsOK, MoreInv,
          ReservedIsNew, LocalsFit, SlotsOwned, Free, Open, Closing, Reserved
<1>1. ASSUME TrimReturn(t) PROVE ReservedIsNew'
  BY <1>1 DEF TrimReturn, Goto, Evictable, InCall, Opening, Pinned
<1>2. ASSUME TrimEvict(t) PROVE ReservedIsNew'
  BY <1>2 DEF TrimEvict, Goto, Evictable, InCall, Opening, Pinned
<1>3. ASSUME TrimClose(t) PROVE ReservedIsNew'
  BY <1>3 DEF TrimClose, Goto, InCall, Opening, Pinned
<1>4. ASSUME NEW f \in Files, Reserve(t, f) PROVE ReservedIsNew'
  BY <1>4 DEF Reserve, Goto, InCall, Opening, Pinned
<1>5. ASSUME ReserveFails(t) PROVE ReservedIsNew'
  BY <1>5 DEF ReserveFails, Goto, InCall, Opening, Pinned
<1>6. ASSUME OpenRaw(t) PROVE ReservedIsNew'
  BY <1>6 DEF OpenRaw, Goto, KernelOpen, FreeFds, InCall, Opening, Pinned
<1>7. ASSUME OpenRawExhausted(t) PROVE ReservedIsNew'
  BY <1>7 DEF OpenRawExhausted, TrimCall, Goto, InCall, Opening, Pinned
<1>8. ASSUME OpenRawFails(t) PROVE ReservedIsNew'
  BY <1>8 DEF OpenRawFails, Goto, InCall, Opening, Pinned
<1>9. ASSUME OpenUnreserve(t) PROVE ReservedIsNew'
  BY <1>9 DEF OpenUnreserve, Goto, InCall, Opening, Pinned
<1>10. ASSUME OpenPublish(t) PROVE ReservedIsNew'
  BY <1>10 DEF OpenPublish, TrimCall, Goto, InCall, Opening, Pinned
<1>11. ASSUME ReadWake(t) PROVE ReservedIsNew'
  BY <1>11 DEF ReadWake, ReadPin, StillMine, InCall, Opening, Pinned
<1>12. ASSUME ReadWakeReturns(t) PROVE ReservedIsNew'
  BY <1>12 DEF ReadWakeReturns, Return, StillMine, InCall, Opening, Pinned
<1>13. ASSUME WakeSleeps(t) PROVE ReservedIsNew'
  BY <1>13 DEF WakeSleeps, StillMine, InCall, Opening, Pinned
<1>14. ASSUME ReadOpen(t) PROVE ReservedIsNew'
  BY <1>14 DEF ReadOpen, Goto, KernelOpen, FreeFds, InCall, Opening, Pinned
<1>15. ASSUME ReadOpenFails(t) PROVE ReservedIsNew'
  BY <1>15 DEF ReadOpenFails, Goto, InCall, Opening, Pinned
<1>16. ASSUME Adopt(t) PROVE ReservedIsNew'
  BY <1>16 DEF Adopt, Goto, Adoptable, InCall, Opening, Pinned
<1>17. ASSUME KeepTemporary(t) PROVE ReservedIsNew'
  BY <1>17 DEF KeepTemporary, Goto, Adoptable, InCall, Opening, Pinned
<1>18. ASSUME Pread(t) PROVE ReservedIsNew'
  BY <1>18 DEF Pread, Goto, InCall, Opening, Pinned
<1>19. ASSUME CloseTemporary(t) PROVE ReservedIsNew'
  BY <1>19 DEF CloseTemporary, Goto, InCall, Opening, Pinned
<1>20. ASSUME ReadFinish(t) PROVE ReservedIsNew'
  BY <1>20 DEF ReadFinish, Return, Broadcast, InCall, Opening, Pinned
<1>21. ASSUME SeekWake(t) PROVE ReservedIsNew'
  BY <1>21 DEF SeekWake, Return, StillMine, InCall, Opening, Pinned
<1>22. ASSUME SeekWakeReturns(t) PROVE ReservedIsNew'
  BY <1>22 DEF SeekWakeReturns, Return, StillMine, InCall, Opening, Pinned
<1>23. ASSUME CloseWake(t) PROVE ReservedIsNew'
  BY <1>23 DEF CloseWake, Recycle, Goto, InCall, Opening, Pinned
<1>24. ASSUME CloseWakeSleeps(t) PROVE ReservedIsNew'
  BY <1>24 DEF CloseWakeSleeps, InCall, Opening, Pinned
<1>25. ASSUME CloseRaw(t) PROVE ReservedIsNew'
  BY <1>25 DEF CloseRaw, Return, InCall, Opening, Pinned
<1>26. ASSUME OpenCall(t) PROVE ReservedIsNew'
  BY <1>26 DEF OpenCall, TrimCall, Goto, InCall, Opening, Pinned
<1>27. ASSUME StreamTrim(t) PROVE ReservedIsNew'
  BY <1>27 DEF StreamTrim, TrimCall, Goto, InCall, Opening, Pinned
<1>28. ASSUME NEW s \in Slots, NEW o \in 0 .. Length, NEW n \in 0 .. Length + 1,
              PreadCall(t, s, o, n)
       PROVE  ReservedIsNew'
  BY <1>28 DEF PreadCall, ReadPin, InCall, Opening, Pinned
<1>29. ASSUME NEW s \in Slots, NEW n \in 0 .. Length + 1, ReadCall(t, s, n)
       PROVE  ReservedIsNew'
  BY <1>29 DEF ReadCall, ReadPin, InCall, Opening, Pinned
<1>30. ASSUME NEW s \in Slots, NEW n \in 0 .. Length + 1, ReadCallSleeps(t, s, n)
       PROVE  ReservedIsNew'
  BY <1>30 DEF ReadCallSleeps, Goto, InCall, Opening, Pinned
<1>31. ASSUME NEW s \in Slots, NEW p \in 0 .. MaxPos, SeekCall(t, s, p) PROVE ReservedIsNew'
  BY <1>31 DEF SeekCall, InCall, Opening, Pinned
<1>32. ASSUME NEW s \in Slots, NEW p \in 0 .. MaxPos, SeekCallSleeps(t, s, p)
       PROVE  ReservedIsNew'
  BY <1>32 DEF SeekCallSleeps, Goto, InCall, Opening, Pinned
<1>33. ASSUME NEW s \in Slots, CloseCall(t, s) PROVE ReservedIsNew'
  BY <1>33 DEF CloseCall, Recycle, Goto, InCall, Opening, Pinned
<1>34. ASSUME NEW s \in Slots, CloseCallWaits(t, s) PROVE ReservedIsNew'
  BY <1>34 DEF CloseCallWaits, Goto, InCall, Opening, Pinned
<1>35. QED BY <1>1, <1>2, <1>3, <1>4, <1>5, <1>6, <1>7, <1>8, <1>9, <1>10,
         <1>11, <1>12, <1>13, <1>14, <1>15, <1>16, <1>17, <1>18, <1>19,
         <1>20, <1>21, <1>22, <1>23, <1>24, <1>25, <1>26, <1>27, <1>28,
         <1>29, <1>30, <1>31, <1>32, <1>33, <1>34 DEF Progress, Call

\* A read takes its bytes at its own offset.
LEMMA AnswersKeep ==
  ASSUME IInv, MoreInv,
         NEW t \in Threads, Progress(t) \/ Call(t)
  PROVE  AnswersFit'
<1> USE SetsAssumption, NumbersAssumption
      DEF slotVars, callVars, readVars, trimVars, IInv, TypeOK, TableOK, CallsOK, MoreInv,
          AnswersFit, LocalsFit, Positions, Bytes, NoBytes
<1>1. ASSUME TrimReturn(t) PROVE AnswersFit'
  BY <1>1 DEF TrimReturn, Goto, Evictable, Callers
<1>2. ASSUME TrimEvict(t) PROVE AnswersFit'
  BY <1>2 DEF TrimEvict, Goto, Evictable, InCall, Opening, Pinned
<1>3. ASSUME TrimClose(t) PROVE AnswersFit'
  BY <1>3 DEF TrimClose, Goto, InCall, Opening, Pinned
<1>4. ASSUME NEW f \in Files, Reserve(t, f) PROVE AnswersFit'
  BY <1>4 DEF Reserve, Goto, InCall, Opening, Pinned
<1>5. ASSUME ReserveFails(t) PROVE AnswersFit'
  BY <1>5 DEF ReserveFails, Goto, InCall, Opening, Pinned
<1>6. ASSUME OpenRaw(t) PROVE AnswersFit'
  BY <1>6 DEF OpenRaw, Goto, KernelOpen, FreeFds, InCall, Opening, Pinned
<1>7. ASSUME OpenRawExhausted(t) PROVE AnswersFit'
  BY <1>7 DEF OpenRawExhausted, TrimCall, Goto, InCall, Opening, Pinned
<1>8. ASSUME OpenRawFails(t) PROVE AnswersFit'
  BY <1>8 DEF OpenRawFails, Goto, InCall, Opening, Pinned
<1>9. ASSUME OpenUnreserve(t) PROVE AnswersFit'
  BY <1>9 DEF OpenUnreserve, Goto, InCall, Opening, Pinned
<1>10. ASSUME OpenPublish(t) PROVE AnswersFit'
  BY <1>10 DEF OpenPublish, TrimCall, Goto, InCall, Opening, Pinned
<1>11. ASSUME ReadWake(t) PROVE AnswersFit'
  BY <1>11 DEF ReadWake, ReadPin, StillMine, InCall, Opening, Pinned
<1>12. ASSUME ReadWakeReturns(t) PROVE AnswersFit'
  BY <1>12 DEF ReadWakeReturns, Return, StillMine, InCall, Opening, Pinned
<1>13. ASSUME WakeSleeps(t) PROVE AnswersFit'
  BY <1>13 DEF WakeSleeps, StillMine, InCall, Opening, Pinned
<1>14. ASSUME ReadOpen(t) PROVE AnswersFit'
  BY <1>14 DEF ReadOpen, Goto, KernelOpen, FreeFds, InCall, Opening, Pinned
<1>15. ASSUME ReadOpenFails(t) PROVE AnswersFit'
  BY <1>15 DEF ReadOpenFails, Goto, InCall, Opening, Pinned
<1>16. ASSUME Adopt(t) PROVE AnswersFit'
  BY <1>16 DEF Adopt, Goto, Adoptable, InCall, Opening, Pinned
<1>17. ASSUME KeepTemporary(t) PROVE AnswersFit'
  BY <1>17 DEF KeepTemporary, Goto, Adoptable, InCall, Opening, Pinned
<1>18. ASSUME Pread(t) PROVE AnswersFit'
  BY <1>18 DEF Pread, Goto, InCall, Opening, Pinned
<1>19. ASSUME CloseTemporary(t) PROVE AnswersFit'
  BY <1>19 DEF CloseTemporary, Goto, InCall, Opening, Pinned
<1>20. ASSUME ReadFinish(t) PROVE AnswersFit'
  BY <1>20 DEF ReadFinish, Return, Broadcast, InCall, Opening, Pinned
<1>21. ASSUME SeekWake(t) PROVE AnswersFit'
  BY <1>21 DEF SeekWake, Return, StillMine, InCall, Opening, Pinned
<1>22. ASSUME SeekWakeReturns(t) PROVE AnswersFit'
  BY <1>22 DEF SeekWakeReturns, Return, StillMine, InCall, Opening, Pinned
<1>23. ASSUME CloseWake(t) PROVE AnswersFit'
  BY <1>23 DEF CloseWake, Recycle, Goto, InCall, Opening, Pinned
<1>24. ASSUME CloseWakeSleeps(t) PROVE AnswersFit'
  BY <1>24 DEF CloseWakeSleeps, InCall, Opening, Pinned
<1>25. ASSUME CloseRaw(t) PROVE AnswersFit'
  BY <1>25 DEF CloseRaw, Return, InCall, Opening, Pinned
<1>26. ASSUME OpenCall(t) PROVE AnswersFit'
  BY <1>26 DEF OpenCall, TrimCall, Goto, InCall, Opening, Pinned
<1>27. ASSUME StreamTrim(t) PROVE AnswersFit'
  BY <1>27 DEF StreamTrim, TrimCall, Goto, InCall, Opening, Pinned
<1>28. ASSUME NEW s \in Slots, NEW o \in 0 .. Length, NEW n \in 0 .. Length + 1,
              PreadCall(t, s, o, n)
       PROVE  AnswersFit'
  BY <1>28 DEF PreadCall, ReadPin, InCall, Opening, Pinned
<1>29. ASSUME NEW s \in Slots, NEW n \in 0 .. Length + 1, ReadCall(t, s, n)
       PROVE  AnswersFit'
  <2>1. got[t] = NoBytes /\ got' = got /\ pc'[t] # "seekWait"
    BY <1>29, SMTT(30) DEF ReadCall, ReadPin
  <2>2. QED BY <1>29, <2>1 DEF ReadCall, ReadPin
<1>30. ASSUME NEW s \in Slots, NEW n \in 0 .. Length + 1, ReadCallSleeps(t, s, n)
       PROVE  AnswersFit'
  BY <1>30 DEF ReadCallSleeps, Goto, InCall, Opening, Pinned
<1>31. ASSUME NEW s \in Slots, NEW p \in 0 .. MaxPos, SeekCall(t, s, p) PROVE AnswersFit'
  BY <1>31 DEF SeekCall, InCall, Opening, Pinned
<1>32. ASSUME NEW s \in Slots, NEW p \in 0 .. MaxPos, SeekCallSleeps(t, s, p)
       PROVE  AnswersFit'
  BY <1>32, SMTT(30) DEF SeekCallSleeps, Goto, InCall, Opening, Pinned
<1>33. ASSUME NEW s \in Slots, CloseCall(t, s) PROVE AnswersFit'
  BY <1>33 DEF CloseCall, Recycle, Goto, InCall, Opening, Pinned
<1>34. ASSUME NEW s \in Slots, CloseCallWaits(t, s) PROVE AnswersFit'
  BY <1>34 DEF CloseCallWaits, Goto, InCall, Opening, Pinned
<1>35. QED BY <1>1, <1>2, <1>3, <1>4, <1>5, <1>6, <1>7, <1>8, <1>9, <1>10,
         <1>11, <1>12, <1>13, <1>14, <1>15, <1>16, <1>17, <1>18, <1>19,
         <1>20, <1>21, <1>22, <1>23, <1>24, <1>25, <1>26, <1>27, <1>28,
         <1>29, <1>30, <1>31, <1>32, <1>33, <1>34 DEF Progress, Call

\* The mark goes with the shared reader that set it.
LEMMA ReadingKeeps ==
  ASSUME IInv, MoreInv,
         NEW t \in Threads, Progress(t) \/ Call(t)
  PROVE  ReadingIsRead'
<1> USE SetsAssumption, NumbersAssumption
      DEF slotVars, callVars, readVars, trimVars, IInv, TypeOK, TableOK, CallsOK, MoreInv,
          ReadingIsRead, LocalsFit, SharedReadIsAtomic
<1>0. \A u \in Threads \ {t} : /\ Stays(u) /\ (Pinned(u)' <=> Pinned(u))
                              /\ \A d : Holds(u, d)' <=> Holds(u, d)
  BY OthersStay DEF IInv, Stays, Pinned, Holds
<1>1. ASSUME TrimReturn(t) PROVE ReadingIsRead'
  BY <1>1, <1>0 DEF TrimReturn, Goto, Evictable, InCall, Opening, Pinned, Callers
<1>2. ASSUME TrimEvict(t) PROVE ReadingIsRead'
  BY <1>2, <1>0 DEF TrimEvict, Goto, Evictable, InCall, Opening, Pinned, Callers
<1>3. ASSUME TrimClose(t) PROVE ReadingIsRead'
  BY <1>3, <1>0 DEF TrimClose, Goto, InCall, Opening, Pinned, Callers
<1>4. ASSUME NEW f \in Files, Reserve(t, f) PROVE ReadingIsRead'
  BY <1>4, <1>0 DEF Reserve, Goto, InCall, Opening, Pinned, Callers
<1>5. ASSUME ReserveFails(t) PROVE ReadingIsRead'
  BY <1>5, <1>0 DEF ReserveFails, Goto, InCall, Opening, Pinned, Callers
<1>6. ASSUME OpenRaw(t) PROVE ReadingIsRead'
  BY <1>6, <1>0 DEF OpenRaw, Goto, KernelOpen, FreeFds, InCall, Opening, Pinned, Callers
<1>7. ASSUME OpenRawExhausted(t) PROVE ReadingIsRead'
  BY <1>7, <1>0 DEF OpenRawExhausted, TrimCall, Goto, InCall, Opening, Pinned, Callers
<1>8. ASSUME OpenRawFails(t) PROVE ReadingIsRead'
  BY <1>8, <1>0 DEF OpenRawFails, Goto, InCall, Opening, Pinned, Callers
<1>9. ASSUME OpenUnreserve(t) PROVE ReadingIsRead'
  BY <1>9, <1>0 DEF OpenUnreserve, Goto, InCall, Opening, Pinned, Callers
<1>10. ASSUME OpenPublish(t) PROVE ReadingIsRead'
  BY <1>10, <1>0 DEF OpenPublish, TrimCall, Goto, InCall, Opening, Pinned, Callers
<1>11. ASSUME ReadWake(t) PROVE ReadingIsRead'
  BY <1>11, <1>0 DEF ReadWake, ReadPin, StillMine, InCall, Opening, Pinned, Callers
<1>12. ASSUME ReadWakeReturns(t) PROVE ReadingIsRead'
  BY <1>12, <1>0 DEF ReadWakeReturns, Return, StillMine, InCall, Opening, Pinned, Callers
<1>13. ASSUME WakeSleeps(t) PROVE ReadingIsRead'
  BY <1>13, <1>0 DEF WakeSleeps, StillMine, InCall, Opening, Pinned, Callers
<1>14. ASSUME ReadOpen(t) PROVE ReadingIsRead'
  BY <1>14, <1>0 DEF ReadOpen, Goto, KernelOpen, FreeFds, InCall, Opening, Pinned, Callers
<1>15. ASSUME ReadOpenFails(t) PROVE ReadingIsRead'
  BY <1>15, <1>0 DEF ReadOpenFails, Goto, InCall, Opening, Pinned, Callers
<1>16. ASSUME Adopt(t) PROVE ReadingIsRead'
  BY <1>16, <1>0 DEF Adopt, Goto, Adoptable, InCall, Opening, Pinned, Callers
<1>17. ASSUME KeepTemporary(t) PROVE ReadingIsRead'
  BY <1>17, <1>0 DEF KeepTemporary, Goto, Adoptable, InCall, Opening, Pinned, Callers
<1>18. ASSUME Pread(t) PROVE ReadingIsRead'
  BY <1>18, <1>0 DEF Pread, Goto, InCall, Opening, Pinned, Callers
<1>19. ASSUME CloseTemporary(t) PROVE ReadingIsRead'
  BY <1>19, <1>0 DEF CloseTemporary, Goto, InCall, Opening, Pinned, Callers
<1>20. ASSUME ReadFinish(t) PROVE ReadingIsRead'
  BY <1>20, <1>0 DEF ReadFinish, Return, Broadcast, InCall, Opening, Pinned, Callers
<1>21. ASSUME SeekWake(t) PROVE ReadingIsRead'
  BY <1>21, <1>0 DEF SeekWake, Return, StillMine, InCall, Opening, Pinned, Callers
<1>22. ASSUME SeekWakeReturns(t) PROVE ReadingIsRead'
  BY <1>22, <1>0 DEF SeekWakeReturns, Return, StillMine, InCall, Opening, Pinned, Callers
<1>23. ASSUME CloseWake(t) PROVE ReadingIsRead'
  BY <1>23, <1>0 DEF CloseWake, Recycle, Goto, InCall, Opening, Pinned, Callers
<1>24. ASSUME CloseWakeSleeps(t) PROVE ReadingIsRead'
  BY <1>24, <1>0 DEF CloseWakeSleeps, InCall, Opening, Pinned, Callers
<1>25. ASSUME CloseRaw(t) PROVE ReadingIsRead'
  BY <1>25, <1>0 DEF CloseRaw, Return, InCall, Opening, Pinned, Callers
<1>26. ASSUME OpenCall(t) PROVE ReadingIsRead'
  BY <1>26, <1>0 DEF OpenCall, TrimCall, Goto, InCall, Opening, Pinned, Callers
<1>27. ASSUME StreamTrim(t) PROVE ReadingIsRead'
  BY <1>27, <1>0 DEF StreamTrim, TrimCall, Goto, InCall, Opening, Pinned, Callers
<1>28. ASSUME NEW s \in Slots, NEW o \in 0 .. Length, NEW n \in 0 .. Length + 1,
              PreadCall(t, s, o, n)
       PROVE  ReadingIsRead'
  BY <1>28, <1>0 DEF PreadCall, ReadPin, InCall, Opening, Pinned, Callers
<1>29. ASSUME NEW s \in Slots, NEW n \in 0 .. Length + 1, ReadCall(t, s, n)
       PROVE  ReadingIsRead'
  BY <1>29, <1>0 DEF ReadCall, ReadPin, InCall, Opening, Pinned, Callers
<1>30. ASSUME NEW s \in Slots, NEW n \in 0 .. Length + 1, ReadCallSleeps(t, s, n)
       PROVE  ReadingIsRead'
  BY <1>30, <1>0 DEF ReadCallSleeps, Goto, InCall, Opening, Pinned, Callers
<1>31. ASSUME NEW s \in Slots, NEW p \in 0 .. MaxPos, SeekCall(t, s, p) PROVE ReadingIsRead'
  BY <1>31, <1>0 DEF SeekCall, InCall, Opening, Pinned, Callers
<1>32. ASSUME NEW s \in Slots, NEW p \in 0 .. MaxPos, SeekCallSleeps(t, s, p)
       PROVE  ReadingIsRead'
  BY <1>32, <1>0 DEF SeekCallSleeps, Goto, InCall, Opening, Pinned, Callers
<1>33. ASSUME NEW s \in Slots, CloseCall(t, s) PROVE ReadingIsRead'
  BY <1>33, <1>0 DEF CloseCall, Recycle, Goto, InCall, Opening, Pinned, Callers
<1>34. ASSUME NEW s \in Slots, CloseCallWaits(t, s) PROVE ReadingIsRead'
  BY <1>34, <1>0 DEF CloseCallWaits, Goto, InCall, Opening, Pinned, Callers
<1>35. QED BY <1>1, <1>2, <1>3, <1>4, <1>5, <1>6, <1>7, <1>8, <1>9, <1>10,
         <1>11, <1>12, <1>13, <1>14, <1>15, <1>16, <1>17, <1>18, <1>19,
         <1>20, <1>21, <1>22, <1>23, <1>24, <1>25, <1>26, <1>27, <1>28,
         <1>29, <1>30, <1>31, <1>32, <1>33, <1>34 DEF Progress, Call

\* A slot with pins has a reader.
LEMMA BusyHasReader ==
  ASSUME BusyCounts, NEW s \in Slots, busy[s] # 0
  PROVE  \E u \in Threads : Pinned(u) /\ my[u] = s
<1>1. Cardinality(Pins(s)) # 0
  BY DEF BusyCounts
<1>2. Pins(s) # {}
  BY <1>1, FS_EmptySet
<1>3. QED BY <1>2 DEF Pins

\* Nobody sleeps on a slot that no reader will leave.
LEMMA WakersStay ==
  ASSUME IInv, MoreInv,
         NEW t \in Threads, Progress(t) \/ Call(t)
  PROVE  SleeperHasWaker'
<1> USE SetsAssumption, NumbersAssumption
      DEF slotVars, callVars, readVars, trimVars, IInv, TypeOK, TableOK, CallsOK, MoreInv
<1>0. \A u \in Threads \ {t} : /\ Stays(u) /\ (Pinned(u)' <=> Pinned(u))
                              /\ \A d : Holds(u, d)' <=> Holds(u, d)
  BY OthersStay DEF IInv, Stays, Pinned, Holds
<1>a. ASSUME t \notin asleep, asleep' \subseteq asleep,
             Pinned(t) => /\ Pinned(t)' /\ my'[t] = my[t] /\ mygen'[t] = mygen[t]
                          /\ shared'[t] = shared[t]
      PROVE  SleeperHasWaker'
  BY <1>a, <1>0 DEF SleeperHasWaker, Stays
<1>b. ASSUME NEW u \in Threads, u # t, ~Pinned(t), asleep' \subseteq asleep \cup {t},
             Pinned(u), my[u] = my'[t],
             pc'[t] \in {"readWait", "seekWait"} => shared[u] /\ mygen[u] = mygen'[t]
      PROVE  SleeperHasWaker'
  <2>1. Pinned(u)' /\ my'[u] = my[u] /\ mygen'[u] = mygen[u] /\ shared'[u] = shared[u]
    BY <1>b, <1>0 DEF Stays
  <2>2. \A x \in asleep \ {t} : \E v \in Threads \ {t} :
          /\ Pinned(v)' /\ my'[v] = my'[x] /\ pc'[x] = pc[x]
          /\ (pc'[x] \in {"readWait", "seekWait"} => shared'[v] /\ mygen'[v] = mygen'[x])
    BY <1>b, <1>0 DEF SleeperHasWaker, Stays
  <2>3. QED BY <1>b, <2>1, <2>2 DEF SleeperHasWaker
<1>1. ASSUME TrimReturn(t) PROVE SleeperHasWaker'
  <2>1. /\ t \notin asleep /\ asleep' \subseteq asleep
        /\ Pinned(t) => /\ Pinned(t)' /\ my'[t] = my[t] /\ mygen'[t] = mygen[t]
                        /\ shared'[t] = shared[t]
    BY <1>1 DEF TrimReturn, Goto, Evictable, SleepersFit, LocalsFit, InCall, Pinned, Callers
  <2>2. QED BY <2>1, <1>a
<1>2. ASSUME TrimEvict(t) PROVE SleeperHasWaker'
  <2>1. /\ t \notin asleep /\ asleep' \subseteq asleep
        /\ Pinned(t) => /\ Pinned(t)' /\ my'[t] = my[t] /\ mygen'[t] = mygen[t]
                        /\ shared'[t] = shared[t]
    BY <1>2 DEF TrimEvict, Goto, Evictable, SleepersFit, LocalsFit, InCall, Pinned, Callers
  <2>2. QED BY <2>1, <1>a
<1>3. ASSUME TrimClose(t) PROVE SleeperHasWaker'
  <2>1. /\ t \notin asleep /\ asleep' \subseteq asleep
        /\ Pinned(t) => /\ Pinned(t)' /\ my'[t] = my[t] /\ mygen'[t] = mygen[t]
                        /\ shared'[t] = shared[t]
    BY <1>3 DEF TrimClose, Goto, SleepersFit, LocalsFit, InCall, Pinned, Callers
  <2>2. QED BY <2>1, <1>a
<1>4. ASSUME NEW f \in Files, Reserve(t, f) PROVE SleeperHasWaker'
  <2>1. /\ t \notin asleep /\ asleep' \subseteq asleep
        /\ Pinned(t) => /\ Pinned(t)' /\ my'[t] = my[t] /\ mygen'[t] = mygen[t]
                        /\ shared'[t] = shared[t]
    BY <1>4 DEF Reserve, Goto, SleepersFit, LocalsFit, InCall, Pinned, Callers
  <2>2. QED BY <2>1, <1>a
<1>5. ASSUME ReserveFails(t) PROVE SleeperHasWaker'
  <2>1. /\ t \notin asleep /\ asleep' \subseteq asleep
        /\ Pinned(t) => /\ Pinned(t)' /\ my'[t] = my[t] /\ mygen'[t] = mygen[t]
                        /\ shared'[t] = shared[t]
    BY <1>5 DEF ReserveFails, Goto, SleepersFit, LocalsFit, InCall, Pinned, Callers
  <2>2. QED BY <2>1, <1>a
<1>6. ASSUME OpenRaw(t) PROVE SleeperHasWaker'
  <2>1. /\ t \notin asleep /\ asleep' \subseteq asleep
        /\ Pinned(t) => /\ Pinned(t)' /\ my'[t] = my[t] /\ mygen'[t] = mygen[t]
                        /\ shared'[t] = shared[t]
    BY <1>6
      DEF OpenRaw, Goto, KernelOpen, FreeFds, SleepersFit, LocalsFit, InCall, Pinned,
          Callers
  <2>2. QED BY <2>1, <1>a
<1>7. ASSUME OpenRawExhausted(t) PROVE SleeperHasWaker'
  <2>1. /\ t \notin asleep /\ asleep' \subseteq asleep
        /\ Pinned(t) => /\ Pinned(t)' /\ my'[t] = my[t] /\ mygen'[t] = mygen[t]
                        /\ shared'[t] = shared[t]
    BY <1>7
      DEF OpenRawExhausted, TrimCall, Goto, SleepersFit, LocalsFit, InCall, Pinned, Callers
  <2>2. QED BY <2>1, <1>a
<1>8. ASSUME OpenRawFails(t) PROVE SleeperHasWaker'
  <2>1. /\ t \notin asleep /\ asleep' \subseteq asleep
        /\ Pinned(t) => /\ Pinned(t)' /\ my'[t] = my[t] /\ mygen'[t] = mygen[t]
                        /\ shared'[t] = shared[t]
    BY <1>8 DEF OpenRawFails, Goto, SleepersFit, LocalsFit, InCall, Pinned, Callers
  <2>2. QED BY <2>1, <1>a
<1>9. ASSUME OpenUnreserve(t) PROVE SleeperHasWaker'
  <2>1. /\ t \notin asleep /\ asleep' \subseteq asleep
        /\ Pinned(t) => /\ Pinned(t)' /\ my'[t] = my[t] /\ mygen'[t] = mygen[t]
                        /\ shared'[t] = shared[t]
    BY <1>9 DEF OpenUnreserve, Goto, SleepersFit, LocalsFit, InCall, Pinned, Callers
  <2>2. QED BY <2>1, <1>a
<1>10. ASSUME OpenPublish(t) PROVE SleeperHasWaker'
  <2>1. /\ t \notin asleep /\ asleep' \subseteq asleep
        /\ Pinned(t) => /\ Pinned(t)' /\ my'[t] = my[t] /\ mygen'[t] = mygen[t]
                        /\ shared'[t] = shared[t]
    BY <1>10
      DEF OpenPublish, TrimCall, Goto, SleepersFit, LocalsFit, InCall, Pinned, Callers
  <2>2. QED BY <2>1, <1>a
<1>11. ASSUME ReadWake(t) PROVE SleeperHasWaker'
  <2>1. /\ t \notin asleep /\ asleep' \subseteq asleep
        /\ Pinned(t) => /\ Pinned(t)' /\ my'[t] = my[t] /\ mygen'[t] = mygen[t]
                        /\ shared'[t] = shared[t]
    BY <1>11
      DEF ReadWake, ReadPin, StillMine, SleepersFit, LocalsFit, InCall, Pinned, Callers
  <2>2. QED BY <2>1, <1>a
<1>12. ASSUME ReadWakeReturns(t) PROVE SleeperHasWaker'
  <2>1. /\ t \notin asleep /\ asleep' \subseteq asleep
        /\ Pinned(t) => /\ Pinned(t)' /\ my'[t] = my[t] /\ mygen'[t] = mygen[t]
                        /\ shared'[t] = shared[t]
    BY <1>12
      DEF ReadWakeReturns, Return, StillMine, SleepersFit, LocalsFit, InCall, Pinned,
          Callers
  <2>2. QED BY <2>1, <1>a
<1>13. ASSUME WakeSleeps(t) PROVE SleeperHasWaker'
  <2>1. PICK u \in Threads : Pinned(u) /\ my[u] = my[t] /\ shared[u] /\ mygen[u] = gen[my[t]]
    BY <1>13 DEF WakeSleeps, StillMine, ReadingIsRead, SlotsOwned, LocalsFit, InCall
  <2>2. u # t /\ ~Pinned(t)
    BY <1>13, <2>1 DEF WakeSleeps, StillMine, Pinned
  <2>3. QED BY <1>13, <2>1, <2>2, <1>b DEF WakeSleeps, StillMine, SlotsOwned
<1>14. ASSUME ReadOpen(t) PROVE SleeperHasWaker'
  <2>1. /\ t \notin asleep /\ asleep' \subseteq asleep
        /\ Pinned(t) => /\ Pinned(t)' /\ my'[t] = my[t] /\ mygen'[t] = mygen[t]
                        /\ shared'[t] = shared[t]
    BY <1>14
      DEF ReadOpen, Goto, KernelOpen, FreeFds, SleepersFit, LocalsFit, InCall, Pinned,
          Callers
  <2>2. QED BY <2>1, <1>a
<1>15. ASSUME ReadOpenFails(t) PROVE SleeperHasWaker'
  <2>1. /\ t \notin asleep /\ asleep' \subseteq asleep
        /\ Pinned(t) => /\ Pinned(t)' /\ my'[t] = my[t] /\ mygen'[t] = mygen[t]
                        /\ shared'[t] = shared[t]
    BY <1>15 DEF ReadOpenFails, Goto, SleepersFit, LocalsFit, InCall, Pinned, Callers
  <2>2. QED BY <2>1, <1>a
<1>16. ASSUME Adopt(t) PROVE SleeperHasWaker'
  <2>1. /\ t \notin asleep /\ asleep' \subseteq asleep
        /\ Pinned(t) => /\ Pinned(t)' /\ my'[t] = my[t] /\ mygen'[t] = mygen[t]
                        /\ shared'[t] = shared[t]
    BY <1>16 DEF Adopt, Goto, Adoptable, SleepersFit, LocalsFit, InCall, Pinned, Callers
  <2>2. QED BY <2>1, <1>a
<1>17. ASSUME KeepTemporary(t) PROVE SleeperHasWaker'
  <2>1. /\ t \notin asleep /\ asleep' \subseteq asleep
        /\ Pinned(t) => /\ Pinned(t)' /\ my'[t] = my[t] /\ mygen'[t] = mygen[t]
                        /\ shared'[t] = shared[t]
    BY <1>17
      DEF KeepTemporary, Goto, Adoptable, SleepersFit, LocalsFit, InCall, Pinned, Callers
  <2>2. QED BY <2>1, <1>a
<1>18. ASSUME Pread(t) PROVE SleeperHasWaker'
  <2>1. /\ t \notin asleep /\ asleep' \subseteq asleep
        /\ Pinned(t) => /\ Pinned(t)' /\ my'[t] = my[t] /\ mygen'[t] = mygen[t]
                        /\ shared'[t] = shared[t]
    BY <1>18 DEF Pread, Goto, SleepersFit, LocalsFit, InCall, Pinned, Callers
  <2>2. QED BY <2>1, <1>a
<1>19. ASSUME CloseTemporary(t) PROVE SleeperHasWaker'
  <2>1. /\ t \notin asleep /\ asleep' \subseteq asleep
        /\ Pinned(t) => /\ Pinned(t)' /\ my'[t] = my[t] /\ mygen'[t] = mygen[t]
                        /\ shared'[t] = shared[t]
    BY <1>19 DEF CloseTemporary, Goto, SleepersFit, LocalsFit, InCall, Pinned, Callers
  <2>2. QED BY <2>1, <1>a
<1>20. ASSUME ReadFinish(t) PROVE SleeperHasWaker'
  BY <1>20 DEF ReadFinish, Return, Broadcast, SleeperHasWaker
<1>21. ASSUME SeekWake(t) PROVE SleeperHasWaker'
  <2>1. /\ t \notin asleep /\ asleep' \subseteq asleep
        /\ Pinned(t) => /\ Pinned(t)' /\ my'[t] = my[t] /\ mygen'[t] = mygen[t]
                        /\ shared'[t] = shared[t]
    BY <1>21
      DEF SeekWake, Return, StillMine, SleepersFit, LocalsFit, InCall, Pinned, Callers
  <2>2. QED BY <2>1, <1>a
<1>22. ASSUME SeekWakeReturns(t) PROVE SleeperHasWaker'
  <2>1. /\ t \notin asleep /\ asleep' \subseteq asleep
        /\ Pinned(t) => /\ Pinned(t)' /\ my'[t] = my[t] /\ mygen'[t] = mygen[t]
                        /\ shared'[t] = shared[t]
    BY <1>22
      DEF SeekWakeReturns, Return, StillMine, SleepersFit, LocalsFit, InCall, Pinned,
          Callers
  <2>2. QED BY <2>1, <1>a
<1>23. ASSUME CloseWake(t) PROVE SleeperHasWaker'
  <2>1. /\ t \notin asleep /\ asleep' \subseteq asleep
        /\ Pinned(t) => /\ Pinned(t)' /\ my'[t] = my[t] /\ mygen'[t] = mygen[t]
                        /\ shared'[t] = shared[t]
    BY <1>23 DEF CloseWake, Recycle, Goto, SleepersFit, LocalsFit, InCall, Pinned, Callers
  <2>2. QED BY <2>1, <1>a
<1>24. ASSUME CloseWakeSleeps(t) PROVE SleeperHasWaker'
  <2>1. PICK u \in Threads : Pinned(u) /\ my[u] = my[t]
    BY <1>24, BusyHasReader DEF CloseWakeSleeps, LocalsFit, InCall
  <2>2. u # t /\ ~Pinned(t)
    BY <1>24, <2>1 DEF CloseWakeSleeps, Pinned
  <2>3. QED BY <1>24, <2>1, <2>2, <1>b DEF CloseWakeSleeps, SlotsOwned
<1>25. ASSUME CloseRaw(t) PROVE SleeperHasWaker'
  <2>1. /\ t \notin asleep /\ asleep' \subseteq asleep
        /\ Pinned(t) => /\ Pinned(t)' /\ my'[t] = my[t] /\ mygen'[t] = mygen[t]
                        /\ shared'[t] = shared[t]
    BY <1>25 DEF CloseRaw, Return, SleepersFit, LocalsFit, InCall, Pinned, Callers
  <2>2. QED BY <2>1, <1>a
<1>26. ASSUME OpenCall(t) PROVE SleeperHasWaker'
  <2>1. /\ t \notin asleep /\ asleep' \subseteq asleep
        /\ Pinned(t) => /\ Pinned(t)' /\ my'[t] = my[t] /\ mygen'[t] = mygen[t]
                        /\ shared'[t] = shared[t]
    BY <1>26 DEF OpenCall, TrimCall, Goto, SleepersFit, LocalsFit, InCall, Pinned, Callers
  <2>2. QED BY <2>1, <1>a
<1>27. ASSUME StreamTrim(t) PROVE SleeperHasWaker'
  <2>1. /\ t \notin asleep /\ asleep' \subseteq asleep
        /\ Pinned(t) => /\ Pinned(t)' /\ my'[t] = my[t] /\ mygen'[t] = mygen[t]
                        /\ shared'[t] = shared[t]
    BY <1>27 DEF StreamTrim, TrimCall, Goto, SleepersFit, LocalsFit, InCall, Pinned, Callers
  <2>2. QED BY <2>1, <1>a
<1>28. ASSUME NEW s \in Slots, NEW o \in 0 .. Length, NEW n \in 0 .. Length + 1,
              PreadCall(t, s, o, n)
       PROVE  SleeperHasWaker'
  <2>1. /\ t \notin asleep /\ asleep' \subseteq asleep
        /\ Pinned(t) => /\ Pinned(t)' /\ my'[t] = my[t] /\ mygen'[t] = mygen[t]
                        /\ shared'[t] = shared[t]
    BY <1>28 DEF PreadCall, ReadPin, SleepersFit, LocalsFit, InCall, Pinned, Callers
  <2>2. QED BY <2>1, <1>a
<1>29. ASSUME NEW s \in Slots, NEW n \in 0 .. Length + 1, ReadCall(t, s, n)
       PROVE  SleeperHasWaker'
  <2>1. /\ t \notin asleep /\ asleep' \subseteq asleep
        /\ Pinned(t) => /\ Pinned(t)' /\ my'[t] = my[t] /\ mygen'[t] = mygen[t]
                        /\ shared'[t] = shared[t]
    BY <1>29 DEF ReadCall, ReadPin, SleepersFit, LocalsFit, InCall, Pinned, Callers
  <2>2. QED BY <2>1, <1>a
<1>30. ASSUME NEW s \in Slots, NEW n \in 0 .. Length + 1, ReadCallSleeps(t, s, n)
       PROVE  SleeperHasWaker'
  <2>1. PICK u \in Threads : Pinned(u) /\ my[u] = s /\ shared[u] /\ mygen[u] = gen[s]
    BY <1>30 DEF ReadCallSleeps, Goto, ReadingIsRead, SlotsOwned, LocalsFit, InCall
  <2>2. u # t /\ ~Pinned(t)
    BY <1>30, <2>1 DEF ReadCallSleeps, Goto, Pinned
  <2>3. QED BY <1>30, <2>1, <2>2, <1>b DEF ReadCallSleeps, Goto, SlotsOwned
<1>31. ASSUME NEW s \in Slots, NEW p \in 0 .. MaxPos, SeekCall(t, s, p)
       PROVE  SleeperHasWaker'
  <2>1. /\ t \notin asleep /\ asleep' \subseteq asleep
        /\ Pinned(t) => /\ Pinned(t)' /\ my'[t] = my[t] /\ mygen'[t] = mygen[t]
                        /\ shared'[t] = shared[t]
    BY <1>31 DEF SeekCall, SleepersFit, LocalsFit, InCall, Pinned, Callers
  <2>2. QED BY <2>1, <1>a
<1>32. ASSUME NEW s \in Slots, NEW p \in 0 .. MaxPos, SeekCallSleeps(t, s, p)
       PROVE  SleeperHasWaker'
  <2>1. PICK u \in Threads : Pinned(u) /\ my[u] = s /\ shared[u] /\ mygen[u] = gen[s]
    BY <1>32 DEF SeekCallSleeps, Goto, ReadingIsRead, SlotsOwned, LocalsFit, InCall
  <2>2. u # t /\ ~Pinned(t)
    BY <1>32, <2>1 DEF SeekCallSleeps, Goto, Pinned
  <2>3. QED BY <1>32, <2>1, <2>2, <1>b DEF SeekCallSleeps, Goto, SlotsOwned
<1>33. ASSUME NEW s \in Slots, CloseCall(t, s) PROVE SleeperHasWaker'
  <2>1. /\ t \notin asleep /\ asleep' \subseteq asleep
        /\ Pinned(t) => /\ Pinned(t)' /\ my'[t] = my[t] /\ mygen'[t] = mygen[t]
                        /\ shared'[t] = shared[t]
    BY <1>33 DEF CloseCall, Recycle, Goto, SleepersFit, LocalsFit, InCall, Pinned, Callers
  <2>2. QED BY <2>1, <1>a
<1>34. ASSUME NEW s \in Slots, CloseCallWaits(t, s) PROVE SleeperHasWaker'
  <2>1. PICK u \in Threads : Pinned(u) /\ my[u] = s
    BY <1>34, BusyHasReader DEF CloseCallWaits, Goto, LocalsFit, InCall
  <2>2. u # t /\ ~Pinned(t)
    BY <1>34, <2>1 DEF CloseCallWaits, Goto, Pinned
  <2>3. QED BY <1>34, <2>1, <2>2, <1>b DEF CloseCallWaits, Goto, SlotsOwned
<1>35. QED BY <1>1, <1>2, <1>3, <1>4, <1>5, <1>6, <1>7, <1>8, <1>9, <1>10,
         <1>11, <1>12, <1>13, <1>14, <1>15, <1>16, <1>17, <1>18, <1>19,
         <1>20, <1>21, <1>22, <1>23, <1>24, <1>25, <1>26, <1>27, <1>28,
         <1>29, <1>30, <1>31, <1>32, <1>33, <1>34 DEF Progress, Call

\* live moves with the table: its guards hide no wrong count.
LEMMA CountStays ==
  ASSUME IInv, MoreInv,
         NEW t \in Threads, Progress(t) \/ Call(t)
  PROVE  LiveCounts'
<1> USE SetsAssumption, NumbersAssumption
      DEF slotVars, callVars, readVars, trimVars, IInv, TypeOK, TableOK, CallsOK, MoreInv
<1>a. ASSUME raw' = raw, live' = live PROVE LiveCounts'
  BY <1>a DEF LiveCounts, RawSlots
<1>r. IsFiniteSet(RawSlots)
  <2>1. RawSlots \subseteq Slots
    BY DEF RawSlots
  <2>2. QED BY <2>1, FS_Subset
<1>b. ASSUME NEW s \in Slots, raw[s] = None, NEW d \in Fds, raw' = [raw EXCEPT ![s] = d],
             live' = live + 1
      PROVE  LiveCounts'
  <2>1. RawSlots' = RawSlots \cup {s} /\ s \notin RawSlots
    BY <1>b DEF RawSlots
  <2>2. QED BY <1>b, <2>1, <1>r, FS_AddElement DEF LiveCounts
<1>c. ASSUME NEW s \in Slots, raw[s] # None, raw' = [raw EXCEPT ![s] = None],
             live' = IF live > 0 THEN live - 1 ELSE live
      PROVE  LiveCounts'
  <2>1. RawSlots' = RawSlots \ {s} /\ s \in RawSlots
    BY <1>c DEF RawSlots
  <2>2. Cardinality(RawSlots') = Cardinality(RawSlots) - 1 /\ Cardinality(RawSlots') \in Nat
    BY <2>1, <1>r, FS_RemoveElement, FS_CardinalityType
  <2>3. QED BY <1>c, <2>2 DEF LiveCounts
<1>1. ASSUME TrimReturn(t) PROVE LiveCounts'
  BY <1>1, <1>a DEF TrimReturn, Goto, Evictable
<1>2. ASSUME TrimEvict(t) PROVE LiveCounts'
  BY <1>2, <1>c DEF TrimEvict, Goto, Evictable
<1>3. ASSUME TrimClose(t) PROVE LiveCounts'
  BY <1>3, <1>a DEF TrimClose, Goto
<1>4. ASSUME NEW f \in Files, Reserve(t, f) PROVE LiveCounts'
  <2>1. PICK s \in Slots : used[s] = Free /\ raw' = [raw EXCEPT ![s] = None]
    BY <1>4 DEF Reserve, Goto
  <2>2. raw' = raw
    BY <2>1, SMTT(30) DEF SlotsOwned, Free, Open, Closing
  <2>3. QED BY <1>4, <2>2, <1>a DEF Reserve, Goto
<1>5. ASSUME ReserveFails(t) PROVE LiveCounts'
  BY <1>5, <1>a DEF ReserveFails, Goto
<1>6. ASSUME OpenRaw(t) PROVE LiveCounts'
  BY <1>6, <1>a DEF OpenRaw, Goto, KernelOpen, FreeFds
<1>7. ASSUME OpenRawExhausted(t) PROVE LiveCounts'
  BY <1>7, <1>a DEF OpenRawExhausted, TrimCall, Goto
<1>8. ASSUME OpenRawFails(t) PROVE LiveCounts'
  BY <1>8, <1>a DEF OpenRawFails, Goto
<1>9. ASSUME OpenUnreserve(t) PROVE LiveCounts'
  BY <1>9, <1>a DEF OpenUnreserve, Goto
<1>10. ASSUME OpenPublish(t) PROVE LiveCounts'
  <2>1. raw[my[t]] = None /\ my[t] \in Slots /\ fd[t] \in Fds
    BY <1>10, SMTT(30)
      DEF OpenPublish, SlotsOwned, LocalsFit, InCall, Opening, Open, Closing, Reserved
  <2>2. QED BY <1>10, <2>1, <1>b DEF OpenPublish, TrimCall, Goto
<1>11. ASSUME ReadWake(t) PROVE LiveCounts'
  BY <1>11, <1>a DEF ReadWake, ReadPin, StillMine
<1>12. ASSUME ReadWakeReturns(t) PROVE LiveCounts'
  BY <1>12, <1>a DEF ReadWakeReturns, Return, StillMine
<1>13. ASSUME WakeSleeps(t) PROVE LiveCounts'
  BY <1>13, <1>a DEF WakeSleeps, StillMine
<1>14. ASSUME ReadOpen(t) PROVE LiveCounts'
  BY <1>14, <1>a DEF ReadOpen, Goto, KernelOpen, FreeFds
<1>15. ASSUME ReadOpenFails(t) PROVE LiveCounts'
  BY <1>15, <1>a DEF ReadOpenFails, Goto
<1>16. ASSUME Adopt(t) PROVE LiveCounts'
  <2>1. raw[my[t]] = None /\ my[t] \in Slots /\ fd[t] \in Fds
    BY <1>16 DEF Adopt, Goto, Adoptable, LocalsFit, InCall, Pinned
  <2>2. QED BY <1>16, <2>1, <1>b DEF Adopt, Goto, Adoptable
<1>17. ASSUME KeepTemporary(t) PROVE LiveCounts'
  BY <1>17, <1>a DEF KeepTemporary, Goto, Adoptable
<1>18. ASSUME Pread(t) PROVE LiveCounts'
  BY <1>18, <1>a DEF Pread, Goto
<1>19. ASSUME CloseTemporary(t) PROVE LiveCounts'
  BY <1>19, <1>a DEF CloseTemporary, Goto
<1>20. ASSUME ReadFinish(t) PROVE LiveCounts'
  BY <1>20, <1>a DEF ReadFinish, Return, Broadcast
<1>21. ASSUME SeekWake(t) PROVE LiveCounts'
  BY <1>21, <1>a DEF SeekWake, Return, StillMine
<1>22. ASSUME SeekWakeReturns(t) PROVE LiveCounts'
  BY <1>22, <1>a DEF SeekWakeReturns, Return, StillMine
<1>23. ASSUME CloseWake(t) PROVE LiveCounts'
  <2>1. raw[my[t]] = None => raw' = raw /\ live' = live
    BY <1>23 DEF CloseWake, Recycle, Goto, LocalsFit, InCall
  <2>2. raw[my[t]] # None => LiveCounts'
    BY <1>23, <1>c DEF CloseWake, Recycle, Goto, LocalsFit, InCall
  <2>3. QED BY <2>1, <2>2, <1>a
<1>24. ASSUME CloseWakeSleeps(t) PROVE LiveCounts'
  BY <1>24, <1>a DEF CloseWakeSleeps
<1>25. ASSUME CloseRaw(t) PROVE LiveCounts'
  BY <1>25, <1>a DEF CloseRaw, Return
<1>26. ASSUME OpenCall(t) PROVE LiveCounts'
  BY <1>26, <1>a DEF OpenCall, TrimCall, Goto
<1>27. ASSUME StreamTrim(t) PROVE LiveCounts'
  BY <1>27, <1>a DEF StreamTrim, TrimCall, Goto
<1>28. ASSUME NEW s \in Slots, NEW o \in 0 .. Length, NEW n \in 0 .. Length + 1,
              PreadCall(t, s, o, n)
       PROVE  LiveCounts'
  BY <1>28, <1>a DEF PreadCall, ReadPin
<1>29. ASSUME NEW s \in Slots, NEW n \in 0 .. Length + 1, ReadCall(t, s, n)
       PROVE  LiveCounts'
  BY <1>29, <1>a DEF ReadCall, ReadPin
<1>30. ASSUME NEW s \in Slots, NEW n \in 0 .. Length + 1, ReadCallSleeps(t, s, n)
       PROVE  LiveCounts'
  BY <1>30, <1>a DEF ReadCallSleeps, Goto
<1>31. ASSUME NEW s \in Slots, NEW p \in 0 .. MaxPos, SeekCall(t, s, p) PROVE LiveCounts'
  BY <1>31, <1>a DEF SeekCall
<1>32. ASSUME NEW s \in Slots, NEW p \in 0 .. MaxPos, SeekCallSleeps(t, s, p)
       PROVE  LiveCounts'
  BY <1>32, <1>a DEF SeekCallSleeps, Goto
<1>33. ASSUME NEW s \in Slots, CloseCall(t, s) PROVE LiveCounts'
  <2>1. raw[s] = None => raw' = raw /\ live' = live
    BY <1>33 DEF CloseCall, Recycle, Goto, LocalsFit, InCall
  <2>2. raw[s] # None => LiveCounts'
    BY <1>33, <1>c DEF CloseCall, Recycle, Goto, LocalsFit, InCall
  <2>3. QED BY <2>1, <2>2, <1>a
<1>34. ASSUME NEW s \in Slots, CloseCallWaits(t, s) PROVE LiveCounts'
  BY <1>34, <1>a DEF CloseCallWaits, Goto
<1>35. QED BY <1>1, <1>2, <1>3, <1>4, <1>5, <1>6, <1>7, <1>8, <1>9, <1>10,
         <1>11, <1>12, <1>13, <1>14, <1>15, <1>16, <1>17, <1>18, <1>19,
         <1>20, <1>21, <1>22, <1>23, <1>24, <1>25, <1>26, <1>27, <1>28,
         <1>29, <1>30, <1>31, <1>32, <1>33, <1>34 DEF Progress, Call

\* When no cached descriptor can be evicted, each is pinned by a thread of its
\* own, and the thread that trims pins none.
LEMMA AllBusyIsFew ==
  ASSUME IInv, LiveCounts, NEW t \in Threads, ~Pinned(t), \A s \in Slots : ~Evictable(s)
  PROVE  live < Cardinality(Threads)
<1> DEFINE holder == [s \in RawSlots |-> CHOOSE u \in Threads : Pinned(u) /\ my[u] = s]
<1>1. \A s \in RawSlots : \E u \in Threads : Pinned(u) /\ my[u] = s
  <2>1. \A s \in RawSlots : s \in Slots /\ busy[s] # 0
    BY DEF RawSlots, Evictable, IInv, SlotsOwned, Free, Open, Closing
  <2>2. QED BY <2>1, BusyHasReader DEF IInv
<1>2. \A s \in RawSlots : holder[s] \in Threads /\ Pinned(holder[s]) /\ my[holder[s]] = s
  BY <1>1
<1>3. holder \in Injection(RawSlots, Threads \ {t})
  <2>1. holder \in [RawSlots -> Threads \ {t}]
    BY <1>2
  <2>2. \A r, s \in RawSlots : holder[r] = holder[s] => r = s
    BY <1>2
  <2>3. QED BY <2>1, <2>2 DEF Injection, IsInjective
<1>4. IsFiniteSet(Threads \ {t}) /\ Cardinality(Threads \ {t}) = Cardinality(Threads) - 1
  BY FS_RemoveElement, SetsAssumption
<1>5. Cardinality(RawSlots) <= Cardinality(Threads \ {t}) /\ IsFiniteSet(RawSlots)
  BY <1>3, <1>4, FS_Injection
<1>6. Cardinality(RawSlots) \in Nat /\ Cardinality(Threads) \in Nat
  BY <1>5, SetsAssumption, FS_CardinalityType
<1>7. QED BY <1>4, <1>5, <1>6 DEF LiveCounts

\* Only an open and an adoption grow the cache, and a trim ends at its target.
LEMMA BoundStays ==
  ASSUME IInv, MoreInv,
         NEW t \in Threads, Progress(t) \/ Call(t)
  PROVE  Bounded'
<1> USE SetsAssumption, NumbersAssumption
      DEF slotVars, callVars, readVars, trimVars, IInv, TypeOK, TableOK, CallsOK, MoreInv
<1>0. \A u \in Threads \ {t} : /\ Stays(u) /\ (Pinned(u)' <=> Pinned(u))
                              /\ \A d : Holds(u, d)' <=> Holds(u, d)
  BY OthersStay DEF IInv, Stays, Pinned, Holds
<1>f. IsFiniteSet(Publishers) /\ IsFiniteSet(Publishers')
  <2>1. Publishers \subseteq Threads /\ Publishers' \subseteq Threads
    BY DEF Publishers
  <2>2. QED BY <2>1, FS_Subset
<1>n. Cardinality(Publishers) \in Nat /\ Cardinality(Publishers') \in Nat
      /\ Cardinality(Threads) \in Nat
  BY <1>f, FS_CardinalityType
<1>a. ASSUME live' <= live, live' \in Int, t \in Publishers => t \in Publishers'
      PROVE  Bounded'
  <2>1. Publishers \subseteq Publishers'
    BY <1>a, <1>0 DEF Publishers, Stays
  <2>2. Cardinality(Publishers) <= Cardinality(Publishers')
    BY <2>1, <1>f, FS_Subset
  <2>3. QED BY <1>a, <1>n, <2>2 DEF Bounded
<1>1. ASSUME TrimReturn(t) PROVE Bounded'
  <2>1. CASE t \notin Publishers
    <3>1. live' <= live /\ live' \in Int
      BY <1>1 DEF TrimReturn
    <3>2. QED BY <2>1, <3>1, <1>a
  <2>2. CASE t \in Publishers /\ live <= target[t]
    BY <1>1, <2>2, <1>n DEF TrimReturn, Bounded, Publishers
  <2>3. CASE t \in Publishers /\ \A s \in Slots : ~Evictable(s)
    <3>1. ~Pinned(t)
      BY <2>3 DEF Publishers, Pinned
    <3>2. live < Cardinality(Threads)
      BY <2>3, <3>1, AllBusyIsFew DEF MoreInv
    <3>3. live' = live
      BY <1>1 DEF TrimReturn
    <3>4. QED BY <3>2, <3>3, <1>n DEF Bounded
  <2>4. QED BY <1>1, <2>1, <2>2, <2>3 DEF TrimReturn
<1>2. ASSUME TrimEvict(t) PROVE Bounded'
  <2>1. live' <= live /\ live' \in Int /\ (t \in Publishers => t \in Publishers')
    BY <1>2 DEF TrimEvict, Goto, Evictable, Publishers
  <2>2. QED BY <2>1, <1>a
<1>3. ASSUME TrimClose(t) PROVE Bounded'
  <2>1. live' <= live /\ live' \in Int /\ (t \in Publishers => t \in Publishers')
    BY <1>3 DEF TrimClose, Goto, Publishers
  <2>2. QED BY <2>1, <1>a
<1>4. ASSUME NEW f \in Files, Reserve(t, f) PROVE Bounded'
  <2>1. live' <= live /\ live' \in Int /\ (t \in Publishers => t \in Publishers')
    BY <1>4 DEF Reserve, Goto, Publishers
  <2>2. QED BY <2>1, <1>a
<1>5. ASSUME ReserveFails(t) PROVE Bounded'
  <2>1. live' <= live /\ live' \in Int /\ (t \in Publishers => t \in Publishers')
    BY <1>5 DEF ReserveFails, Goto, Publishers
  <2>2. QED BY <2>1, <1>a
<1>6. ASSUME OpenRaw(t) PROVE Bounded'
  <2>1. live' <= live /\ live' \in Int /\ (t \in Publishers => t \in Publishers')
    BY <1>6 DEF OpenRaw, Goto, KernelOpen, FreeFds, Publishers
  <2>2. QED BY <2>1, <1>a
<1>7. ASSUME OpenRawExhausted(t) PROVE Bounded'
  <2>1. live' <= live /\ live' \in Int /\ (t \in Publishers => t \in Publishers')
    BY <1>7 DEF OpenRawExhausted, TrimCall, Goto, Publishers
  <2>2. QED BY <2>1, <1>a
<1>8. ASSUME OpenRawFails(t) PROVE Bounded'
  <2>1. live' <= live /\ live' \in Int /\ (t \in Publishers => t \in Publishers')
    BY <1>8 DEF OpenRawFails, Goto, Publishers
  <2>2. QED BY <2>1, <1>a
<1>9. ASSUME OpenUnreserve(t) PROVE Bounded'
  <2>1. live' <= live /\ live' \in Int /\ (t \in Publishers => t \in Publishers')
    BY <1>9 DEF OpenUnreserve, Goto, Publishers
  <2>2. QED BY <2>1, <1>a
<1>10. ASSUME OpenPublish(t) PROVE Bounded'
  <2>1. t \notin Publishers /\ Publishers' = Publishers \cup {t}
    BY <1>10, <1>0 DEF OpenPublish, TrimCall, Goto, Publishers, Stays
  <2>2. Cardinality(Publishers') = Cardinality(Publishers) + 1
    BY <2>1, <1>f, FS_AddElement
  <2>3. QED BY <1>10, <2>2, <1>n DEF OpenPublish, Bounded
<1>11. ASSUME ReadWake(t) PROVE Bounded'
  <2>1. live' <= live /\ live' \in Int /\ (t \in Publishers => t \in Publishers')
    BY <1>11 DEF ReadWake, ReadPin, StillMine, Publishers
  <2>2. QED BY <2>1, <1>a
<1>12. ASSUME ReadWakeReturns(t) PROVE Bounded'
  <2>1. live' <= live /\ live' \in Int /\ (t \in Publishers => t \in Publishers')
    BY <1>12 DEF ReadWakeReturns, Return, StillMine, Publishers
  <2>2. QED BY <2>1, <1>a
<1>13. ASSUME WakeSleeps(t) PROVE Bounded'
  <2>1. live' <= live /\ live' \in Int /\ (t \in Publishers => t \in Publishers')
    BY <1>13 DEF WakeSleeps, StillMine, Publishers
  <2>2. QED BY <2>1, <1>a
<1>14. ASSUME ReadOpen(t) PROVE Bounded'
  <2>1. live' <= live /\ live' \in Int /\ (t \in Publishers => t \in Publishers')
    BY <1>14 DEF ReadOpen, Goto, KernelOpen, FreeFds, Publishers
  <2>2. QED BY <2>1, <1>a
<1>15. ASSUME ReadOpenFails(t) PROVE Bounded'
  <2>1. live' <= live /\ live' \in Int /\ (t \in Publishers => t \in Publishers')
    BY <1>15 DEF ReadOpenFails, Goto, Publishers
  <2>2. QED BY <2>1, <1>a
<1>16. ASSUME Adopt(t) PROVE Bounded'
  <2>1. live' <= SoftMax /\ live' \in Int
    BY <1>16 DEF Adopt, Goto, Adoptable
  <2>2. QED BY <2>1, <1>n DEF Bounded
<1>17. ASSUME KeepTemporary(t) PROVE Bounded'
  <2>1. live' <= live /\ live' \in Int /\ (t \in Publishers => t \in Publishers')
    BY <1>17 DEF KeepTemporary, Goto, Adoptable, Publishers
  <2>2. QED BY <2>1, <1>a
<1>18. ASSUME Pread(t) PROVE Bounded'
  <2>1. live' <= live /\ live' \in Int /\ (t \in Publishers => t \in Publishers')
    BY <1>18 DEF Pread, Goto, Publishers
  <2>2. QED BY <2>1, <1>a
<1>19. ASSUME CloseTemporary(t) PROVE Bounded'
  <2>1. live' <= live /\ live' \in Int /\ (t \in Publishers => t \in Publishers')
    BY <1>19 DEF CloseTemporary, Goto, Publishers
  <2>2. QED BY <2>1, <1>a
<1>20. ASSUME ReadFinish(t) PROVE Bounded'
  <2>1. live' <= live /\ live' \in Int /\ (t \in Publishers => t \in Publishers')
    BY <1>20 DEF ReadFinish, Return, Broadcast, Publishers
  <2>2. QED BY <2>1, <1>a
<1>21. ASSUME SeekWake(t) PROVE Bounded'
  <2>1. live' <= live /\ live' \in Int /\ (t \in Publishers => t \in Publishers')
    BY <1>21 DEF SeekWake, Return, StillMine, Publishers
  <2>2. QED BY <2>1, <1>a
<1>22. ASSUME SeekWakeReturns(t) PROVE Bounded'
  <2>1. live' <= live /\ live' \in Int /\ (t \in Publishers => t \in Publishers')
    BY <1>22 DEF SeekWakeReturns, Return, StillMine, Publishers
  <2>2. QED BY <2>1, <1>a
<1>23. ASSUME CloseWake(t) PROVE Bounded'
  <2>1. live' <= live /\ live' \in Int /\ (t \in Publishers => t \in Publishers')
    BY <1>23 DEF CloseWake, Recycle, Goto, Publishers
  <2>2. QED BY <2>1, <1>a
<1>24. ASSUME CloseWakeSleeps(t) PROVE Bounded'
  <2>1. live' <= live /\ live' \in Int /\ (t \in Publishers => t \in Publishers')
    BY <1>24 DEF CloseWakeSleeps, Publishers
  <2>2. QED BY <2>1, <1>a
<1>25. ASSUME CloseRaw(t) PROVE Bounded'
  <2>1. live' <= live /\ live' \in Int /\ (t \in Publishers => t \in Publishers')
    BY <1>25 DEF CloseRaw, Return, Publishers
  <2>2. QED BY <2>1, <1>a
<1>26. ASSUME OpenCall(t) PROVE Bounded'
  <2>1. live' <= live /\ live' \in Int /\ (t \in Publishers => t \in Publishers')
    BY <1>26 DEF OpenCall, TrimCall, Goto, Publishers
  <2>2. QED BY <2>1, <1>a
<1>27. ASSUME StreamTrim(t) PROVE Bounded'
  <2>1. live' <= live /\ live' \in Int /\ (t \in Publishers => t \in Publishers')
    BY <1>27 DEF StreamTrim, TrimCall, Goto, Publishers
  <2>2. QED BY <2>1, <1>a
<1>28. ASSUME NEW s \in Slots, NEW o \in 0 .. Length, NEW n \in 0 .. Length + 1,
              PreadCall(t, s, o, n)
       PROVE  Bounded'
  <2>1. live' <= live /\ live' \in Int /\ (t \in Publishers => t \in Publishers')
    BY <1>28 DEF PreadCall, ReadPin, Publishers
  <2>2. QED BY <2>1, <1>a
<1>29. ASSUME NEW s \in Slots, NEW n \in 0 .. Length + 1, ReadCall(t, s, n) PROVE Bounded'
  <2>1. live' <= live /\ live' \in Int /\ (t \in Publishers => t \in Publishers')
    BY <1>29 DEF ReadCall, ReadPin, Publishers
  <2>2. QED BY <2>1, <1>a
<1>30. ASSUME NEW s \in Slots, NEW n \in 0 .. Length + 1, ReadCallSleeps(t, s, n)
       PROVE  Bounded'
  <2>1. live' <= live /\ live' \in Int /\ (t \in Publishers => t \in Publishers')
    BY <1>30 DEF ReadCallSleeps, Goto, Publishers
  <2>2. QED BY <2>1, <1>a
<1>31. ASSUME NEW s \in Slots, NEW p \in 0 .. MaxPos, SeekCall(t, s, p) PROVE Bounded'
  <2>1. live' <= live /\ live' \in Int /\ (t \in Publishers => t \in Publishers')
    BY <1>31 DEF SeekCall, Publishers
  <2>2. QED BY <2>1, <1>a
<1>32. ASSUME NEW s \in Slots, NEW p \in 0 .. MaxPos, SeekCallSleeps(t, s, p) PROVE Bounded'
  <2>1. live' <= live /\ live' \in Int /\ (t \in Publishers => t \in Publishers')
    BY <1>32 DEF SeekCallSleeps, Goto, Publishers
  <2>2. QED BY <2>1, <1>a
<1>33. ASSUME NEW s \in Slots, CloseCall(t, s) PROVE Bounded'
  <2>1. live' <= live /\ live' \in Int /\ (t \in Publishers => t \in Publishers')
    BY <1>33 DEF CloseCall, Recycle, Goto, Publishers
  <2>2. QED BY <2>1, <1>a
<1>34. ASSUME NEW s \in Slots, CloseCallWaits(t, s) PROVE Bounded'
  <2>1. live' <= live /\ live' \in Int /\ (t \in Publishers => t \in Publishers')
    BY <1>34 DEF CloseCallWaits, Goto, Publishers
  <2>2. QED BY <2>1, <1>a
<1>35. QED BY <1>1, <1>2, <1>3, <1>4, <1>5, <1>6, <1>7, <1>8, <1>9, <1>10,
         <1>11, <1>12, <1>13, <1>14, <1>15, <1>16, <1>17, <1>18, <1>19,
         <1>20, <1>21, <1>22, <1>23, <1>24, <1>25, <1>26, <1>27, <1>28,
         <1>29, <1>30, <1>31, <1>32, <1>33, <1>34 DEF Progress, Call

LEMMA MoreStutter ==
  ASSUME MoreInv, UNCHANGED vars
  PROVE  MoreInv'
<1> USE DEF vars, slotVars, callVars, readVars, trimVars, MoreInv
<1>1. \A t \in Threads : /\ Pinned(t)' <=> Pinned(t)
                         /\ \A d : Holds(t, d)' <=> Holds(t, d)
  BY DEF Pinned, Holds
<1>2. RawSlots' = RawSlots /\ Publishers' = Publishers
  BY DEF RawSlots, Publishers
<1>3. NoLeak' BY <1>1 DEF NoLeak
<1>4. SleepersFit' BY DEF SleepersFit
<1>5. ReadingIsRead' BY <1>1 DEF ReadingIsRead
<1>6. SleeperHasWaker' BY <1>1 DEF SleeperHasWaker
<1>7. ReservedIsNew' BY DEF ReservedIsNew
<1>8. AnswersFit' BY DEF AnswersFit
<1>9. LiveCounts' /\ Bounded' BY <1>2 DEF LiveCounts, Bounded
<1>10. QED BY <1>3, <1>4, <1>5, <1>6, <1>7, <1>8, <1>9

LEMMA MoreInit == Init => MoreInv
<1> SUFFICES ASSUME Init PROVE MoreInv
  OBVIOUS
<1> USE SetsAssumption, NumbersAssumption DEF Init
<1>1. NoLeak /\ SleepersFit /\ ReadingIsRead /\ SleeperHasWaker
  BY DEF NoLeak, SleepersFit, ReadingIsRead, SleeperHasWaker
<1>2. ReservedIsNew /\ AnswersFit
  BY DEF ReservedIsNew, AnswersFit, NoBytes
<1>3. RawSlots = {}
  BY DEF RawSlots
<1>4. LiveCounts
  BY <1>3, FS_EmptySet DEF LiveCounts
<1>5. Bounded
  <2>1. IsFiniteSet(Publishers)
    <3>1. Publishers \subseteq Threads BY DEF Publishers
    <3>2. QED BY <3>1, FS_Subset
  <2>2. Cardinality(Publishers) \in Nat
    BY <2>1, FS_CardinalityType
  <2>3. QED BY <2>2 DEF Bounded
<1>6. QED BY <1>1, <1>2, <1>4, <1>5 DEF MoreInv

LEMMA MoreNext == IInv /\ MoreInv /\ [Next]_vars => MoreInv'
<1>1. ASSUME IInv, MoreInv, NEW t \in Threads, Progress(t) \/ Call(t) PROVE MoreInv'
  BY <1>1, NothingLeaks, SleepersKeep, ReadingKeeps, WakersStay, NewKeeps, AnswersKeep,
     CountStays, BoundStays
  DEF MoreInv
<1>2. QED BY <1>1, MoreStutter DEF Next

THEOREM MoreInvariant == Spec => []MoreInv
BY Invariant, MoreInit, MoreNext, PTL DEF Spec

-----------------------------------------------------------------------------
\* Every kernel descriptor that io.c opens has exactly one owner that will
\* close it or hand it over, and a closed one has none: nothing leaks and
\* nothing is closed twice, whatever trims, adoptions and closes run at once.
THEOREM EveryFdHasOneOwner == Spec => []OneOwner
<1>1. ASSUME IInv, NoLeak, NEW d \in Fds
      PROVE  Cardinality(Owners(d)) = IF kernel[d] = None THEN 0 ELSE 1
  <2> USE <1>1, SetsAssumption
  <2>1. \A s \in Slots : raw[s] = d => kernel[d] # None /\ \A t \in Threads : ~Holds(t, d)
    BY DEF IInv, CachedFds, HeldFds, SlotsOwned, Free, Open, Closing
  <2>2. \A t \in Threads : Holds(t, d) => kernel[d] # None
    BY DEF IInv, HeldFds
  <2>3. CASE kernel[d] = None
    <3>1. Owners(d) = {}
      BY <2>1, <2>2, <2>3 DEF Owners
    <3>2. QED BY <2>3, <3>1, FS_EmptySet
  <2>4. CASE \E s \in Slots : raw[s] = d
    <3>1. PICK s \in Slots : raw[s] = d
      BY <2>4
    <3>2. \A r \in Slots : raw[r] = d => r = s
      BY <3>1 DEF IInv, CachedFds
    <3>3. Owners(d) = {s}
      BY <2>1, <3>1, <3>2 DEF Owners
    <3>4. QED BY <2>1, <3>1, <3>3, FS_Singleton
  <2>5. CASE \E t \in Threads : Holds(t, d)
    <3>1. PICK t \in Threads : Holds(t, d)
      BY <2>5
    <3>2. \A u \in Threads : Holds(u, d) => u = t
      BY <3>1 DEF IInv, HeldFds
    <3>3. Owners(d) = {t}
      BY <2>1, <3>1, <3>2 DEF Owners
    <3>4. QED BY <2>2, <3>1, <3>3, FS_Singleton
  <2>6. QED BY <2>3, <2>4, <2>5 DEF NoLeak
<1>2. IInv /\ MoreInv => OneOwner
  BY <1>1 DEF MoreInv, OneOwner
<1>3. QED BY <1>2, Invariant, MoreInvariant, PTL

\* g_asset_vfd_live_raw is the number of cached descriptors, and the cache is
\* past its soft limit only by opens that have not trimmed yet or by readers
\* that hold every cached descriptor.
THEOREM CacheBounded == Spec => []CacheIsBounded
<1>1. MoreInv => CacheIsBounded
  BY DEF MoreInv, LiveCounts, Bounded, CacheIsBounded
<1>2. QED BY <1>1, MoreInvariant, PTL

\* Whoever sleeps on g_asset_vfd_idle waits for a reader that is still there
\* and will broadcast when it leaves.
THEOREM SleepersAreWoken == Spec => []SleeperHasWaker
<1>1. MoreInv => SleeperHasWaker
  BY DEF MoreInv
<1>2. QED BY <1>1, MoreInvariant, PTL


-----------------------------------------------------------------------------
\* What AssetFiles sees of the descriptors, as in Promise.
VState == [s \in Slots |-> IF used[s] = Open THEN "open"
                           ELSE IF used[s] = Closing THEN "closing" ELSE "free"]
VFile == [s \in Slots |-> IF used[s] \in {Open, Closing} THEN path[s] ELSE None]
VPos == [s \in Slots |-> IF used[s] \in {Open, Closing} THEN pos[s] ELSE 0]
VReader == [t \in Threads |-> IF Pinned(t) THEN <<my[t], shared[t]>> ELSE None]
Unseen == VState' = VState /\ VFile' = VFile /\ VPos' = VPos /\ VReader' = VReader /\ got' = got

LEMMA ReaderIs ==
  ASSUME IInv, NEW t \in Threads
  PROVE  /\ VReader[t] # None <=> Pinned(t)
         /\ Pinned(t) => VReader[t][1] = my[t] /\ VReader[t][2] = shared[t]
BY SetsAssumption DEF VReader, IInv, TypeOK, CallsOK, LocalsFit, InCall

\* What one slot's state shows, and a reader that leaves.
LEMMA StateIs ==
  ASSUME NEW s \in Slots, NEW w, \A r \in Slots \ {s} : used'[r] = used[r],
         w = IF used'[s] = Open THEN "open"
             ELSE IF used'[s] = Closing THEN "closing" ELSE "free"
  PROVE  VState' = [VState EXCEPT ![s] = w]
<1>1. \A r \in Slots : VState'[r] = IF r = s THEN w ELSE VState[r]
  BY DEF VState
<1>2. VState' = [r \in Slots |-> VState'[r]]
  BY DEF VState
<1>3. [VState EXCEPT ![s] = w] = [r \in Slots |-> IF r = s THEN w ELSE VState[r]]
  BY DEF VState
<1>4. QED BY <1>1, <1>2, <1>3

LEMMA ReaderLeaves ==
  ASSUME NEW t \in Threads, ~Pinned(t)',
         \A u \in Threads \ {t} : Stays(u) /\ (Pinned(u)' <=> Pinned(u))
  PROVE  VReader' = [VReader EXCEPT ![t] = None]
BY DEF VReader, Stays

\* Nobody reads a slot at its shared position unless it is marked.
LEMMA UnmarkedIsUnshared ==
  ASSUME IInv, NEW s \in Slots, ~reading[s]
  PROVE  \A u \in Promise!Readers(s) : ~VReader[u][2]
BY ReaderIs DEF Promise!Readers, VReader, IInv, SharedReadIsAtomic

\* The lock section that pins a slot begins a read ...
LEMMA PinBegins ==
  ASSUME IInv, NEW t \in Threads, NEW s \in Slots, NEW sh \in BOOLEAN,
         used[s] = Open, sh => ~reading[s], ~Pinned(t),
         \A u \in Threads \ {t} : Stays(u) /\ (Pinned(u)' <=> Pinned(u)),
         used' = used, path' = path, pos' = pos, got' = got,
         Pinned(t)', my'[t] = s, shared'[t] = sh
  PROVE  Promise!BeginRead(t, s, sh)
<1>1. VState' = VState /\ VFile' = VFile /\ VPos' = VPos /\ VState[s] = "open"
  BY DEF VState, VFile, VPos
<1>2. VReader' = [VReader EXCEPT ![t] = <<s, sh>>]
  BY DEF VReader, Stays
<1>3. VReader[t] = None
  BY DEF VReader
<1>4. sh => \A u \in Promise!Readers(s) : ~VReader[u][2]
  BY UnmarkedIsUnshared
<1>5. QED BY <1>1, <1>2, <1>3, <1>4
  DEF Promise!BeginRead, VState, VFile, VPos, VReader, Promise!Readers

\* ... the one that sets the position seeks ...
LEMMA SeekMaps ==
  ASSUME IInv, NEW s \in Slots, NEW p \in 0 .. MaxPos, used[s] = Open, ~reading[s],
         used' = used, path' = path, got' = got, pos' = [pos EXCEPT ![s] = p],
         VReader' = VReader
  PROVE  Promise!Seek(s, p)
<1>1. VState' = VState /\ VFile' = VFile /\ VState[s] = "open"
  BY DEF VState, VFile
<1>2. VPos' = [VPos EXCEPT ![s] = p]
  BY DEF VPos, IInv, TypeOK, TableOK
<1>3. \A u \in Promise!Readers(s) : ~VReader[u][2]
  BY UnmarkedIsUnshared
<1>4. QED BY <1>1, <1>2, <1>3
  DEF Promise!Seek, VState, VFile, VPos, VReader, Promise!Readers

\* ... and the one that frees the slot ends the close.
LEMMA RecycleMaps ==
  ASSUME IInv, NEW s \in Slots, used[s] \in {Open, Closing}, busy[s] = 0,
         used' = [used EXCEPT ![s] = Free], path' = [path EXCEPT ![s] = None],
         pos' = [pos EXCEPT ![s] = 0], got' = got, VReader' = VReader
  PROVE  Promise!EndClose(s)
<1> USE DEF Free, Open, Closing
<1>1. VState' = [VState EXCEPT ![s] = "free"] /\ VState[s] # "free"
  <2>1. used \in [Slots -> 0 .. 3]
    BY DEF IInv, TypeOK, TableOK
  <2>2. VState[s] # "free"
    BY DEF VState
  <2>3. QED BY <2>1, <2>2, StateIs
<1>2. VFile' = [VFile EXCEPT ![s] = None] /\ VPos' = [VPos EXCEPT ![s] = 0]
  BY DEF VFile, VPos, IInv, TypeOK, TableOK
<1>3. Promise!Readers(s) = {}
  <2>1. \A u \in Threads : Pinned(u) => my[u] # s
    BY CountedMeansUnpinned DEF IInv, Unpinned
  <2>2. QED BY <2>1, ReaderIs DEF Promise!Readers, VReader
<1>4. QED BY <1>1, <1>2, <1>3
  DEF Promise!EndClose, VState, VFile, VPos, VReader, Promise!Readers

\* A pread is of the slot's own file.
LEMMA ReadsOwn ==
  ASSUME IInv, NEW t \in Threads, pc[t] = "pread"
  PROVE  kernel[fd[t]] = path[my[t]]
<1>1. my[t] \in Slots /\ fd[t] \in Fds
  BY DEF IInv, LocalsFit, InCall, Pinned
<1>2. QED BY <1>1, SetsAssumption DEF IInv, UsedFds, CachedFds

\* Every step is a step of AssetFiles or shows nothing.
LEMMA StepMaps ==
  ASSUME IInv, MoreInv,
         NEW t \in Threads, Progress(t) \/ Call(t)
  PROVE  Promise!Next \/ Unseen
<1> USE SetsAssumption, NumbersAssumption
      DEF slotVars, callVars, readVars, trimVars, IInv, TypeOK, TableOK, CallsOK
<1>0. \A u \in Threads \ {t} : Stays(u) /\ (Pinned(u)' <=> Pinned(u))
  BY OthersStay DEF IInv, Stays, Pinned
<1>r. ASSUME Pinned(t)' <=> Pinned(t), Pinned(t) => my'[t] = my[t] /\ shared'[t] = shared[t]
      PROVE  VReader' = VReader
  BY <1>0, <1>r DEF VReader, Stays
<1>a. ASSUME used' = used, path' = path, pos' = pos, got' = got,
             Pinned(t)' <=> Pinned(t), Pinned(t) => my'[t] = my[t] /\ shared'[t] = shared[t]
      PROVE  Unseen
  BY <1>a, <1>r DEF Unseen, VState, VFile, VPos
<1>1. ASSUME TrimReturn(t) PROVE Promise!Next \/ Unseen
  <2>1. used' = used /\ path' = path /\ pos' = pos
    BY <1>1 DEF TrimReturn, Goto, Evictable
  <2>2. got' = got
    BY <1>1 DEF TrimReturn, Goto, Evictable, LocalsFit, NoBytes
  <2>3. /\ Pinned(t)' <=> Pinned(t)
        /\ Pinned(t) => my'[t] = my[t] /\ shared'[t] = shared[t]
    BY <1>1 DEF TrimReturn, Goto, Evictable, Pinned, Callers
  <2>4. QED BY <2>1, <2>2, <2>3, <1>a
<1>2. ASSUME TrimEvict(t) PROVE Promise!Next \/ Unseen
  <2>1. used' = used /\ path' = path /\ pos' = pos
    BY <1>2 DEF TrimEvict, Goto, Evictable
  <2>2. got' = got
    BY <1>2 DEF TrimEvict, Goto, Evictable, LocalsFit, NoBytes
  <2>3. /\ Pinned(t)' <=> Pinned(t)
        /\ Pinned(t) => my'[t] = my[t] /\ shared'[t] = shared[t]
    BY <1>2 DEF TrimEvict, Goto, Evictable, Pinned, Callers
  <2>4. QED BY <2>1, <2>2, <2>3, <1>a
<1>3. ASSUME TrimClose(t) PROVE Promise!Next \/ Unseen
  <2>1. used' = used /\ path' = path /\ pos' = pos
    BY <1>3 DEF TrimClose, Goto
  <2>2. got' = got
    BY <1>3 DEF TrimClose, Goto, LocalsFit, NoBytes
  <2>3. /\ Pinned(t)' <=> Pinned(t)
        /\ Pinned(t) => my'[t] = my[t] /\ shared'[t] = shared[t]
    BY <1>3 DEF TrimClose, Goto, Pinned, Callers
  <2>4. QED BY <2>1, <2>2, <2>3, <1>a
<1>4. ASSUME NEW f \in Files, Reserve(t, f) PROVE Promise!Next \/ Unseen
  <2>1. ~Pinned(t) /\ ~Pinned(t)' /\ got' = got
    BY <1>4 DEF Reserve, Goto, Pinned
  <2>2. PICK s \in Slots : /\ used[s] \notin {Open, Closing} /\ used'[s] \notin {Open, Closing}
                          /\ \A r \in Slots \ {s} : used'[r] = used[r] /\ path'[r] = path[r]
                                                    /\ pos'[r] = pos[r]
    <3>1. PICK s \in Slots : /\ used[s] = Free /\ used' = [used EXCEPT ![s] = Reserved]
                            /\ path' = [path EXCEPT ![s] = f] /\ pos' = [pos EXCEPT ![s] = 0]
      BY <1>4 DEF Reserve
    <3>2. used \in [Slots -> 0 .. 3]
          /\ path \in [Slots -> Files \cup {None}] /\ pos \in [Slots -> Positions]
      BY DEF TableOK
    <3>3. QED BY ONLY <3>1, <3>2 DEF Free, Open, Closing, Reserved
  <2>3. VState' = VState /\ VFile' = VFile /\ VPos' = VPos
    BY <2>2 DEF VState, VFile, VPos
  <2>4. QED BY <2>1, <2>3, <1>r DEF Unseen
<1>5. ASSUME ReserveFails(t) PROVE Promise!Next \/ Unseen
  <2>1. used' = used /\ path' = path /\ pos' = pos
    BY <1>5 DEF ReserveFails, Goto
  <2>2. got' = got
    BY <1>5 DEF ReserveFails, Goto, LocalsFit, NoBytes
  <2>3. /\ Pinned(t)' <=> Pinned(t)
        /\ Pinned(t) => my'[t] = my[t] /\ shared'[t] = shared[t]
    BY <1>5 DEF ReserveFails, Goto, Pinned, Callers
  <2>4. QED BY <2>1, <2>2, <2>3, <1>a
<1>6. ASSUME OpenRaw(t) PROVE Promise!Next \/ Unseen
  <2>1. used' = used /\ path' = path /\ pos' = pos
    BY <1>6 DEF OpenRaw, Goto, KernelOpen, FreeFds
  <2>2. got' = got
    BY <1>6 DEF OpenRaw, Goto, KernelOpen, FreeFds, LocalsFit, NoBytes
  <2>3. /\ Pinned(t)' <=> Pinned(t)
        /\ Pinned(t) => my'[t] = my[t] /\ shared'[t] = shared[t]
    BY <1>6 DEF OpenRaw, Goto, KernelOpen, FreeFds, Pinned, Callers
  <2>4. QED BY <2>1, <2>2, <2>3, <1>a
<1>7. ASSUME OpenRawExhausted(t) PROVE Promise!Next \/ Unseen
  <2>1. used' = used /\ path' = path /\ pos' = pos
    BY <1>7 DEF OpenRawExhausted, TrimCall, Goto
  <2>2. got' = got
    BY <1>7 DEF OpenRawExhausted, TrimCall, Goto, LocalsFit, NoBytes
  <2>3. /\ Pinned(t)' <=> Pinned(t)
        /\ Pinned(t) => my'[t] = my[t] /\ shared'[t] = shared[t]
    BY <1>7 DEF OpenRawExhausted, TrimCall, Goto, Pinned, Callers
  <2>4. QED BY <2>1, <2>2, <2>3, <1>a
<1>8. ASSUME OpenRawFails(t) PROVE Promise!Next \/ Unseen
  <2>1. used' = used /\ path' = path /\ pos' = pos
    BY <1>8 DEF OpenRawFails, Goto
  <2>2. got' = got
    BY <1>8 DEF OpenRawFails, Goto, LocalsFit, NoBytes
  <2>3. /\ Pinned(t)' <=> Pinned(t)
        /\ Pinned(t) => my'[t] = my[t] /\ shared'[t] = shared[t]
    BY <1>8 DEF OpenRawFails, Goto, Pinned, Callers
  <2>4. QED BY <2>1, <2>2, <2>3, <1>a
<1>9. ASSUME OpenUnreserve(t) PROVE Promise!Next \/ Unseen
  <2>1. ~Pinned(t) /\ ~Pinned(t)' /\ got' = got
    BY <1>9 DEF OpenUnreserve, Goto, Pinned
  <2>2. PICK s \in Slots : /\ used[s] \notin {Open, Closing} /\ used'[s] \notin {Open, Closing}
                          /\ \A r \in Slots \ {s} : used'[r] = used[r] /\ path'[r] = path[r]
                                                    /\ pos'[r] = pos[r]
    <3>1. /\ my[t] \in Slots /\ used[my[t]] = Reserved /\ used' = [used EXCEPT ![my[t]] = Free]
          /\ path' = [path EXCEPT ![my[t]] = None] /\ pos' = pos
      BY <1>9 DEF OpenUnreserve, SlotsOwned, LocalsFit, InCall, Opening
    <3>2. used \in [Slots -> 0 .. 3]
          /\ path \in [Slots -> Files \cup {None}]
      BY DEF TableOK
    <3>3. QED BY ONLY <3>1, <3>2 DEF Free, Open, Closing, Reserved
  <2>3. VState' = VState /\ VFile' = VFile /\ VPos' = VPos
    BY <2>2 DEF VState, VFile, VPos
  <2>4. QED BY <2>1, <2>3, <1>r DEF Unseen
<1>10. ASSUME OpenPublish(t) PROVE Promise!Next \/ Unseen
  <2>0. PICK s \in Slots : s = my[t] /\ used[s] = Reserved
    BY <1>10 DEF OpenPublish, TrimCall, Goto, SlotsOwned, LocalsFit, InCall, Opening
  <2>1. PICK f \in Files : f = path[s]
    BY <2>0 DEF SlotsOwned, Free, Reserved
  <2>2. VReader' = VReader /\ got' = got
    BY <1>10, <1>r DEF OpenPublish, TrimCall, Goto, Pinned
  <2>3. pos[s] = 0
    BY <2>0 DEF MoreInv, ReservedIsNew
  <2>4. used' = [used EXCEPT ![s] = Open] /\ path' = path /\ pos' = pos
    BY <1>10, <2>0 DEF OpenPublish, TrimCall, Goto
  <2>s. VState' = [VState EXCEPT ![s] = "open"] /\ VState[s] = "free"
    <3>1. VState[s] = "free"
      BY <2>0 DEF VState, Open, Closing, Reserved
    <3>2. QED BY <2>0, <2>4, <3>1, StateIs DEF Open
  <2>5. VFile' = [VFile EXCEPT ![s] = f] /\ VPos' = VPos
    BY <2>0, <2>1, <2>3, <2>4 DEF VFile, VPos, Open, Closing, Reserved
  <2>6. Promise!OpenFile(s, f)
    BY <2>2, <2>s, <2>5 DEF Promise!OpenFile, VState, VFile, VPos, VReader
  <2>7. QED BY <2>6 DEF Promise!Next
<1>11. ASSUME ReadWake(t) PROVE Promise!Next \/ Unseen
  <2>0. PICK r \in Slots : r = my[t]
    BY <1>11 DEF ReadWake, ReadPin, StillMine, LocalsFit, InCall
  <2>1. /\ used[r] = Open /\ ~Pinned(t) /\ (TRUE => ~reading[r])
        /\ used' = used /\ path' = path /\ pos' = pos /\ got' = got
        /\ my'[t] = r /\ shared'[t] = TRUE
    BY <1>11, <2>0 DEF ReadWake, ReadPin, StillMine, Pinned
  <2>2. Pinned(t)'
    BY <1>11 DEF ReadWake, ReadPin, StillMine, Pinned
  <2>3. Promise!BeginRead(t, r, TRUE)
    BY <2>1, <2>2, <1>0, PinBegins
  <2>4. QED BY <2>3 DEF Promise!Next
<1>12. ASSUME ReadWakeReturns(t) PROVE Promise!Next \/ Unseen
  <2>1. used' = used /\ path' = path /\ pos' = pos
    BY <1>12 DEF ReadWakeReturns, Return, StillMine
  <2>2. got' = got
    BY <1>12 DEF ReadWakeReturns, Return, StillMine, LocalsFit, NoBytes
  <2>3. /\ Pinned(t)' <=> Pinned(t)
        /\ Pinned(t) => my'[t] = my[t] /\ shared'[t] = shared[t]
    BY <1>12 DEF ReadWakeReturns, Return, StillMine, Pinned, Callers
  <2>4. QED BY <2>1, <2>2, <2>3, <1>a
<1>13. ASSUME WakeSleeps(t) PROVE Promise!Next \/ Unseen
  <2>1. used' = used /\ path' = path /\ pos' = pos
    BY <1>13 DEF WakeSleeps, StillMine
  <2>2. got' = got
    BY <1>13 DEF WakeSleeps, StillMine, LocalsFit, NoBytes
  <2>3. /\ Pinned(t)' <=> Pinned(t)
        /\ Pinned(t) => my'[t] = my[t] /\ shared'[t] = shared[t]
    BY <1>13 DEF WakeSleeps, StillMine, Pinned, Callers
  <2>4. QED BY <2>1, <2>2, <2>3, <1>a
<1>14. ASSUME ReadOpen(t) PROVE Promise!Next \/ Unseen
  <2>1. used' = used /\ path' = path /\ pos' = pos
    BY <1>14 DEF ReadOpen, Goto, KernelOpen, FreeFds
  <2>2. got' = got
    BY <1>14 DEF ReadOpen, Goto, KernelOpen, FreeFds, LocalsFit, NoBytes
  <2>3. /\ Pinned(t)' <=> Pinned(t)
        /\ Pinned(t) => my'[t] = my[t] /\ shared'[t] = shared[t]
    BY <1>14 DEF ReadOpen, Goto, KernelOpen, FreeFds, Pinned, Callers
  <2>4. QED BY <2>1, <2>2, <2>3, <1>a
<1>15. ASSUME ReadOpenFails(t) PROVE Promise!Next \/ Unseen
  <2>1. used' = used /\ path' = path /\ pos' = pos
    BY <1>15 DEF ReadOpenFails, Goto
  <2>2. got' = got
    BY <1>15 DEF ReadOpenFails, Goto, LocalsFit, NoBytes
  <2>3. /\ Pinned(t)' <=> Pinned(t)
        /\ Pinned(t) => my'[t] = my[t] /\ shared'[t] = shared[t]
    BY <1>15 DEF ReadOpenFails, Goto, Pinned, Callers
  <2>4. QED BY <2>1, <2>2, <2>3, <1>a
<1>16. ASSUME Adopt(t) PROVE Promise!Next \/ Unseen
  <2>1. used' = used /\ path' = path /\ pos' = pos
    BY <1>16 DEF Adopt, Goto, Adoptable
  <2>2. got' = got
    BY <1>16 DEF Adopt, Goto, Adoptable, LocalsFit, NoBytes
  <2>3. /\ Pinned(t)' <=> Pinned(t)
        /\ Pinned(t) => my'[t] = my[t] /\ shared'[t] = shared[t]
    BY <1>16 DEF Adopt, Goto, Adoptable, Pinned, Callers
  <2>4. QED BY <2>1, <2>2, <2>3, <1>a
<1>17. ASSUME KeepTemporary(t) PROVE Promise!Next \/ Unseen
  <2>1. used' = used /\ path' = path /\ pos' = pos
    BY <1>17 DEF KeepTemporary, Goto, Adoptable
  <2>2. got' = got
    BY <1>17 DEF KeepTemporary, Goto, Adoptable, LocalsFit, NoBytes
  <2>3. /\ Pinned(t)' <=> Pinned(t)
        /\ Pinned(t) => my'[t] = my[t] /\ shared'[t] = shared[t]
    BY <1>17 DEF KeepTemporary, Goto, Adoptable, Pinned, Callers
  <2>4. QED BY <2>1, <2>2, <2>3, <1>a
<1>18. ASSUME Pread(t) PROVE Promise!Next \/ Unseen
  <2>1. Pinned(t) /\ got[t] = NoBytes /\ my[t] \in Slots
    BY <1>18 DEF Pread, Goto, Pinned, LocalsFit, InCall
  <2>2. PICK n \in 0 .. count[t] : got' = [got EXCEPT ![t] = <<kernel[fd[t]], off[t], n>>]
    BY <1>18 DEF Pread, Goto
  <2>3. VFile[my[t]] = kernel[fd[t]]
    BY <1>18, <2>1, ReadsOwn DEF Pread, Goto, VFile, SlotsOwned
  <2>4. off[t] \in 0 .. Length + MaxPos /\ n \in 0 .. Length
    BY <2>1, <2>2 DEF LocalsFit, Positions
  <2>5. shared[t] => off[t] = VPos[my[t]]
    BY <2>1 DEF VPos, SlotsOwned, SharedReadIsAtomic
  <2>6. VReader' = VReader /\ VState' = VState /\ VFile' = VFile /\ VPos' = VPos
    BY <1>18, <1>r DEF Pread, Goto, Pinned, VState, VFile, VPos
  <2>7. Promise!Deliver(t)
    BY <2>1, <2>2, <2>3, <2>4, <2>5, <2>6, ReaderIs
    DEF Promise!Deliver, Promise!NoBytes, NoBytes, VState, VFile, VPos, VReader
  <2>8. QED BY <2>7 DEF Promise!Next
<1>19. ASSUME CloseTemporary(t) PROVE Promise!Next \/ Unseen
  <2>1. used' = used /\ path' = path /\ pos' = pos
    BY <1>19 DEF CloseTemporary, Goto
  <2>2. got' = got
    BY <1>19 DEF CloseTemporary, Goto, LocalsFit, NoBytes
  <2>3. /\ Pinned(t)' <=> Pinned(t)
        /\ Pinned(t) => my'[t] = my[t] /\ shared'[t] = shared[t]
    BY <1>19 DEF CloseTemporary, Goto, Pinned, Callers
  <2>4. QED BY <2>1, <2>2, <2>3, <1>a
<1>20. ASSUME ReadFinish(t) PROVE Promise!Next \/ Unseen
  <2>1. Pinned(t) /\ my[t] \in Slots /\ ~Pinned(t)'
    BY <1>20 DEF ReadFinish, Return, Broadcast, Pinned, LocalsFit, InCall
  <2>2. VState' = VState /\ VFile' = VFile
    BY <1>20 DEF ReadFinish, Return, Broadcast, VState, VFile
  <2>3. VReader' = [VReader EXCEPT ![t] = None]
    BY <2>1, <1>0, ReaderLeaves
  <2>4. got' = [got EXCEPT ![t] = NoBytes]
    BY <1>20 DEF ReadFinish, Return, Broadcast
  <2>5. VPos' = IF shared[t] /\ got[t][3] > 0
                THEN [VPos EXCEPT ![my[t]] = got[t][2] + got[t][3]] ELSE VPos
    BY <1>20, <2>1 DEF ReadFinish, Return, Broadcast, VPos, MoreInv, AnswersFit, SlotsOwned
  <2>6. Promise!EndRead(t)
    BY <2>1, <2>2, <2>3, <2>4, <2>5, ReaderIs
    DEF Promise!EndRead, Promise!NoBytes, NoBytes, VState, VFile, VPos, VReader
  <2>7. QED BY <2>6 DEF Promise!Next
<1>21. ASSUME SeekWake(t) PROVE Promise!Next \/ Unseen
  <2>0. PICK r \in Slots, q \in 0 .. MaxPos : r = my[t] /\ q = off[t]
    BY <1>21 DEF SeekWake, Return, StillMine, LocalsFit, InCall, MoreInv, AnswersFit
  <2>1. /\ used[r] = Open /\ ~reading[r] /\ pos' = [pos EXCEPT ![r] = q]
        /\ used' = used /\ path' = path
    BY <1>21, <2>0 DEF SeekWake, Return, StillMine
  <2>2. got' = got
    BY <1>21, SMTT(30) DEF SeekWake, Return, StillMine, LocalsFit, NoBytes
  <2>3. VReader' = VReader
    BY <1>21, <1>r DEF SeekWake, Return, StillMine, Pinned
  <2>4. Promise!Seek(r, q)
    BY <2>1, <2>2, <2>3, SeekMaps
  <2>5. QED BY <2>4 DEF Promise!Next
<1>22. ASSUME SeekWakeReturns(t) PROVE Promise!Next \/ Unseen
  <2>1. used' = used /\ path' = path /\ pos' = pos
    BY <1>22 DEF SeekWakeReturns, Return, StillMine
  <2>2. got' = got
    BY <1>22 DEF SeekWakeReturns, Return, StillMine, LocalsFit, NoBytes
  <2>3. /\ Pinned(t)' <=> Pinned(t)
        /\ Pinned(t) => my'[t] = my[t] /\ shared'[t] = shared[t]
    BY <1>22 DEF SeekWakeReturns, Return, StillMine, Pinned, Callers
  <2>4. QED BY <2>1, <2>2, <2>3, <1>a
<1>23. ASSUME CloseWake(t) PROVE Promise!Next \/ Unseen
  <2>0. PICK r \in Slots : r = my[t]
    BY <1>23 DEF CloseWake, Recycle, Goto, LocalsFit, InCall
  <2>1. used[r] \in {Open, Closing}
    BY <1>23, <2>0 DEF CloseWake, Recycle, Goto, SlotsOwned
  <2>2. /\ busy[r] = 0 /\ used' = [used EXCEPT ![r] = Free]
        /\ path' = [path EXCEPT ![r] = None] /\ pos' = [pos EXCEPT ![r] = 0] /\ got' = got
    BY <1>23, <2>0 DEF CloseWake, Recycle, Goto
  <2>3. VReader' = VReader
    BY <1>23, <1>r DEF CloseWake, Recycle, Goto, Pinned
  <2>4. Promise!EndClose(r)
    BY <2>1, <2>2, <2>3, RecycleMaps
  <2>5. QED BY <2>4 DEF Promise!Next
<1>24. ASSUME CloseWakeSleeps(t) PROVE Promise!Next \/ Unseen
  <2>1. used' = used /\ path' = path /\ pos' = pos
    BY <1>24 DEF CloseWakeSleeps
  <2>2. got' = got
    BY <1>24 DEF CloseWakeSleeps, LocalsFit, NoBytes
  <2>3. /\ Pinned(t)' <=> Pinned(t)
        /\ Pinned(t) => my'[t] = my[t] /\ shared'[t] = shared[t]
    BY <1>24 DEF CloseWakeSleeps, Pinned, Callers
  <2>4. QED BY <2>1, <2>2, <2>3, <1>a
<1>25. ASSUME CloseRaw(t) PROVE Promise!Next \/ Unseen
  <2>1. used' = used /\ path' = path /\ pos' = pos
    BY <1>25 DEF CloseRaw, Return
  <2>2. got' = got
    BY <1>25 DEF CloseRaw, Return, LocalsFit, NoBytes
  <2>3. /\ Pinned(t)' <=> Pinned(t)
        /\ Pinned(t) => my'[t] = my[t] /\ shared'[t] = shared[t]
    BY <1>25 DEF CloseRaw, Return, Pinned, Callers
  <2>4. QED BY <2>1, <2>2, <2>3, <1>a
<1>26. ASSUME OpenCall(t) PROVE Promise!Next \/ Unseen
  <2>1. used' = used /\ path' = path /\ pos' = pos
    BY <1>26 DEF OpenCall, TrimCall, Goto
  <2>2. got' = got
    BY <1>26 DEF OpenCall, TrimCall, Goto, LocalsFit, NoBytes
  <2>3. /\ Pinned(t)' <=> Pinned(t)
        /\ Pinned(t) => my'[t] = my[t] /\ shared'[t] = shared[t]
    BY <1>26 DEF OpenCall, TrimCall, Goto, Pinned, Callers
  <2>4. QED BY <2>1, <2>2, <2>3, <1>a
<1>27. ASSUME StreamTrim(t) PROVE Promise!Next \/ Unseen
  <2>1. used' = used /\ path' = path /\ pos' = pos
    BY <1>27 DEF StreamTrim, TrimCall, Goto
  <2>2. got' = got
    BY <1>27 DEF StreamTrim, TrimCall, Goto, LocalsFit, NoBytes
  <2>3. /\ Pinned(t)' <=> Pinned(t)
        /\ Pinned(t) => my'[t] = my[t] /\ shared'[t] = shared[t]
    BY <1>27 DEF StreamTrim, TrimCall, Goto, Pinned, Callers
  <2>4. QED BY <2>1, <2>2, <2>3, <1>a
<1>28. ASSUME NEW s \in Slots, NEW o \in 0 .. Length, NEW n \in 0 .. Length + 1,
              PreadCall(t, s, o, n)
       PROVE  Promise!Next \/ Unseen
  <2>0. PICK r \in Slots : r = s
    BY <1>28 DEF PreadCall, ReadPin, LocalsFit, InCall
  <2>1. /\ used[r] = Open /\ ~Pinned(t) /\ (FALSE => ~reading[r])
        /\ used' = used /\ path' = path /\ pos' = pos /\ got' = got
        /\ my'[t] = r /\ shared'[t] = FALSE
    BY <1>28, <2>0 DEF PreadCall, ReadPin, Pinned
  <2>2. Pinned(t)'
    BY <1>28 DEF PreadCall, ReadPin, Pinned
  <2>3. Promise!BeginRead(t, r, FALSE)
    BY <2>1, <2>2, <1>0, PinBegins
  <2>4. QED BY <2>3 DEF Promise!Next
<1>29. ASSUME NEW s \in Slots, NEW n \in 0 .. Length + 1, ReadCall(t, s, n)
       PROVE  Promise!Next \/ Unseen
  <2>0. PICK r \in Slots : r = s
    BY <1>29 DEF ReadCall, ReadPin, LocalsFit, InCall
  <2>1. /\ used[r] = Open /\ ~Pinned(t) /\ (TRUE => ~reading[r])
        /\ used' = used /\ path' = path /\ pos' = pos /\ got' = got
        /\ my'[t] = r /\ shared'[t] = TRUE
    BY <1>29, <2>0 DEF ReadCall, ReadPin, Pinned
  <2>2. Pinned(t)'
    BY <1>29 DEF ReadCall, ReadPin, Pinned
  <2>3. Promise!BeginRead(t, r, TRUE)
    BY <2>1, <2>2, <1>0, PinBegins
  <2>4. QED BY <2>3 DEF Promise!Next
<1>30. ASSUME NEW s \in Slots, NEW n \in 0 .. Length + 1, ReadCallSleeps(t, s, n)
       PROVE  Promise!Next \/ Unseen
  <2>1. used' = used /\ path' = path /\ pos' = pos
    BY <1>30 DEF ReadCallSleeps, Goto
  <2>2. got' = got
    BY <1>30 DEF ReadCallSleeps, Goto, LocalsFit, NoBytes
  <2>3. /\ Pinned(t)' <=> Pinned(t)
        /\ Pinned(t) => my'[t] = my[t] /\ shared'[t] = shared[t]
    BY <1>30 DEF ReadCallSleeps, Goto, Pinned, Callers
  <2>4. QED BY <2>1, <2>2, <2>3, <1>a
<1>31. ASSUME NEW s \in Slots, NEW p \in 0 .. MaxPos, SeekCall(t, s, p)
       PROVE  Promise!Next \/ Unseen
  <2>0. PICK r \in Slots, q \in 0 .. MaxPos : r = s /\ q = p
    BY <1>31 DEF SeekCall, LocalsFit, InCall, MoreInv, AnswersFit
  <2>1. /\ used[r] = Open /\ ~reading[r] /\ pos' = [pos EXCEPT ![r] = q]
        /\ used' = used /\ path' = path
    BY <1>31, <2>0 DEF SeekCall
  <2>2. got' = got
    BY <1>31 DEF SeekCall, LocalsFit, NoBytes
  <2>3. VReader' = VReader
    BY <1>31, <1>r DEF SeekCall, Pinned
  <2>4. Promise!Seek(r, q)
    BY <2>1, <2>2, <2>3, SeekMaps
  <2>5. QED BY <2>4 DEF Promise!Next
<1>32. ASSUME NEW s \in Slots, NEW p \in 0 .. MaxPos, SeekCallSleeps(t, s, p)
       PROVE  Promise!Next \/ Unseen
  <2>1. used' = used /\ path' = path /\ pos' = pos
    BY <1>32 DEF SeekCallSleeps, Goto
  <2>2. got' = got
    BY <1>32 DEF SeekCallSleeps, Goto, LocalsFit, NoBytes
  <2>3. /\ Pinned(t)' <=> Pinned(t)
        /\ Pinned(t) => my'[t] = my[t] /\ shared'[t] = shared[t]
    BY <1>32 DEF SeekCallSleeps, Goto, Pinned, Callers
  <2>4. QED BY <2>1, <2>2, <2>3, <1>a
<1>33. ASSUME NEW s \in Slots, CloseCall(t, s) PROVE Promise!Next \/ Unseen
  <2>0. PICK r \in Slots : r = s
    BY <1>33 DEF CloseCall, Recycle, Goto, LocalsFit, InCall
  <2>1. used[r] \in {Open, Closing}
    BY <1>33, <2>0 DEF CloseCall, Recycle, Goto, SlotsOwned
  <2>2. /\ busy[r] = 0 /\ used' = [used EXCEPT ![r] = Free]
        /\ path' = [path EXCEPT ![r] = None] /\ pos' = [pos EXCEPT ![r] = 0] /\ got' = got
    BY <1>33, <2>0 DEF CloseCall, Recycle, Goto
  <2>3. VReader' = VReader
    BY <1>33, <1>r DEF CloseCall, Recycle, Goto, Pinned
  <2>4. Promise!EndClose(r)
    BY <2>1, <2>2, <2>3, RecycleMaps
  <2>5. QED BY <2>4 DEF Promise!Next
<1>34. ASSUME NEW s \in Slots, CloseCallWaits(t, s) PROVE Promise!Next \/ Unseen
  <2>1. VReader' = VReader /\ got' = got
    BY <1>34, <1>r DEF CloseCallWaits, Goto, Pinned
  <2>2. VState' = [VState EXCEPT ![s] = "closing"] /\ VState[s] = "open"
    <3>1. VState[s] = "open"
      BY <1>34 DEF CloseCallWaits, Goto, VState
    <3>2. used' = [used EXCEPT ![s] = Closing] /\ used[s] = Open
      BY <1>34 DEF CloseCallWaits, Goto
    <3>3. QED BY <3>1, <3>2, StateIs DEF Open, Closing
  <2>v. VFile' = VFile /\ VPos' = VPos
    BY <1>34 DEF CloseCallWaits, Goto, VFile, VPos, Open, Closing
  <2>3. Promise!BeginClose(s)
    BY <2>1, <2>2, <2>v DEF Promise!BeginClose, VState, VFile, VPos, VReader
  <2>4. QED BY <2>3 DEF Promise!Next
<1>35. QED BY <1>1, <1>2, <1>3, <1>4, <1>5, <1>6, <1>7, <1>8, <1>9, <1>10,
         <1>11, <1>12, <1>13, <1>14, <1>15, <1>16, <1>17, <1>18, <1>19,
         <1>20, <1>21, <1>22, <1>23, <1>24, <1>25, <1>26, <1>27, <1>28,
         <1>29, <1>30, <1>31, <1>32, <1>33, <1>34 DEF Progress, Call

\* The descriptors of io.c are files with a position: the game sees no cache,
\* eviction, second open or temporary descriptor.  A read delivers bytes of the
\* file its descriptor was opened on, at the position it has; shared reads
\* follow one another; a close ends when nobody reads.
THEOREM ImplementsAssetFiles == Spec => ActsAsFiles
<1>1. Init => Promise!Init
  BY SetsAssumption
    DEF Init, Promise!Init, Promise!NoBytes, NoBytes, Pinned, Free, Open, Closing
<1>2. IInv /\ MoreInv /\ [Next]_vars => [Promise!Next]_<<VState, VFile, VPos, VReader, got>>
  <2>1. ASSUME IInv, MoreInv, NEW t \in Threads, Progress(t) \/ Call(t)
        PROVE  Promise!Next \/ Unseen
    BY <2>1, StepMaps
  <2>2. ASSUME UNCHANGED vars PROVE Unseen
    <3>1. UNCHANGED <<used, path, pos, pc, caller, my, shared, got>>
      BY <2>2 DEF vars, slotVars, callVars, readVars, trimVars
    <3>2. QED BY <3>1 DEF Unseen, VState, VFile, VPos, VReader, Pinned
  <2>3. QED BY <2>1, <2>2 DEF Next, Unseen
<1>3. QED BY <1>1, <1>2, Invariant, MoreInvariant, PTL
      DEF Spec, ActsAsFiles, Promise!Spec, Promise!avars, VState, VFile, VPos, VReader
=============================================================================
