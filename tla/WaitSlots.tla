----------------------------- MODULE WaitSlots -----------------------------
(***************************************************************************)
(* The slots of utils/stall_watch.c in which a thread notes what it waits   *)
(* for, through the wrappers of utils/native_waits.c and PVZ2_WAIT of the   *)
(* bridge.  A slot is found by the thread's id and claimed without a lock;  *)
(* when none is free, the slot of a thread that has ended is taken over.    *)
(*                                                                         *)
(* A load, a compare-and-swap and a group of stores to a slot that is one's *)
(* own are one action each.  The observer only reads.                       *)
(*                                                                         *)
(* The kernel gives every thread an id of its own: a name stands for a new  *)
(* thread once nothing refers to the old one.  Data abstracted: what a note *)
(* says is the thread that wrote it.                                        *)
(***************************************************************************)
EXTENDS Integers

CONSTANTS
  Watched,      \* threads
  WATCH_SLOTS,
  Kinds,        \* of waits, "bridge", "sync" and "native"
  Vacant, Claimed, Nobody  \* a slot's tid when it is 0 or -1; no note

VARIABLES
  tid,          \* of each slot
  note,         \* each slot's kind, sync kind and native_kind
  own_slot,     \* of each thread
  stage,        \* of each thread: "absent", "alive", "leaving" or "dead"
  search,       \* native_slot in each thread
  waits         \* the waits a thread is in, with the slot each is noted in

slotVars == <<tid, note>>
vars == <<slotVars, own_slot, stage, search, waits>>

NoSlot == -1
Indices == 0 .. WATCH_SLOTS - 1
Outside == [at |-> "outside", slot |-> 0, pass |-> 0, previous |-> Vacant, kind |-> "native"]
Places == {"outside", "mine", "look", "info", "swap", "clear", "publish", "write"}

Here(t) == search[t].slot
At(t, label) == search[t].at = label
Go(t, label) == search' = [search EXCEPT ![t].at = label]

\* PVZ2_WAIT is around the condition wrappers, and kernel calls are innermost.
Depth == [bridge |-> 1, sync |-> 2, native |-> 3]
Begins(t, k) == \A j \in DOMAIN waits[t] : Depth[j] < Depth[k]
Ends(t, k) == k \in DOMAIN waits[t] /\ \A j \in DOMAIN waits[t] : Depth[j] =< Depth[k]

-----------------------------------------------------------------------------
(* A wait begins: pvz2_stall_wait, _sync and _native_wait with native_slot.  *)

\* reserve_slot asks until it has a slot; the others look theirs up each time.
BeginWait(t, k) ==
  /\ stage[t] = "alive" /\ At(t, "outside") /\ Begins(t, k)
  /\ search' = [search EXCEPT ![t] =
       IF k = "bridge" /\ own_slot[t] # NoSlot
       THEN [Outside EXCEPT !.at = "write", !.slot = own_slot[t], !.kind = k]
       ELSE [Outside EXCEPT !.at = "mine", !.kind = k]]
  /\ UNCHANGED <<slotVars, own_slot, stage, waits>>

IsMine(t) ==
  /\ At(t, "mine") /\ tid[Here(t)] = t
  /\ Go(t, "write")
  /\ UNCHANGED <<slotVars, own_slot, stage, waits>>

NotMine(t) ==
  /\ At(t, "mine") /\ tid[Here(t)] # t
  /\ search' = [search EXCEPT ![t] =
       IF Here(t) + 1 \in Indices THEN [@ EXCEPT !.slot = Here(t) + 1]
       ELSE [@ EXCEPT !.at = "look", !.slot = 0]]
  /\ UNCHANGED <<slotVars, own_slot, stage, waits>>

\* The next slot; after the last one the second pass, and then no slot.
Skip(t) ==
  search' = [search EXCEPT ![t] =
    IF Here(t) + 1 \in Indices THEN [@ EXCEPT !.at = "look", !.slot = Here(t) + 1]
    ELSE IF search[t].pass = 0 THEN [@ EXCEPT !.at = "look", !.slot = 0, !.pass = 1]
    ELSE [@ EXCEPT !.at = "write", !.slot = NoSlot]]

LookSkips(t) ==
  /\ At(t, "look")
  /\ \/ tid[Here(t)] = Claimed
     \/ tid[Here(t)] \in Watched /\ search[t].pass = 0
  /\ Skip(t)
  /\ UNCHANGED <<slotVars, own_slot, stage, waits>>

LookFree(t) ==
  /\ At(t, "look") /\ tid[Here(t)] = Vacant
  /\ search' = [search EXCEPT ![t].at = "swap", ![t].previous = Vacant]
  /\ UNCHANGED <<slotVars, own_slot, stage, waits>>

LookTaken(t) ==
  /\ At(t, "look") /\ tid[Here(t)] \in Watched /\ search[t].pass = 1
  /\ search' = [search EXCEPT ![t].at = "info", ![t].previous = tid[Here(t)]]
  /\ UNCHANGED <<slotVars, own_slot, stage, waits>>

\* Mutant: the owner of a slot is not asked for.
OwnerUnasked(t) ==
  /\ At(t, "info")
  /\ Go(t, "swap")
  /\ UNCHANGED <<slotVars, own_slot, stage, waits>>

\* sceKernelGetThreadInfo fails: the owner has ended.
OwnerGone(t) ==
  /\ At(t, "info") /\ stage[search[t].previous] = "dead"
  /\ Go(t, "swap")
  /\ UNCHANGED <<slotVars, own_slot, stage, waits>>

OwnerLives(t) ==
  /\ At(t, "info") /\ stage[search[t].previous] # "dead"
  /\ Skip(t)
  /\ UNCHANGED <<slotVars, own_slot, stage, waits>>

Swap(t) ==
  /\ At(t, "swap") /\ tid[Here(t)] = search[t].previous
  /\ tid' = [tid EXCEPT ![Here(t)] = Claimed]
  /\ Go(t, "clear")
  /\ UNCHANGED <<note, own_slot, stage, waits>>

SwapFails(t) ==
  /\ At(t, "swap") /\ tid[Here(t)] # search[t].previous
  /\ Skip(t)
  /\ UNCHANGED <<slotVars, own_slot, stage, waits>>

Clear(t) ==
  /\ At(t, "clear")
  /\ note' = [note EXCEPT ![Here(t)] = [k \in Kinds |-> Nobody]]
  /\ Go(t, "publish")
  /\ UNCHANGED <<tid, own_slot, stage, waits>>

Publish(t) ==
  /\ At(t, "publish")
  /\ tid' = [tid EXCEPT ![Here(t)] = t]
  /\ Go(t, "write")
  /\ UNCHANGED <<note, own_slot, stage, waits>>

\* Without a slot the wait goes on all the same.
Write(t) ==
  /\ At(t, "write")
  /\ LET k == search[t].kind
         s == Here(t)
     IN /\ note' = IF s = NoSlot THEN note ELSE [note EXCEPT ![s][k] = t]
        /\ own_slot' = IF k = "bridge" THEN [own_slot EXCEPT ![t] = s] ELSE own_slot
        /\ waits' = [waits EXCEPT ![t] = [j \in DOMAIN @ \cup {k} |-> IF j = k THEN s ELSE @[j]]]
  /\ search' = [search EXCEPT ![t] = Outside]
  /\ UNCHANGED <<tid, stage>>

-----------------------------------------------------------------------------
(* A wait ends: pvz2_stall_wait_done, _sync_done and _native_done.          *)

EndWait(t, k) ==
  /\ At(t, "outside") /\ Ends(t, k)
  /\ LET s == IF k = "bridge" THEN own_slot[t] ELSE waits[t][k] IN
       note' = IF s = NoSlot THEN note ELSE [note EXCEPT ![s][k] = Nobody]
  /\ waits' = [waits EXCEPT ![t] = [j \in DOMAIN @ \ {k} |-> @[j]]]
  /\ UNCHANGED <<tid, own_slot, stage, search>>

-----------------------------------------------------------------------------
(* The life of a thread.                                                    *)

\* pvz2_stall_thread_exit, which only the bridge's threads call, and which has
\* nothing to do for one that has never asked reserve_slot.
ExitClears(t) ==
  /\ stage[t] = "alive" /\ At(t, "outside") /\ waits[t] = <<>> /\ own_slot[t] # NoSlot
  /\ note' = [note EXCEPT ![own_slot[t]] = [k \in Kinds |-> Nobody]]
  /\ stage' = [stage EXCEPT ![t] = "leaving"]
  /\ UNCHANGED <<tid, own_slot, search, waits>>

ExitFrees(t) ==
  /\ stage[t] = "leaving"
  /\ tid' = [tid EXCEPT ![own_slot[t]] = Vacant]
  /\ own_slot' = [own_slot EXCEPT ![t] = NoSlot]
  /\ stage' = [stage EXCEPT ![t] = "alive"]
  /\ UNCHANGED <<note, search, waits>>

\* Other threads just end, and the bridge's may wait once more before they do.
Die(t) ==
  /\ stage[t] = "alive" /\ At(t, "outside") /\ waits[t] = <<>>
  /\ stage' = [stage EXCEPT ![t] = "dead"]
  /\ own_slot' = [own_slot EXCEPT ![t] = NoSlot]
  /\ UNCHANGED <<slotVars, search, waits>>

Forgotten(t) ==
  /\ \A s \in Indices : tid[s] # t /\ \A k \in Kinds : note[s][k] # t
  /\ \A u \in Watched : search[u].previous # t

NewThread(t) ==
  /\ stage[t] \in {"absent", "dead"} /\ Forgotten(t)
  /\ stage' = [stage EXCEPT ![t] = "alive"]
  /\ UNCHANGED <<slotVars, own_slot, search, waits>>

Init ==
  /\ tid = [s \in Indices |-> Vacant]
  /\ note = [s \in Indices |-> [k \in Kinds |-> Nobody]]
  /\ own_slot = [t \in Watched |-> NoSlot]
  /\ stage = [t \in Watched |-> "absent"]
  /\ search = [t \in Watched |-> Outside]
  /\ waits = [t \in Watched |-> <<>>]

Step(t) ==
  \/ \E k \in Kinds : BeginWait(t, k) \/ EndWait(t, k)
  \/ IsMine(t) \/ NotMine(t) \/ LookSkips(t) \/ LookFree(t) \/ LookTaken(t)
  \/ OwnerGone(t) \/ OwnerLives(t) \/ Swap(t) \/ SwapFails(t)
  \/ Clear(t) \/ Publish(t) \/ Write(t)
  \/ ExitClears(t) \/ ExitFrees(t) \/ Die(t) \/ NewThread(t)

Next == \E t \in Watched : Step(t)

Spec == Init /\ [][Next]_vars

-----------------------------------------------------------------------------
TypeOK ==
  /\ tid \in [Indices -> Watched \cup {Vacant, Claimed}]
  /\ note \in [Indices -> [Kinds -> Watched \cup {Nobody}]]
  /\ own_slot \in [Watched -> Indices \cup {NoSlot}]
  /\ stage \in [Watched -> {"absent", "alive", "leaving", "dead"}]
  /\ \A t \in Watched :
       /\ search[t].at \in Places /\ search[t].kind \in Kinds
       /\ search[t].slot \in Indices \cup {NoSlot} /\ search[t].pass \in {0, 1}
       /\ DOMAIN waits[t] \subseteq Kinds

\* "A live thread owns its slot until exit; another thread cannot reclaim it
\* while the wrapped call is executing" (stall_watch.c:93-94): however claims,
\* exits and take-overs overlap, a thread has one slot at most, the slots it
\* noted its waits in are that one, and its notes stand until it clears them.
SlotsAreOwned ==
  /\ TypeOK
  /\ \A t \in Watched :
       /\ \A r, s \in Indices : tid[r] = t /\ tid[s] = t => r = s
       /\ own_slot[t] # NoSlot => tid[own_slot[t]] = t
       /\ \A k \in DOMAIN waits[t] : waits[t][k] # NoSlot =>
            tid[waits[t][k]] = t /\ note[waits[t][k]][k] = t
  /\ \A s \in Indices, k \in Kinds :
       note[s][k] # Nobody /\ tid[s] \in Watched => note[s][k] = tid[s]
=============================================================================
