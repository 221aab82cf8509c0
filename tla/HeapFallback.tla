---------------------------- MODULE HeapFallback ----------------------------
(***************************************************************************)
(* The second heap of utils/heap_fallback.c: a large request that newlib's  *)
(* heap refuses gets pages of the kernel's, within a budget.  free and       *)
(* realloc must know whose a pointer is; two bounds that only ever widen     *)
(* spare them the lock for most of newlib's.                                *)
(*                                                                         *)
(* A section under block_lock is one step, a look at the bounds another, and *)
(* so is each call of newlib's, which is external like the kernel.  Memory   *)
(* is a row of pages, sizes are counted in half pages.  The program writes   *)
(* all of what it asked for and passes a pointer to one call at a time.      *)
(***************************************************************************)
EXTENDS Integers, FiniteSets, Functions

CONSTANTS
  Users,        \* threads
  PageCount,    \* of memory; page numbers begin at 1
  Sizes,        \* of requests
  FALLBACK_MIN, FALLBACK_BUDGET, FALLBACK_SLOTS,
  NoBlock

VARIABLES
  blocks,       \* slot -> the block in it, or NoBlock
  reserved_bytes,
  low_address, high_address,
  extent,       \* page -> the pages of what is allocated there, or 0
  maker,        \* page -> who allocated it: "newlib", "kernel" or "none"
  asked,        \* page -> the size of the program's object there, or 0
  heapCall      \* the call each thread is in

poolVars == <<blocks, reserved_bytes, low_address, high_address>>
memoryVars == <<extent, maker>>
vars == <<poolVars, memoryVars, asked, heapCall>>

Pages == 1 .. PageCount
PagesFor(size) == (size + 1) \div 2
Lower(m, n) == IF m =< n THEN m ELSE n
Upper(m, n) == IF m >= n THEN m ELSE n

NoCall == [at |-> "outside", ptr |-> 0, size |-> 0, old |-> 0, next |-> 0]
Places == {"outside", "fallback", "freeLook", "freeLocked", "newlibFree",
           "look", "locked", "newlibRealloc", "grow", "copy"}
At(t, label) == heapCall[t].at = label
Go(t, label) == heapCall' = [heapCall EXCEPT ![t].at = label]
Return(t) == heapCall' = [heapCall EXCEPT ![t] = NoCall]

\* Where n pages are free in a row.
Room(n) == {p \in Pages :
  /\ p + n - 1 \in Pages
  /\ \A q \in Pages : extent[q] > 0 => q + extent[q] =< p \/ p + n =< q}

Allocated(p, n, who) ==
  /\ extent' = [extent EXCEPT ![p] = n]
  /\ maker' = [maker EXCEPT ![p] = who]
GiveUp(p) ==
  /\ extent' = [extent EXCEPT ![p] = 0]
  /\ maker' = [maker EXCEPT ![p] = "none"]

candidate(p) == p >= low_address /\ p < high_address
find_locked(p) == {i \in DOMAIN blocks : blocks[i] # NoBlock /\ blocks[i].ptr = p}
EmptySlots == {i \in DOMAIN blocks : blocks[i] = NoBlock}

\* The caller gets p: the program's object, or the target of a copy.
Deliver(t, p) ==
  IF heapCall[t].ptr = 0
  THEN Return(t) /\ asked' = [asked EXCEPT ![p] = heapCall[t].size]
  ELSE heapCall' = [heapCall EXCEPT ![t].at = "copy", ![t].next = p] /\ UNCHANGED asked

\* NULL: realloc leaves the object as it was.
DeliverNull(t) == Return(t) /\ UNCHANGED asked

-----------------------------------------------------------------------------
(* pvz2_heap_malloc, _memalign and _calloc; fallback_alloc                   *)

Malloc(t, size) ==
  /\ At(t, "outside")
  /\ \/ \E p \in Room(PagesFor(size)) :
          /\ Allocated(p, PagesFor(size), "newlib")
          /\ asked' = [asked EXCEPT ![p] = size]
          /\ UNCHANGED heapCall
     \/ /\ heapCall' = [heapCall EXCEPT ![t].at = "fallback", ![t].size = size]
        /\ UNCHANGED <<memoryVars, asked>>
  /\ UNCHANGED poolVars

FallbackGives(t) ==
  /\ At(t, "fallback")
  /\ LET n == PagesFor(heapCall[t].size) IN
       /\ heapCall[t].size >= FALLBACK_MIN /\ 2 * n =< FALLBACK_BUDGET - reserved_bytes
       /\ \E i \in EmptySlots, p \in Room(n) :
            /\ \A j \in EmptySlots : i =< j
            /\ blocks' = [blocks EXCEPT ![i] =
                 [ptr |-> p, requested |-> heapCall[t].size, bytes |-> 2 * n]]
            /\ low_address' = Lower(low_address, p)
            /\ high_address' = Upper(high_address, p + n)
            /\ Allocated(p, n, "kernel")
            /\ Deliver(t, p)
       /\ reserved_bytes' = reserved_bytes + 2 * n

\* Too small, no slot, over the budget, or the kernel has not enough to spare.
FallbackRefuses(t) ==
  /\ At(t, "fallback")
  /\ DeliverNull(t)
  /\ UNCHANGED <<poolVars, memoryVars>>

-----------------------------------------------------------------------------
(* pvz2_heap_free, by the program or at the end of a realloc.                *)

\* A realloc hands its new object over when the old one is gone.
Freed(t) ==
  /\ asked' = [p \in Pages |-> IF p = heapCall[t].next THEN heapCall[t].size ELSE asked[p]]
  /\ Return(t)

Free(t, p) ==
  /\ At(t, "outside") /\ asked[p] > 0 /\ \A u \in Users : heapCall[u].ptr # p
  /\ asked' = [asked EXCEPT ![p] = 0]
  /\ heapCall' = [heapCall EXCEPT ![t].at = "freeLook", ![t].ptr = p]
  /\ UNCHANGED <<poolVars, memoryVars>>

FreeLook(t) ==
  /\ At(t, "freeLook")
  /\ Go(t, IF candidate(heapCall[t].ptr) THEN "freeLocked" ELSE "newlibFree")
  /\ UNCHANGED <<poolVars, memoryVars, asked>>

FreeBlock(t) ==
  /\ At(t, "freeLocked")
  /\ \E i \in find_locked(heapCall[t].ptr) :
       /\ reserved_bytes' = reserved_bytes - blocks[i].bytes
       /\ blocks' = [blocks EXCEPT ![i] = NoBlock]
  /\ GiveUp(heapCall[t].ptr)
  /\ Freed(t)
  /\ UNCHANGED <<low_address, high_address>>

\* The kernel refuses: the block stays in its slot for good.
FreeRefused(t) ==
  /\ At(t, "freeLocked") /\ find_locked(heapCall[t].ptr) # {}
  /\ Freed(t)
  /\ UNCHANGED <<poolVars, memoryVars>>

FreeNoBlock(t) ==
  /\ At(t, "freeLocked") /\ find_locked(heapCall[t].ptr) = {}
  /\ Go(t, "newlibFree")
  /\ UNCHANGED <<poolVars, memoryVars, asked>>

NewlibFree(t) ==
  /\ At(t, "newlibFree")
  /\ GiveUp(heapCall[t].ptr)
  /\ Freed(t)
  /\ UNCHANGED poolVars

-----------------------------------------------------------------------------
(* pvz2_heap_realloc of an object to a size above 0                          *)

Realloc(t, p, size) ==
  /\ At(t, "outside") /\ asked[p] > 0 /\ \A u \in Users : heapCall[u].ptr # p
  /\ heapCall' = [heapCall EXCEPT ![t].at = "look", ![t].ptr = p, ![t].size = size]
  /\ UNCHANGED <<poolVars, memoryVars, asked>>

Look(t) ==
  /\ At(t, "look")
  /\ Go(t, IF candidate(heapCall[t].ptr) THEN "locked" ELSE "newlibRealloc")
  /\ UNCHANGED <<poolVars, memoryVars, asked>>

\* Mutant: a block that is resized in place keeps its old length on record.
ResizeUnrecorded(t) ==
  /\ At(t, "locked")
  /\ \E i \in find_locked(heapCall[t].ptr) : heapCall[t].size =< blocks[i].bytes
  /\ asked' = [asked EXCEPT ![heapCall[t].ptr] = heapCall[t].size]
  /\ Return(t)
  /\ UNCHANGED <<poolVars, memoryVars>>

ResizeInPlace(t) ==
  /\ At(t, "locked")
  /\ \E i \in find_locked(heapCall[t].ptr) :
       /\ heapCall[t].size =< blocks[i].bytes
       /\ blocks' = [blocks EXCEPT ![i].requested = heapCall[t].size]
  /\ asked' = [asked EXCEPT ![heapCall[t].ptr] = heapCall[t].size]
  /\ Return(t)
  /\ UNCHANGED <<reserved_bytes, low_address, high_address, memoryVars>>

Outgrown(t) ==
  /\ At(t, "locked")
  /\ \E i \in find_locked(heapCall[t].ptr) :
       /\ heapCall[t].size > blocks[i].bytes
       /\ heapCall' = [heapCall EXCEPT ![t].at = "grow", ![t].old = blocks[i].requested]
  /\ UNCHANGED <<poolVars, memoryVars, asked>>

NoBlockToResize(t) ==
  /\ At(t, "locked") /\ find_locked(heapCall[t].ptr) = {}
  /\ Go(t, "newlibRealloc")
  /\ UNCHANGED <<poolVars, memoryVars, asked>>

\* newlib resizes or moves the object, or refuses and leaves it alone.
NewlibReallocates(t) ==
  /\ At(t, "newlibRealloc")
  /\ LET c == heapCall[t] IN
       /\ \E p \in Room(PagesFor(c.size)) \cup
                   {q \in {c.ptr} : PagesFor(c.size) =< extent[q]} :
            /\ extent' = [extent EXCEPT ![c.ptr] = 0, ![p] = PagesFor(c.size)]
            /\ maker' = [maker EXCEPT ![c.ptr] = "none", ![p] = "newlib"]
            /\ asked' = [asked EXCEPT ![c.ptr] = 0, ![p] = c.size]
  /\ Return(t)
  /\ UNCHANGED poolVars

\* malloc_usable_size says how much there is to copy.
NewlibRefuses(t) ==
  /\ At(t, "newlibRealloc")
  /\ heapCall' = [heapCall EXCEPT ![t].at = "fallback", ![t].old = 2 * extent[heapCall[t].ptr]]
  /\ UNCHANGED <<poolVars, memoryVars, asked>>

Grow(t) ==
  /\ At(t, "grow")
  /\ \/ \E p \in Room(PagesFor(heapCall[t].size)) :
          /\ Allocated(p, PagesFor(heapCall[t].size), "newlib")
          /\ Deliver(t, p)
     \/ Go(t, "fallback") /\ UNCHANGED <<memoryVars, asked>>
  /\ UNCHANGED poolVars

Copied(t) == Lower(heapCall[t].old, heapCall[t].size)

Copy(t) ==
  /\ At(t, "copy")
  /\ asked' = [asked EXCEPT ![heapCall[t].ptr] = 0]
  /\ Go(t, "freeLook")
  /\ UNCHANGED <<poolVars, memoryVars>>

-----------------------------------------------------------------------------
Init ==
  /\ blocks = [i \in 1 .. FALLBACK_SLOTS |-> NoBlock] /\ reserved_bytes = 0
  /\ low_address = PageCount + 1 /\ high_address = 0
  /\ extent = [p \in Pages |-> 0] /\ maker = [p \in Pages |-> "none"]
  /\ asked = [p \in Pages |-> 0]
  /\ heapCall = [t \in Users |-> NoCall]

Step(t) ==
  \/ \E size \in Sizes : Malloc(t, size) \/ \E p \in Pages : Realloc(t, p, size)
  \/ \E p \in Pages : Free(t, p)
  \/ FallbackGives(t) \/ FallbackRefuses(t)
  \/ FreeLook(t) \/ FreeBlock(t) \/ FreeRefused(t) \/ FreeNoBlock(t) \/ NewlibFree(t)
  \/ Look(t) \/ ResizeInPlace(t) \/ Outgrown(t) \/ NoBlockToResize(t)
  \/ NewlibReallocates(t) \/ NewlibRefuses(t) \/ Grow(t) \/ Copy(t)

Next == \E t \in Users : Step(t)

Spec == Init /\ [][Next]_vars

-----------------------------------------------------------------------------
TypeOK ==
  /\ extent \in [Pages -> 0 .. PageCount]
  /\ maker \in [Pages -> {"newlib", "kernel", "none"}]
  /\ asked \in [Pages -> 0 .. 2 * PageCount]
  /\ reserved_bytes \in Int /\ low_address \in 1 .. PageCount + 1
  /\ high_address \in 0 .. PageCount + 1
  /\ \A t \in Users : heapCall[t].at \in Places

Filled == {i \in DOMAIN blocks : blocks[i] # NoBlock}

OwnersKnown ==
  /\ \A t \in Users :
       /\ heapCall[t].at \in {"newlibFree", "newlibRealloc"} => maker[heapCall[t].ptr] = "newlib"
       /\ At(t, "copy") =>
            /\ Copied(t) >= Lower(asked[heapCall[t].ptr], heapCall[t].size)
            /\ Copied(t) =< 2 * extent[heapCall[t].ptr]
  /\ \A p \in Pages :
       /\ asked[p] =< 2 * extent[p]
       /\ Cardinality(find_locked(p)) = IF maker[p] = "kernel" THEN 1 ELSE 0
       /\ maker[p] = "kernel" => candidate(p)

\* Each pointer goes back where it came from: newlib is never given pages of the
\* kernel's, every block of the kernel's is in one slot, within the bounds and
\* counted once against the budget, also when the kernel does not take it back;
\* and an object keeps what the program wrote when a realloc moves it from heap
\* to heap, without reading past its end (heap_fallback.c:22-25, 108-157).
PointersGoHome ==
  /\ TypeOK /\ OwnersKnown
  /\ reserved_bytes =< FALLBACK_BUDGET
  /\ reserved_bytes = SumFunction([i \in Filled |-> blocks[i].bytes])
=============================================================================
