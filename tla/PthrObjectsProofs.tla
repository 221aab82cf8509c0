------------------------- MODULE PthrObjectsProofs -------------------------
(***************************************************************************)
(* Proofs about PthrObjects for any number of threads and objects, a table *)
(* of any size and any hash: no object gets two real objects, and the      *)
(* table with its moving entries implements ObjectSet.                     *)
(***************************************************************************)
EXTENDS PthrObjects, TLAPS

TableSlots == 0 .. N - 1

\* How far slot s is behind slot a, around the table.
Dist(a, s) == IF a =< s THEN s - a ELSE s - a + N

\* The slots a lookup passes on its way to the entry in s.
Passes(s, q) == Dist(Home[key[s]], q) < Dist(Home[key[s]], s)

Shifting(t) == pc[t] = "shift"
\* The slot a removal has yet to fill: what it holds is no entry.
Gap(s)  == s = hole /\ \E t \in Threads : Shifting(t)
Kept(o) == \E s \in TableSlots : ~Gap(s) /\ key[s] = o

\* A call has its object, a destruction has it alone.
CallsFit ==
  /\ \A t \in Threads : IF pc[t] = "idle" THEN obj[t] = None /\ asked[t] = None
                        ELSE obj[t] \in Objects /\ asked[t] \in AskedKinds[obj[t]] \cup {None}
  /\ \A t, u \in Threads : pc[t] \in {"destroy", "shift"} /\ obj[u] = obj[t] => u = t

LockFits == \A t \in Threads : pc[t] \in {"build", "remember", "shift"} <=> owner = t

Remembered(o) == \E t \in Threads : pc[t] = "remember" /\ obj[t] = o
Built(o)      == \E t \in Threads : pc[t] = "build" /\ obj[t] = o
Removed(o)    == \E t \in Threads : Shifting(t) /\ obj[t] = o

\* The kind an object is made with when no attribute says another.
Implicit(o) == IF o \in Conds THEN "cond"
               ELSE IF o \in forgotten \/ StaticWord[o] = "null" THEN "normal" ELSE StaticWord[o]

\* The first words and the real objects agree with the table.
WordsFit ==
  /\ \A o \in Objects :
       /\ made[o] = IF Kept(o) \/ Remembered(o) THEN 1 ELSE 0
       /\ word[o] = "ready" <=> Kept(o) \/ Remembered(o) \/ Removed(o)
       /\ word[o] = "raw" <=> Built(o)
       /\ word[o] \notin {"raw", "ready"} =>
            word[o] = IF o \in forgotten THEN "null" ELSE StaticWord[o]
  /\ \A t \in Threads :
       /\ pc[t] \in {"build", "remember"} =>
            ~Kept(obj[t]) /\ kind[obj[t]] \in AskedKinds[obj[t]] \cup {Implicit(obj[t])}
       /\ pc[t] = "use" => Kept(obj[t])

\* An object is in one slot, and a lookup of it meets no empty slot on its way.
\* Only entries that a removal has yet to examine are behind its gap.
TableFits ==
  /\ \A s, r \in TableSlots :
       ~Gap(s) /\ ~Gap(r) /\ key[s] = key[r] /\ key[s] # None => s = r
  /\ \A s, q \in TableSlots :
       ~Gap(s) /\ key[s] # None /\ Passes(s, q) =>
         key[q] # None /\ (Gap(q) => step =< Dist(start, s))

\* The gap was examined, and what it still shows is the removed object or an
\* entry that has moved.
GapFits ==
  \A t \in Threads : Shifting(t) =>
    /\ key[hole] # None /\ ~Kept(obj[t])
    /\ key[hole] = obj[t] \/ Kept(key[hole])
    /\ Dist(start, hole) < step

\* Entries came to the table in an order: a lookup passes older entries only.
\* A moved entry whose way leads around the start of the removal is not younger
\* than what the gap still shows.  Without it, a gap in a full table might come
\* to lie on the way to an entry that has moved already.
OrderedBy(older) ==
  /\ \A a, b, c \in Objects : <<a, b>> \in older /\ <<b, c>> \in older => <<a, c>> \in older
  /\ \A a \in Objects : <<a, a>> \notin older
  /\ \A s, q \in TableSlots :
       ~Gap(s) /\ key[s] # None /\ Passes(s, q) => <<key[q], key[s]>> \in older
  /\ \A t \in Threads, s \in TableSlots :
       /\ Shifting(t) /\ ~Gap(s) /\ key[s] # None
       /\ Dist(start, s) < step /\ Dist(start, s) < Dist(start, Home[key[s]])
       => key[s] = key[hole] \/ <<key[s], key[hole]>> \in older
OrderFits == \E older \in SUBSET (Objects \X Objects) : OrderedBy(older)

IInv == TypeOK /\ CallsFit /\ LockFits /\ WordsFit /\ TableFits /\ GapFits /\ OrderFits

-----------------------------------------------------------------------------
(* Arithmetic of the table: the positions without the modulus.              *)

LEMMA ModN ==
  ASSUME NEW x \in -N .. 2 * N - 1
  PROVE  x % N = IF x < 0 THEN x + N ELSE IF x < N THEN x ELSE x - N
<1>1. N \in Nat /\ N > 0 BY PthrAssumption
<1>2. CASE x < 0
  BY <1>1, <1>2
<1>3. CASE 0 =< x /\ x < N
  BY <1>1, <1>3
<1>4. CASE N =< x
  BY <1>1, <1>4
<1>5. QED BY <1>1, <1>2, <1>3, <1>4

\* A removal counts its steps from the slot it began at.
LEMMA AheadIs ==
  ASSUME TypeOK, step < N
  PROVE  /\ Ahead = IF start + step < N THEN start + step ELSE start + step - N
         /\ Ahead \in TableSlots /\ Dist(start, Ahead) = step
<1>1. N \in Nat /\ N > 0 /\ start \in 0 .. N - 1 /\ step \in 1 .. N
  BY PthrAssumption DEF TypeOK
<1>2. Ahead = IF start + step < N THEN start + step ELSE start + step - N
  BY <1>1, ModN DEF Ahead
<1>3. QED BY <1>1, <1>2 DEF Dist, TableSlots

\* An entry moves back when a lookup of it passes the gap.
LEMMA MustMoveIs ==
  ASSUME TypeOK, NEW s \in TableSlots, key[s] # None
  PROVE  MustMove(s) <=> Passes(s, hole)
<1>1. N \in Nat /\ N > 0 /\ hole \in 0 .. N - 1 /\ Home[key[s]] \in 0 .. N - 1
  BY PthrAssumption DEF TypeOK, TableSlots
<1>2. (hole - Home[key[s]]) % N = Dist(Home[key[s]], hole)
  BY <1>1, ModN DEF Dist
<1>3. (s - Home[key[s]]) % N = Dist(Home[key[s]], s)
  BY <1>1, ModN DEF Dist, TableSlots
<1>4. QED BY <1>2, <1>3 DEF MustMove, Passes

\* A lookup of p reaches every slot, each after as many others as it is far
\* from p's home.
LEMMA SlotIs ==
  ASSUME NEW p \in Objects
  PROVE  /\ \A i \in TableSlots : Slot(p, i) \in TableSlots /\ Dist(Home[p], Slot(p, i)) = i
         /\ \A s \in TableSlots : Dist(Home[p], s) \in TableSlots /\ Slot(p, Dist(Home[p], s)) = s
<1>1. N \in Nat /\ N > 0 /\ Home[p] \in 0 .. N - 1
  BY PthrAssumption
<1>2. \A i \in TableSlots : Slot(p, i) = IF Home[p] + i < N THEN Home[p] + i ELSE Home[p] + i - N
  BY <1>1, ModN DEF Slot, TableSlots
<1>3. \A s \in TableSlots : Dist(Home[p], s) \in TableSlots
  BY <1>1 DEF Dist, TableSlots
<1>4. ASSUME NEW i \in TableSlots
      PROVE  Slot(p, i) \in TableSlots /\ Dist(Home[p], Slot(p, i)) = i
  BY <1>1, <1>2 DEF Dist, TableSlots
<1>5. ASSUME NEW s \in TableSlots PROVE Slot(p, Dist(Home[p], s)) = s
  <2>1. PICK i \in TableSlots : i = Dist(Home[p], s)
    BY <1>3
  <2>2. s = IF Home[p] + i < N THEN Home[p] + i ELSE Home[p] + i - N
    BY <1>1, <2>1 DEF Dist, TableSlots
  <2>3. QED BY <1>2, <2>1, <2>2
<1>6. QED BY <1>3, <1>4, <1>5

\* While nothing moves, the second lookup finds an object exactly when it is in
\* the table.
LEMMA LookupIsExact ==
  ASSUME TypeOK, TableFits, \A t \in Threads : ~Shifting(t), NEW p \in Objects
  PROVE  /\ object_slot(p) # {} <=> Kept(p)
         /\ \A s \in object_slot(p) : s \in TableSlots /\ key[s] = p
         /\ Published = {o \in Objects : Kept(o)}
<1>1. \A s : ~Gap(s)
  BY DEF Gap
<1>2. Published = {o \in Objects : Kept(o)}
  BY <1>1 DEF Published, Kept, TableSlots
<1>3. \A s \in object_slot(p) : s \in TableSlots /\ key[s] = p
  BY SlotIs DEF object_slot, Visited, TableSlots
<1>4. ASSUME NEW s \in TableSlots, key[s] = p PROVE s \in object_slot(p)
  <2> DEFINE i == Dist(Home[p], s)
  <2>1. i \in 0 .. N - 1 /\ Slot(p, i) = s
    BY SlotIs DEF TableSlots
  <2>2. p # None
    BY PthrAssumption
  <2>3. ASSUME NEW j \in 0 .. i - 1 PROVE key[Slot(p, j)] \notin {None, p}
    <3>1. j \in TableSlots /\ j < i
      BY <2>1, PthrAssumption DEF TableSlots
    <3>2. Slot(p, j) \in TableSlots /\ Dist(Home[p], Slot(p, j)) = j
      BY <3>1, SlotIs
    <3>3. key[Slot(p, j)] # None
      BY <3>1, <3>2, <1>1, <1>4, <2>2, ZenonT(30) DEF TableFits, Passes
    <3>4. key[Slot(p, j)] # p
      <4>1. Slot(p, j) # s BY <3>1, <3>2
      <4>2. QED BY <4>1, <3>2, <1>1, <1>4, <2>2 DEF TableFits
    <3>5. QED BY <3>3, <3>4
  <2>4. i \in Visited(p)
    BY <2>1, <2>3 DEF Visited
  <2>5. QED BY <2>1, <2>4, <1>4 DEF object_slot
<1>5. QED BY <1>1, <1>2, <1>3, <1>4 DEF Kept

-----------------------------------------------------------------------------
(* The steps that do not touch the table.                                   *)

LEMMA TableStays ==
  ASSUME TableFits, GapFits, OrderFits, UNCHANGED <<key, removalVars>>,
         \A t \in Threads : Shifting(t)' <=> Shifting(t),
         \A t \in Threads : Shifting(t) => obj'[t] = obj[t]
  PROVE  /\ \A o : Kept(o)' <=> Kept(o)
         /\ TableFits' /\ GapFits' /\ OrderFits'
<1> USE DEF removalVars
<1>1. \A s : Gap(s)' <=> Gap(s)
  BY DEF Gap
<1>2. \A o : Kept(o)' <=> Kept(o)
  BY <1>1 DEF Kept
<1>3. \A s, q : Passes(s, q)' <=> Passes(s, q)
  BY DEF Passes
<1>4. TableFits'
  BY <1>1, <1>3 DEF TableFits
<1>5. GapFits'
  BY <1>2 DEF GapFits
<1>6. OrderFits'
  <2>1. PICK older \in SUBSET (Objects \X Objects) : OrderedBy(older)
    BY DEF OrderFits
  <2>2. OrderedBy(older)'
    BY <2>1, <1>1, <1>3 DEF OrderedBy
  <2>3. QED BY <2>2 DEF OrderFits
<1>7. QED BY <1>2, <1>4, <1>5, <1>6

\* A step that changes no word and gives no thread anything to make.
LEMMA WordsStay ==
  ASSUME WordsFit, UNCHANGED objectVars,
         \A o : Kept(o)' <=> Kept(o),
         \A o : (Remembered(o)' <=> Remembered(o)) /\ (Built(o)' <=> Built(o))
                /\ (Removed(o)' <=> Removed(o)),
         \A u \in Threads : /\ pc'[u] \in {"build", "remember"} => pc[u] = pc'[u] /\ obj[u] = obj'[u]
                            /\ pc'[u] = "use" => Kept(obj'[u])
  PROVE  WordsFit'
<1>1. \A o : Implicit(o)' = Implicit(o)
  BY DEF Implicit, objectVars
<1>2. \A o \in Objects :
        /\ made'[o] = IF Kept(o)' \/ Remembered(o)' THEN 1 ELSE 0
        /\ word'[o] = "ready" <=> Kept(o)' \/ Remembered(o)' \/ Removed(o)'
        /\ word'[o] = "raw" <=> Built(o)'
        /\ word'[o] \notin {"raw", "ready"} =>
             word'[o] = IF o \in forgotten' THEN "null" ELSE StaticWord[o]
  BY DEF WordsFit, objectVars
<1>3. \A u \in Threads : pc'[u] \in {"build", "remember"} =>
        ~Kept(obj[u]) /\ kind[obj[u]] \in AskedKinds[obj[u]] \cup {Implicit(obj[u])}
                      /\ obj'[u] = obj[u]
  BY DEF WordsFit
<1>4. \A u \in Threads : pc'[u] \in {"build", "remember"} =>
        ~Kept(obj[u])' /\ kind'[obj'[u]] \in AskedKinds[obj'[u]] \cup {Implicit(obj[u])'}
  BY <1>1, <1>3 DEF objectVars
<1>5. \A u \in Threads : pc'[u] = "use" => Kept(obj[u])'
  OBVIOUS
<1>6. QED BY <1>2, <1>4, <1>5 DEF WordsFit

\* Beginning a call, looking an object up, using it, finding it busy.
LEMMA LookupKeeps ==
  ASSUME IInv, NEW t \in Threads
  PROVE  /\ ProbeHit(t) => IInv'
         /\ ProbeOther(t) => IInv'
         /\ ProbeMiss(t) => IInv'
         /\ AlreadyInitialized(t) => IInv'
         /\ Use(t) => IInv'
         /\ DestroyBusy(t) => IInv'
         /\ (\E o \in Objects : Call(t, o)) => IInv'
         /\ (\E o \in Objects : DestroyCall(t, o)) => IInv'
<1> USE PthrAssumption DEF tableVars, objectVars, removalVars, callVars, Goto, Return, IInv,
      TypeOK
<1>1. ASSUME ProbeHit(t) PROVE IInv'
  <2> USE <1>1 DEF ProbeHit
  <2>1. TypeOK' BY DEF Labels
  <2>2. CallsFit' BY DEF CallsFit
  <2>3. LockFits' BY DEF LockFits
  <2>4. (\A p : Kept(p)' <=> Kept(p)) /\ TableFits' /\ GapFits' /\ OrderFits'
    BY TableStays DEF Shifting
  <2>5. \A p : (Remembered(p)' <=> Remembered(p)) /\ (Built(p)' <=> Built(p))
               /\ (Removed(p)' <=> Removed(p))
    BY DEF Remembered, Built, Removed, Shifting
  <2>6. Kept(obj[t])
    <3>1. obj[t] \in Objects BY DEF CallsFit
    <3>2. Slot(obj[t], at[t]) \in TableSlots BY <3>1, SlotIs DEF TableSlots
    <3>3. CASE Gap(Slot(obj[t], at[t]))
      <4>1. PICK u \in Threads : Shifting(u) /\ hole = Slot(obj[t], at[t])
        BY <3>3 DEF Gap
      <4>2. obj[t] # obj[u] BY <4>1 DEF CallsFit, Shifting
      <4>3. QED BY <4>1, <4>2 DEF GapFits
    <3>4. QED BY <3>2, <3>3 DEF Kept
  <2>7. \A u \in Threads :
          /\ pc'[u] \in {"build", "remember"} => pc[u] = pc'[u] /\ obj[u] = obj'[u]
          /\ pc'[u] = "use" => Kept(obj'[u])
    BY <2>6 DEF WordsFit
  <2>8. WordsFit' BY <2>4, <2>5, <2>7, WordsStay
  <2>9. QED BY <2>1, <2>2, <2>3, <2>4, <2>8
<1>2. ASSUME ProbeOther(t) PROVE IInv'
  <2> USE <1>2 DEF ProbeOther
  <2>1. TypeOK' BY DEF Labels
  <2>2. CallsFit' BY DEF CallsFit
  <2>3. LockFits' BY DEF LockFits
  <2>4. (\A p : Kept(p)' <=> Kept(p)) /\ TableFits' /\ GapFits' /\ OrderFits'
    BY TableStays DEF Shifting
  <2>5. \A p : (Remembered(p)' <=> Remembered(p)) /\ (Built(p)' <=> Built(p))
               /\ (Removed(p)' <=> Removed(p))
    BY DEF Remembered, Built, Removed, Shifting
  <2>7. \A u \in Threads :
          /\ pc'[u] \in {"build", "remember"} => pc[u] = pc'[u] /\ obj[u] = obj'[u]
          /\ pc'[u] = "use" => Kept(obj'[u])
    BY DEF WordsFit
  <2>8. WordsFit' BY <2>4, <2>5, <2>7, WordsStay
  <2>9. QED BY <2>1, <2>2, <2>3, <2>4, <2>8
<1>3. ASSUME ProbeMiss(t) PROVE IInv'
  <2> USE <1>3 DEF ProbeMiss
  <2>1. TypeOK' BY DEF Labels
  <2>2. CallsFit' BY DEF CallsFit
  <2>3. LockFits' BY DEF LockFits
  <2>4. (\A p : Kept(p)' <=> Kept(p)) /\ TableFits' /\ GapFits' /\ OrderFits'
    BY TableStays DEF Shifting
  <2>5. \A p : (Remembered(p)' <=> Remembered(p)) /\ (Built(p)' <=> Built(p))
               /\ (Removed(p)' <=> Removed(p))
    BY DEF Remembered, Built, Removed, Shifting
  <2>7. \A u \in Threads :
          /\ pc'[u] \in {"build", "remember"} => pc[u] = pc'[u] /\ obj[u] = obj'[u]
          /\ pc'[u] = "use" => Kept(obj'[u])
    BY DEF WordsFit
  <2>8. WordsFit' BY <2>4, <2>5, <2>7, WordsStay
  <2>9. QED BY <2>1, <2>2, <2>3, <2>4, <2>8
<1>4. ASSUME AlreadyInitialized(t) PROVE IInv'
  <2> USE <1>4 DEF AlreadyInitialized
  <2>1. TypeOK' BY DEF Labels
  <2>2. CallsFit' BY DEF CallsFit
  <2>3. LockFits' BY DEF LockFits
  <2>4. (\A p : Kept(p)' <=> Kept(p)) /\ TableFits' /\ GapFits' /\ OrderFits'
    BY TableStays DEF Shifting
  <2>5. \A p : (Remembered(p)' <=> Remembered(p)) /\ (Built(p)' <=> Built(p))
               /\ (Removed(p)' <=> Removed(p))
    BY DEF Remembered, Built, Removed, Shifting
  <2>6. Kept(obj[t])
    <3>1. obj[t] \in Objects BY DEF CallsFit
    <3>2. \A u \in Threads : ~Shifting(u) BY DEF LockFits, Shifting
    <3>3. QED BY <3>1, <3>2, LookupIsExact
  <2>7. \A u \in Threads :
          /\ pc'[u] \in {"build", "remember"} => pc[u] = pc'[u] /\ obj[u] = obj'[u]
          /\ pc'[u] = "use" => Kept(obj'[u])
    BY <2>6 DEF WordsFit
  <2>8. WordsFit' BY <2>4, <2>5, <2>7, WordsStay
  <2>9. QED BY <2>1, <2>2, <2>3, <2>4, <2>8
<1>5. ASSUME Use(t) PROVE IInv'
  <2> USE <1>5 DEF Use
  <2>1. TypeOK' BY DEF Labels
  <2>2. CallsFit' BY DEF CallsFit
  <2>3. LockFits' BY DEF LockFits
  <2>4. (\A p : Kept(p)' <=> Kept(p)) /\ TableFits' /\ GapFits' /\ OrderFits'
    BY TableStays DEF Shifting
  <2>5. \A p : (Remembered(p)' <=> Remembered(p)) /\ (Built(p)' <=> Built(p))
               /\ (Removed(p)' <=> Removed(p))
    BY DEF Remembered, Built, Removed, Shifting
  <2>7. \A u \in Threads :
          /\ pc'[u] \in {"build", "remember"} => pc[u] = pc'[u] /\ obj[u] = obj'[u]
          /\ pc'[u] = "use" => Kept(obj'[u])
    BY DEF WordsFit
  <2>8. WordsFit' BY <2>4, <2>5, <2>7, WordsStay
  <2>9. QED BY <2>1, <2>2, <2>3, <2>4, <2>8
<1>6. ASSUME DestroyBusy(t) PROVE IInv'
  <2> USE <1>6 DEF DestroyBusy
  <2>1. TypeOK' BY DEF Labels
  <2>2. CallsFit' BY DEF CallsFit
  <2>3. LockFits' BY DEF LockFits
  <2>4. (\A p : Kept(p)' <=> Kept(p)) /\ TableFits' /\ GapFits' /\ OrderFits'
    BY TableStays DEF Shifting
  <2>5. \A p : (Remembered(p)' <=> Remembered(p)) /\ (Built(p)' <=> Built(p))
               /\ (Removed(p)' <=> Removed(p))
    BY DEF Remembered, Built, Removed, Shifting
  <2>7. \A u \in Threads :
          /\ pc'[u] \in {"build", "remember"} => pc[u] = pc'[u] /\ obj[u] = obj'[u]
          /\ pc'[u] = "use" => Kept(obj'[u])
    BY DEF WordsFit
  <2>8. WordsFit' BY <2>4, <2>5, <2>7, WordsStay
  <2>9. QED BY <2>1, <2>2, <2>3, <2>4, <2>8
<1>7. ASSUME NEW o \in Objects, Call(t, o) PROVE IInv'
  <2> USE <1>7 DEF Call
  <2>1. TypeOK' BY DEF Labels
  <2>2. CallsFit' BY DEF CallsFit, InUse, InDestruction
  <2>3. LockFits' BY DEF LockFits
  <2>4. (\A p : Kept(p)' <=> Kept(p)) /\ TableFits' /\ GapFits' /\ OrderFits'
    BY TableStays DEF Shifting
  <2>5. \A p : (Remembered(p)' <=> Remembered(p)) /\ (Built(p)' <=> Built(p))
               /\ (Removed(p)' <=> Removed(p))
    BY DEF Remembered, Built, Removed, Shifting
  <2>7. \A u \in Threads :
          /\ pc'[u] \in {"build", "remember"} => pc[u] = pc'[u] /\ obj[u] = obj'[u]
          /\ pc'[u] = "use" => Kept(obj'[u])
    BY DEF WordsFit
  <2>8. WordsFit' BY <2>4, <2>5, <2>7, WordsStay
  <2>9. QED BY <2>1, <2>2, <2>3, <2>4, <2>8
<1>8. ASSUME NEW o \in Objects, DestroyCall(t, o) PROVE IInv'
  <2> USE <1>8 DEF DestroyCall
  <2>1. TypeOK' BY DEF Labels
  <2>2. CallsFit' BY DEF CallsFit, InUse, InDestruction
  <2>3. LockFits' BY DEF LockFits
  <2>4. (\A p : Kept(p)' <=> Kept(p)) /\ TableFits' /\ GapFits' /\ OrderFits'
    BY TableStays DEF Shifting
  <2>5. \A p : (Remembered(p)' <=> Remembered(p)) /\ (Built(p)' <=> Built(p))
               /\ (Removed(p)' <=> Removed(p))
    BY DEF Remembered, Built, Removed, Shifting
  <2>7. \A u \in Threads :
          /\ pc'[u] \in {"build", "remember"} => pc[u] = pc'[u] /\ obj[u] = obj'[u]
          /\ pc'[u] = "use" => Kept(obj'[u])
    BY DEF WordsFit
  <2>8. WordsFit' BY <2>4, <2>5, <2>7, WordsStay
  <2>9. QED BY <2>1, <2>2, <2>3, <2>4, <2>8
<1>9. QED BY <1>1, <1>2, <1>3, <1>4, <1>5, <1>6, <1>7, <1>8


\* Making the real object, under the lock.
LEMMA MakingKeeps ==
  ASSUME IInv, NEW t \in Threads
  PROVE  /\ Allocate(t) => IInv'
         /\ Initialize(t) => IInv'
<1> USE PthrAssumption DEF tableVars, objectVars, removalVars, callVars, Goto, IInv, TypeOK
<1>1. ASSUME Allocate(t) PROVE IInv'
  <2> USE <1>1 DEF Allocate
  <2>1. \A u \in Threads : pc[u] \notin {"build", "remember", "shift"}
    BY DEF LockFits
  <2>2. obj[t] \in Objects /\ asked[t] \in AskedKinds[obj[t]] \cup {None}
    BY DEF CallsFit
  <2>3. \A o : ~Built(o) /\ ~Remembered(o) /\ ~Removed(o)
    BY <2>1 DEF Built, Remembered, Removed, Shifting
  <2>4. ~Kept(obj[t])
    BY <2>1, <2>2, LookupIsExact DEF Shifting
  <2>5. InitialKind(obj[t], asked[t]) \in AskedKinds[obj[t]] \cup {Implicit(obj[t])}
    <3>1. word[obj[t]] = IF obj[t] \in forgotten THEN "null" ELSE StaticWord[obj[t]]
      BY <2>2, <2>3, <2>4 DEF WordsFit
    <3>2. QED BY <2>2, <3>1 DEF InitialKind, Implicit
  <2>6. InitialKind(obj[t], asked[t]) \in MutexKinds \cup {"cond"}
    BY <2>2, <2>5 DEF Implicit, MutexKinds
  <2>7. TypeOK' BY <2>2, <2>6 DEF Labels
  <2>8. CallsFit' BY DEF CallsFit
  <2>9. LockFits' BY DEF LockFits
  <2>10. (\A o : Kept(o)' <=> Kept(o)) /\ TableFits' /\ GapFits' /\ OrderFits'
    BY TableStays DEF Shifting
  <2>11. WordsFit'
    <3>1. \A o \in Objects : ~Remembered(o)' /\ ~Removed(o)' /\ (Built(o)' <=> o = obj[t])
      BY <2>1 DEF Remembered, Built, Removed, Shifting
    <3>2. \A o : Implicit(o)' = Implicit(o) BY DEF Implicit
    <3>3. QED BY <2>1, <2>2, <2>3, <2>4, <2>5, <2>10, <3>1, <3>2 DEF WordsFit
  <2>12. QED BY <2>7, <2>8, <2>9, <2>10, <2>11
<1>2. ASSUME Initialize(t) PROVE IInv'
  <2> USE <1>2 DEF Initialize
  <2>1. \A u \in Threads \ {t} : pc[u] \notin {"build", "remember", "shift"}
    BY DEF LockFits
  <2>2. obj[t] \in Objects /\ ~Kept(obj[t])
    BY DEF CallsFit, WordsFit
  <2>3. \A o : (Built(o) <=> o = obj[t]) /\ ~Remembered(o) /\ ~Removed(o)
    BY <2>1 DEF Built, Remembered, Removed, Shifting
  <2>4. TypeOK' BY <2>2 DEF Labels
  <2>5. CallsFit' BY DEF CallsFit
  <2>6. LockFits' BY DEF LockFits
  <2>7. (\A o : Kept(o)' <=> Kept(o)) /\ TableFits' /\ GapFits' /\ OrderFits'
    BY TableStays DEF Shifting
  <2>8. WordsFit'
    <3>1. \A o \in Objects : (Remembered(o)' <=> o = obj[t]) /\ ~Removed(o)' /\ ~Built(o)'
      BY <2>1 DEF Remembered, Built, Removed, Shifting
    <3>2. \A o : Implicit(o)' = Implicit(o) BY DEF Implicit
    <3>3. QED BY <2>1, <2>2, <2>3, <2>7, <3>1, <3>2 DEF WordsFit
  <2>9. QED BY <2>4, <2>5, <2>6, <2>7, <2>8
<1>3. QED BY <1>1, <1>2

\* A call that gives up leaves a cleared word, no real object and the lock free.
LEMMA FailingKeeps ==
  ASSUME IInv, NEW t \in Threads
  PROVE  /\ NoMemory(t) => IInv'
         /\ InitializeFails(t) => IInv'
         /\ TableFull(t) => IInv'
         /\ DestroyUnused(t) => IInv'
<1> USE PthrAssumption DEF tableVars, objectVars, removalVars, callVars, Goto, Return, Fail, IInv,
      TypeOK
<1>1. ASSUME NoMemory(t) PROVE IInv'
  <2> USE <1>1 DEF NoMemory
  <2>1. \A u \in Threads \ {t} : pc[u] \notin {"build", "remember", "shift"}
    BY DEF LockFits
  <2>2. obj[t] \in Objects
    BY DEF CallsFit
  <2>3. ~Kept(obj[t]) /\ made[obj[t]] = 0
    <3>1. ~Kept(obj[t]) BY <2>1, <2>2, LookupIsExact DEF Shifting
    <3>2. ~Remembered(obj[t]) BY <2>1 DEF Remembered
    <3>3. QED BY <2>2, <3>1, <3>2 DEF WordsFit
  <2>4. TypeOK' BY <2>2, <2>3 DEF Labels
  <2>5. CallsFit' BY DEF CallsFit
  <2>6. LockFits' BY <2>1 DEF LockFits
  <2>7. (\A o : Kept(o)' <=> Kept(o)) /\ TableFits' /\ GapFits' /\ OrderFits'
    BY TableStays DEF Shifting
  <2>8. WordsFit'
    <3>1. \A o \in Objects : /\ ~Remembered(o)' /\ ~Built(o)' /\ ~Removed(o)' /\ ~Removed(o)
                             /\ o # obj[t] => ~Built(o) /\ ~Remembered(o)
      BY <2>1 DEF Remembered, Built, Removed, Shifting
    <3>2. \A u \in Threads : pc'[u] \notin {"build", "remember"} /\ (pc'[u] = "use" => pc[u] = "use" /\ obj'[u] = obj[u])
      BY <2>1
    <3>3. made'[obj[t]] = 0 /\ \A o \in Objects \ {obj[t]} : made'[o] = made[o]
      BY <2>2, <2>3
    <3>4. word'[obj[t]] = "null" /\ obj[t] \in forgotten'
          /\ \A o \in Objects \ {obj[t]} : word'[o] = word[o] /\ (o \in forgotten' <=> o \in forgotten)
      BY <2>2
    <3>5. ASSUME NEW o \in Objects
          PROVE  /\ made'[o] = IF Kept(o)' \/ Remembered(o)' THEN 1 ELSE 0
                 /\ word'[o] = "ready" <=> Kept(o)' \/ Remembered(o)' \/ Removed(o)'
                 /\ word'[o] = "raw" <=> Built(o)'
                 /\ word'[o] \notin {"raw", "ready"} =>
                      word'[o] = IF o \in forgotten' THEN "null" ELSE StaticWord[o]
      <4>1. CASE o = obj[t]
        BY ONLY <4>1, <2>3, <2>7, <3>1, <3>3, <3>4, <3>5
      <4>2. CASE o # obj[t]
        BY ONLY <4>2, <2>7, <3>1, <3>3, <3>4, <3>5, IInv DEF IInv, WordsFit
      <4>3. QED BY <4>1, <4>2
    <3>6. \A u \in Threads : pc'[u] = "use" => Kept(obj[u])'
      BY <2>7, <3>2 DEF WordsFit
    <3>7. QED BY ONLY <3>2, <3>5, <3>6 DEF WordsFit
  <2>9. QED BY <2>4, <2>5, <2>6, <2>7, <2>8
<1>2. ASSUME InitializeFails(t) PROVE IInv'
  <2> USE <1>2 DEF InitializeFails
  <2>1. \A u \in Threads \ {t} : pc[u] \notin {"build", "remember", "shift"}
    BY DEF LockFits
  <2>2. obj[t] \in Objects
    BY DEF CallsFit
  <2>3. ~Kept(obj[t]) /\ made[obj[t]] = 0
    <3>1. ~Kept(obj[t]) BY DEF WordsFit
    <3>2. ~Remembered(obj[t]) BY <2>1 DEF Remembered
    <3>3. QED BY <2>2, <3>1, <3>2 DEF WordsFit
  <2>4. TypeOK' BY <2>2, <2>3 DEF Labels
  <2>5. CallsFit' BY DEF CallsFit
  <2>6. LockFits' BY <2>1 DEF LockFits
  <2>7. (\A o : Kept(o)' <=> Kept(o)) /\ TableFits' /\ GapFits' /\ OrderFits'
    BY TableStays DEF Shifting
  <2>8. WordsFit'
    <3>1. \A o \in Objects : /\ ~Remembered(o)' /\ ~Built(o)' /\ ~Removed(o)' /\ ~Removed(o)
                             /\ o # obj[t] => ~Built(o) /\ ~Remembered(o)
      BY <2>1 DEF Remembered, Built, Removed, Shifting
    <3>2. \A u \in Threads : pc'[u] \notin {"build", "remember"} /\ (pc'[u] = "use" => pc[u] = "use" /\ obj'[u] = obj[u])
      BY <2>1
    <3>3. made'[obj[t]] = 0 /\ \A o \in Objects \ {obj[t]} : made'[o] = made[o]
      BY <2>2, <2>3
    <3>4. word'[obj[t]] = "null" /\ obj[t] \in forgotten'
          /\ \A o \in Objects \ {obj[t]} : word'[o] = word[o] /\ (o \in forgotten' <=> o \in forgotten)
      BY <2>2
    <3>5. ASSUME NEW o \in Objects
          PROVE  /\ made'[o] = IF Kept(o)' \/ Remembered(o)' THEN 1 ELSE 0
                 /\ word'[o] = "ready" <=> Kept(o)' \/ Remembered(o)' \/ Removed(o)'
                 /\ word'[o] = "raw" <=> Built(o)'
                 /\ word'[o] \notin {"raw", "ready"} =>
                      word'[o] = IF o \in forgotten' THEN "null" ELSE StaticWord[o]
      <4>1. CASE o = obj[t]
        BY ONLY <4>1, <2>3, <2>7, <3>1, <3>3, <3>4, <3>5
      <4>2. CASE o # obj[t]
        BY ONLY <4>2, <2>7, <3>1, <3>3, <3>4, <3>5, IInv DEF IInv, WordsFit
      <4>3. QED BY <4>1, <4>2
    <3>6. \A u \in Threads : pc'[u] = "use" => Kept(obj[u])'
      BY <2>7, <3>2 DEF WordsFit
    <3>7. QED BY ONLY <3>2, <3>5, <3>6 DEF WordsFit
  <2>9. QED BY <2>4, <2>5, <2>6, <2>7, <2>8
<1>3. ASSUME TableFull(t) PROVE IInv'
  <2> USE <1>3 DEF TableFull
  <2>1. \A u \in Threads \ {t} : pc[u] \notin {"build", "remember", "shift"}
    BY DEF LockFits
  <2>2. obj[t] \in Objects
    BY DEF CallsFit
  <2>3. ~Kept(obj[t]) /\ made[obj[t]] = 1
    <3>1. ~Kept(obj[t]) BY DEF WordsFit
    <3>2. Remembered(obj[t]) BY DEF Remembered
    <3>3. QED BY <2>2, <3>1, <3>2 DEF WordsFit
  <2>4. TypeOK' BY <2>2, <2>3 DEF Labels
  <2>5. CallsFit' BY DEF CallsFit
  <2>6. LockFits' BY <2>1 DEF LockFits
  <2>7. (\A o : Kept(o)' <=> Kept(o)) /\ TableFits' /\ GapFits' /\ OrderFits'
    BY TableStays DEF Shifting
  <2>8. WordsFit'
    <3>1. \A o \in Objects : /\ ~Remembered(o)' /\ ~Built(o)' /\ ~Removed(o)' /\ ~Removed(o)
                             /\ o # obj[t] => ~Built(o) /\ ~Remembered(o)
      BY <2>1 DEF Remembered, Built, Removed, Shifting
    <3>2. \A u \in Threads : pc'[u] \notin {"build", "remember"} /\ (pc'[u] = "use" => pc[u] = "use" /\ obj'[u] = obj[u])
      BY <2>1
    <3>3. made'[obj[t]] = 0 /\ \A o \in Objects \ {obj[t]} : made'[o] = made[o]
      BY <2>2, <2>3
    <3>4. word'[obj[t]] = "null" /\ obj[t] \in forgotten'
          /\ \A o \in Objects \ {obj[t]} : word'[o] = word[o] /\ (o \in forgotten' <=> o \in forgotten)
      BY <2>2
    <3>5. ASSUME NEW o \in Objects
          PROVE  /\ made'[o] = IF Kept(o)' \/ Remembered(o)' THEN 1 ELSE 0
                 /\ word'[o] = "ready" <=> Kept(o)' \/ Remembered(o)' \/ Removed(o)'
                 /\ word'[o] = "raw" <=> Built(o)'
                 /\ word'[o] \notin {"raw", "ready"} =>
                      word'[o] = IF o \in forgotten' THEN "null" ELSE StaticWord[o]
      <4>1. CASE o = obj[t]
        BY ONLY <4>1, <2>3, <2>7, <3>1, <3>3, <3>4, <3>5
      <4>2. CASE o # obj[t]
        BY ONLY <4>2, <2>7, <3>1, <3>3, <3>4, <3>5, IInv DEF IInv, WordsFit
      <4>3. QED BY <4>1, <4>2
    <3>6. \A u \in Threads : pc'[u] = "use" => Kept(obj[u])'
      BY <2>7, <3>2 DEF WordsFit
    <3>7. QED BY ONLY <3>2, <3>5, <3>6 DEF WordsFit
  <2>9. QED BY <2>4, <2>5, <2>6, <2>7, <2>8
<1>4. ASSUME DestroyUnused(t) PROVE IInv'
  <2> USE <1>4 DEF DestroyUnused
  <2>1. \A u \in Threads \ {t} : pc[u] \notin {"build", "remember", "shift"}
    BY DEF LockFits
  <2>2. obj[t] \in Objects
    BY DEF CallsFit
  <2>3. ~Kept(obj[t]) /\ made[obj[t]] = 0
    <3>1. ~Kept(obj[t]) BY <2>1, <2>2, LookupIsExact DEF Shifting
    <3>2. ~Remembered(obj[t]) BY <2>1 DEF Remembered
    <3>3. QED BY <2>2, <3>1, <3>2 DEF WordsFit
  <2>4. TypeOK' BY <2>2, <2>3 DEF Labels
  <2>5. CallsFit' BY DEF CallsFit
  <2>6. LockFits' BY <2>1 DEF LockFits
  <2>7. (\A o : Kept(o)' <=> Kept(o)) /\ TableFits' /\ GapFits' /\ OrderFits'
    BY TableStays DEF Shifting
  <2>8. WordsFit'
    <3>1. \A o \in Objects : /\ ~Remembered(o)' /\ ~Built(o)' /\ ~Removed(o)' /\ ~Removed(o)
                             /\ o # obj[t] => ~Built(o) /\ ~Remembered(o)
      BY <2>1 DEF Remembered, Built, Removed, Shifting
    <3>2. \A u \in Threads : pc'[u] \notin {"build", "remember"} /\ (pc'[u] = "use" => pc[u] = "use" /\ obj'[u] = obj[u])
      BY <2>1
    <3>3. made'[obj[t]] = 0 /\ \A o \in Objects \ {obj[t]} : made'[o] = made[o]
      BY <2>2, <2>3
    <3>4. word'[obj[t]] = "null" /\ obj[t] \in forgotten'
          /\ \A o \in Objects \ {obj[t]} : word'[o] = word[o] /\ (o \in forgotten' <=> o \in forgotten)
      BY <2>2
    <3>5. ASSUME NEW o \in Objects
          PROVE  /\ made'[o] = IF Kept(o)' \/ Remembered(o)' THEN 1 ELSE 0
                 /\ word'[o] = "ready" <=> Kept(o)' \/ Remembered(o)' \/ Removed(o)'
                 /\ word'[o] = "raw" <=> Built(o)'
                 /\ word'[o] \notin {"raw", "ready"} =>
                      word'[o] = IF o \in forgotten' THEN "null" ELSE StaticWord[o]
      <4>1. CASE o = obj[t]
        BY ONLY <4>1, <2>3, <2>7, <3>1, <3>3, <3>4, <3>5
      <4>2. CASE o # obj[t]
        BY ONLY <4>2, <2>7, <3>1, <3>3, <3>4, <3>5, IInv DEF IInv, WordsFit
      <4>3. QED BY <4>1, <4>2
    <3>6. \A u \in Threads : pc'[u] = "use" => Kept(obj[u])'
      BY <2>7, <3>2 DEF WordsFit
    <3>7. QED BY ONLY <3>2, <3>5, <3>6 DEF WordsFit
  <2>9. QED BY <2>4, <2>5, <2>6, <2>7, <2>8
<1>5. QED BY <1>1, <1>2, <1>3, <1>4

\* The program builds a new object where none is in use.
LEMMA ConstructKeeps ==
  ASSUME IInv, NEW o \in Objects, Construct(o)
  PROVE  IInv'
<1> USE PthrAssumption DEF tableVars, objectVars, removalVars, callVars, Goto, IInv, TypeOK, Construct
<1>1. TypeOK' OBVIOUS
<1>2. CallsFit' BY DEF CallsFit
<1>3. LockFits' BY DEF LockFits
<1>4. (\A p : Kept(p)' <=> Kept(p)) /\ TableFits' /\ GapFits' /\ OrderFits'
  BY TableStays DEF Shifting
<1>5. ~Kept(o) /\ ~Remembered(o) /\ ~Removed(o) /\ ~Built(o)
  BY DEF Kept, TableSlots, Published, InUse, Remembered, Removed, Built
<1>6. WordsFit'
  <2>1. \A p \in Objects : /\ Remembered(p)' <=> Remembered(p)
                           /\ Removed(p)' <=> Removed(p)
                           /\ Built(p)' <=> Built(p)
    BY DEF Remembered, Built, Removed, Shifting
  <2>2. \A p \in Objects \ {o} : Implicit(p)' = Implicit(p) BY DEF Implicit
  <2>3. \A u \in Threads : pc[u] # "idle" => obj[u] \in Objects \ {o}
    BY DEF CallsFit, InUse
  <2>4. \A p \in Objects :
          /\ made'[p] = IF Kept(p)' \/ Remembered(p)' THEN 1 ELSE 0
          /\ word'[p] = "ready" <=> Kept(p)' \/ Remembered(p)' \/ Removed(p)'
          /\ word'[p] = "raw" <=> Built(p)'
          /\ word'[p] \notin {"raw", "ready"} =>
               word'[p] = IF p \in forgotten' THEN "null" ELSE StaticWord[p]
    <3>1. TAKE p \in Objects
    <3>2. CASE p = o
      <4>1. made[o] = 0 BY <1>5 DEF WordsFit
      <4>2. StaticWord[o] \notin {"raw", "ready"} OBVIOUS
      <4>3. QED BY <3>2, <4>1, <4>2, <1>4, <1>5, <2>1
    <3>3. CASE p # o
      BY <3>3, <1>4, <2>1 DEF WordsFit
    <3>4. QED BY <3>2, <3>3
  <2>5. QED BY <1>4, <2>2, <2>3, <2>4 DEF WordsFit
<1>7. QED BY <1>1, <1>2, <1>3, <1>4, <1>6

-----------------------------------------------------------------------------
(* The steps that change the table.                                         *)

\* An object enters the table where its lookup ends.
LEMMA RememberKeeps ==
  ASSUME IInv, NEW t \in Threads, rememberObject_nl(t)
  PROVE  IInv'
<1> USE PthrAssumption DEF tableVars, objectVars, removalVars, callVars, Goto, IInv, TypeOK,
      rememberObject_nl
<1> DEFINE o == obj[t]
<1>1. \A u \in Threads \ {t} : pc[u] \notin {"build", "remember", "shift"}
  BY DEF LockFits
<1>2. o \in Objects /\ ~Kept(o) /\ o # None
  BY DEF CallsFit, WordsFit
<1>3. /\ \A s : ~Gap(s) /\ ~Gap(s)'
      /\ \A u \in Threads : ~Shifting(u) /\ ~Shifting(u)'
  BY <1>1 DEF Gap, Shifting
<1>4. PICK e \in EmptySlot(o) : key' = [key EXCEPT ![e] = o]
  OBVIOUS
<1>5. PICK i \in Visited(o) : e = Slot(o, i) /\ key[Slot(o, i)] = None
  BY <1>4 DEF EmptySlot
<1>6. e \in TableSlots /\ key[e] = None /\ i \in TableSlots /\ Dist(Home[o], e) = i
  BY <1>2, <1>5, SlotIs DEF Visited, TableSlots
<1>7. \A s \in TableSlots : key'[s] = IF s = e THEN o ELSE key[s]
  BY <1>4, <1>6 DEF TableSlots
<1>8. \A p \in Objects : Kept(p)' <=> Kept(p) \/ p = o
  <2>1. \A p \in Objects : p # None OBVIOUS
  <2>2. QED BY <1>2, <1>3, <1>6, <1>7, <2>1 DEF Kept
<1>9. TypeOK' BY <1>2, <1>4 DEF Labels
<1>10. CallsFit' BY DEF CallsFit
<1>11. LockFits' BY <1>1 DEF LockFits
<1>12. WordsFit'
  <2>1. \A p \in Objects : ~Remembered(p)' /\ ~Built(p)' /\ ~Removed(p)'
                           /\ (Remembered(p) <=> p = o) /\ ~Built(p) /\ ~Removed(p)
    BY <1>1 DEF Remembered, Built, Removed, Shifting
  <2>2. \A u \in Threads : pc'[u] \notin {"build", "remember"}
    BY <1>1
  <2>3. \A u \in Threads : pc'[u] = "use" => (u = t \/ pc[u] = "use") /\ obj'[u] \in Objects
    BY DEF CallsFit
  <2>4. \A u \in Threads : pc'[u] = "use" => Kept(obj[u])'
    BY <2>3, <1>8 DEF WordsFit
  <2>5. QED BY <1>8, <2>1, <2>2, <2>4 DEF WordsFit
<1>13. \A s \in TableSlots \ {e}, q \in TableSlots : Passes(s, q)' <=> Passes(s, q)
  BY <1>7 DEF Passes
<1>14. ASSUME NEW q \in TableSlots, Passes(e, q)'
       PROVE  q # e /\ key[q] \in Objects \ {o}
  <2>1. Dist(Home[o], q) < i /\ Dist(Home[o], q) \in 0 .. N - 1
    BY <1>2, <1>6, <1>7, <1>14, SlotIs DEF Passes, TableSlots
  <2>2. key[Slot(o, Dist(Home[o], q))] \notin {None, o}
    BY <2>1, <1>5 DEF Visited
  <2>3. Slot(o, Dist(Home[o], q)) = q
    BY <1>2, SlotIs
  <2>4. QED BY <2>1, <2>2, <2>3, <1>6 DEF TableSlots
<1>15. TableFits'
  <2>1. ASSUME NEW s \in TableSlots, NEW r \in TableSlots, key'[s] = key'[r], key'[s] # None
        PROVE  s = r
    <3>1. \A x \in TableSlots : key[x] # o BY <1>2, <1>3 DEF Kept
    <3>2. \A x, y \in TableSlots : key[x] = key[y] /\ key[x] # None => x = y
      BY <1>3 DEF TableFits
    <3>3. QED BY <2>1, <3>1, <3>2, <1>7
  <2>2. ASSUME NEW s \in TableSlots, NEW q \in TableSlots, key'[s] # None, Passes(s, q)'
        PROVE  key'[q] # None
    <3>1. CASE s = e BY <3>1, <2>2, <1>7, <1>14
    <3>2. CASE s # e BY <3>2, <2>2, <1>2, <1>3, <1>6, <1>7, <1>13 DEF TableFits
    <3>3. QED BY <3>1, <3>2
  <2>3. QED BY <2>1, <2>2, <1>3 DEF TableFits
<1>16. GapFits' BY <1>3 DEF GapFits
<1>17. OrderFits'
  <2>1. PICK older \in SUBSET (Objects \X Objects) : OrderedBy(older)
    BY DEF OrderFits
  <2> DEFINE now == {ab \in Objects \X Objects :
                       /\ ab[1] # o
                       /\ ab[2] = o \/ ab \in older}
  <2>2. \A a, b \in Objects : <<a, b>> \in now <=> a # o /\ (b = o \/ <<a, b>> \in older)
    OBVIOUS
  <2> HIDE DEF now
  <2>3. \A a, b, c \in Objects : <<a, b>> \in now /\ <<b, c>> \in now => <<a, c>> \in now
    BY <2>1, <2>2 DEF OrderedBy
  <2>4. \A a \in Objects : <<a, a>> \notin now
    BY <2>1, <2>2, ZenonT(30) DEF OrderedBy
  <2>5. ASSUME NEW s \in TableSlots, NEW q \in TableSlots, key'[s] # None, Passes(s, q)'
        PROVE  <<key'[q], key'[s]>> \in now
    <3>1. CASE s = e BY <3>1, <2>2, <2>5, <1>2, <1>7, <1>14
    <3>2. CASE s # e
      <4>1. Passes(s, q) /\ key[s] # None /\ key'[s] = key[s]
        BY <3>2, <2>5, <1>7, <1>13
      <4>2. q # e
        BY <4>1, <1>3, <1>6 DEF TableFits
      <4>3. key[s] \in Objects \ {o} /\ key[q] \in Objects \ {o}
        BY <4>1, <1>2, <1>3 DEF TableFits, Kept, TableSlots
      <4>4. <<key[q], key[s]>> \in older
        BY <4>1, <1>3, <2>1 DEF OrderedBy
      <4>5. QED BY <2>2, <4>1, <4>2, <4>3, <4>4, <1>7
    <3>3. QED BY <3>1, <3>2
  <2>6. PICK newer \in SUBSET (Objects \X Objects) : newer = now
    BY DEF now
  <2>7. \A s, q \in TableSlots :
          ~Gap(s)' /\ key'[s] # None /\ Passes(s, q)' => <<key'[q], key'[s]>> \in newer
    BY <2>5, <2>6
  <2>8. OrderedBy(newer)'
    BY <2>3, <2>4, <2>6, <2>7, <1>3 DEF OrderedBy
  <2>9. QED BY <2>8 DEF OrderFits
<1>18. QED BY <1>9, <1>10, <1>11, <1>12, <1>15, <1>16, <1>17

\* A removal begins: its entry is the gap.
LEMMA DestroyRealKeeps ==
  ASSUME IInv, NEW t \in Threads, DestroyReal(t)
  PROVE  IInv'
<1> USE PthrAssumption DEF tableVars, objectVars, removalVars, callVars, Goto, IInv, TypeOK,
      DestroyReal
<1> DEFINE o == obj[t]
<1>1. \A u \in Threads : pc[u] \notin {"build", "remember", "shift"}
  BY DEF LockFits
<1>2. o \in Objects /\ o # None
  BY DEF CallsFit
<1>3. /\ \A s : ~Gap(s)
      /\ \A u \in Threads : ~Shifting(u) /\ (Shifting(u)' <=> u = t)
  BY <1>1 DEF Gap, Shifting
<1>4. PICK g \in object_slot(o) : hole' = g /\ start' = g
  OBVIOUS
<1>5. g \in TableSlots /\ key[g] = o
  BY <1>2, <1>3, LookupIsExact
<1>6. \A s \in TableSlots : Gap(s)' <=> s = g
  BY <1>3, <1>4 DEF Gap
<1>7. \A s \in TableSlots \ {g} : key[s] # o
  BY <1>2, <1>3, <1>5 DEF TableFits
<1>8. \A p \in Objects : Kept(p)' <=> Kept(p) /\ p # o
  BY <1>3, <1>5, <1>6, <1>7 DEF Kept
<1>9. Kept(o) /\ made[o] = 1
  BY <1>2, <1>3, <1>5 DEF Kept, WordsFit
<1>10. TypeOK' BY <1>2, <1>4, <1>5, <1>9 DEF Labels, TableSlots
<1>11. CallsFit' BY DEF CallsFit
<1>12. LockFits' BY <1>1 DEF LockFits
<1>13. WordsFit'
  <2>1. \A p \in Objects : /\ ~Remembered(p)' /\ ~Built(p)' /\ (Removed(p)' <=> p = o)
                           /\ ~Remembered(p) /\ ~Built(p) /\ ~Removed(p)
    BY <1>1 DEF Remembered, Built, Removed, Shifting
  <2>2. \A u \in Threads : pc'[u] \notin {"build", "remember"}
    BY <1>1
  <2>3. \A u \in Threads : pc'[u] = "use" => pc[u] = "use" /\ obj[u] \in Objects \ {o}
    BY DEF CallsFit
  <2>4. \A u \in Threads : pc'[u] = "use" => Kept(obj[u])'
    BY <2>3, <1>8 DEF WordsFit
  <2>5. made'[o] = 0 /\ \A p \in Objects \ {o} : made'[p] = made[p]
    BY <1>2, <1>9
  <2>6. QED BY <1>8, <1>9, <2>1, <2>2, <2>4, <2>5 DEF WordsFit
<1>14. \A s, q \in TableSlots : Passes(s, q)' <=> Passes(s, q)
  BY DEF Passes
<1>15. \A s \in TableSlots : Dist(g, s) \in 0 .. N - 1 /\ (s # g => 1 =< Dist(g, s)) /\ Dist(g, g) = 0
  BY <1>5 DEF Dist, TableSlots
<1>16. TableFits'
  <2>1. \A s, r \in TableSlots :
          ~Gap(s)' /\ ~Gap(r)' /\ key'[s] = key'[r] /\ key'[s] # None => s = r
    BY <1>3 DEF TableFits
  <2>2. \A s, q \in TableSlots :
          ~Gap(s)' /\ key'[s] # None /\ Passes(s, q)' =>
            key'[q] # None /\ (Gap(q)' => step' =< Dist(start', s))
    BY <1>3, <1>4, <1>6, <1>14, <1>15 DEF TableFits
  <2>3. Dist(start, 0)' = Dist(start', 0) /\ \A s : Dist(start, s)' = Dist(start', s)
    BY DEF Dist
  <2>4. QED BY <2>1, <2>2, <2>3 DEF TableFits
<1>17. GapFits'
  <2>1. Dist(start, hole)' = 0
    BY <1>4, <1>5 DEF Dist, TableSlots
  <2>2. ~Kept(o)' /\ key'[hole'] = o
    BY <1>2, <1>4, <1>5, <1>8
  <2>3. QED BY <2>1, <2>2, <1>2, <1>3 DEF GapFits
<1>18. OrderFits'
  <2>1. PICK older \in SUBSET (Objects \X Objects) : OrderedBy(older)
    BY DEF OrderFits
  <2>2. \A s, q \in TableSlots :
          ~Gap(s)' /\ key'[s] # None /\ Passes(s, q)' => <<key'[q], key'[s]>> \in older
    BY <2>1, <1>3, <1>14 DEF OrderedBy
  <2>3. \A s \in TableSlots : ~Gap(s)' => ~ (Dist(start, s)' < step')
    BY <1>4, <1>6, <1>15 DEF Dist
  <2>4. OrderedBy(older)'
    BY <2>1, <2>2, <2>3 DEF OrderedBy
  <2>5. QED BY <2>4 DEF OrderFits
<1>19. QED BY <1>10, <1>11, <1>12, <1>13, <1>16, <1>17, <1>18

\* The slots between a home and the slot of its entry, seen from the start of a
\* removal: the facts about distances that the moves below need.
LEMMA Around ==
  ASSUME TypeOK, NEW a \in TableSlots, NEW s \in TableSlots, NEW q \in TableSlots
  PROVE  /\ Dist(start, s) \in 0 .. N - 1 /\ Dist(a, s) \in 0 .. N - 1
         /\ Dist(start, s) = Dist(start, q) => s = q
         /\ Dist(a, s) = Dist(a, q) => s = q
         /\ Dist(start, a) =< Dist(start, s) =>
              (Dist(a, q) < Dist(a, s) <=> /\ Dist(start, a) =< Dist(start, q)
                                            /\ Dist(start, q) < Dist(start, s))
         /\ Dist(start, s) < Dist(start, a) =>
              (Dist(a, q) < Dist(a, s) <=> \/ Dist(start, a) =< Dist(start, q)
                                           \/ Dist(start, q) < Dist(start, s))
<1>1. N \in Nat /\ N > 0 /\ start \in 0 .. N - 1
  BY PthrAssumption DEF TypeOK
<1>2. Dist(start, s) \in 0 .. N - 1 /\ Dist(a, s) \in 0 .. N - 1
  BY <1>1 DEF Dist, TableSlots
<1>3. Dist(start, s) = Dist(start, q) => s = q
  BY <1>1 DEF Dist, TableSlots
<1>4. Dist(a, s) = Dist(a, q) => s = q
  BY <1>1 DEF Dist, TableSlots
<1>5. Dist(start, a) =< Dist(start, s) =>
        (Dist(a, q) < Dist(a, s) <=> /\ Dist(start, a) =< Dist(start, q)
                                      /\ Dist(start, q) < Dist(start, s))
  BY <1>1 DEF Dist, TableSlots
<1>6. Dist(start, s) < Dist(start, a) =>
        (Dist(a, q) < Dist(a, s) <=> \/ Dist(start, a) =< Dist(start, q)
                                     \/ Dist(start, q) < Dist(start, s))
  BY <1>1 DEF Dist, TableSlots
<1>7. QED BY <1>2, <1>3, <1>4, <1>5, <1>6

\* The slots a lookup passes, seen from the start of a removal: its way may lead
\* around the start.
LEMMA PassesIs ==
  ASSUME TypeOK, NEW s \in TableSlots, key[s] # None, NEW q \in TableSlots
  PROVE  /\ Dist(start, Home[key[s]]) =< Dist(start, s) =>
              (Passes(s, q) <=> /\ Dist(start, Home[key[s]]) =< Dist(start, q)
                                /\ Dist(start, q) < Dist(start, s))
         /\ Dist(start, s) < Dist(start, Home[key[s]]) =>
              (Passes(s, q) <=> \/ Dist(start, Home[key[s]]) =< Dist(start, q)
                                \/ Dist(start, q) < Dist(start, s))
         /\ Dist(start, Home[key[s]]) \in 0 .. N - 1
<1>1. PICK a \in TableSlots : a = Home[key[s]]
  BY PthrAssumption DEF TypeOK, TableSlots
<1>2. Passes(s, q) <=> Dist(a, q) < Dist(a, s)
  BY <1>1 DEF Passes
<1>3. QED BY <1>1, <1>2, Around

\* A removal examines an entry that may stay where it is.
LEMMA StayKeeps ==
  ASSUME IInv, NEW t \in Threads, StayBehind(t)
  PROVE  IInv'
<1> USE PthrAssumption DEF tableVars, objectVars, removalVars, callVars, IInv, TypeOK, StayBehind,
      Walking
<1>1. Shifting(t) /\ step < N /\ Ahead \in TableSlots /\ Dist(start, Ahead) = step /\ key[Ahead] # None
  BY AheadIs DEF Shifting
<1>2. ~Passes(Ahead, hole)
  BY <1>1, MustMoveIs
<1>3. TypeOK' OBVIOUS
<1>4. CallsFit' BY DEF CallsFit
<1>5. LockFits' BY DEF LockFits
<1>6. \A s : Gap(s)' <=> Gap(s)
  BY DEF Gap, Shifting
<1>7. \A o : Kept(o)' <=> Kept(o)
  BY <1>6 DEF Kept
<1>8. WordsFit'
  <2>1. \A o : (Remembered(o)' <=> Remembered(o)) /\ (Built(o)' <=> Built(o))
               /\ (Removed(o)' <=> Removed(o))
    BY DEF Remembered, Built, Removed, Shifting
  <2>2. \A u \in Threads : /\ pc'[u] \in {"build", "remember"} => pc[u] = pc'[u] /\ obj[u] = obj'[u]
                           /\ pc'[u] = "use" => Kept(obj'[u])
    BY DEF WordsFit
  <2>3. QED BY <1>7, <2>1, <2>2, WordsStay
<1>9. \A s, q : (Passes(s, q)' <=> Passes(s, q)) /\ Dist(start, s)' = Dist(start, s)
  BY DEF Passes, Dist
<1>10. hole \in TableSlots /\ Dist(start, hole) < step
  BY <1>1 DEF GapFits, TableSlots
<1>11. ASSUME NEW s \in TableSlots, ~Gap(s), key[s] # None, Passes(s, hole)
       PROVE  step + 1 =< Dist(start, s)
  <2>1. step =< Dist(start, s)
    BY <1>1, <1>10, <1>11 DEF TableFits, Gap
  <2>2. s # Ahead
    BY <1>2, <1>11
  <2>3. Dist(start, s) # step
    BY <1>1, <2>2, Around
  <2>4. QED BY <2>1, <2>3, Around
<1>12. TableFits'
  BY <1>6, <1>9, <1>11 DEF TableFits, Gap
<1>13. GapFits'
  <2>1. \A u \in Threads : Shifting(u)' <=> Shifting(u)
    BY DEF Shifting
  <2>2. \A u \in Threads : ~Kept(obj[u])' <=> ~Kept(obj[u])
    BY <1>7
  <2>3. Kept(key[hole])' <=> Kept(key[hole])
    BY <1>7
  <2>4. Dist(start, hole)' < step'
    BY <1>1, <1>10, Around DEF Dist
  <2>5. QED BY <2>1, <2>2, <2>3, <2>4 DEF GapFits
<1>14. OrderFits'
  <2>1. PICK older \in SUBSET (Objects \X Objects) : OrderedBy(older)
    BY DEF OrderFits
  <2>2. ASSUME NEW s \in TableSlots, ~Gap(s), key[s] # None, Dist(start, s) < step + 1,
               Dist(start, s) < Dist(start, Home[key[s]])
        PROVE  Dist(start, s) < step
    <3>1. Home[key[s]] \in TableSlots
      BY <2>2 DEF TableSlots
    <3>2. CASE s = Ahead
      <4>1. Passes(s, hole)
        BY <3>1, <3>2, <2>2, <1>1, <1>10, Around DEF Passes
      <4>2. QED BY <4>1, <3>2, <1>2
    <3>3. CASE s # Ahead
      BY <3>3, <2>2, <1>1, Around
    <3>4. QED BY <3>2, <3>3
  <2>3. \A u \in Threads, s \in TableSlots :
          /\ Shifting(u)' /\ ~Gap(s)' /\ key'[s] # None
          /\ Dist(start, s)' < step' /\ Dist(start, s)' < Dist(start, Home[key[s]])'
          => key'[s] = key'[hole'] \/ <<key'[s], key'[hole']>> \in older
    BY <2>1, <2>2, <1>6, <1>9 DEF OrderedBy, Shifting
  <2>4. OrderedBy(older)'
    BY <2>1, <2>3, <1>6, <1>9 DEF OrderedBy
  <2>5. QED BY <2>4 DEF OrderFits
<1>15. QED BY <1>3, <1>4, <1>5, <1>8, <1>12, <1>13, <1>14

\* A removal moves an entry into its gap; the entry's old slot is the gap.
LEMMA MoveKeeps ==
  ASSUME IInv, NEW t \in Threads, MoveBack(t)
  PROVE  IInv'
<1> USE PthrAssumption DEF tableVars, objectVars, removalVars, callVars, IInv, TypeOK, MoveBack,
      Walking
<1>0. PICK older \in SUBSET (Objects \X Objects) : OrderedBy(older)
  BY DEF OrderFits
<1>1. Shifting(t) /\ step < N /\ Ahead \in TableSlots /\ Dist(start, Ahead) = step /\ key[Ahead] # None
  BY AheadIs DEF Shifting
<1>2. hole \in TableSlots /\ Dist(start, hole) < step /\ key[hole] # None /\ hole # Ahead
  <2>1. hole \in TableSlots /\ Dist(start, hole) < step /\ key[hole] # None
    BY <1>1 DEF GapFits, TableSlots
  <2>2. QED BY <2>1, <1>1
<1>3. PICK e \in Objects : e = key[Ahead]
  BY <1>1 DEF TableSlots
<1>4. Passes(Ahead, hole)
  BY <1>1, MustMoveIs
<1>5. \A s \in TableSlots : key'[s] = IF s = hole THEN e ELSE key[s]
  BY <1>2, <1>3 DEF TableSlots
<1>6. /\ \A s \in TableSlots : (Gap(s) <=> s = hole) /\ (Gap(s)' <=> s = Ahead)
      /\ \A u \in Threads : Shifting(u) <=> Shifting(u)'
      /\ hole' = Ahead
  BY <1>1 DEF Gap, Shifting
<1>7. \A s \in TableSlots \ {hole, Ahead} : key[s] # e
  BY <1>1, <1>2, <1>3, <1>6 DEF TableFits
<1>8. \A o : Kept(o)' <=> Kept(o)
  BY <1>1, <1>2, <1>3, <1>5, <1>6, <1>7 DEF Kept
<1>9. \A s : Dist(start, s)' = Dist(start, s)
  BY DEF Dist
<1>10. \A s \in TableSlots \ {hole}, q \in TableSlots : Passes(s, q)' <=> Passes(s, q)
  BY <1>5 DEF Passes
<1>11. \A s, q \in TableSlots : s = hole /\ Passes(s, q)' => Passes(Ahead, q) /\ q # hole /\ q # Ahead
  <2>1. \A s, q \in TableSlots :
          s = hole => (Passes(s, q)' <=> Dist(Home[e], q) < Dist(Home[e], hole))
    BY <1>2, <1>5 DEF Passes
  <2>2. \A q \in TableSlots : Passes(Ahead, q) <=> Dist(Home[e], q) < Dist(Home[e], Ahead)
    BY <1>3 DEF Passes
  <2>3. Home[e] \in TableSlots
    BY DEF TableSlots
  <2>4. \A q \in TableSlots : Dist(Home[e], q) \in 0 .. N - 1
    BY <2>3, Around
  <2>5. QED BY <2>1, <2>2, <2>4, <1>1, <1>2, <1>4
\* An entry whose way leads over the old gap lies beyond the moved one, so its
\* way leads over that one's slot as well.
<1>12. ASSUME NEW s \in TableSlots, s # hole, s # Ahead, key[s] # None, Passes(s, hole)
       PROVE  Passes(s, Ahead) /\ step < Dist(start, s)
  <2>1. step =< Dist(start, s)
    BY <1>2, <1>6, <1>12 DEF TableFits
  <2>2. Home[key[s]] \in TableSlots
    BY <1>12 DEF TableSlots
  <2>3. step < Dist(start, s)
    BY <2>1, <2>2, <1>1, <1>12, Around
  <2>4. Passes(s, Ahead)
    <3>1. Dist(start, s) \in 0 .. N - 1 /\ Dist(start, Home[key[s]]) \in 0 .. N - 1
      BY <2>2, Around
    <3>2. CASE Dist(start, Home[key[s]]) =< Dist(start, s)
      <4>1. Dist(start, Home[key[s]]) =< Dist(start, hole)
        BY <3>2, <1>2, <1>12, PassesIs
      <4>2. Dist(start, hole) \in 0 .. N - 1
        BY <1>2, Around
      <4>3. Dist(start, Home[key[s]]) =< Dist(start, Ahead) /\ Dist(start, Ahead) < Dist(start, s)
        BY <3>1, <4>1, <4>2, <2>3, <1>1, <1>2
      <4>4. QED BY <3>2, <4>3, <1>1, <1>12, PassesIs
    <3>3. CASE Dist(start, s) < Dist(start, Home[key[s]])
      BY <3>3, <2>3, <1>1, <1>12, PassesIs
    <3>4. QED BY <3>1, <3>2, <3>3
  <2>5. QED BY <2>3, <2>4
\* The order keeps the new gap off the ways of the entries that were examined.
<1>13. ASSUME NEW s \in TableSlots, s # hole, s # Ahead, key[s] # None, Passes(s, Ahead)
       PROVE  step < Dist(start, s)
  <2>1. Home[key[s]] \in TableSlots /\ key[s] \in Objects /\ key[hole] \in Objects
    BY <1>2, <1>13 DEF TableSlots
  <2>2. SUFFICES ASSUME Dist(start, s) < step PROVE FALSE
    BY <2>1, <1>1, <1>13, Around
  <2>3. Dist(start, s) < Dist(start, Home[key[s]])
    <3>1. Dist(start, s) \in 0 .. N - 1 /\ Dist(start, Home[key[s]]) \in 0 .. N - 1
      BY <2>1, <1>13, Around, PassesIs
    <3>2. QED BY <3>1, <2>2, <1>1, <1>13, PassesIs
  <2>4. key[s] = key[hole] \/ <<key[s], key[hole]>> \in older
    BY <2>2, <2>3, <1>0, <1>1, <1>6, <1>13 DEF OrderedBy
  <2>5. <<key[hole], e>> \in older
    BY <1>0, <1>1, <1>2, <1>3, <1>4, <1>6 DEF OrderedBy
  <2>6. <<e, key[s]>> \in older
    BY <1>0, <1>1, <1>3, <1>6, <1>13 DEF OrderedBy
  <2>7. QED BY <1>0, <2>1, <2>4, <2>5, <2>6 DEF OrderedBy
<1>14. TypeOK'
  BY <1>1, <1>2, <1>3, SMTT(30) DEF TableSlots
<1>15. CallsFit' BY DEF CallsFit
<1>16. LockFits' BY DEF LockFits
<1>17. WordsFit'
  <2>1. \A o : (Remembered(o)' <=> Remembered(o)) /\ (Built(o)' <=> Built(o))
               /\ (Removed(o)' <=> Removed(o))
    BY DEF Remembered, Built, Removed, Shifting
  <2>2. \A u \in Threads : /\ pc'[u] \in {"build", "remember"} => pc[u] = pc'[u] /\ obj[u] = obj'[u]
                           /\ pc'[u] = "use" => Kept(obj'[u])
    BY DEF WordsFit
  <2>3. QED BY <1>8, <2>1, <2>2, WordsStay
<1>18. TableFits'
  <2>1. ASSUME NEW s \in TableSlots, NEW r \in TableSlots, s # Ahead, r # Ahead,
               key'[s] = key'[r], key'[s] # None
        PROVE  s = r
    <3>1. CASE s = hole \/ r = hole BY <3>1, <2>1, <1>5, <1>7
    <3>2. CASE s # hole /\ r # hole BY <3>2, <2>1, <1>5, <1>6 DEF TableFits
    <3>3. QED BY <3>1, <3>2
  <2>2. ASSUME NEW s \in TableSlots, NEW q \in TableSlots, s # Ahead, key'[s] # None, Passes(s, q)'
        PROVE  key'[q] # None /\ (q = Ahead => step + 1 =< Dist(start, s))
    <3>1. CASE s = hole
      BY <3>1, <2>2, <1>1, <1>2, <1>3, <1>5, <1>6, <1>11 DEF TableFits
    <3>2. CASE s # hole
      <4>1. Passes(s, q) /\ key[s] # None
        BY <3>2, <2>2, <1>5, <1>10
      <4>2. key[q] # None
        BY <3>2, <4>1, <1>6 DEF TableFits
      <4>3. q = Ahead => step + 1 =< Dist(start, s)
        BY <3>2, <4>1, <2>2, <1>13, Around, SMTT(30)
      <4>4. QED BY <4>2, <4>3, <1>3, <1>5
    <3>3. QED BY <3>1, <3>2
  <2>3. QED BY <2>1, <2>2, <1>6, <1>9 DEF TableFits
<1>19. GapFits'
  <2>1. key'[hole'] = e /\ key'[hole'] # None
    BY <1>1, <1>2, <1>3, <1>5, <1>6
  <2>2. Kept(e)
    BY <1>1, <1>2, <1>3, <1>6 DEF Kept
  <2>3. \A u \in Threads : Shifting(u)' => ~Kept(obj[u])'
    BY <1>6, <1>8 DEF GapFits
  <2>4. Dist(start, hole)' < step'
    BY <1>1, <1>6 DEF Dist
  <2>5. Kept(key[hole])'
    BY <2>1, <2>2, <1>8
  <2>6. QED BY <2>1, <2>3, <2>4, <2>5 DEF GapFits
<1>20. OrderFits'
  <2>1. ASSUME NEW s \in TableSlots, NEW q \in TableSlots, s # Ahead, key'[s] # None, Passes(s, q)'
        PROVE  <<key'[q], key'[s]>> \in older
    <3>1. CASE s = hole
      <4>1. Passes(Ahead, q) /\ key'[q] = key[q] /\ key'[s] = key[Ahead]
        BY <3>1, <2>1, <1>3, <1>5, <1>11
      <4>2. QED BY <4>1, <1>0, <1>1, <1>2, <1>6 DEF OrderedBy
    <3>2. CASE s # hole
      <4>1. Passes(s, q) /\ key'[s] = key[s] /\ key[s] # None
        BY <3>2, <2>1, <1>5, <1>10
      <4>2. <<key[q], key[s]>> \in older
        BY <4>1, <3>2, <1>0, <1>6 DEF OrderedBy
      <4>3. q = hole => <<e, key[s]>> \in older
        BY <4>1, <3>2, <2>1, <1>0, <1>1, <1>3, <1>6, <1>12 DEF OrderedBy
      <4>4. QED BY <4>1, <4>2, <4>3, <1>5
    <3>3. QED BY <3>1, <3>2
  <2>2. ASSUME NEW s \in TableSlots, s # Ahead, key'[s] # None, Dist(start, s) < step + 1,
               Dist(start, s) < Dist(start, Home[key'[s]])
        PROVE  key'[s] = e \/ <<key'[s], e>> \in older
    <3>1. CASE s = hole BY <3>1, <1>5
    <3>2. CASE s # hole
      <4>0. Dist(start, s) # step /\ Dist(start, s) \in 0 .. N - 1
        BY <2>2, <1>1, Around
      <4>1. key'[s] = key[s] /\ Dist(start, s) < step
        BY <3>2, <4>0, <2>2, <1>1, <1>5
      <4>2. key[s] = key[hole] \/ <<key[s], key[hole]>> \in older
        BY <3>2, <4>1, <2>2, <1>0, <1>1, <1>6 DEF OrderedBy
      <4>3. <<key[hole], e>> \in older
        BY <1>0, <1>1, <1>2, <1>3, <1>4, <1>6 DEF OrderedBy
      <4>4. key[s] \in Objects /\ key[hole] \in Objects
        BY <4>1, <2>2, <1>2 DEF TableSlots
      <4>5. QED BY <4>1, <4>2, <4>3, <4>4, <1>0 DEF OrderedBy
    <3>3. QED BY <3>1, <3>2
  <2>3. key'[hole'] = e
    BY <1>1, <1>2, <1>3, <1>5, <1>6
  <2>4. \A s \in TableSlots : Dist(start, Home[key[s]])' = Dist(start, Home[key'[s]])
    BY DEF Dist
  <2>5. OrderedBy(older)'
    BY <2>1, <2>2, <2>3, <2>4, <1>0, <1>6, <1>9 DEF OrderedBy
  <2>6. QED BY <2>5 DEF OrderFits
<1>21. QED BY <1>14, <1>15, <1>16, <1>17, <1>18, <1>19, <1>20

\* The last gap is emptied: no lookup passes it.
LEMMA FinishKeeps ==
  ASSUME IInv, NEW t \in Threads, FinishRemoval(t)
  PROVE  IInv'
<1> USE PthrAssumption DEF tableVars, objectVars, removalVars, callVars, Goto, Return, IInv, TypeOK,
      FinishRemoval
<1>1. Shifting(t) /\ obj[t] \in Objects /\ ~Kept(obj[t])
  BY DEF Shifting, CallsFit, GapFits
<1>2. hole \in TableSlots /\ Dist(start, hole) < step
  BY <1>1 DEF GapFits, TableSlots
<1>3. \A u \in Threads \ {t} : pc[u] \notin {"build", "remember", "shift"}
  BY DEF LockFits
<1>4. /\ \A s : ~Gap(s)'
      /\ \A s \in TableSlots : Gap(s) <=> s = hole
      /\ \A u \in Threads : ~Shifting(u)'
  BY <1>1, <1>3 DEF Gap, Shifting
<1>5. \A s \in TableSlots : key'[s] = IF s = hole THEN None ELSE key[s]
  BY <1>2 DEF TableSlots
<1>6. \A o \in Objects : Kept(o)' <=> Kept(o)
  BY <1>2, <1>4, <1>5 DEF Kept
<1>7. ASSUME NEW s \in TableSlots, s # hole, key[s] # None PROVE ~Passes(s, hole)
  <2>1. SUFFICES ASSUME Passes(s, hole) PROVE FALSE
    OBVIOUS
  <2>2. step =< Dist(start, s)
    BY <2>1, <1>2, <1>4, <1>7 DEF TableFits
  <2>3. Home[key[s]] \in TableSlots
    BY <1>7 DEF TableSlots
  <2>4. step < N
    BY <2>2, <2>3, Around
  <2>5. Ahead \in TableSlots /\ Dist(start, Ahead) = step /\ key[Ahead] = None
    BY <1>1, <2>4, AheadIs DEF Walking, Shifting
  <2>6. step < Dist(start, s)
    <3>1. s # Ahead BY <2>5, <1>7
    <3>2. Dist(start, s) # step /\ Dist(start, s) \in 0 .. N - 1
      BY <3>1, <2>5, Around
    <3>3. QED BY <3>2, <2>2
  <2>7. Passes(s, Ahead)
    <3>1. Dist(start, s) \in 0 .. N - 1 /\ Dist(start, Home[key[s]]) \in 0 .. N - 1
      BY <2>3, Around
    <3>2. CASE Dist(start, Home[key[s]]) =< Dist(start, s)
      <4>1. Dist(start, Home[key[s]]) =< Dist(start, hole)
        BY <3>2, <2>1, <1>2, <1>7, PassesIs
      <4>2. Dist(start, hole) \in 0 .. N - 1
        BY <1>2, Around
      <4>3. Dist(start, Home[key[s]]) =< Dist(start, Ahead) /\ Dist(start, Ahead) < Dist(start, s)
        BY <3>1, <4>1, <4>2, <2>5, <2>6, <1>2
      <4>4. QED BY <3>2, <4>3, <2>5, <1>7, PassesIs
    <3>3. CASE Dist(start, s) < Dist(start, Home[key[s]])
      BY <3>3, <2>5, <2>6, <1>7, PassesIs
    <3>4. QED BY <3>1, <3>2, <3>3
  <2>8. QED BY <2>5, <2>7, <1>4, <1>7 DEF TableFits
<1>8. TypeOK' BY <1>1 DEF Labels
<1>9. CallsFit' BY DEF CallsFit
<1>10. LockFits' BY <1>3 DEF LockFits
<1>11. WordsFit'
  <2>1. \A o \in Objects : /\ ~Remembered(o)' /\ ~Built(o)' /\ ~Removed(o)'
                           /\ ~Remembered(o) /\ ~Built(o) /\ (Removed(o) <=> o = obj[t])
    BY <1>1, <1>3 DEF Remembered, Built, Removed, Shifting
  <2>2. \A u \in Threads : pc'[u] \notin {"build", "remember"}
    BY <1>3
  <2>3. \A u \in Threads : pc'[u] = "use" => pc[u] = "use" /\ obj'[u] = obj[u] /\ obj[u] \in Objects
    BY DEF CallsFit
  <2>4. \A u \in Threads : pc'[u] = "use" => Kept(obj[u])'
    BY <2>3, <1>6 DEF WordsFit
  <2>5. word'[obj[t]] = "null" /\ obj[t] \in forgotten'
        /\ \A o \in Objects \ {obj[t]} : word'[o] = word[o] /\ (o \in forgotten' <=> o \in forgotten)
    BY <1>1
  <2>6. ASSUME NEW o \in Objects
        PROVE  /\ made'[o] = IF Kept(o)' \/ Remembered(o)' THEN 1 ELSE 0
               /\ word'[o] = "ready" <=> Kept(o)' \/ Remembered(o)' \/ Removed(o)'
               /\ word'[o] = "raw" <=> Built(o)'
               /\ word'[o] \notin {"raw", "ready"} =>
                    word'[o] = IF o \in forgotten' THEN "null" ELSE StaticWord[o]
    <3>1. made'[o] = IF Kept(o)' \/ Remembered(o)' THEN 1 ELSE 0
      BY <2>1, <1>6 DEF WordsFit
    <3>2. CASE o = obj[t]
      BY ONLY <3>1, <3>2, <1>1, <1>6, <2>1, <2>5, <2>6
    <3>3. CASE o # obj[t]
      BY ONLY <3>1, <3>3, <1>6, <2>1, <2>5, <2>6, IInv DEF IInv, WordsFit
    <3>4. QED BY <3>2, <3>3
  <2>7. QED BY ONLY <2>2, <2>4, <2>6 DEF WordsFit
<1>12. \A s \in TableSlots \ {hole}, q \in TableSlots : Passes(s, q)' <=> Passes(s, q)
  BY <1>5 DEF Passes
<1>13. TableFits'
  <2>1. \A s, r \in TableSlots : key'[s] = key'[r] /\ key'[s] # None => s = r
    BY <1>4, <1>5 DEF TableFits
  <2>2. \A s, q \in TableSlots : key'[s] # None /\ Passes(s, q)' => key'[q] # None
    BY <1>4, <1>5, <1>7, <1>12 DEF TableFits
  <2>3. QED BY <2>1, <2>2, <1>4 DEF TableFits
<1>14. GapFits' BY <1>4 DEF GapFits
<1>15. OrderFits'
  <2>1. PICK older \in SUBSET (Objects \X Objects) : OrderedBy(older)
    BY DEF OrderFits
  <2>2. \A s, q \in TableSlots : key'[s] # None /\ Passes(s, q)' => <<key'[q], key'[s]>> \in older
    BY <2>1, <1>4, <1>5, <1>7, <1>12 DEF OrderedBy
  <2>3. OrderedBy(older)'
    BY <2>1, <2>2, <1>4 DEF OrderedBy
  <2>4. QED BY <2>3 DEF OrderFits
<1>16. QED BY <1>8, <1>9, <1>10, <1>11, <1>13, <1>14, <1>15

LEMMA StutterKeeps ==
  ASSUME IInv, UNCHANGED vars
  PROVE  IInv'
<1> USE DEF vars, tableVars, objectVars, removalVars, callVars, IInv
<1>1. TypeOK' BY DEF TypeOK
<1>2. CallsFit' BY DEF CallsFit
<1>3. LockFits' BY DEF LockFits
<1>4. (\A p : Kept(p)' <=> Kept(p)) /\ TableFits' /\ GapFits' /\ OrderFits'
  BY TableStays DEF Shifting
<1>5. WordsFit'
  BY <1>4, WordsStay DEF Remembered, Built, Removed, Shifting, WordsFit
<1>6. QED BY <1>1, <1>2, <1>3, <1>4, <1>5

\* The table is empty and every object has its initializer.
LEMMA InitEstablishes == Init => IInv
<1> SUFFICES ASSUME Init PROVE IInv
  OBVIOUS
<1> USE PthrAssumption DEF Init
<1>1. TypeOK BY DEF TypeOK, Labels
<1>2. CallsFit /\ LockFits BY DEF CallsFit, LockFits
<1>3. \A s \in TableSlots : key[s] = None
  BY DEF TableSlots
<1>4. \A o \in Objects : ~Kept(o) /\ ~Remembered(o) /\ ~Removed(o) /\ ~Built(o)
  BY <1>3 DEF Kept, Remembered, Removed, Built, Shifting
<1>5. WordsFit BY <1>4 DEF WordsFit
<1>6. TableFits /\ GapFits BY <1>3 DEF TableFits, GapFits, Shifting
<1>7. OrderedBy({})
  BY <1>3 DEF OrderedBy, Shifting
<1>8. OrderFits BY <1>7 DEF OrderFits
<1>9. QED BY <1>1, <1>2, <1>5, <1>6, <1>8 DEF IInv

LEMMA NextKeeps == IInv /\ [Next]_vars => IInv'
<1>1. ASSUME IInv, NEW t \in Threads, Step(t) PROVE IInv'
  BY <1>1, LookupKeeps, MakingKeeps, FailingKeeps, RememberKeeps, DestroyRealKeeps, MoveKeeps,
     StayKeeps, FinishKeeps DEF Step
<1>2. ASSUME IInv, NEW t \in Threads, NEW o \in Objects, Call(t, o) \/ DestroyCall(t, o) PROVE IInv'
  BY <1>2, LookupKeeps
<1>3. QED BY <1>1, <1>2, ConstructKeeps, StutterKeeps DEF Next

THEOREM Invariant == Spec => []IInv
BY InitEstablishes, NextKeeps, PTL DEF Spec

\* However many threads meet at an object for the first time, and however a
\* removal moves the entries under their lookups, it gets one real object, those
\* who found it use one that is ready, and a free lock means an exact table.
THEOREM OneReal == Spec => []OneRealObject
<1>1. IInv => OneRealObject
  <2> SUFFICES ASSUME IInv PROVE OneRealObject
    OBVIOUS
  <2>1. \A o \in Objects : made[o] =< 1
    BY DEF IInv, WordsFit
  <2>2. \A t \in Threads : pc[t] = "use" => word[obj[t]] = "ready" /\ made[obj[t]] = 1
    BY DEF IInv, WordsFit, CallsFit
  <2>3. ASSUME owner = None, NEW o \in Objects PROVE made[o] = 1 <=> o \in Published
    <3>1. \A t \in Threads : pc[t] \notin {"build", "remember", "shift"}
      BY <2>3, PthrAssumption DEF IInv, LockFits
    <3>2. ~Remembered(o) /\ Published = {p \in Objects : Kept(p)}
      BY <3>1, LookupIsExact DEF IInv, Remembered, Shifting
    <3>3. QED BY <3>2 DEF IInv, WordsFit
  <2>4. QED BY <2>1, <2>2, <2>3 DEF IInv, OneRealObject
<1>2. QED BY <1>1, Invariant, PTL

-----------------------------------------------------------------------------
(* The table implements ObjectSet.                                          *)

\* The state that ObjectSet sees.
SetKind == [o \in Objects |-> IF o \in Published THEN kind[o] ELSE None]
SetForgotten == forgotten \cup
                {o \in Objects \ Published : \E t \in Threads : pc[t] = "shift" /\ obj[t] = o}
Gone(o) == o \notin Published /\ Removed(o)

LEMMA ForgottenIs ==
  /\ SetForgotten = forgotten \cup {o \in Objects : Gone(o)}
  /\ SetForgotten' = forgotten' \cup {o \in Objects : Gone(o)'}
BY DEF SetForgotten, Gone, Removed, Shifting

LEMMA MappingIs ==
  /\ Abstract!Init <=> SetKind = [o \in Objects |-> None] /\ SetForgotten = {}
  /\ \A o \in Objects :
       /\ SetKind[o] = None /\ SetForgotten' = SetForgotten
          /\ (\E k \in AskedKinds[o] \cup {IF o \in Conds THEN "cond"
                                           ELSE IF o \in SetForgotten \/ StaticWord[o] = "null"
                                                THEN "normal" ELSE StaticWord[o]} :
                SetKind' = [SetKind EXCEPT ![o] = k])
          => Abstract!Make(o)
       /\ SetKind[o] = None /\ SetKind' = SetKind /\ SetForgotten' = SetForgotten \cup {o}
          => Abstract!FailToMake(o)
       /\ SetKind' = [SetKind EXCEPT ![o] = None] /\ SetForgotten' = SetForgotten \cup {o}
          => Abstract!Destroy(o)
       /\ SetKind[o] = None /\ SetKind' = SetKind /\ SetForgotten' = SetForgotten \ {o}
          => Abstract!Construct(o)
<1>1. /\ SetKind = [o \in Objects |-> IF o \in Published THEN kind[o] ELSE None]
      /\ SetKind' = [o \in Objects |-> IF o \in Published' THEN kind'[o] ELSE None]
      /\ SetForgotten = forgotten \cup
           {o \in Objects \ Published : \E t \in Threads : pc[t] = "shift" /\ obj[t] = o}
      /\ SetForgotten' = forgotten' \cup
           {o \in Objects \ Published' : \E t \in Threads : pc'[t] = "shift" /\ obj'[t] = o}
  BY DEF SetKind, SetForgotten, Gone, Removed, Shifting
<1>2. Abstract!Init <=> SetKind = [o \in Objects |-> None] /\ SetForgotten = {}
  BY <1>1 DEF Abstract!Init
<1>3. ASSUME NEW o \in Objects,
             SetKind[o] = None, SetForgotten' = SetForgotten,
             NEW k \in AskedKinds[o] \cup {IF o \in Conds THEN "cond"
                                           ELSE IF o \in SetForgotten \/ StaticWord[o] = "null"
                                                THEN "normal" ELSE StaticWord[o]},
             SetKind' = [SetKind EXCEPT ![o] = k]
      PROVE  Abstract!Make(o)
  BY <1>1, <1>3 DEF Abstract!Make, Abstract!ImplicitKind
<1>4. ASSUME NEW o \in Objects, SetKind[o] = None, SetKind' = SetKind,
             SetForgotten' = SetForgotten \cup {o}
      PROVE  Abstract!FailToMake(o)
  BY <1>1, <1>4 DEF Abstract!FailToMake
<1>5. ASSUME NEW o \in Objects, SetKind' = [SetKind EXCEPT ![o] = None],
             SetForgotten' = SetForgotten \cup {o}
      PROVE  Abstract!Destroy(o)
  BY <1>1, <1>5 DEF Abstract!Destroy
<1>6. ASSUME NEW o \in Objects, SetKind[o] = None, SetKind' = SetKind,
             SetForgotten' = SetForgotten \ {o}
      PROVE  Abstract!Construct(o)
  BY <1>1, <1>6 DEF Abstract!Construct
<1>7. QED BY <1>2, <1>3, <1>4, <1>5, <1>6

\* A step that changes no entry and forgets no initializer cannot be seen.
LEMMA SetStays ==
  ASSUME \A o \in Objects : (o \in Published' <=> o \in Published)
                            /\ (o \in Published => kind'[o] = kind[o])
                            /\ (o \in SetForgotten' <=> o \in SetForgotten),
         SetForgotten \subseteq Objects, SetForgotten' \subseteq Objects
  PROVE  SetKind' = SetKind /\ SetForgotten' = SetForgotten
BY DEF SetKind

LEMMA StepMaps ==
  ASSUME IInv, IInv', NEW t \in Threads, Step(t)
  PROVE  (SetKind' = SetKind /\ SetForgotten' = SetForgotten)
         \/ \E o \in Objects : Abstract!Make(o) \/ Abstract!FailToMake(o) \/ Abstract!Destroy(o)
                               \/ Abstract!Construct(o)
<1> USE PthrAssumption DEF tableVars, objectVars, removalVars, callVars, Goto
<1>c. PICK o \in Objects : o = obj[t]
  BY DEF Step, IInv, CallsFit, ProbeHit, ProbeOther, ProbeMiss, AlreadyInitialized, Allocate, NoMemory,
     Initialize, InitializeFails, rememberObject_nl, TableFull, Use, DestroyUnused, DestroyBusy,
     DestroyReal, MoveBack, StayBehind, FinishRemoval, Walking
<1> USE <1>c
<1>0. SetForgotten \subseteq Objects /\ SetForgotten' \subseteq Objects
  BY DEF IInv, TypeOK, SetForgotten
<1>1. CASE ProbeHit(t) \/ ProbeOther(t) \/ ProbeMiss(t) \/ AlreadyInitialized(t)
  <2>1. Published' = Published /\ SetForgotten' = SetForgotten /\ kind' = kind
    <3>1. UNCHANGED <<key, kind, forgotten, obj>>
      BY <1>1 DEF ProbeHit, ProbeOther, ProbeMiss, AlreadyInitialized
    <3>2. \A u \in Threads : pc'[u] = "shift" <=> pc[u] = "shift"
      BY <1>1, SMTT(30) DEF ProbeHit, ProbeOther, ProbeMiss, AlreadyInitialized, IInv, TypeOK
    <3>3. Published' = Published
      BY <3>1 DEF Published
    <3>4. \A p : Gone(p)' <=> Gone(p)
      BY <3>1, <3>2, <3>3 DEF Gone, Removed, Shifting
    <3>5. QED BY <3>1, <3>3, <3>4, ForgottenIs
  <2>2. QED BY <2>1, <1>0, SetStays
<1>2. CASE Use(t) \/ DestroyBusy(t)
  <2>1. UNCHANGED <<key, kind, forgotten>>
    BY <1>2 DEF Use, DestroyBusy
  <2>2. \A u \in Threads : (pc'[u] = "shift" <=> pc[u] = "shift") /\ (pc[u] = "shift" => obj'[u] = obj[u])
    BY <1>2 DEF Use, DestroyBusy, Return, IInv, TypeOK
  <2>3. Published' = Published
    BY <2>1 DEF Published
  <2>4. \A p : Gone(p)' <=> Gone(p)
    BY <2>2, <2>3 DEF Gone, Removed, Shifting
  <2>5. QED BY <1>0, <2>1, <2>3, <2>4, SetStays, ForgottenIs
<1>3. CASE Allocate(t)
  <2>1. o \notin Published
    BY <1>3, LookupIsExact DEF Allocate, IInv, LockFits, Shifting, CallsFit
  <2>2. Published' = Published /\ \A p \in Objects \ {o} : kind'[p] = kind[p]
    BY <1>3 DEF Allocate, Published, IInv, TypeOK
  <2>3. \A p : Gone(p)' <=> Gone(p)
    BY <1>3, <2>2 DEF Allocate, Gone, Removed, Shifting, IInv, TypeOK
  <2>4. QED BY <1>0, <1>3, <2>1, <2>2, <2>3, SetStays, ForgottenIs DEF Allocate
<1>4. CASE Initialize(t)
  <2>1. UNCHANGED <<key, kind, forgotten, obj>> /\ Published' = Published
    BY <1>4 DEF Initialize, Published
  <2>2. \A p : Gone(p)' <=> Gone(p)
    BY <1>4, <2>1 DEF Initialize, Gone, Removed, Shifting, IInv, TypeOK
  <2>3. QED BY <1>0, <2>1, <2>2, SetStays, ForgottenIs
<1>5. CASE NoMemory(t) \/ InitializeFails(t) \/ TableFull(t) \/ DestroyUnused(t)
  <2>1. o \in Objects /\ key' = key /\ forgotten' = forgotten \cup {o} /\ Published' = Published
        /\ \A p \in Objects \ {o} : kind'[p] = kind[p]
    BY <1>5, SMTT(30) DEF NoMemory, InitializeFails, TableFull, DestroyUnused, Fail, Published, IInv, TypeOK,
       CallsFit
  <2>2. \A u \in Threads : pc[u] # "shift" /\ pc'[u] # "shift"
    BY <1>5, SMTT(30) DEF NoMemory, InitializeFails, TableFull, DestroyUnused, Fail, Return, IInv, TypeOK, LockFits
  <2>3. o \notin Published
    <3>1. ~Kept(o)
      BY <1>5, <2>1, <2>2, LookupIsExact
      DEF NoMemory, InitializeFails, TableFull, DestroyUnused, IInv, WordsFit, Shifting
    <3>2. QED BY <2>1, <2>2, <3>1, LookupIsExact DEF IInv, Shifting
  <2>4. SetForgotten' = SetForgotten \cup {o}
    BY <2>1, <2>2, ForgottenIs DEF Gone, Removed, Shifting
  <2>5. SetKind' = SetKind /\ SetKind[o] = None
    BY <2>1, <2>3 DEF SetKind
  <2>6. QED BY <2>1, <2>4, <2>5, MappingIs
<1>6. CASE rememberObject_nl(t)
  <2>1. \A u \in Threads : pc[u] # "shift" /\ pc'[u] # "shift"
    BY <1>6 DEF rememberObject_nl, IInv, TypeOK, LockFits
  <2>2. o \in Objects /\ ~Kept(o) /\ kind[o] \in AskedKinds[o] \cup {Implicit(o)}
    BY <1>6 DEF rememberObject_nl, IInv, WordsFit, CallsFit
  <2>3. Published = {p \in Objects : Kept(p)}
    BY <2>1, <2>2, LookupIsExact DEF IInv, Shifting
  <2>4. Published' = Published \cup {o}
    <3>1. PICK s \in EmptySlot(o) : key' = [key EXCEPT ![s] = o]
      BY <1>6 DEF rememberObject_nl
    <3>2. s \in TableSlots /\ key[s] = None
      BY <2>2, <3>1, SlotIs DEF EmptySlot, Visited, TableSlots
    <3>3. \A p \in Objects : p # None OBVIOUS
    <3>4. \A r \in 0 .. N - 1 : key'[r] = IF r = s THEN o ELSE key[r]
      BY <3>1 DEF IInv, TypeOK
    <3>5. QED BY <2>2, <3>2, <3>3, <3>4 DEF Published, TableSlots
  <2>5. SetForgotten = forgotten /\ SetForgotten' = forgotten
    BY <1>6, <2>1, ForgottenIs DEF Gone, Removed, Shifting, rememberObject_nl
  <2>6. SetKind[o] = None /\ SetKind' = [SetKind EXCEPT ![o] = kind[o]]
    BY <1>6, <2>2, <2>3, <2>4 DEF SetKind, rememberObject_nl
  <2>7. Abstract!Make(o)
    BY <2>2, <2>5, <2>6, MappingIs DEF Implicit
  <2>8. QED BY <2>2, <2>7
<1>7. CASE DestroyReal(t)
  <2>1. o \in Objects /\ \A u \in Threads : pc[u] # "shift" /\ (pc'[u] = "shift" <=> u = t)
    BY <1>7 DEF DestroyReal, IInv, TypeOK, LockFits, CallsFit
  <2>2. UNCHANGED <<key, kind, forgotten, obj>> /\ Published' = Published
    BY <1>7 DEF DestroyReal, Published
  <2>3. o \in Published
    BY <1>7, <2>1, LookupIsExact DEF DestroyReal, IInv, Shifting
  <2>4. \A p : ~Gone(p) /\ ~Gone(p)'
    BY <2>1, <2>2, <2>3 DEF Gone, Removed, Shifting
  <2>5. QED BY <1>0, <2>2, <2>4, SetStays, ForgottenIs
<1>8. CASE StayBehind(t)
  <2>1. UNCHANGED <<key, kind, forgotten, obj, pc>> /\ Published' = Published
    BY <1>8 DEF StayBehind, Published
  <2>2. \A p : Gone(p)' <=> Gone(p)
    BY <2>1 DEF Gone, Removed, Shifting
  <2>3. QED BY <1>0, <2>1, <2>2, SetStays, ForgottenIs
<1>9. CASE MoveBack(t) \/ FinishRemoval(t)
  <2>1. Shifting(t) /\ o \in Objects /\ ~Kept(o) /\ key[hole] # None /\ hole \in TableSlots
        /\ (key[hole] = o \/ Kept(key[hole]))
    BY <1>9 DEF MoveBack, Walking, FinishRemoval, IInv, TypeOK, CallsFit, GapFits, Shifting, TableSlots
  <2>2. \A u \in Threads : Shifting(u) <=> u = t
    BY <2>1 DEF IInv, LockFits, Shifting
  <2>3. \A s \in TableSlots : Gap(s) <=> s = hole
    BY <2>1 DEF Gap
  <2>4. \A p \in Objects : p \in Published <=> Kept(p) \/ p = key[hole]
    BY <2>1, <2>3 DEF Kept, Published, TableSlots
  <2>5. \A p \in Objects : Kept(p) => p \in Published'
    <3>1. CASE MoveBack(t)
      <4>1. \A s \in TableSlots \ {hole} : key'[s] = key[s]
        BY <3>1 DEF MoveBack, IInv, TypeOK, TableSlots
      <4>2. QED BY <2>3, <4>1 DEF Kept, Published, TableSlots
    <3>2. CASE FinishRemoval(t)
      <4>1. \A s \in TableSlots \ {hole} : key'[s] = key[s]
        BY <3>2 DEF FinishRemoval, IInv, TypeOK, TableSlots
      <4>2. QED BY <2>3, <4>1 DEF Kept, Published, TableSlots
    <3>3. QED BY <1>9, <3>1, <3>2
  <2>6. \A p \in Objects : p \in Published' => Kept(p)
    <3>1. CASE MoveBack(t)
      <4>1. step < N /\ key[Ahead] # None BY <3>1 DEF MoveBack, Walking
      <4>2. Ahead \in TableSlots /\ Dist(start, Ahead) = step
        BY <4>1, AheadIs DEF IInv
      <4>3. hole # Ahead
        BY <2>1, <4>2 DEF IInv, GapFits, TypeOK
      <4>4. \A s \in TableSlots : key'[s] = IF s = hole THEN key[Ahead] ELSE key[s]
        BY <3>1 DEF MoveBack, IInv, TypeOK, TableSlots
      <4>5. QED BY <2>3, <4>2, <4>3, <4>4 DEF Kept, Published, TableSlots
    <3>2. CASE FinishRemoval(t)
      <4>1. \A s \in TableSlots : key'[s] = IF s = hole THEN None ELSE key[s]
        BY <3>2 DEF FinishRemoval, IInv, TypeOK, TableSlots
      <4>2. QED BY <2>3, <4>1 DEF Kept, Published, TableSlots
    <3>3. QED BY <1>9, <3>1, <3>2
  <2>7. Published \subseteq Objects /\ Published' \subseteq Objects /\ o \notin Published'
    BY <2>1, <2>6 DEF Published
  <2>8. \A p \in Objects \ {o} : kind'[p] = kind[p]
    BY <1>9 DEF MoveBack, FinishRemoval, IInv, TypeOK
  <2>9. /\ \A p : Gone(p)' \/ p \in forgotten' <=> (Removed(p) \/ p \in forgotten)
        /\ Removed(o) /\ \A p \in Objects : Removed(p) => p = o
    <3>1. \A p \in Objects : Removed(p) <=> p = o
      BY <2>1, <2>2 DEF Removed
    <3>2. \A p : Removed(p) <=> p = o
      BY <2>2 DEF Removed
    <3>3. CASE MoveBack(t)
      <4>1. forgotten' = forgotten /\ \A p : Removed(p)' <=> Removed(p)
        BY <3>3 DEF MoveBack, Removed, Shifting
      <4>2. QED BY <3>2, <4>1, <2>7 DEF Gone
    <3>4. CASE FinishRemoval(t)
      <4>1. forgotten' = forgotten \cup {o}
        BY <3>4 DEF FinishRemoval
      <4>2. \A u \in Threads : ~Shifting(u)'
        BY <2>2, <3>4 DEF FinishRemoval, Return, Shifting, IInv, TypeOK
      <4>3. QED BY <3>2, <4>1, <4>2 DEF Gone, Removed
    <3>5. QED BY <1>9, <3>1, <3>3, <3>4
  <2>10. SetForgotten' = SetForgotten \cup {o}
    <3>1. \A p \in Objects : Gone(p) <=> p = o /\ o \notin Published
      BY <2>9 DEF Gone
    <3>2. forgotten \subseteq Objects /\ forgotten' \subseteq Objects
      BY DEF IInv, TypeOK
    <3>3. \A p \in Objects : p \in SetForgotten' <=> p = o \/ p \in forgotten
      BY <2>1, <2>9, ForgottenIs
    <3>4. \A p \in Objects : p \in SetForgotten \cup {o} <=> p = o \/ p \in forgotten
      BY <3>1, ForgottenIs
    <3>5. QED BY <1>0, <2>1, <3>3, <3>4
  <2>11. CASE key[hole] = o
    <3>1. SetKind' = [SetKind EXCEPT ![o] = None]
      BY <2>4, <2>5, <2>6, <2>7, <2>8, <2>11 DEF SetKind
    <3>2. Abstract!Destroy(o)
      BY <2>1, <2>10, <3>1, MappingIs
    <3>3. QED BY <2>1, <3>2
  <2>12. CASE key[hole] # o
    <3>1. \A p \in Objects : p \in Published' <=> p \in Published
      BY <2>1, <2>4, <2>5, <2>6, <2>12
    <3>2. o \in SetForgotten
      BY <2>1, <2>7, <2>9, <3>1, ForgottenIs DEF Gone
    <3>3. QED BY <1>0, <2>7, <2>8, <2>10, <3>1, <3>2, SetStays
  <2>13. QED BY <2>11, <2>12
<1>10. QED BY <1>1, <1>2, <1>3, <1>4, <1>5, <1>6, <1>7, <1>8, <1>9 DEF Step

\* Readers of the table see a set of objects of one kind each, which gains and
\* loses one object at a time: the stores of a removal are one step to them.
THEOREM TableIsObjectSet == Spec => ActsAsObjectSet
<1>1. Init => Abstract!Init
  <2> SUFFICES ASSUME Init PROVE SetKind = [o \in Objects |-> None] /\ SetForgotten = {}
    BY MappingIs
  <2>1. Published = {}
    BY PthrAssumption DEF Init, Published
  <2>2. QED BY <2>1 DEF Init, SetKind, SetForgotten, Gone, Removed, Shifting
<1>2. IInv /\ IInv' /\ [Next]_vars =>
        Abstract!Next \/ (SetKind' = SetKind /\ SetForgotten' = SetForgotten)
  <2> SUFFICES ASSUME IInv, IInv', [Next]_vars
               PROVE  Abstract!Next \/ (SetKind' = SetKind /\ SetForgotten' = SetForgotten)
    OBVIOUS
  <2>0. SetForgotten \subseteq Objects /\ SetForgotten' \subseteq Objects
    BY DEF IInv, TypeOK, SetForgotten
  <2>1. ASSUME NEW t \in Threads, Step(t)
        PROVE  Abstract!Next \/ (SetKind' = SetKind /\ SetForgotten' = SetForgotten)
    BY <2>1, StepMaps DEF Abstract!Next
  <2>2. ASSUME NEW t \in Threads, NEW o \in Objects, Call(t, o) \/ DestroyCall(t, o)
        PROVE  SetKind' = SetKind /\ SetForgotten' = SetForgotten
    <3>1. UNCHANGED <<key, kind, forgotten>>
      BY <2>2 DEF Call, DestroyCall, tableVars, objectVars
    <3>2. \A u \in Threads : (pc'[u] = "shift" <=> pc[u] = "shift")
                             /\ (pc[u] = "shift" => obj'[u] = obj[u])
      BY <2>2 DEF Call, DestroyCall, Goto, IInv, TypeOK
    <3>3. Published' = Published /\ \A p : Gone(p)' <=> Gone(p)
      BY <3>1, <3>2 DEF Published, Gone, Removed, Shifting
    <3>4. QED BY <2>0, <3>1, <3>3, SetStays, ForgottenIs
  <2>3. ASSUME NEW o \in Objects, Construct(o) PROVE Abstract!Construct(o)
    <3>1. o \notin Published /\ ~Removed(o) /\ ~Removed(o)'
      BY <2>3 DEF Construct, InUse, Removed, callVars
    <3>2. UNCHANGED <<key, kind, pc, obj>> /\ forgotten' = forgotten \ {o} /\ Published' = Published
      BY <2>3 DEF Construct, tableVars, callVars, Published
    <3>3. \A p : Gone(p)' <=> Gone(p)
      BY <3>2 DEF Gone, Removed, Shifting
    <3>4. SetForgotten' = SetForgotten \ {o}
      BY <3>1, <3>2, <3>3, ForgottenIs DEF Gone
    <3>5. SetKind' = SetKind /\ SetKind[o] = None
      BY <3>1, <3>2 DEF SetKind
    <3>6. QED BY <3>4, <3>5, MappingIs
  <2>4. CASE UNCHANGED vars
    <3>1. UNCHANGED <<key, kind, forgotten, pc, obj>> /\ Published' = Published
      BY <2>4 DEF vars, tableVars, objectVars, callVars, Published
    <3>2. \A p : Gone(p)' <=> Gone(p)
      BY <3>1 DEF Gone, Removed, Shifting
    <3>3. QED BY <2>0, <3>1, <3>2, SetStays, ForgottenIs
  <2>5. QED BY <2>1, <2>2, <2>3, <2>4 DEF Next, Abstract!Next
<1>3. IInv /\ IInv' /\ [Next]_vars => [Abstract!Next]_<<SetKind, SetForgotten>>
  BY <1>2
<1>4. QED BY <1>1, <1>3, Invariant, PTL
      DEF Spec, ActsAsObjectSet, Abstract!Spec, SetKind, SetForgotten
=============================================================================
