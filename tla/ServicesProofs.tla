---------------------------- MODULE ServicesProofs ----------------------------
(***************************************************************************)
(* Proofs about the services: the wait slots, the report queue, the player's *)
(* files and the second heap.                                               *)
(***************************************************************************)
EXTENDS Services, SequenceTheorems, FiniteSetTheorems, TLAPS

-----------------------------------------------------------------------------
(* The wait slots of stall_watch.c.                                         *)

\* Who looks for a slot has none; who has claimed one is alone with it; an owner
\* that is about to lose its slot has ended.
Searching == {"look", "info", "swap", "clear", "publish"}
SlotOrNone == Slots!Indices \cup {Slots!NoSlot}
SearchType == [at : Slots!Places, slot : SlotOrNone, pass : {0, 1},
               previous : Watched \cup {Vacant}, kind : Kinds]

WaitsFit ==
  /\ search \in [Watched -> SearchType]
  /\ DOMAIN waits = Watched
  /\ \A t \in Watched : \A k \in DOMAIN waits[t] : waits[t][k] \in SlotOrNone

Claims(t) == search[t].at \in {"clear", "publish"}
Fits(t) ==
  LET s == search[t] IN
  /\ s.at # "outside" => stage[t] = "alive"
  /\ s.at \notin {"outside", "write"} => s.slot \in Slots!Indices
  /\ s.at = "mine" => \A r \in Slots!Indices : r < s.slot => tid[r] # t
  /\ s.at \in Searching => \A r \in Slots!Indices : tid[r] # t
  /\ s.at = "info" => s.previous \in Watched
  /\ s.at = "swap" /\ s.previous \in Watched => stage[s.previous] = "dead"
  /\ Claims(t) => tid[s.slot] = Claimed
  /\ s.at = "publish" => \A k \in Kinds : note[s.slot][k] = Absent
  /\ s.at = "write" /\ s.slot # Slots!NoSlot => tid[s.slot] = t

Lives(t) ==
  /\ stage[t] \in {"absent", "dead"} => own_slot[t] = Slots!NoSlot
  /\ stage[t] # "alive" => DOMAIN waits[t] = {}
  /\ stage[t] = "leaving" => own_slot[t] # Slots!NoSlot

\* The parts of SlotsAreOwned.
OwnsOne(t) ==
  /\ \A r, s \in Slots!Indices : tid[r] = t /\ tid[s] = t => r = s
  /\ own_slot[t] # Slots!NoSlot => tid[own_slot[t]] = t
  /\ \A k \in DOMAIN waits[t] : waits[t][k] # Slots!NoSlot =>
       tid[waits[t][k]] = t /\ note[waits[t][k]][k] = t
NotesMatch ==
  \A s \in Slots!Indices, k \in Kinds :
    note[s][k] # Absent /\ tid[s] \in Watched => note[s][k] = tid[s]

ClaimsApart ==
  \A t, u \in Watched : Claims(t) /\ Claims(u) /\ t # u => search[t].slot # search[u].slot

SlotsInv ==
  /\ WaitsFit /\ Slots!TypeOK /\ NotesMatch /\ ClaimsApart
  /\ \A t \in Watched : Fits(t) /\ Lives(t) /\ OwnsOne(t)

LEMMA InvOwns == SlotsInv => SlotsAreOwned
  BY DEF SlotsInv, OwnsOne, NotesMatch, SlotsAreOwned, Slots!SlotsAreOwned

\* What is no thread and no slot.
LEMMA Apart ==
  /\ Slots!NoSlot \notin Slots!Indices /\ Claimed \notin Watched /\ Absent \notin Watched
  /\ Vacant \notin Watched /\ Vacant # Claimed /\ 0 \in Slots!Indices
  BY WaitSlotsAssumption DEF Slots!Indices, Slots!NoSlot

\* The type of what is left of a search, from its record.
LEMMA TypesFit ==
  ASSUME search \in [Watched -> SearchType], DOMAIN waits = Watched,
         \A t \in Watched : DOMAIN waits[t] \subseteq Kinds,
         tid \in [Slots!Indices -> Watched \cup {Vacant, Claimed}],
         note \in [Slots!Indices -> [Kinds -> Watched \cup {Absent}]],
         own_slot \in [Watched -> SlotOrNone],
         stage \in [Watched -> {"absent", "alive", "leaving", "dead"}]
  PROVE  Slots!TypeOK
  BY DEF Slots!TypeOK, SearchType, SlotOrNone

\* A slot is claimed: it is vacant, or its owner has ended.
LEMMA SwapKeeps ==
  ASSUME SlotsInv, NEW t \in Watched, Slots!Swap(t)
  PROVE  SlotsInv'
<1>1. /\ search[t].at = "swap" /\ search[t].slot \in Slots!Indices /\ stage[t] = "alive"
      /\ tid[search[t].slot] = search[t].previous
      /\ search[t].previous \in Watched => stage[search[t].previous] = "dead"
      /\ search[t].previous \in Watched \cup {Vacant} /\ \A r \in Slots!Indices : tid[r] # t
  BY
    DEF Slots!Swap, Slots!Go, Slots!At, Slots!Here, SlotsInv, WaitsFit, Fits, Lives, Claims,
        Searching, SearchType
<1>2. /\ search' \in [Watched -> SearchType] /\ search'[t].at = "clear"
      /\ search'[t].slot = search[t].slot /\ \A u \in Watched \ {t} : search'[u] = search[u]
  BY
    DEF Slots!Swap, Slots!Go, Slots!At, Slots!Here, SlotsInv, WaitsFit, SearchType,
        Slots!Places
<1>3. /\ tid' \in [Slots!Indices -> Watched \cup {Vacant, Claimed}]
      /\ tid'[search[t].slot] = Claimed
      /\ \A r \in Slots!Indices \ {search[t].slot} : tid'[r] = tid[r]
  BY <1>1 DEF Slots!Swap, Slots!Go, Slots!At, Slots!Here, SlotsInv, Slots!TypeOK
<1>4. UNCHANGED <<note, own_slot, stage, waits>>
  BY DEF Slots!Swap
<1>5. \A u \in Watched, r \in Slots!Indices :
        /\ tid'[r] = u => tid[r] = u
        /\ tid[r] = u /\ stage[u] # "dead" => tid'[r] = u
  BY <1>1, <1>3, Apart
<1>6. WaitsFit' /\ Slots!TypeOK' /\ ClaimsApart'
  <2>1. WaitsFit'
    BY ONLY SlotsInv, <1>1, <1>2, <1>3, <1>4, <1>5 DEF SlotsInv, WaitsFit, SlotOrNone
  <2>2. \A u \in Watched : DOMAIN waits'[u] \subseteq Kinds
    BY ONLY SlotsInv, <1>1, <1>2, <1>3, <1>4, <1>5 DEF SlotsInv, Slots!TypeOK
  <2>3. Slots!TypeOK'
    BY ONLY SlotsInv, <1>1, <1>2, <1>3, <1>4, <1>5, <2>2
      DEF SlotsInv, WaitsFit, Slots!TypeOK, SearchType, SlotOrNone
  <2>4. ClaimsApart'
    BY ONLY SlotsInv, Apart, <1>1, <1>2, <1>3, <1>4, <1>5
      DEF SlotsInv, Fits, Claims, ClaimsApart
  <2>5. QED BY <2>1, <2>3, <2>4
<1>7. ASSUME NEW u \in Watched PROVE Fits(u)' /\ Lives(u)' /\ OwnsOne(u)'
  <2>1. CASE u = t
    <3>1. /\ Fits(t) /\ Lives(t) /\ OwnsOne(t) /\ search[t] \in SearchType
          /\ own_slot[t] \in SlotOrNone /\ \A j \in DOMAIN waits[t] : waits[t][j] \in SlotOrNone
          /\ DOMAIN waits[t] \subseteq Kinds
      BY DEF SlotsInv, WaitsFit, Slots!TypeOK, SlotOrNone
    <3>2. Fits(t)'
      BY ONLY <3>1, Apart, <1>1, <1>2, <1>3, <1>4, <1>5
        DEF Fits, Lives, Claims, Searching, SlotOrNone, SearchType
    <3>3. Lives(t)'
      BY ONLY <3>1, Apart, <1>1, <1>2, <1>3, <1>4, <1>5 DEF Lives, SlotOrNone
    <3>4. OwnsOne(t)'
      BY ONLY <3>1, Apart, <1>1, <1>2, <1>3, <1>4, <1>5 DEF Fits, Lives, OwnsOne, SlotOrNone
    <3>5. QED BY <2>1, <3>2, <3>3, <3>4
  <2>2. CASE u # t
    <3>1. /\ Fits(u) /\ Lives(u) /\ OwnsOne(u) /\ search[u] \in SearchType
          /\ own_slot[u] \in SlotOrNone /\ \A j \in DOMAIN waits[u] : waits[u][j] \in SlotOrNone
          /\ DOMAIN waits[u] \subseteq Kinds
      BY DEF SlotsInv, WaitsFit, Slots!TypeOK, SlotOrNone
    <3>2. Fits(u)'
      BY ONLY <3>1, Apart, <2>2, <1>1, <1>2, <1>3, <1>4, <1>5
        DEF Fits, Lives, Claims, Searching, SlotOrNone, SearchType
    <3>3. Lives(u)'
      BY ONLY <3>1, Apart, <2>2, <1>1, <1>2, <1>3, <1>4, <1>5 DEF Lives, SlotOrNone
    <3>4. OwnsOne(u)'
      BY ONLY <3>1, Apart, <2>2, <1>1, <1>2, <1>3, <1>4, <1>5
        DEF Fits, Lives, OwnsOne, SlotOrNone
    <3>5. QED BY <2>2, <3>2, <3>3, <3>4
  <2>3. QED BY <2>1, <2>2
<1>8. NotesMatch'
  BY ONLY SlotsInv, Apart, <1>1, <1>2, <1>3, <1>4, <1>5
    DEF SlotsInv, NotesMatch, Fits, OwnsOne, SlotOrNone, Slots!TypeOK
<1>9. QED BY <1>6, <1>7, <1>8 DEF SlotsInv

\* The notes of the last owner are cleared in a claimed slot.
LEMMA ClearKeeps ==
  ASSUME SlotsInv, NEW t \in Watched, Slots!Clear(t)
  PROVE  SlotsInv'
<1>1. /\ search[t].at = "clear" /\ search[t].slot \in Slots!Indices /\ stage[t] = "alive"
      /\ tid[search[t].slot] = Claimed /\ \A r \in Slots!Indices : tid[r] # t
  BY
    DEF Slots!Clear, Slots!Go, Slots!At, Slots!Here, SlotsInv, WaitsFit, Fits, Lives,
        Claims, Searching, SearchType
<1>2. /\ search' \in [Watched -> SearchType] /\ search'[t].at = "publish"
      /\ search'[t].slot = search[t].slot /\ \A u \in Watched \ {t} : search'[u] = search[u]
  BY
    DEF Slots!Clear, Slots!Go, Slots!At, Slots!Here, SlotsInv, WaitsFit, SearchType,
        Slots!Places
<1>3. /\ note' \in [Slots!Indices -> [Kinds -> Watched \cup {Absent}]]
      /\ \A k \in Kinds : note'[search[t].slot][k] = Absent
      /\ \A r \in Slots!Indices \ {search[t].slot} : note'[r] = note[r]
  BY <1>1 DEF Slots!Clear, Slots!Go, Slots!At, Slots!Here, SlotsInv, Slots!TypeOK
<1>4. UNCHANGED <<tid, own_slot, stage, waits>>
  BY DEF Slots!Clear, Slots!slotVars
<1>5. \A u \in Watched \ {t}, r \in Slots!Indices : tid[r] = u => note'[r] = note[r]
  BY <1>1, <1>3, Apart
<1>6. WaitsFit' /\ Slots!TypeOK' /\ ClaimsApart'
  <2>1. WaitsFit'
    BY ONLY SlotsInv, <1>1, <1>2, <1>3, <1>4, <1>5 DEF SlotsInv, WaitsFit, SlotOrNone
  <2>2. \A u \in Watched : DOMAIN waits'[u] \subseteq Kinds
    BY ONLY SlotsInv, <1>1, <1>2, <1>3, <1>4, <1>5 DEF SlotsInv, Slots!TypeOK
  <2>3. Slots!TypeOK'
    BY ONLY SlotsInv, <1>1, <1>2, <1>3, <1>4, <1>5, <2>2
      DEF SlotsInv, WaitsFit, Slots!TypeOK, SearchType, SlotOrNone
  <2>4. ClaimsApart'
    BY ONLY SlotsInv, Apart, <1>1, <1>2, <1>3, <1>4, <1>5
      DEF SlotsInv, Fits, Claims, ClaimsApart
  <2>5. QED BY <2>1, <2>3, <2>4
<1>7. ASSUME NEW u \in Watched PROVE Fits(u)' /\ Lives(u)' /\ OwnsOne(u)'
  <2>1. CASE u = t
    <3>1. /\ Fits(t) /\ Lives(t) /\ OwnsOne(t) /\ search[t] \in SearchType
          /\ own_slot[t] \in SlotOrNone /\ \A j \in DOMAIN waits[t] : waits[t][j] \in SlotOrNone
          /\ DOMAIN waits[t] \subseteq Kinds
      BY DEF SlotsInv, WaitsFit, Slots!TypeOK, SlotOrNone
    <3>2. Fits(t)'
      BY ONLY <3>1, Apart, <1>1, <1>2, <1>3, <1>4, <1>5
        DEF Fits, Lives, Claims, Searching, SlotOrNone, SearchType
    <3>3. Lives(t)'
      BY ONLY <3>1, Apart, <1>1, <1>2, <1>3, <1>4, <1>5 DEF Lives, SlotOrNone
    <3>4. OwnsOne(t)'
      BY ONLY <3>1, Apart, <1>1, <1>2, <1>3, <1>4, <1>5 DEF Fits, Lives, OwnsOne, SlotOrNone
    <3>5. QED BY <2>1, <3>2, <3>3, <3>4
  <2>2. CASE u # t
    <3>1. /\ Fits(u) /\ Lives(u) /\ OwnsOne(u) /\ search[u] \in SearchType
          /\ own_slot[u] \in SlotOrNone /\ \A j \in DOMAIN waits[u] : waits[u][j] \in SlotOrNone
          /\ DOMAIN waits[u] \subseteq Kinds
      BY DEF SlotsInv, WaitsFit, Slots!TypeOK, SlotOrNone
    <3>2. Fits(u)'
      BY ONLY <3>1, Apart, <2>2, <1>1, <1>2, <1>3, <1>4, <1>5
        DEF Fits, Lives, Claims, Searching, SlotOrNone, SearchType
    <3>3. Lives(u)'
      BY ONLY <3>1, Apart, <2>2, <1>1, <1>2, <1>3, <1>4, <1>5 DEF Lives, SlotOrNone
    <3>4. OwnsOne(u)'
      BY ONLY <3>1, Apart, <2>2, <1>1, <1>2, <1>3, <1>4, <1>5
        DEF Fits, Lives, OwnsOne, SlotOrNone
    <3>5. QED BY <2>2, <3>2, <3>3, <3>4
  <2>3. QED BY <2>1, <2>2
<1>8. NotesMatch'
  BY ONLY SlotsInv, Apart, <1>1, <1>2, <1>3, <1>4, <1>5
    DEF SlotsInv, NotesMatch, Fits, OwnsOne, SlotOrNone, Slots!TypeOK
<1>9. QED BY <1>6, <1>7, <1>8 DEF SlotsInv

\* A claimed slot gets its owner.
LEMMA PublishKeeps ==
  ASSUME SlotsInv, NEW t \in Watched, Slots!Publish(t)
  PROVE  SlotsInv'
<1>1. /\ search[t].at = "publish" /\ search[t].slot \in Slots!Indices /\ stage[t] = "alive"
      /\ tid[search[t].slot] = Claimed /\ \A r \in Slots!Indices : tid[r] # t
      /\ \A k \in Kinds : note[search[t].slot][k] = Absent
      /\ \A u \in Watched \ {t} : Claims(u) => search[u].slot # search[t].slot
  BY
    DEF Slots!Publish, Slots!Go, Slots!At, Slots!Here, SlotsInv, WaitsFit, Fits, Claims,
        ClaimsApart, Searching, SearchType
<1>2. /\ search' \in [Watched -> SearchType] /\ search'[t].at = "write"
      /\ search'[t].slot = search[t].slot /\ \A u \in Watched \ {t} : search'[u] = search[u]
  BY
    DEF Slots!Publish, Slots!Go, Slots!At, Slots!Here, SlotsInv, WaitsFit, SearchType,
        Slots!Places
<1>3. /\ tid' \in [Slots!Indices -> Watched \cup {Vacant, Claimed}]
      /\ tid'[search[t].slot] = t
      /\ \A r \in Slots!Indices \ {search[t].slot} : tid'[r] = tid[r]
  BY <1>1 DEF Slots!Publish, Slots!Go, Slots!At, Slots!Here, SlotsInv, Slots!TypeOK
<1>4. UNCHANGED <<note, own_slot, stage, waits>>
  BY DEF Slots!Publish
<1>5. \A u \in Watched \ {t}, r \in Slots!Indices : tid'[r] = u <=> tid[r] = u
  BY <1>1, <1>3, Apart
<1>6. WaitsFit' /\ Slots!TypeOK' /\ ClaimsApart'
  <2>1. WaitsFit'
    BY ONLY SlotsInv, <1>1, <1>2, <1>3, <1>4, <1>5 DEF SlotsInv, WaitsFit, SlotOrNone
  <2>2. \A u \in Watched : DOMAIN waits'[u] \subseteq Kinds
    BY ONLY SlotsInv, <1>1, <1>2, <1>3, <1>4, <1>5 DEF SlotsInv, Slots!TypeOK
  <2>3. Slots!TypeOK'
    BY ONLY SlotsInv, <1>1, <1>2, <1>3, <1>4, <1>5, <2>2
      DEF SlotsInv, WaitsFit, Slots!TypeOK, SearchType, SlotOrNone
  <2>4. ClaimsApart'
    BY ONLY SlotsInv, Apart, <1>1, <1>2, <1>3, <1>4, <1>5
      DEF SlotsInv, Fits, Claims, ClaimsApart
  <2>5. QED BY <2>1, <2>3, <2>4
<1>7. ASSUME NEW u \in Watched PROVE Fits(u)' /\ Lives(u)' /\ OwnsOne(u)'
  <2>1. CASE u = t
    <3>1. /\ Fits(t) /\ Lives(t) /\ OwnsOne(t) /\ search[t] \in SearchType
          /\ own_slot[t] \in SlotOrNone /\ \A j \in DOMAIN waits[t] : waits[t][j] \in SlotOrNone
          /\ DOMAIN waits[t] \subseteq Kinds
      BY DEF SlotsInv, WaitsFit, Slots!TypeOK, SlotOrNone
    <3>2. Fits(t)'
      BY ONLY <3>1, Apart, <1>1, <1>2, <1>3, <1>4, <1>5
        DEF Fits, Lives, Claims, Searching, SlotOrNone, SearchType
    <3>3. Lives(t)'
      BY ONLY <3>1, Apart, <1>1, <1>2, <1>3, <1>4, <1>5 DEF Lives, SlotOrNone
    <3>4. OwnsOne(t)'
      BY ONLY <3>1, Apart, <1>1, <1>2, <1>3, <1>4, <1>5 DEF Fits, Lives, OwnsOne, SlotOrNone
    <3>5. QED BY <2>1, <3>2, <3>3, <3>4
  <2>2. CASE u # t
    <3>1. /\ Fits(u) /\ Lives(u) /\ OwnsOne(u) /\ search[u] \in SearchType
          /\ own_slot[u] \in SlotOrNone /\ \A j \in DOMAIN waits[u] : waits[u][j] \in SlotOrNone
          /\ DOMAIN waits[u] \subseteq Kinds
      BY DEF SlotsInv, WaitsFit, Slots!TypeOK, SlotOrNone
    <3>2. Fits(u)'
      BY ONLY <3>1, Apart, <2>2, <1>1, <1>2, <1>3, <1>4, <1>5
        DEF Fits, Lives, Claims, Searching, SlotOrNone, SearchType
    <3>3. Lives(u)'
      BY ONLY <3>1, Apart, <2>2, <1>1, <1>2, <1>3, <1>4, <1>5 DEF Lives, SlotOrNone
    <3>4. OwnsOne(u)'
      BY ONLY <3>1, Apart, <2>2, <1>1, <1>2, <1>3, <1>4, <1>5
        DEF Fits, Lives, OwnsOne, SlotOrNone
    <3>5. QED BY <2>2, <3>2, <3>3, <3>4
  <2>3. QED BY <2>1, <2>2
<1>8. NotesMatch'
  BY ONLY SlotsInv, Apart, <1>1, <1>2, <1>3, <1>4, <1>5
    DEF SlotsInv, NotesMatch, Fits, OwnsOne, SlotOrNone, Slots!TypeOK
<1>9. QED BY <1>6, <1>7, <1>8 DEF SlotsInv

\* A wait is noted in the thread's own slot.
LEMMA WriteKeeps ==
  ASSUME SlotsInv, NEW t \in Watched, NEW s, NEW k,
         s = search[t].slot, k = search[t].kind, Slots!Write(t)
  PROVE  SlotsInv'
<1>1. /\ search[t].at = "write" /\ stage[t] = "alive" /\ k \in Kinds
      /\ s \in SlotOrNone /\ (s # Slots!NoSlot => tid[s] = t)
  BY
    DEF Slots!Write, Slots!At, Slots!Here, SlotsInv, WaitsFit, Fits, Lives, Claims,
        SearchType
<1>2. /\ search' \in [Watched -> SearchType] /\ search'[t].at = "outside"
      /\ \A u \in Watched \ {t} : search'[u] = search[u]
  BY WaitSlotsAssumption, Apart
    DEF Slots!Write, Slots!Outside, Slots!Places, SlotsInv, WaitsFit, SearchType, SlotOrNone
<1>3. /\ note' \in [Slots!Indices -> [Kinds -> Watched \cup {Absent}]]
      /\ \A r \in Slots!Indices, j \in Kinds :
           note'[r][j] = IF r = s /\ j = k THEN t ELSE note[r][j]
  BY <1>1, Apart DEF Slots!Write, Slots!At, Slots!Here, SlotsInv, Slots!TypeOK, SlotOrNone
<1>4. /\ DOMAIN waits' = Watched /\ \A u \in Watched \ {t} : waits'[u] = waits[u]
      /\ DOMAIN waits'[t] = DOMAIN waits[t] \cup {k}
      /\ \A j \in DOMAIN waits'[t] : waits'[t][j] = IF j = k THEN s ELSE waits[t][j]
  BY <1>1 DEF Slots!Write, Slots!At, Slots!Here, SlotsInv, WaitsFit
<1>5. /\ own_slot' \in [Watched -> SlotOrNone] /\ own_slot'[t] \in {own_slot[t], s}
      /\ \A u \in Watched \ {t} : own_slot'[u] = own_slot[u]
  BY <1>1 DEF Slots!Write, Slots!At, Slots!Here, SlotsInv, Slots!TypeOK, SlotOrNone
<1>6. UNCHANGED <<tid, stage>>
  BY DEF Slots!Write
<1>7. WaitsFit' /\ Slots!TypeOK' /\ ClaimsApart'
  <2>1. WaitsFit'
    BY ONLY SlotsInv, <1>1, <1>2, <1>3, <1>4, <1>5, <1>6 DEF SlotsInv, WaitsFit, SlotOrNone
  <2>2. \A u \in Watched : DOMAIN waits'[u] \subseteq Kinds
    BY ONLY SlotsInv, <1>1, <1>2, <1>3, <1>4, <1>5, <1>6 DEF SlotsInv, Slots!TypeOK
  <2>3. Slots!TypeOK'
    BY ONLY SlotsInv, <1>1, <1>2, <1>3, <1>4, <1>5, <1>6, <2>2
      DEF SlotsInv, WaitsFit, Slots!TypeOK, SearchType, SlotOrNone
  <2>4. ClaimsApart'
    BY ONLY SlotsInv, Apart, <1>1, <1>2, <1>3, <1>4, <1>5, <1>6
      DEF SlotsInv, Fits, Claims, ClaimsApart
  <2>5. QED BY <2>1, <2>3, <2>4
<1>8. ASSUME NEW u \in Watched PROVE Fits(u)' /\ Lives(u)' /\ OwnsOne(u)'
  <2>1. CASE u = t
    <3>1. /\ Fits(t) /\ Lives(t) /\ OwnsOne(t) /\ search[t] \in SearchType
          /\ own_slot[t] \in SlotOrNone /\ \A j \in DOMAIN waits[t] : waits[t][j] \in SlotOrNone
          /\ DOMAIN waits[t] \subseteq Kinds
      BY DEF SlotsInv, WaitsFit, Slots!TypeOK, SlotOrNone
    <3>2. Fits(t)'
      BY ONLY <3>1, Apart, <1>1, <1>2, <1>3, <1>4, <1>5, <1>6
        DEF Fits, Lives, Claims, Searching, SlotOrNone, SearchType
    <3>3. Lives(t)'
      BY ONLY <3>1, Apart, <1>1, <1>2, <1>3, <1>4, <1>5, <1>6 DEF Lives, SlotOrNone
    <3>4. OwnsOne(t)'
      BY ONLY <3>1, Apart, <1>1, <1>2, <1>3, <1>4, <1>5, <1>6
        DEF Fits, Lives, OwnsOne, SlotOrNone
    <3>5. QED BY <2>1, <3>2, <3>3, <3>4
  <2>2. CASE u # t
    <3>1. /\ Fits(u) /\ Lives(u) /\ OwnsOne(u) /\ search[u] \in SearchType
          /\ own_slot[u] \in SlotOrNone /\ \A j \in DOMAIN waits[u] : waits[u][j] \in SlotOrNone
          /\ DOMAIN waits[u] \subseteq Kinds
      BY DEF SlotsInv, WaitsFit, Slots!TypeOK, SlotOrNone
    <3>2. Fits(u)'
      BY ONLY <3>1, Apart, <2>2, <1>1, <1>2, <1>3, <1>4, <1>5, <1>6
        DEF Fits, Lives, Claims, Searching, SlotOrNone, SearchType
    <3>3. Lives(u)'
      BY ONLY <3>1, Apart, <2>2, <1>1, <1>2, <1>3, <1>4, <1>5, <1>6 DEF Lives, SlotOrNone
    <3>4. OwnsOne(u)'
      BY ONLY <3>1, Apart, <2>2, <1>1, <1>2, <1>3, <1>4, <1>5, <1>6
        DEF Fits, Lives, OwnsOne, SlotOrNone
    <3>5. QED BY <2>2, <3>2, <3>3, <3>4
  <2>3. QED BY <2>1, <2>2
<1>9. NotesMatch'
  BY ONLY SlotsInv, Apart, <1>1, <1>2, <1>3, <1>4, <1>5, <1>6
    DEF SlotsInv, NotesMatch, Fits, OwnsOne, SlotOrNone, Slots!TypeOK
<1>10. QED BY <1>7, <1>8, <1>9 DEF SlotsInv

\* A wait's note is taken back.
LEMMA EndWaitKeeps ==
  ASSUME SlotsInv, NEW t \in Watched, NEW k \in Kinds, NEW s,
         s = (IF k = "bridge" THEN own_slot[t] ELSE waits[t][k]), Slots!EndWait(t, k)
  PROVE  SlotsInv'
<1>1. /\ search[t].at = "outside" /\ k \in DOMAIN waits[t] /\ s \in SlotOrNone
      /\ s # Slots!NoSlot => tid[s] = t
  BY
    DEF Slots!EndWait, Slots!Ends, Slots!At, Slots!Here, SlotsInv, WaitsFit, Slots!TypeOK,
        OwnsOne, SlotOrNone
<1>2. /\ note' \in [Slots!Indices -> [Kinds -> Watched \cup {Absent}]]
      /\ \A r \in Slots!Indices, j \in Kinds :
           note'[r][j] = IF r = s /\ j = k THEN Absent ELSE note[r][j]
  BY <1>1, Apart DEF Slots!EndWait, SlotsInv, Slots!TypeOK, SlotOrNone
<1>3. /\ DOMAIN waits' = Watched /\ \A u \in Watched \ {t} : waits'[u] = waits[u]
      /\ DOMAIN waits'[t] = DOMAIN waits[t] \ {k}
      /\ \A j \in DOMAIN waits'[t] : waits'[t][j] = waits[t][j]
  BY <1>1 DEF Slots!EndWait, SlotsInv, WaitsFit
<1>4. UNCHANGED <<tid, search, own_slot, stage>>
  BY DEF Slots!EndWait
<1>5. WaitsFit' /\ Slots!TypeOK' /\ ClaimsApart'
  <2>1. WaitsFit'
    BY ONLY SlotsInv, <1>1, <1>2, <1>3, <1>4 DEF SlotsInv, WaitsFit, SlotOrNone
  <2>2. \A u \in Watched : DOMAIN waits'[u] \subseteq Kinds
    BY ONLY SlotsInv, <1>1, <1>2, <1>3, <1>4 DEF SlotsInv, Slots!TypeOK
  <2>3. Slots!TypeOK'
    BY ONLY SlotsInv, <1>1, <1>2, <1>3, <1>4, <2>2
      DEF SlotsInv, WaitsFit, Slots!TypeOK, SearchType, SlotOrNone
  <2>4. ClaimsApart'
    BY ONLY SlotsInv, Apart, <1>1, <1>2, <1>3, <1>4 DEF SlotsInv, Fits, Claims, ClaimsApart
  <2>5. QED BY <2>1, <2>3, <2>4
<1>6. ASSUME NEW u \in Watched PROVE Fits(u)' /\ Lives(u)' /\ OwnsOne(u)'
  <2>1. CASE u = t
    <3>1. /\ Fits(t) /\ Lives(t) /\ OwnsOne(t) /\ search[t] \in SearchType
          /\ own_slot[t] \in SlotOrNone /\ \A j \in DOMAIN waits[t] : waits[t][j] \in SlotOrNone
          /\ DOMAIN waits[t] \subseteq Kinds
      BY DEF SlotsInv, WaitsFit, Slots!TypeOK, SlotOrNone
    <3>2. Fits(t)'
      BY ONLY <3>1, Apart, <1>1, <1>2, <1>3, <1>4
        DEF Fits, Lives, Claims, Searching, SlotOrNone, SearchType
    <3>3. Lives(t)'
      BY ONLY <3>1, Apart, <1>1, <1>2, <1>3, <1>4 DEF Lives, SlotOrNone
    <3>4. OwnsOne(t)'
      BY ONLY <3>1, Apart, <1>1, <1>2, <1>3, <1>4 DEF Fits, Lives, OwnsOne, SlotOrNone
    <3>5. QED BY <2>1, <3>2, <3>3, <3>4
  <2>2. CASE u # t
    <3>1. /\ Fits(u) /\ Lives(u) /\ OwnsOne(u) /\ search[u] \in SearchType
          /\ own_slot[u] \in SlotOrNone /\ \A j \in DOMAIN waits[u] : waits[u][j] \in SlotOrNone
          /\ DOMAIN waits[u] \subseteq Kinds
      BY DEF SlotsInv, WaitsFit, Slots!TypeOK, SlotOrNone
    <3>2. Fits(u)'
      BY ONLY <3>1, Apart, <2>2, <1>1, <1>2, <1>3, <1>4
        DEF Fits, Lives, Claims, Searching, SlotOrNone, SearchType
    <3>3. Lives(u)'
      BY ONLY <3>1, Apart, <2>2, <1>1, <1>2, <1>3, <1>4 DEF Lives, SlotOrNone
    <3>4. OwnsOne(u)'
      BY ONLY <3>1, Apart, <2>2, <1>1, <1>2, <1>3, <1>4 DEF Fits, Lives, OwnsOne, SlotOrNone
    <3>5. QED BY <2>2, <3>2, <3>3, <3>4
  <2>3. QED BY <2>1, <2>2
<1>7. NotesMatch'
  BY ONLY SlotsInv, Apart, <1>1, <1>2, <1>3, <1>4
    DEF SlotsInv, NotesMatch, Fits, OwnsOne, SlotOrNone, Slots!TypeOK
<1>8. QED BY <1>5, <1>6, <1>7 DEF SlotsInv

\* A thread of the bridge clears its slot.
LEMMA ExitClearsKeeps ==
  ASSUME SlotsInv, NEW t \in Watched, Slots!ExitClears(t)
  PROVE  SlotsInv'
<1>1. /\ search[t].at = "outside" /\ stage[t] = "alive" /\ DOMAIN waits[t] = {}
      /\ own_slot[t] \in Slots!Indices /\ tid[own_slot[t]] = t
  BY DEF Slots!ExitClears, Slots!At, Slots!Here, SlotsInv, WaitsFit, Slots!TypeOK, OwnsOne
<1>2. /\ note' \in [Slots!Indices -> [Kinds -> Watched \cup {Absent}]]
      /\ \A k \in Kinds : note'[own_slot[t]][k] = Absent
      /\ \A r \in Slots!Indices \ {own_slot[t]} : note'[r] = note[r]
  BY <1>1 DEF Slots!ExitClears, SlotsInv, Slots!TypeOK
<1>3. /\ stage' \in [Watched -> {"absent", "alive", "leaving", "dead"}]
      /\ stage'[t] = "leaving" /\ \A u \in Watched \ {t} : stage'[u] = stage[u]
  BY <1>1 DEF Slots!ExitClears, SlotsInv, Slots!TypeOK
<1>4. UNCHANGED <<tid, search, own_slot, waits>>
  BY DEF Slots!ExitClears
<1>5. \A u \in Watched \ {t}, r \in Slots!Indices : tid[r] = u => note'[r] = note[r]
  BY <1>1, <1>2, Apart
<1>6. WaitsFit' /\ Slots!TypeOK' /\ ClaimsApart'
  <2>1. WaitsFit'
    BY ONLY SlotsInv, <1>1, <1>2, <1>3, <1>4, <1>5 DEF SlotsInv, WaitsFit, SlotOrNone
  <2>2. \A u \in Watched : DOMAIN waits'[u] \subseteq Kinds
    BY ONLY SlotsInv, <1>1, <1>2, <1>3, <1>4, <1>5 DEF SlotsInv, Slots!TypeOK
  <2>3. Slots!TypeOK'
    BY ONLY SlotsInv, <1>1, <1>2, <1>3, <1>4, <1>5, <2>2
      DEF SlotsInv, WaitsFit, Slots!TypeOK, SearchType, SlotOrNone
  <2>4. ClaimsApart'
    BY ONLY SlotsInv, Apart, <1>1, <1>2, <1>3, <1>4, <1>5
      DEF SlotsInv, Fits, Claims, ClaimsApart
  <2>5. QED BY <2>1, <2>3, <2>4
<1>7. ASSUME NEW u \in Watched PROVE Fits(u)' /\ Lives(u)' /\ OwnsOne(u)'
  <2>1. CASE u = t
    <3>1. /\ Fits(t) /\ Lives(t) /\ OwnsOne(t) /\ search[t] \in SearchType
          /\ own_slot[t] \in SlotOrNone /\ \A j \in DOMAIN waits[t] : waits[t][j] \in SlotOrNone
          /\ DOMAIN waits[t] \subseteq Kinds
      BY DEF SlotsInv, WaitsFit, Slots!TypeOK, SlotOrNone
    <3>2. Fits(t)'
      BY ONLY <3>1, Apart, <1>1, <1>2, <1>3, <1>4, <1>5
        DEF Fits, Lives, Claims, Searching, SlotOrNone, SearchType
    <3>3. Lives(t)'
      BY ONLY <3>1, Apart, <1>1, <1>2, <1>3, <1>4, <1>5 DEF Lives, SlotOrNone
    <3>4. OwnsOne(t)'
      BY ONLY <3>1, Apart, <1>1, <1>2, <1>3, <1>4, <1>5 DEF Fits, Lives, OwnsOne, SlotOrNone
    <3>5. QED BY <2>1, <3>2, <3>3, <3>4
  <2>2. CASE u # t
    <3>1. /\ Fits(u) /\ Lives(u) /\ OwnsOne(u) /\ search[u] \in SearchType
          /\ own_slot[u] \in SlotOrNone /\ \A j \in DOMAIN waits[u] : waits[u][j] \in SlotOrNone
          /\ DOMAIN waits[u] \subseteq Kinds
      BY DEF SlotsInv, WaitsFit, Slots!TypeOK, SlotOrNone
    <3>2. Fits(u)'
      BY ONLY <3>1, Apart, <2>2, <1>1, <1>2, <1>3, <1>4, <1>5
        DEF Fits, Lives, Claims, Searching, SlotOrNone, SearchType
    <3>3. Lives(u)'
      BY ONLY <3>1, Apart, <2>2, <1>1, <1>2, <1>3, <1>4, <1>5 DEF Lives, SlotOrNone
    <3>4. OwnsOne(u)'
      BY ONLY <3>1, Apart, <2>2, <1>1, <1>2, <1>3, <1>4, <1>5
        DEF Fits, Lives, OwnsOne, SlotOrNone
    <3>5. QED BY <2>2, <3>2, <3>3, <3>4
  <2>3. QED BY <2>1, <2>2
<1>8. NotesMatch'
  BY ONLY SlotsInv, Apart, <1>1, <1>2, <1>3, <1>4, <1>5
    DEF SlotsInv, NotesMatch, Fits, OwnsOne, SlotOrNone, Slots!TypeOK
<1>9. QED BY <1>6, <1>7, <1>8 DEF SlotsInv

\* And then leaves it.
LEMMA ExitFreesKeeps ==
  ASSUME SlotsInv, NEW t \in Watched, Slots!ExitFrees(t)
  PROVE  SlotsInv'
<1>1. /\ search[t].at = "outside" /\ stage[t] = "leaving" /\ DOMAIN waits[t] = {}
      /\ own_slot[t] \in Slots!Indices /\ tid[own_slot[t]] = t
  BY DEF Slots!ExitFrees, SlotsInv, WaitsFit, Slots!TypeOK, OwnsOne, Fits, Lives
<1>2. /\ tid' \in [Slots!Indices -> Watched \cup {Vacant, Claimed}]
      /\ tid'[own_slot[t]] = Vacant
      /\ \A r \in Slots!Indices \ {own_slot[t]} : tid'[r] = tid[r]
  BY <1>1 DEF Slots!ExitFrees, SlotsInv, Slots!TypeOK
<1>3. /\ stage' \in [Watched -> {"absent", "alive", "leaving", "dead"}]
      /\ stage'[t] = "alive" /\ \A u \in Watched \ {t} : stage'[u] = stage[u]
  BY <1>1 DEF Slots!ExitFrees, SlotsInv, Slots!TypeOK
<1>4. /\ own_slot' \in [Watched -> SlotOrNone] /\ own_slot'[t] = Slots!NoSlot
      /\ \A u \in Watched \ {t} : own_slot'[u] = own_slot[u]
  BY <1>1 DEF Slots!ExitFrees, SlotsInv, Slots!TypeOK, SlotOrNone
<1>5. UNCHANGED <<note, search, waits>>
  BY DEF Slots!ExitFrees
<1>6. \A u \in Watched \ {t}, r \in Slots!Indices : tid'[r] = u <=> tid[r] = u
  BY <1>1, <1>2, Apart
<1>7. WaitsFit' /\ Slots!TypeOK' /\ ClaimsApart'
  <2>1. WaitsFit'
    BY ONLY SlotsInv, <1>1, <1>2, <1>3, <1>4, <1>5, <1>6 DEF SlotsInv, WaitsFit, SlotOrNone
  <2>2. \A u \in Watched : DOMAIN waits'[u] \subseteq Kinds
    BY ONLY SlotsInv, <1>1, <1>2, <1>3, <1>4, <1>5, <1>6 DEF SlotsInv, Slots!TypeOK
  <2>3. Slots!TypeOK'
    BY ONLY SlotsInv, <1>1, <1>2, <1>3, <1>4, <1>5, <1>6, <2>2
      DEF SlotsInv, WaitsFit, Slots!TypeOK, SearchType, SlotOrNone
  <2>4. ClaimsApart'
    BY ONLY SlotsInv, Apart, <1>1, <1>2, <1>3, <1>4, <1>5, <1>6
      DEF SlotsInv, Fits, Claims, ClaimsApart
  <2>5. QED BY <2>1, <2>3, <2>4
<1>8. ASSUME NEW u \in Watched PROVE Fits(u)' /\ Lives(u)' /\ OwnsOne(u)'
  <2>1. CASE u = t
    <3>1. /\ Fits(t) /\ Lives(t) /\ OwnsOne(t) /\ search[t] \in SearchType
          /\ own_slot[t] \in SlotOrNone /\ \A j \in DOMAIN waits[t] : waits[t][j] \in SlotOrNone
          /\ DOMAIN waits[t] \subseteq Kinds
      BY DEF SlotsInv, WaitsFit, Slots!TypeOK, SlotOrNone
    <3>2. Fits(t)'
      BY ONLY <3>1, Apart, <1>1, <1>2, <1>3, <1>4, <1>5, <1>6
        DEF Fits, Lives, Claims, Searching, SlotOrNone, SearchType
    <3>3. Lives(t)'
      BY ONLY <3>1, Apart, <1>1, <1>2, <1>3, <1>4, <1>5, <1>6 DEF Lives, SlotOrNone
    <3>4. OwnsOne(t)'
      BY ONLY <3>1, Apart, <1>1, <1>2, <1>3, <1>4, <1>5, <1>6
        DEF Fits, Lives, OwnsOne, SlotOrNone
    <3>5. QED BY <2>1, <3>2, <3>3, <3>4
  <2>2. CASE u # t
    <3>1. /\ Fits(u) /\ Lives(u) /\ OwnsOne(u) /\ search[u] \in SearchType
          /\ own_slot[u] \in SlotOrNone /\ \A j \in DOMAIN waits[u] : waits[u][j] \in SlotOrNone
          /\ DOMAIN waits[u] \subseteq Kinds
      BY DEF SlotsInv, WaitsFit, Slots!TypeOK, SlotOrNone
    <3>2. Fits(u)'
      BY ONLY <3>1, Apart, <2>2, <1>1, <1>2, <1>3, <1>4, <1>5, <1>6
        DEF Fits, Lives, Claims, Searching, SlotOrNone, SearchType
    <3>3. Lives(u)'
      BY ONLY <3>1, Apart, <2>2, <1>1, <1>2, <1>3, <1>4, <1>5, <1>6 DEF Lives, SlotOrNone
    <3>4. OwnsOne(u)'
      BY ONLY <3>1, Apart, <2>2, <1>1, <1>2, <1>3, <1>4, <1>5, <1>6
        DEF Fits, Lives, OwnsOne, SlotOrNone
    <3>5. QED BY <2>2, <3>2, <3>3, <3>4
  <2>3. QED BY <2>1, <2>2
<1>9. NotesMatch'
  BY ONLY SlotsInv, Apart, <1>1, <1>2, <1>3, <1>4, <1>5, <1>6
    DEF SlotsInv, NotesMatch, Fits, OwnsOne, SlotOrNone, Slots!TypeOK
<1>10. QED BY <1>7, <1>8, <1>9 DEF SlotsInv

\* Another thread ends, and leaves the slot as it is.
LEMMA DieKeeps ==
  ASSUME SlotsInv, NEW t \in Watched, Slots!Die(t)
  PROVE  SlotsInv'
<1>1. search[t].at = "outside" /\ stage[t] = "alive" /\ DOMAIN waits[t] = {}
  BY DEF Slots!Die, Slots!At, Slots!Here, SlotsInv, WaitsFit
<1>2. /\ stage' \in [Watched -> {"absent", "alive", "leaving", "dead"}]
      /\ stage'[t] = "dead" /\ \A u \in Watched \ {t} : stage'[u] = stage[u]
  BY <1>1 DEF Slots!Die, SlotsInv, Slots!TypeOK
<1>3. /\ own_slot' \in [Watched -> SlotOrNone] /\ own_slot'[t] = Slots!NoSlot
      /\ \A u \in Watched \ {t} : own_slot'[u] = own_slot[u]
  BY <1>1 DEF Slots!Die, SlotsInv, Slots!TypeOK, SlotOrNone
<1>4. UNCHANGED <<tid, note, search, waits>>
  BY DEF Slots!Die, Slots!slotVars
<1>5. WaitsFit' /\ Slots!TypeOK' /\ ClaimsApart'
  <2>1. WaitsFit'
    BY ONLY SlotsInv, <1>1, <1>2, <1>3, <1>4 DEF SlotsInv, WaitsFit, SlotOrNone
  <2>2. \A u \in Watched : DOMAIN waits'[u] \subseteq Kinds
    BY ONLY SlotsInv, <1>1, <1>2, <1>3, <1>4 DEF SlotsInv, Slots!TypeOK
  <2>3. Slots!TypeOK'
    BY ONLY SlotsInv, <1>1, <1>2, <1>3, <1>4, <2>2
      DEF SlotsInv, WaitsFit, Slots!TypeOK, SearchType, SlotOrNone
  <2>4. ClaimsApart'
    BY ONLY SlotsInv, Apart, <1>1, <1>2, <1>3, <1>4 DEF SlotsInv, Fits, Claims, ClaimsApart
  <2>5. QED BY <2>1, <2>3, <2>4
<1>6. ASSUME NEW u \in Watched PROVE Fits(u)' /\ Lives(u)' /\ OwnsOne(u)'
  <2>1. CASE u = t
    <3>1. /\ Fits(t) /\ Lives(t) /\ OwnsOne(t) /\ search[t] \in SearchType
          /\ own_slot[t] \in SlotOrNone /\ \A j \in DOMAIN waits[t] : waits[t][j] \in SlotOrNone
          /\ DOMAIN waits[t] \subseteq Kinds
      BY DEF SlotsInv, WaitsFit, Slots!TypeOK, SlotOrNone
    <3>2. Fits(t)'
      BY ONLY <3>1, Apart, <1>1, <1>2, <1>3, <1>4
        DEF Fits, Lives, Claims, Searching, SlotOrNone, SearchType
    <3>3. Lives(t)'
      BY ONLY <3>1, Apart, <1>1, <1>2, <1>3, <1>4 DEF Lives, SlotOrNone
    <3>4. OwnsOne(t)'
      BY ONLY <3>1, Apart, <1>1, <1>2, <1>3, <1>4 DEF Fits, Lives, OwnsOne, SlotOrNone
    <3>5. QED BY <2>1, <3>2, <3>3, <3>4
  <2>2. CASE u # t
    <3>1. /\ Fits(u) /\ Lives(u) /\ OwnsOne(u) /\ search[u] \in SearchType
          /\ own_slot[u] \in SlotOrNone /\ \A j \in DOMAIN waits[u] : waits[u][j] \in SlotOrNone
          /\ DOMAIN waits[u] \subseteq Kinds
      BY DEF SlotsInv, WaitsFit, Slots!TypeOK, SlotOrNone
    <3>2. Fits(u)'
      BY ONLY <3>1, Apart, <2>2, <1>1, <1>2, <1>3, <1>4
        DEF Fits, Lives, Claims, Searching, SlotOrNone, SearchType
    <3>3. Lives(u)'
      BY ONLY <3>1, Apart, <2>2, <1>1, <1>2, <1>3, <1>4 DEF Lives, SlotOrNone
    <3>4. OwnsOne(u)'
      BY ONLY <3>1, Apart, <2>2, <1>1, <1>2, <1>3, <1>4 DEF Fits, Lives, OwnsOne, SlotOrNone
    <3>5. QED BY <2>2, <3>2, <3>3, <3>4
  <2>3. QED BY <2>1, <2>2
<1>7. NotesMatch'
  BY ONLY SlotsInv, Apart, <1>1, <1>2, <1>3, <1>4
    DEF SlotsInv, NotesMatch, Fits, OwnsOne, SlotOrNone, Slots!TypeOK
<1>8. QED BY <1>5, <1>6, <1>7 DEF SlotsInv

\* A name stands for a new thread when nothing refers to the old one.
LEMMA NewThreadKeeps ==
  ASSUME SlotsInv, NEW t \in Watched, Slots!NewThread(t)
  PROVE  SlotsInv'
<1>1. /\ stage[t] \in {"absent", "dead"} /\ search[t].at = "outside" /\ DOMAIN waits[t] = {}
      /\ \A r \in Slots!Indices : tid[r] # t /\ \A u \in Watched : search[u].previous # t
  BY DEF Slots!NewThread, Slots!Forgotten, SlotsInv, WaitsFit, Fits, Lives, Claims
<1>2. /\ stage' \in [Watched -> {"absent", "alive", "leaving", "dead"}]
      /\ stage'[t] = "alive" /\ \A u \in Watched \ {t} : stage'[u] = stage[u]
  BY <1>1 DEF Slots!NewThread, SlotsInv, Slots!TypeOK
<1>3. UNCHANGED <<tid, note, own_slot, search, waits>>
  BY DEF Slots!NewThread, Slots!slotVars
<1>4. WaitsFit' /\ Slots!TypeOK' /\ ClaimsApart'
  <2>1. WaitsFit'
    BY ONLY SlotsInv, <1>1, <1>2, <1>3 DEF SlotsInv, WaitsFit, SlotOrNone
  <2>2. \A u \in Watched : DOMAIN waits'[u] \subseteq Kinds
    BY ONLY SlotsInv, <1>1, <1>2, <1>3 DEF SlotsInv, Slots!TypeOK
  <2>3. Slots!TypeOK'
    BY ONLY SlotsInv, <1>1, <1>2, <1>3, <2>2
      DEF SlotsInv, WaitsFit, Slots!TypeOK, SearchType, SlotOrNone
  <2>4. ClaimsApart'
    BY ONLY SlotsInv, Apart, <1>1, <1>2, <1>3 DEF SlotsInv, Fits, Claims, ClaimsApart
  <2>5. QED BY <2>1, <2>3, <2>4
<1>5. ASSUME NEW u \in Watched PROVE Fits(u)' /\ Lives(u)' /\ OwnsOne(u)'
  <2>1. CASE u = t
    <3>1. /\ Fits(t) /\ Lives(t) /\ OwnsOne(t) /\ search[t] \in SearchType
          /\ own_slot[t] \in SlotOrNone /\ \A j \in DOMAIN waits[t] : waits[t][j] \in SlotOrNone
          /\ DOMAIN waits[t] \subseteq Kinds
      BY DEF SlotsInv, WaitsFit, Slots!TypeOK, SlotOrNone
    <3>2. Fits(t)'
      BY ONLY <3>1, Apart, <1>1, <1>2, <1>3
        DEF Fits, Lives, Claims, Searching, SlotOrNone, SearchType
    <3>3. Lives(t)'
      BY ONLY <3>1, Apart, <1>1, <1>2, <1>3 DEF Lives, SlotOrNone
    <3>4. OwnsOne(t)'
      BY ONLY <3>1, Apart, <1>1, <1>2, <1>3 DEF Fits, Lives, OwnsOne, SlotOrNone
    <3>5. QED BY <2>1, <3>2, <3>3, <3>4
  <2>2. CASE u # t
    <3>1. /\ Fits(u) /\ Lives(u) /\ OwnsOne(u) /\ search[u] \in SearchType
          /\ own_slot[u] \in SlotOrNone /\ \A j \in DOMAIN waits[u] : waits[u][j] \in SlotOrNone
          /\ DOMAIN waits[u] \subseteq Kinds
      BY DEF SlotsInv, WaitsFit, Slots!TypeOK, SlotOrNone
    <3>2. Fits(u)'
      BY ONLY <3>1, Apart, <2>2, <1>1, <1>2, <1>3
        DEF Fits, Lives, Claims, Searching, SlotOrNone, SearchType
    <3>3. Lives(u)'
      BY ONLY <3>1, Apart, <2>2, <1>1, <1>2, <1>3 DEF Lives, SlotOrNone
    <3>4. OwnsOne(u)'
      BY ONLY <3>1, Apart, <2>2, <1>1, <1>2, <1>3 DEF Fits, Lives, OwnsOne, SlotOrNone
    <3>5. QED BY <2>2, <3>2, <3>3, <3>4
  <2>3. QED BY <2>1, <2>2
<1>6. NotesMatch'
  BY ONLY SlotsInv, Apart, <1>1, <1>2, <1>3
    DEF SlotsInv, NotesMatch, Fits, OwnsOne, SlotOrNone, Slots!TypeOK
<1>7. QED BY <1>4, <1>5, <1>6 DEF SlotsInv

\* A step of the search that claims nothing.
LEMMA SearchMoves ==
  ASSUME SlotsInv, NEW t \in Watched, UNCHANGED <<tid, note, own_slot, stage, waits>>,
         search' \in [Watched -> SearchType],
         \A u \in Watched \ {t} : search'[u] = search[u],
         search'[t].at \in {"mine", "look", "info", "swap", "write"}, stage[t] = "alive",
         search'[t].at # "write" => search'[t].slot \in Slots!Indices,
         search'[t].at = "mine" =>
           \A r \in Slots!Indices : r < search'[t].slot => tid[r] # t,
         search'[t].at \in {"look", "info", "swap"} => \A r \in Slots!Indices : tid[r] # t,
         search'[t].at = "info" => search'[t].previous \in Watched,
         search'[t].at = "swap" /\ search'[t].previous \in Watched =>
           stage[search'[t].previous] = "dead",
         search'[t].at = "write" =>
           search'[t].slot = Slots!NoSlot \/ tid[search'[t].slot] = t
  PROVE  SlotsInv'
<1>1. WaitsFit' /\ NotesMatch' /\ ClaimsApart'
  BY DEF SlotsInv, WaitsFit, NotesMatch, ClaimsApart, Claims
<1>2. Slots!TypeOK'
  BY DEF SlotsInv, Slots!TypeOK, SearchType, SlotOrNone
<1>3. ASSUME NEW u \in Watched PROVE Fits(u)' /\ Lives(u)' /\ OwnsOne(u)'
  <2>1. Fits(u)'
    BY DEF SlotsInv, Fits, Claims, Searching
  <2>2. Lives(u)' /\ OwnsOne(u)'
    BY DEF SlotsInv, Lives, OwnsOne
  <2>3. QED BY <2>1, <2>2
<1>4. QED BY <1>1, <1>2, <1>3 DEF SlotsInv

\* One entry of search changes.
LEMMA OneSearch ==
  ASSUME NEW t \in Watched, NEW e, search \in [Watched -> SearchType],
         search' = [search EXCEPT ![t] = e]
  PROVE  /\ search'[t] = e /\ \A u \in Watched \ {t} : search'[u] = search[u]
         /\ e \in SearchType => search' \in [Watched -> SearchType]
  OBVIOUS

\* From one slot to the next.
LEMMA NextSlot ==
  ASSUME NEW t \in Watched, search \in [Watched -> SearchType],
         search[t].slot + 1 \in Slots!Indices
  PROVE  /\ Slots!Skip(t) =>
              search' = [search EXCEPT ![t] = [search[t] EXCEPT !.at = "look", !.slot = @ + 1]]
         /\ Slots!NotMine(t) =>
              search' = [search EXCEPT ![t] = [search[t] EXCEPT !.slot = @ + 1]]
<1>1. ASSUME Slots!Skip(t)
      PROVE  search' = [search EXCEPT ![t] = [search[t] EXCEPT !.at = "look", !.slot = @ + 1]]
  <2>1. search'[t] = [search[t] EXCEPT !.at = "look", !.slot = @ + 1]
    BY <1>1 DEF Slots!Skip, Slots!Here
  <2>2. search' = [u \in Watched |-> search'[u]] /\ \A u \in Watched \ {t} : search'[u] = search[u]
    BY <1>1 DEF Slots!Skip
  <2>3. search' = [search EXCEPT ![t] = search'[t]]
    BY ONLY <2>2, search \in [Watched -> SearchType]
  <2>4. QED BY ONLY <2>1, <2>3
<1>2. ASSUME Slots!NotMine(t)
      PROVE  search' = [search EXCEPT ![t] = [search[t] EXCEPT !.slot = @ + 1]]
  <2>1. search'[t] = [search[t] EXCEPT !.slot = @ + 1]
    BY <1>2 DEF Slots!NotMine, Slots!Here
  <2>2. search' = [u \in Watched |-> search'[u]] /\ \A u \in Watched \ {t} : search'[u] = search[u]
    BY <1>2 DEF Slots!NotMine
  <2>3. search' = [search EXCEPT ![t] = search'[t]]
    BY ONLY <2>2, search \in [Watched -> SearchType]
  <2>4. QED BY ONLY <2>1, <2>3
<1>3. QED BY <1>1, <1>2

\* The end of a look at a slot.
LEMMA SkipFits ==
  ASSUME SlotsInv, NEW t \in Watched, Slots!Skip(t), search[t].slot \in Slots!Indices
  PROVE  /\ search' \in [Watched -> SearchType]
         /\ \A u \in Watched \ {t} : search'[u] = search[u]
         /\ search'[t].at \in {"look", "write"}
         /\ search'[t].at = "look" => search'[t].slot \in Slots!Indices
         /\ search'[t].at = "write" => search'[t].slot = Slots!NoSlot
<1> DEFINE s == search[t]
<1>1. s \in SearchType /\ search \in [Watched -> SearchType]
  BY DEF SlotsInv, WaitsFit
<1>2. CASE s.slot + 1 \in Slots!Indices
  <2>1. search' = [search EXCEPT ![t] = [s EXCEPT !.at = "look", !.slot = @ + 1]]
    BY NextSlot, <1>1, <1>2 DEF Slots!Skip, Slots!Here
  <2>2. [s EXCEPT !.at = "look", !.slot = @ + 1] \in SearchType
    BY <1>1, <1>2 DEF SearchType, SlotOrNone, Slots!Places
  <2>3. search'[t].at = "look" /\ search'[t].slot = s.slot + 1
    BY <1>1, <2>1, OneSearch DEF SearchType
  <2>4. QED BY ONLY <1>1, <1>2, <2>1, <2>2, <2>3, OneSearch
<1>3. CASE s.slot + 1 \notin Slots!Indices /\ s.pass = 0
  <2>1. search' = [search EXCEPT ![t] = [s EXCEPT !.at = "look", !.slot = 0, !.pass = 1]]
    BY <1>3 DEF Slots!Skip, Slots!Here
  <2>2. [s EXCEPT !.at = "look", !.slot = 0, !.pass = 1] \in SearchType
    BY <1>1, Apart DEF SearchType, SlotOrNone, Slots!Places
  <2>3. search'[t].at = "look" /\ search'[t].slot = 0
    BY <1>1, <2>1, OneSearch DEF SearchType
  <2>4. QED BY ONLY <1>1, Apart, <2>1, <2>2, <2>3, OneSearch
<1>4. CASE s.slot + 1 \notin Slots!Indices /\ s.pass # 0
  <2>1. search' = [search EXCEPT ![t] = [s EXCEPT !.at = "write", !.slot = Slots!NoSlot]]
    BY <1>4 DEF Slots!Skip, Slots!Here
  <2>2. [s EXCEPT !.at = "write", !.slot = Slots!NoSlot] \in SearchType
    BY <1>1 DEF SearchType, SlotOrNone, Slots!Places
  <2>3. search'[t].at = "write" /\ search'[t].slot = Slots!NoSlot
    BY <1>1, <2>1, OneSearch DEF SearchType
  <2>4. QED BY ONLY <1>1, <2>1, <2>2, <2>3, OneSearch
<1>5. QED BY <1>2, <1>3, <1>4

\* No step of one thread takes or overwrites what another one owns.
LEMMA SlotsKeep ==
  ASSUME SlotsInv, Slots!Next
  PROVE  SlotsInv'
<1>1. ASSUME NEW t \in Watched, NEW k \in Kinds, Slots!BeginWait(t, k) PROVE SlotsInv'
  <2>1. /\ stage[t] = "alive" /\ search \in [Watched -> SearchType] /\ own_slot[t] \in SlotOrNone
        /\ own_slot[t] # Slots!NoSlot => tid[own_slot[t]] = t
        /\ UNCHANGED <<tid, note, own_slot, stage, waits>>
    BY <1>1
      DEF Slots!BeginWait, Slots!slotVars, SlotsInv, WaitsFit, OwnsOne, Slots!TypeOK,
          SlotOrNone
  <2> DEFINE o == Slots!Outside
  <2>2. o \in SearchType
    BY WaitSlotsAssumption, Apart DEF SearchType, SlotOrNone, Slots!Outside, Slots!Places
  <2>3. CASE k = "bridge" /\ own_slot[t] # Slots!NoSlot
    <3> DEFINE e == [o EXCEPT !.at = "write", !.slot = own_slot[t], !.kind = k]
    <3>1. search' = [search EXCEPT ![t] = e]
      BY <1>1, <2>3 DEF Slots!BeginWait
    <3> HIDE DEF o
    <3>2. e \in SearchType /\ e.at = "write" /\ e.slot = own_slot[t]
      BY <2>1, <2>2 DEF SearchType, Slots!Places
    <3> HIDE DEF e
    <3>3. QED BY ONLY SlotsInv, <2>1, <2>3, <3>1, <3>2, OneSearch, SearchMoves
  <2>4. CASE ~(k = "bridge" /\ own_slot[t] # Slots!NoSlot)
    <3> DEFINE e == [o EXCEPT !.at = "mine", !.kind = k]
    <3>1. search' = [search EXCEPT ![t] = e]
      BY <1>1, <2>4 DEF Slots!BeginWait
    <3>2. o.slot = 0 /\ \A r \in Slots!Indices : ~(r < 0)
      BY DEF Slots!Outside, Slots!Indices
    <3> HIDE DEF o
    <3>3. e \in SearchType /\ e.at = "mine" /\ e.slot = 0
      BY <2>1, <2>2, <3>2 DEF SearchType, Slots!Places
    <3> HIDE DEF e
    <3>4. QED BY ONLY SlotsInv, Apart, <2>1, <3>1, <3>2, <3>3, OneSearch, SearchMoves
  <2>5. QED BY <2>3, <2>4
<1>2. ASSUME NEW t \in Watched, NEW k \in Kinds, Slots!EndWait(t, k) PROVE SlotsInv'
  BY <1>2, EndWaitKeeps
<1>3. ASSUME NEW t \in Watched, Slots!IsMine(t) PROVE SlotsInv'
  <2>1. /\ search[t].at = "mine" /\ search[t] \in SearchType /\ search \in [Watched -> SearchType]
        /\ Fits(t) /\ UNCHANGED <<tid, note, own_slot, stage, waits>>
    BY <1>3 DEF Slots!IsMine, Slots!At, Slots!slotVars, SlotsInv, WaitsFit
  <2>2. search' = [search EXCEPT ![t] = [search[t] EXCEPT !.at = "write"]]
    BY <1>3 DEF Slots!IsMine, Slots!Go, Slots!Here
  <2>3. [search[t] EXCEPT !.at = "write"] \in SearchType
    BY <1>3, <2>1, Apart
      DEF Slots!IsMine, Slots!Here, Slots!At, Fits, SearchType, SlotOrNone, Slots!Places
  <2>4. search'[t].at = "write" /\ tid[search'[t].slot] = t
    BY <1>3, <2>1, <2>2, OneSearch DEF Slots!IsMine, Slots!Here, SearchType
  <2>5. QED
    BY ONLY SlotsInv, Apart, <2>1, <2>2, <2>3, <2>4, OneSearch, SearchMoves
      DEF Fits, Searching
<1>4. ASSUME NEW t \in Watched, Slots!NotMine(t) PROVE SlotsInv'
  <2> DEFINE s == search[t]
  <2>1. /\ stage[t] = "alive" /\ search \in [Watched -> SearchType] /\ s \in SearchType
        /\ s.at = "mine" /\ s.slot \in Slots!Indices /\ tid[s.slot] # t
        /\ \A r \in Slots!Indices : r < s.slot => tid[r] # t
        /\ UNCHANGED <<tid, note, own_slot, stage, waits>>
    BY <1>4
      DEF Slots!NotMine, Slots!At, Slots!Here, Slots!slotVars, SlotsInv, WaitsFit, Fits
  <2>2. CASE s.slot + 1 \in Slots!Indices
    <3> DEFINE e == [s EXCEPT !.slot = @ + 1]
    <3>1. search' = [search EXCEPT ![t] = e]
      BY <1>4, <2>1, <2>2, NextSlot
    <3>2. e \in SearchType /\ e.at = "mine" /\ e.slot = s.slot + 1
      BY <2>1, <2>2 DEF SearchType, SlotOrNone
    <3>3. \A r \in Slots!Indices : r < s.slot + 1 => tid[r] # t
      BY <2>1 DEF Slots!Indices
    <3> HIDE DEF e
    <3>4. QED BY ONLY SlotsInv, <2>1, <2>2, <3>1, <3>2, <3>3, OneSearch, SearchMoves
  <2>3. CASE s.slot + 1 \notin Slots!Indices
    <3> DEFINE e == [s EXCEPT !.at = "look", !.slot = 0]
    <3>1. search' = [search EXCEPT ![t] = e]
      BY <1>4, <2>3 DEF Slots!NotMine, Slots!Here
    <3>2. e \in SearchType /\ e.at = "look" /\ e.slot = 0
      BY <2>1, Apart DEF SearchType, SlotOrNone, Slots!Places
    <3>3. \A r \in Slots!Indices : tid[r] # t
      BY <2>1, <2>3, WaitSlotsAssumption DEF Slots!Indices
    <3> HIDE DEF e
    <3>4. QED BY ONLY SlotsInv, Apart, <2>1, <3>1, <3>2, <3>3, OneSearch, SearchMoves
  <2>4. QED BY <2>2, <2>3
<1>5. ASSUME NEW t \in Watched, Slots!LookSkips(t) PROVE SlotsInv'
  <2>1. /\ search[t].at \in {"look", "info", "swap"} /\ Slots!Skip(t)
        /\ UNCHANGED <<tid, note, own_slot, stage, waits>>
    BY <1>5 DEF Slots!LookSkips, Slots!At, Slots!slotVars
  <2>2. stage[t] = "alive" /\ search[t].slot \in Slots!Indices /\ \A r \in Slots!Indices : tid[r] # t
    BY <2>1 DEF SlotsInv, Fits, Searching
  <2>3. QED BY <2>1, <2>2, SkipFits, SearchMoves
<1>6. ASSUME NEW t \in Watched, Slots!LookFree(t) PROVE SlotsInv'
  <2>1. /\ search[t].at = "look" /\ search[t] \in SearchType /\ search \in [Watched -> SearchType]
        /\ Fits(t) /\ UNCHANGED <<tid, note, own_slot, stage, waits>>
    BY <1>6 DEF Slots!LookFree, Slots!At, Slots!slotVars, SlotsInv, WaitsFit
  <2>2. search' = [search EXCEPT ![t] = [search[t] EXCEPT !.at = "swap", !.previous = Vacant]]
    BY <1>6 DEF Slots!LookFree, Slots!Go, Slots!Here
  <2>3. [search[t] EXCEPT !.at = "swap", !.previous = Vacant] \in SearchType
    BY <1>6, <2>1, Apart
      DEF Slots!LookFree, Slots!Here, Slots!At, Fits, SearchType, SlotOrNone, Slots!Places
  <2>4. search'[t].at = "swap" /\ search'[t].slot = search[t].slot /\ search'[t].previous = Vacant
    BY <1>6, <2>1, <2>2, OneSearch DEF Slots!LookFree, Slots!Here, SearchType
  <2>5. QED
    BY ONLY SlotsInv, Apart, <2>1, <2>2, <2>3, <2>4, OneSearch, SearchMoves
      DEF Fits, Searching
<1>7. ASSUME NEW t \in Watched, Slots!LookTaken(t) PROVE SlotsInv'
  <2>1. /\ search[t].at = "look" /\ search[t] \in SearchType /\ search \in [Watched -> SearchType]
        /\ Fits(t) /\ UNCHANGED <<tid, note, own_slot, stage, waits>>
    BY <1>7 DEF Slots!LookTaken, Slots!At, Slots!slotVars, SlotsInv, WaitsFit
  <2>2. search' = [search EXCEPT ![t] = [search[t] EXCEPT !.at = "info", !.previous = tid[search[t].slot]]]
    BY <1>7 DEF Slots!LookTaken, Slots!Go, Slots!Here
  <2>3. [search[t] EXCEPT !.at = "info", !.previous = tid[search[t].slot]] \in SearchType
    BY <1>7, <2>1, Apart
      DEF Slots!LookTaken, Slots!Here, Slots!At, Fits, SearchType, SlotOrNone, Slots!Places
  <2>4. search'[t].at = "info" /\ search'[t].slot = search[t].slot /\ search'[t].previous \in Watched
    BY <1>7, <2>1, <2>2, OneSearch DEF Slots!LookTaken, Slots!Here, SearchType
  <2>5. QED
    BY ONLY SlotsInv, Apart, <2>1, <2>2, <2>3, <2>4, OneSearch, SearchMoves
      DEF Fits, Searching
<1>8. ASSUME NEW t \in Watched, Slots!OwnerGone(t) PROVE SlotsInv'
  <2>1. /\ search[t].at = "info" /\ search[t] \in SearchType /\ search \in [Watched -> SearchType]
        /\ Fits(t) /\ UNCHANGED <<tid, note, own_slot, stage, waits>>
    BY <1>8 DEF Slots!OwnerGone, Slots!At, Slots!slotVars, SlotsInv, WaitsFit
  <2>2. search' = [search EXCEPT ![t] = [search[t] EXCEPT !.at = "swap"]]
    BY <1>8 DEF Slots!OwnerGone, Slots!Go, Slots!Here
  <2>3. [search[t] EXCEPT !.at = "swap"] \in SearchType
    BY <1>8, <2>1, Apart
      DEF Slots!OwnerGone, Slots!Here, Slots!At, Fits, SearchType, SlotOrNone, Slots!Places
  <2>4. /\ search'[t].at = "swap" /\ search'[t].slot = search[t].slot
        /\ stage[search'[t].previous] = "dead"
    BY <1>8, <2>1, <2>2, OneSearch DEF Slots!OwnerGone, Slots!Here, SearchType
  <2>5. QED
    BY ONLY SlotsInv, Apart, <2>1, <2>2, <2>3, <2>4, OneSearch, SearchMoves
      DEF Fits, Searching
<1>9. ASSUME NEW t \in Watched, Slots!OwnerLives(t) PROVE SlotsInv'
  <2>1. /\ search[t].at \in {"look", "info", "swap"} /\ Slots!Skip(t)
        /\ UNCHANGED <<tid, note, own_slot, stage, waits>>
    BY <1>9 DEF Slots!OwnerLives, Slots!At, Slots!slotVars
  <2>2. stage[t] = "alive" /\ search[t].slot \in Slots!Indices /\ \A r \in Slots!Indices : tid[r] # t
    BY <2>1 DEF SlotsInv, Fits, Searching
  <2>3. QED BY <2>1, <2>2, SkipFits, SearchMoves
<1>10. ASSUME NEW t \in Watched, Slots!Swap(t) PROVE SlotsInv'
  BY <1>10, SwapKeeps
<1>11. ASSUME NEW t \in Watched, Slots!SwapFails(t) PROVE SlotsInv'
  <2>1. /\ search[t].at \in {"look", "info", "swap"} /\ Slots!Skip(t)
        /\ UNCHANGED <<tid, note, own_slot, stage, waits>>
    BY <1>11 DEF Slots!SwapFails, Slots!At, Slots!slotVars
  <2>2. stage[t] = "alive" /\ search[t].slot \in Slots!Indices /\ \A r \in Slots!Indices : tid[r] # t
    BY <2>1 DEF SlotsInv, Fits, Searching
  <2>3. QED BY <2>1, <2>2, SkipFits, SearchMoves
<1>12. ASSUME NEW t \in Watched, Slots!Clear(t) PROVE SlotsInv'
  BY <1>12, ClearKeeps
<1>13. ASSUME NEW t \in Watched, Slots!Publish(t) PROVE SlotsInv'
  BY <1>13, PublishKeeps
<1>14. ASSUME NEW t \in Watched, Slots!Write(t) PROVE SlotsInv'
  BY <1>14, WriteKeeps
<1>15. ASSUME NEW t \in Watched, Slots!ExitClears(t) PROVE SlotsInv'
  BY <1>15, ExitClearsKeeps
<1>16. ASSUME NEW t \in Watched, Slots!ExitFrees(t) PROVE SlotsInv'
  BY <1>16, ExitFreesKeeps
<1>17. ASSUME NEW t \in Watched, Slots!Die(t) PROVE SlotsInv'
  BY <1>17, DieKeeps
<1>18. ASSUME NEW t \in Watched, Slots!NewThread(t) PROVE SlotsInv'
  BY <1>18, NewThreadKeeps
<1>19. QED BY ONLY <1>1, <1>2, <1>3, <1>4, <1>5, <1>6, <1>7, <1>8, <1>9, <1>10, <1>11,
    <1>12, <1>13, <1>14, <1>15, <1>16, <1>17, <1>18, Slots!Next
      DEF Slots!Next, Slots!Step

\* What the slots need holds at the start, and every step keeps it.
LEMMA SlotsInvariant == AllSpec => []SlotsInv
<1>1. ASSUME AllInit PROVE SlotsInv
  <2>1. Slots!Init
    BY <1>1 DEF AllInit
  <2>2. WaitsFit
    BY <2>1, WaitSlotsAssumption, Apart
      DEF Slots!Init, WaitsFit, SearchType, SlotOrNone, Slots!Outside, Slots!Places
  <2>3. Slots!TypeOK
    BY <2>1, <2>2 DEF Slots!Init, Slots!TypeOK, WaitsFit, SearchType, SlotOrNone
  <2>4. NotesMatch /\ ClaimsApart
    BY <2>1 DEF Slots!Init, NotesMatch, ClaimsApart, Claims, Slots!Outside
  <2>5. ASSUME NEW t \in Watched PROVE Fits(t) /\ Lives(t) /\ OwnsOne(t)
    BY <2>1, Apart DEF Slots!Init, Fits, Lives, OwnsOne, Claims, Searching, Slots!Outside
  <2>6. QED BY <2>2, <2>3, <2>4, <2>5 DEF SlotsInv
<1>2. ASSUME SlotsInv, [UseData \/ UseHeap \/ UseSlots \/ UseReports]_allVars
      PROVE  SlotsInv'
  <2>1. CASE UseSlots
    BY <1>2, <2>1, SlotsKeep DEF UseSlots
  <2>2. CASE UNCHANGED slotVars
    BY <1>2, <2>2
      DEF slotVars, SlotsInv, WaitsFit, Slots!TypeOK, NotesMatch, ClaimsApart, Claims,
      Fits, Lives, OwnsOne
  <2>3. QED BY <1>2, <2>1, <2>2 DEF UseData, UseHeap, UseReports, allVars
<1>3. QED BY <1>1, <1>2, PTL DEF AllSpec

\* A thread has one slot at most, its waits are noted there, and nobody else's
\* claim, exit or take-over touches them: native_slot and reserve_slot.
THEOREM SlotsOwned == AllSpec => []SlotsAreOwned
  BY SlotsInvariant, InvOwns, PTL

-----------------------------------------------------------------------------
(* Remainders.                                                              *)

LEMMA Divides ==
  ASSUME NEW m \in Nat \ {0}, NEW x \in Int
  PROVE  x = m * (x \div m) + (x % m) /\ x % m \in 0 .. m - 1 /\ x \div m \in Int
  OBVIOUS

LEMMA OneRemainder ==
  ASSUME NEW m \in Nat \ {0}, NEW q \in Int, NEW p \in Int,
         NEW a \in 0 .. m - 1, NEW b \in 0 .. m - 1, m * q + a = m * p + b
  PROVE  a = b
<1>1. m * (q - p) = b - a
  <2>1. m * (q - p) = m * q - m * p
    OBVIOUS
  <2>2. QED BY <2>1
<1>2. CASE q - p >= 1
  <2>1. m * (q - p) >= m
    BY <1>2
  <2>2. QED BY <1>1, <2>1
<1>3. CASE q - p =< -1
  <2>1. m * (q - p) =< -m
    BY <1>3
  <2>2. QED BY <1>1, <2>1
<1>4. CASE q - p = 0
  BY <1>1, <1>4
<1>5. QED BY <1>2, <1>3, <1>4

\* A multiple of m does not change the remainder.
LEMMA Period ==
  ASSUME NEW m \in Nat \ {0}, NEW x \in Int, NEW p \in Int, p % m = 0
  PROVE  (x - p) % m = x % m
<1> DEFINE a == x \div m
           b == p \div m
           c == (x - p) \div m
           d == x % m
           e == (x - p) % m
<1>1. x = m * a + d /\ a \in Int /\ d \in 0 .. m - 1
  BY Divides
<1>2. p = m * b /\ b \in Int
  BY Divides
<1>3. x - p = m * c + e /\ c \in Int /\ e \in 0 .. m - 1
  BY Divides, SMTT(30)
<1> HIDE DEF a, b, c, d, e
<1>4. m * c + e = m * (a - b) + d
  BY <1>1, <1>2, <1>3
<1>5. e = d
  BY <1>1, <1>2, <1>3, <1>4, OneRemainder
<1>6. QED BY <1>5 DEF d, e

\* Fewer than m numbers in a row have different remainders.
LEMMA Distinct ==
  ASSUME NEW m \in Nat \ {0}, NEW x \in Int, NEW y \in Int, x < y, y < x + m
  PROVE  x % m # y % m
<1> SUFFICES ASSUME x % m = y % m PROVE FALSE
  OBVIOUS
<1> DEFINE a == x \div m
           b == y \div m
           d == x % m
<1>1. x = m * a + d /\ y = m * b + d /\ a \in Int /\ b \in Int /\ d \in Int
  BY Divides
<1> HIDE DEF a, b, d
<1>2. y - x = m * (b - a)
  BY <1>1
<1>3. CASE b - a >= 1
  <2>1. m * (b - a) >= m
    BY <1>1, <1>3
  <2>2. QED BY <1>2, <2>1
<1>4. CASE b - a =< 0
  <2>1. m * (b - a) =< 0
    BY <1>1, <1>4
  <2>2. QED BY <1>2, <2>1
<1>5. QED BY <1>1, <1>3, <1>4

\* A difference of two wrapped counters, and a counter that goes on.
LEMMA Difference ==
  ASSUME NEW m \in Nat \ {0}, NEW w \in 0 .. m - 1, NEW r \in 0 .. m - 1
  PROVE  (w - r) % m = IF w >= r THEN w - r ELSE w - r + m
  OBVIOUS

LEMMA Follows ==
  ASSUME NEW m \in Nat \ {0}, NEW w \in 0 .. m - 1
  PROVE  (w + 1) % m = IF w + 1 = m THEN 0 ELSE w + 1
<1>1. CASE w + 1 = m
  <2>1. (w + 1) % m = 0
    BY <1>1
  <2>2. QED BY <1>1, <2>1
<1>2. CASE w + 1 < m
  <2>1. (w + 1) % m = w + 1
    BY <1>2
  <2>2. QED BY <1>2, <2>1
<1>3. QED BY <1>1, <1>2

-----------------------------------------------------------------------------
(* The report queue of telemetry.c.                                         *)

\* The report i places after the one to be read.
Cell(i) == reports[(report_read + i) % REPORT_SLOTS]
InTurn(i) == Cell(i).number = taken + i + 1 + Cell(i).drops

ReportTypes ==
  /\ reports \in [0 .. REPORT_SLOTS - 1 -> [number : Int, drops : Int]]
  /\ report_write \in 0 .. Modulus - 1 /\ report_read \in 0 .. Modulus - 1
  /\ dropped \in Nat /\ taken \in Nat /\ made \in 0 .. MaxReports
  /\ traced \in {"free", "log", "observer"}
  /\ frame \in {"away", "text", "tail", "publish"}
  /\ observer \in {"asleep", "look", "line", "advance"}
  /\ drained \in 0 .. REPORT_SLOTS /\ (observer \in {"line", "advance"} => drained < REPORT_SLOTS)

\* Every report in the queue is whole and in turn, the one being made is in the
\* first slot behind them, and each report made is in the log, in the queue,
\* dropped or being made.
QueueFits ==
  LET n == Reports!InQueue IN
  /\ n =< REPORT_SLOTS /\ (frame # "away" => n < REPORT_SLOTS)
  /\ observer \in {"line", "advance"} => n >= 1
  /\ made = taken + n + dropped + (IF frame = "away" THEN 0 ELSE 1)
  /\ \A i \in 0 .. n - 1 : InTurn(i)
  /\ frame = "tail" => Cell(n).number = made
  /\ frame = "publish" => InTurn(n)

ReportsInv == ReportTypes /\ QueueFits

LEMMA ReportConstants ==
  /\ REPORT_SLOTS \in Nat \ {0} /\ Modulus \in Nat \ {0} /\ MaxReports \in Nat
  /\ Modulus > REPORT_SLOTS /\ Modulus % REPORT_SLOTS = 0
  BY ReportAssumption

\* The slot that is written is the first behind the queue.
LEMMA WriteSlot ==
  ASSUME ReportTypes
  PROVE  /\ Reports!InQueue \in 0 .. Modulus - 1
         /\ Reports!Slot(report_write) = (report_read + Reports!InQueue) % REPORT_SLOTS
         /\ Reports!Slot(report_write) \in 0 .. REPORT_SLOTS - 1
<1>1. Reports!InQueue = IF report_write >= report_read THEN report_write - report_read
                        ELSE report_write - report_read + Modulus
  BY ReportConstants, Difference, ZenonT(30) DEF ReportTypes, Reports!InQueue
<1>2. Reports!InQueue \in 0 .. Modulus - 1
  BY <1>1, ReportConstants DEF ReportTypes
<1>3. Reports!Slot(report_write) = (report_read + Reports!InQueue) % REPORT_SLOTS
  <2>1. CASE report_write >= report_read
    <3>1. report_read + Reports!InQueue = report_write
      BY <1>1, <2>1 DEF ReportTypes
    <3>2. QED BY <3>1 DEF Reports!Slot
  <2>2. CASE report_write < report_read
    <3>1. report_write = (report_read + Reports!InQueue) - Modulus
      BY <1>1, <2>2, ReportConstants DEF ReportTypes
    <3>2. report_read + Reports!InQueue \in Int /\ Modulus \in Int
      BY <1>2, ReportConstants DEF ReportTypes
    <3> DEFINE x == report_read + Reports!InQueue
    <3>3. (x - Modulus) % REPORT_SLOTS = x % REPORT_SLOTS
      BY ONLY <3>2, ReportConstants, Period
    <3>4. QED BY <3>1, <3>3 DEF Reports!Slot
  <2>3. QED BY <2>1, <2>2 DEF ReportTypes
<1>4. report_write \in Int
  BY DEF ReportTypes
<1>5. QED BY <1>2, <1>3, <1>4, ReportConstants, Divides DEF Reports!Slot

\* A write to it leaves the queue as it is.
LEMMA QueueUntouched ==
  ASSUME ReportTypes, QueueFits, UNCHANGED <<report_write, report_read, taken>>,
         Reports!InQueue < REPORT_SLOTS,
         \A s \in 0 .. REPORT_SLOTS - 1 :
           s # Reports!Slot(report_write) => reports'[s] = reports[s]
  PROVE  Reports!InQueue' = Reports!InQueue /\ \A i \in 0 .. Reports!InQueue - 1 : InTurn(i)'
<1>1. Reports!InQueue' = Reports!InQueue
  BY DEF Reports!InQueue
<1>2. ASSUME NEW i \in 0 .. Reports!InQueue - 1 PROVE InTurn(i)'
  <2> DEFINE n == Reports!InQueue
  <2>1. n \in Nat /\ i \in Nat /\ i < n /\ n < REPORT_SLOTS /\ report_read \in Nat
    BY WriteSlot DEF ReportTypes
  <2>2. (report_read + i) % REPORT_SLOTS # (report_read + n) % REPORT_SLOTS
    <3> DEFINE x == report_read + i
               y == report_read + n
    <3>1. x \in Int /\ y \in Int /\ x < y /\ y < x + REPORT_SLOTS
      BY <2>1, ReportConstants
    <3> HIDE DEF x, y
    <3>2. x % REPORT_SLOTS # y % REPORT_SLOTS
      BY ONLY <3>1, ReportConstants, Distinct
    <3>3. QED BY <3>2 DEF x, y
  <2>3. (report_read + i) % REPORT_SLOTS \in 0 .. REPORT_SLOTS - 1
    <3>1. report_read + i \in Int
      BY <2>1
    <3>2. QED BY ONLY <3>1, ReportConstants, Divides
  <2>4. Cell(i)' = Cell(i)
    BY <2>2, <2>3, WriteSlot DEF Cell
  <2>5. QED BY <2>4 DEF InTurn, QueueFits
<1>3. QED BY <1>1, <1>2

LEMMA QueueLength ==
  /\ ReportTypes => Reports!InQueue = IF report_write >= report_read THEN report_write - report_read
                                      ELSE report_write - report_read + Modulus
  /\ ReportTypes' => Reports!InQueue' =
                       IF report_write' >= report_read' THEN report_write' - report_read'
                       ELSE report_write' - report_read' + Modulus
  BY ReportConstants, Difference, ZenonT(30) DEF ReportTypes, Reports!InQueue

\* What the frame loop does.
LEMMA FrameKeeps ==
  ASSUME ReportsInv,
         Reports!Report \/ Reports!ReportDropped \/ Reports!ReportText \/ Reports!ReportTail
           \/ Reports!Publish
  PROVE  ReportsInv'
<1> DEFINE n == Reports!InQueue
<1>1. n \in Nat /\ ReportTypes /\ QueueFits
  BY WriteSlot DEF ReportsInv
<1>2. ASSUME Reports!Report \/ Reports!ReportDropped PROVE ReportsInv'
  <2>1. /\ frame = "away" /\ made < MaxReports /\ made' = made + 1
        /\ UNCHANGED <<reports, report_write, report_read, traced, observer, drained, taken>>
        /\ \/ n # REPORT_SLOTS /\ frame' = "text" /\ dropped' = dropped
           \/ frame' = frame /\ dropped' = dropped + 1
    BY <1>2 DEF Reports!Report, Reports!ReportDropped, Reports!counters
  <2>2. made + 1 \in 0 .. MaxReports /\ dropped + 1 \in Nat
    BY <1>1, <2>1, ReportConstants DEF ReportTypes
  <2>3. ReportTypes'
    BY <1>1, <2>1, <2>2 DEF ReportTypes
  <2>4. n' = n /\ \A i \in 0 .. n - 1 : InTurn(i)' = InTurn(i)
    BY <2>1 DEF Reports!InQueue, InTurn, Cell
  <2> HIDE DEF n
  <2>5. /\ n =< REPORT_SLOTS /\ (frame' # "away" => n < REPORT_SLOTS)
        /\ made' = taken + n + dropped' + (IF frame' = "away" THEN 0 ELSE 1)
    <3>1. n =< REPORT_SLOTS /\ made = taken + n + dropped + 0
      BY <1>1, <2>1 DEF QueueFits, n
    <3>2. CASE frame' = "text"
      BY <1>1, <2>1, <3>1, <3>2, ReportConstants DEF ReportTypes
    <3>3. CASE frame' = "away"
      BY <1>1, <2>1, <3>1, <3>3, ReportConstants DEF ReportTypes
    <3>4. QED BY <2>1, <3>2, <3>3
  <2>6. QueueFits'
    BY <1>1, <2>1, <2>4, <2>5 DEF QueueFits, n
  <2>7. QED BY <2>3, <2>6 DEF ReportsInv
<1>3. ASSUME Reports!ReportText \/ Reports!ReportTail PROVE ReportsInv'
  <2> DEFINE s == Reports!Slot(report_write)
  <2>1. s \in 0 .. REPORT_SLOTS - 1 /\ n < REPORT_SLOTS /\ Cell(n) = reports[s]
    BY <1>1, <1>3, WriteSlot DEF Reports!ReportText, Reports!ReportTail, QueueFits, Cell
  <2>2. /\ UNCHANGED <<report_write, report_read, dropped, traced, observer, drained, made, taken>>
        /\ \A r \in 0 .. REPORT_SLOTS - 1 : r # s => reports'[r] = reports[r]
    BY <1>1, <1>3 DEF Reports!ReportText, Reports!ReportTail, Reports!counters, ReportTypes
  <2>3. n' = n /\ (\A i \in 0 .. n - 1 : InTurn(i)') /\ Cell(n)' = reports'[s]
    <3>1. n' = n /\ \A i \in 0 .. n - 1 : InTurn(i)'
      BY <1>1, <2>1, <2>2, QueueUntouched
    <3>2. Reports!Slot(report_write)' = s
      BY <2>2 DEF Reports!Slot
    <3>3. (report_read + n) % REPORT_SLOTS = s
      BY <1>1, WriteSlot
    <3>4. QED BY <3>1, <2>2, <3>3 DEF Cell
  <2>4. ReportTypes'
    BY <1>1, <1>3, <2>1, <2>2, SMTT(30) DEF Reports!ReportText, Reports!ReportTail, ReportTypes
  <2>5. /\ frame' = "tail" => reports'[s].number = made
        /\ frame' = "publish" => reports'[s].number = made /\ reports'[s].drops = dropped
        /\ frame' \in {"tail", "publish"} /\ frame # "away"
    BY <1>1, <1>3, <2>1 DEF Reports!ReportText, Reports!ReportTail, ReportTypes, QueueFits
  <2> HIDE DEF n, s
  <2>6. QueueFits'
    BY <1>1, <2>1, <2>2, <2>3, <2>5 DEF QueueFits, ReportTypes, InTurn, n
  <2>7. QED BY <2>4, <2>6 DEF ReportsInv
<1>4. ASSUME Reports!Publish PROVE ReportsInv'
  <2>1. /\ report_write' = (report_write + 1) % Modulus /\ frame' = "away" /\ frame = "publish"
        /\ UNCHANGED <<reports, report_read, dropped, traced, observer, drained, made, taken>>
    BY <1>4 DEF Reports!Publish
  <2>2. report_write' = IF report_write + 1 = Modulus THEN 0 ELSE report_write + 1
    BY <1>1, <2>1, ReportConstants, Follows, ZenonT(30) DEF ReportTypes
  <2>3. ReportTypes'
    BY <1>1, <2>1, <2>2, ReportConstants DEF ReportTypes
  <2>4. n' = n + 1
    <3>1. /\ n = IF report_write >= report_read THEN report_write - report_read
                 ELSE report_write - report_read + Modulus
          /\ n' = IF report_write' >= report_read' THEN report_write' - report_read'
                  ELSE report_write' - report_read' + Modulus
      BY <1>1, <2>3, QueueLength
    <3>2. n + 1 < Modulus
      BY <1>1, <2>1, ReportConstants DEF QueueFits
    <3> HIDE DEF n
    <3>3. QED BY <1>1, <2>1, <2>2, <3>1, <3>2, ReportConstants DEF ReportTypes
  <2>5. \A i : InTurn(i)' = InTurn(i)
    BY <2>1 DEF InTurn, Cell
  <2> HIDE DEF n
  <2>6. n < REPORT_SLOTS /\ made = taken + n + dropped + 1 /\ \A i \in 0 .. n : InTurn(i)
    BY <1>1, <2>1 DEF QueueFits, n
  <2>7. made = taken + (n + 1) + dropped + 0 /\ n + 1 =< REPORT_SLOTS /\ n + 1 >= 1
    BY <1>1, <2>6, ReportConstants DEF ReportTypes
  <2>8. \A i \in 0 .. n' - 1 : InTurn(i)'
    BY <1>1, <2>4, <2>5, <2>6
  <2>9. QueueFits'
    BY <1>1, <2>1, <2>4, <2>7, <2>8 DEF QueueFits, n
  <2>10. QED BY <2>3, <2>9 DEF ReportsInv
<1>5. QED BY <1>2, <1>3, <1>4

\* What the observer, and any thread with the log, does.
LEMMA ObserverKeeps ==
  ASSUME ReportsInv,
         \/ Reports!Wake \/ Reports!DrainEnds \/ Reports!DrainLine \/ Reports!LineFails
         \/ Reports!LineWritten \/ Reports!Advance \/ Reports!LogLocks \/ Reports!LogUnlocks
  PROVE  ReportsInv'
<1> DEFINE n == Reports!InQueue
<1>1. n \in Nat /\ ReportTypes /\ QueueFits
  BY WriteSlot DEF ReportsInv
<1>2. ASSUME ~Reports!Advance PROVE ReportsInv'
  <2>1. UNCHANGED <<reports, report_write, report_read, dropped, frame, made, taken>>
    BY <1>2 DEF Reports!Wake, Reports!DrainEnds, Reports!DrainLine, Reports!LineFails,
      Reports!LineWritten, Reports!LogLocks, Reports!LogUnlocks, Reports!counters
  <2>2. ReportTypes'
    BY <1>1, <1>2, <2>1, ReportConstants DEF ReportTypes, Reports!Wake, Reports!DrainEnds,
      Reports!DrainLine, Reports!LineFails, Reports!LineWritten, Reports!LogLocks,
      Reports!LogUnlocks
  <2>3. n' = n /\ \A i : InTurn(i)' = InTurn(i) /\ Cell(i)' = Cell(i)
    BY <2>1 DEF InTurn, Cell, Reports!InQueue
  <2>4. observer' \in {"line", "advance"} => n >= 1
    <3>1. report_read # report_write => n # 0
      BY <1>1, ReportConstants, Difference DEF ReportTypes, Reports!InQueue
    <3>2. observer' \in {"line", "advance"} =>
            observer \in {"line", "advance"} \/ report_read # report_write
      BY <1>2 DEF Reports!Wake, Reports!DrainEnds, Reports!DrainLine, Reports!LineFails,
        Reports!LineWritten, Reports!LogLocks, Reports!LogUnlocks
    <3> HIDE DEF n
    <3>3. QED BY <1>1, <3>1, <3>2 DEF QueueFits, n
  <2> HIDE DEF n
  <2>5. QueueFits'
    BY <1>1, <2>1, <2>3, <2>4 DEF QueueFits, n
  <2>6. QED BY <2>2, <2>5 DEF ReportsInv
<1>3. ASSUME Reports!Advance PROVE ReportsInv'
  <2>1. /\ report_read' = (report_read + 1) % Modulus /\ observer = "advance" /\ observer' = "look"
        /\ drained' = drained + 1 /\ taken' = taken + 1
        /\ UNCHANGED <<reports, report_write, dropped, traced, frame, made>>
    BY <1>3 DEF Reports!Advance
  <2>2. report_read' = IF report_read + 1 = Modulus THEN 0 ELSE report_read + 1
    BY <1>1, <2>1, ReportConstants, Follows, ZenonT(30) DEF ReportTypes
  <2>3. ReportTypes'
    BY <1>1, <2>1, <2>2, ReportConstants DEF ReportTypes
  <2>4. n' = n - 1 /\ n >= 1
    <3>1. /\ n = IF report_write >= report_read THEN report_write - report_read
                 ELSE report_write - report_read + Modulus
          /\ n' = IF report_write' >= report_read' THEN report_write' - report_read'
                  ELSE report_write' - report_read' + Modulus
      BY <1>1, <2>3, QueueLength
    <3>2. n >= 1
      BY <1>1, <2>1 DEF QueueFits
    <3> HIDE DEF n
    <3>3. QED BY <1>1, <2>1, <2>2, <3>1, <3>2, ReportConstants DEF ReportTypes
  <2>5. \A i \in Nat : Cell(i)' = Cell(i + 1)
    <3> SUFFICES ASSUME NEW i \in Nat PROVE Cell(i)' = Cell(i + 1)
      OBVIOUS
    <3> DEFINE x == report_read + 1 + i
    <3>1. x \in Int /\ report_read' \in Int /\ report_read \in Int
      BY <1>1, <2>3 DEF ReportTypes
    <3>2. (report_read' + i) % REPORT_SLOTS = x % REPORT_SLOTS
      <4>1. CASE report_read + 1 = Modulus
        <5>1. report_read' + i = x - Modulus /\ Modulus \in Int
          BY <2>2, <4>1, <3>1, ReportConstants
        <5> HIDE DEF x
        <5>2. (x - Modulus) % REPORT_SLOTS = x % REPORT_SLOTS
          BY ONLY <3>1, <5>1, ReportConstants, Period
        <5>3. QED BY <5>1, <5>2
      <4>2. CASE report_read + 1 # Modulus
        BY <2>2, <4>2
      <4>3. QED BY <4>1, <4>2
    <3>3. x = report_read + (i + 1)
      BY <3>1
    <3>4. QED BY <2>1, <3>2, <3>3 DEF Cell
  <2>6. \A i \in Nat : InTurn(i)' <=> InTurn(i + 1)
    <3> SUFFICES ASSUME NEW i \in Nat PROVE InTurn(i)' <=> InTurn(i + 1)
      OBVIOUS
    <3>1. report_read + (i + 1) \in Int
      BY <1>1 DEF ReportTypes
    <3>2. (report_read + (i + 1)) % REPORT_SLOTS \in 0 .. REPORT_SLOTS - 1
      BY ONLY <3>1, ReportConstants, Divides
    <3>3. Cell(i + 1).drops \in Int /\ taken \in Int
      BY <1>1, <3>2 DEF ReportTypes, Cell
    <3>4. taken + 1 + i + 1 + Cell(i + 1).drops = taken + (i + 1) + 1 + Cell(i + 1).drops
      BY <3>3
    <3>5. QED BY <2>1, <2>5, <3>4 DEF InTurn
  <2>7. Cell(n)' = Cell(n)
    <3>1. n - 1 \in Nat /\ (n - 1) + 1 = n
      BY <1>1, <2>4
    <3>2. reports'[(report_read' + (n - 1)) % REPORT_SLOTS] = reports[(report_read + n) % REPORT_SLOTS]
      BY <2>5, <3>1 DEF Cell
    <3>3. QED BY <2>4, <3>2 DEF Cell
  <2> HIDE DEF n
  <2>8. /\ n' =< REPORT_SLOTS /\ n' < REPORT_SLOTS
        /\ made = (taken + 1) + n' + dropped + (IF frame = "away" THEN 0 ELSE 1)
    <3>1. made = taken + n + dropped + (IF frame = "away" THEN 0 ELSE 1) /\ n =< REPORT_SLOTS
      BY <1>1 DEF QueueFits, n
    <3>2. (IF frame = "away" THEN 0 ELSE 1) \in Int
      OBVIOUS
    <3>3. QED BY <1>1, <2>4, <3>1, <3>2, ReportConstants DEF ReportTypes
  <2>9. \A i \in 0 .. n' - 1 : InTurn(i)'
    BY <1>1, <2>4, <2>6 DEF QueueFits, n
  <2>10. InTurn(n)' <=> InTurn(n)
    <3>1. report_read + n \in Int
      BY <1>1 DEF ReportTypes
    <3>2. (report_read + n) % REPORT_SLOTS \in 0 .. REPORT_SLOTS - 1
      BY ONLY <3>1, ReportConstants, Divides
    <3>3. Cell(n).drops \in Int /\ taken \in Int
      BY <1>1, <3>2 DEF ReportTypes, Cell
    <3>4. taken + 1 + (n - 1) + 1 + Cell(n).drops = taken + n + 1 + Cell(n).drops
      BY <1>1, <3>3
    <3>5. QED BY <2>1, <2>4, <2>7, <3>4 DEF InTurn
  <2>11. QueueFits'
    BY <1>1, <2>1, <2>7, <2>8, <2>9, <2>10 DEF QueueFits, n
  <2>12. QED BY <2>3, <2>11 DEF ReportsInv
<1>4. QED BY <1>2, <1>3

LEMMA ReportsInvariant == AllSpec => []ReportsInv
<1>1. ASSUME AllInit PROVE ReportsInv
  <2>1. Reports!Init
    BY <1>1 DEF AllInit
  <2>2. ReportTypes
    BY <2>1, ReportConstants DEF Reports!Init, ReportTypes
  <2>3. Reports!InQueue = 0
    BY <2>1, ReportConstants DEF Reports!Init, Reports!InQueue
  <2>4. QueueFits
    BY <2>1, <2>3, ReportConstants DEF Reports!Init, QueueFits
  <2>5. QED BY <2>2, <2>4 DEF ReportsInv
<1>2. ASSUME ReportsInv, [UseData \/ UseHeap \/ UseSlots \/ UseReports]_allVars
      PROVE  ReportsInv'
  <2>1. CASE UseReports
    BY <1>2, <2>1, FrameKeeps, ObserverKeeps DEF UseReports, Reports!Next
  <2>2. CASE UNCHANGED reportVars
    BY <1>2, <2>2
      DEF reportVars, ReportsInv, ReportTypes, QueueFits, InTurn, Cell, Reports!InQueue
  <2>3. QED BY <1>2, <2>1, <2>2 DEF UseData, UseHeap, UseSlots, allVars
<1>3. QED BY <1>1, <1>2, PTL DEF AllSpec

\* telemetry_reports_drain writes each report once, whole, in order and with the
\* drops before it counted, and so it is over every wrap of the counters.
THEOREM ReportsWhole == AllSpec => []ReportsAreWhole
<1>1. ASSUME ReportsInv PROVE ReportsAreWhole
  <2>1. ReportTypes /\ QueueFits /\ Reports!InQueue \in Nat
    BY <1>1, WriteSlot DEF ReportsInv
  <2>2. Reports!TypeOK
    BY <2>1, ReportConstants DEF ReportTypes, QueueFits, Reports!TypeOK
  <2>3. report_read + 0 = report_read
    BY <2>1 DEF ReportTypes
  <2>4. observer = "line" => InTurn(0)
    BY <2>1 DEF QueueFits
  <2>5. QED BY <2>1, <2>2, <2>3, <2>4
    DEF QueueFits, ReportTypes, InTurn, Cell, Reports!Slot, ReportsAreWhole,
        Reports!ReportsAreWhole
<1>2. QED BY <1>1, ReportsInvariant, PTL

-----------------------------------------------------------------------------
(* The table of the configuration store, java.c.                            *)

Pairs == Keys \X (Values \cup {Cut})

Changed(l, i, v) == [l EXCEPT ![i] = <<l[i][1], v>>]
Added(l, k, v) == Append(l, <<k, v>>)

LEMMA TableFacts ==
  ASSUME NEW l, IsTable(l)
  PROVE  /\ Len(l) \in Nat /\ DOMAIN l = 1 .. Len(l) /\ l \in Seq(Pairs)
         /\ \A i \in 1 .. Len(l) :
              /\ l[i] \in Pairs /\ l[i][1] \in Keys /\ l[i][2] \in Values \cup {Cut}
              /\ l[i] = <<l[i][1], l[i][2]>>
<1>1. l \in Seq(Pairs)
  BY DEF IsTable, Pairs
<1>2. Len(l) \in Nat /\ DOMAIN l = 1 .. Len(l) /\ \A i \in 1 .. Len(l) : l[i] \in Pairs
  BY <1>1, LenProperties, ElementOfSeq
<1>3. \A e \in Pairs : e[1] \in Keys /\ e[2] \in Values \cup {Cut} /\ e = <<e[1], e[2]>>
  BY DEF Pairs
<1>4. QED BY <1>1, <1>2, <1>3

\* What a key has: its line's value, or nothing.
LEMMA ValueAt ==
  ASSUME NEW l, IsTable(l), NEW i \in DOMAIN l
  PROVE  Value(l, l[i][1]) = l[i][2]
<1>1. Index(l, l[i][1]) = {i}
  BY DEF Index, IsTable
<1>2. (CHOOSE j \in {i} : TRUE) = i
  OBVIOUS
<1>3. QED BY <1>1, <1>2 DEF Value

LEMMA ValueNone ==
  ASSUME NEW l, NEW k, \A i \in DOMAIN l : l[i][1] # k
  PROVE  Value(l, k) = Absent /\ Index(l, k) = {}
  BY DEF Value, Index

LEMMA ValueType ==
  ASSUME NEW l, IsTable(l), NEW k
  PROVE  Value(l, k) \in Values \cup {Cut, Absent}
<1>1. CASE \E i \in DOMAIN l : l[i][1] = k
  BY <1>1, ValueAt, TableFacts
<1>2. CASE \A i \in DOMAIN l : l[i][1] # k
  BY <1>2, ValueNone
<1>3. QED BY <1>1, <1>2

\* Two tables with the same lines for a key.
LEMMA SameValue ==
  ASSUME NEW l, NEW m, IsTable(l), IsTable(m), NEW q,
         \A i \in DOMAIN l : l[i][1] = q => \E j \in DOMAIN m : m[j] = l[i],
         \A j \in DOMAIN m : m[j][1] = q => \E i \in DOMAIN l : l[i] = m[j]
  PROVE  Value(m, q) = Value(l, q)
<1>1. CASE \E i \in DOMAIN l : l[i][1] = q
  <2>1. PICK i \in DOMAIN l : l[i][1] = q
    BY <1>1
  <2>2. PICK j \in DOMAIN m : m[j] = l[i]
    BY <2>1
  <2>3. QED BY <2>1, <2>2, ValueAt
<1>2. CASE \A i \in DOMAIN l : l[i][1] # q
  <2>1. \A j \in DOMAIN m : m[j][1] # q
    BY <1>2
  <2>2. QED BY <1>2, <2>1, ValueNone
<1>3. QED BY <1>1, <1>2

\* A line gets another value.
LEMMA SetLine ==
  ASSUME NEW l, IsTable(l), NEW i \in DOMAIN l, NEW v \in Values \cup {Cut},
         NEW m, m = Changed(l, i, v)
  PROVE  /\ IsTable(m) /\ Len(m) = Len(l) /\ Value(m, l[i][1]) = v
         /\ \A q \in Keys \ {l[i][1]} : Value(m, q) = Value(l, q)
<1> DEFINE k == l[i][1]
<1>1. i \in 1 .. Len(l) /\ l \in Seq(Pairs) /\ DOMAIN l = 1 .. Len(l) /\ <<k, v>> \in Pairs
  BY TableFacts DEF Pairs
<1>2. /\ m \in Seq(Pairs) /\ Len(m) = Len(l)
      /\ \A j \in 1 .. Len(l) : m[j] = IF j = i THEN <<k, v>> ELSE l[j]
  BY ONLY <1>1, m = Changed(l, i, v), ExceptSeq DEF Changed
<1>3. DOMAIN m = DOMAIN l /\ m[i] = <<k, v>> /\ \A j \in DOMAIN l : j # i => m[j] = l[j]
  BY <1>1, <1>2, LenProperties
<1>4. \A j \in DOMAIN l : m[j][1] = l[j][1]
  BY <1>3
<1>5. IsTable(m)
  BY <1>2, <1>3, <1>4 DEF IsTable, Pairs
<1>6. Value(m, k) = v
  <2>1. i \in DOMAIN m /\ m[i][1] = k /\ m[i][2] = v
    BY <1>3
  <2>2. Value(m, m[i][1]) = m[i][2]
    BY ONLY <1>5, <2>1, ValueAt
  <2>3. QED BY <2>1, <2>2
<1>7. ASSUME NEW q \in Keys \ {k} PROVE Value(m, q) = Value(l, q)
  <2>1. \A j \in DOMAIN l : l[j][1] = q => m[j] = l[j]
    BY <1>3, <1>7
  <2>2. \A j \in DOMAIN l : l[j][1] = q => \E p \in DOMAIN m : m[p] = l[j]
    BY <1>3, <2>1
  <2>3. \A p \in DOMAIN m : m[p][1] = q => \E j \in DOMAIN l : l[j] = m[p]
    BY <1>3, <1>4, <2>1
  <2>4. QED BY ONLY IsTable(l), <1>5, <2>2, <2>3, SameValue
<1>8. QED BY <1>2, <1>5, <1>6, <1>7

\* A line is added for a key that has none.
LEMMA AddLine ==
  ASSUME NEW l, IsTable(l), NEW k \in Keys, NEW v \in Values \cup {Cut}, Index(l, k) = {},
         NEW m, m = Added(l, k, v)
  PROVE  /\ IsTable(m) /\ Len(m) = Len(l) + 1 /\ Value(m, k) = v
         /\ \A q \in Keys \ {k} : Value(m, q) = Value(l, q)
<1>1. l \in Seq(Pairs) /\ Len(l) \in Nat /\ DOMAIN l = 1 .. Len(l) /\ <<k, v>> \in Pairs
  BY TableFacts DEF Pairs
<1>2. /\ m \in Seq(Pairs) /\ Len(m) = Len(l) + 1
      /\ \A j \in 1 .. Len(l) : m[j] = l[j]
      /\ m[Len(l) + 1] = <<k, v>>
  BY ONLY <1>1, m = Added(l, k, v) DEF Added
<1>3. DOMAIN m = DOMAIN l \cup {Len(l) + 1} /\ Len(l) + 1 \notin DOMAIN l
  BY <1>1, <1>2, LenProperties
<1>4. \A j \in DOMAIN l : m[j] = l[j] /\ l[j][1] # k
  BY <1>1, <1>2 DEF Index
<1>5. IsTable(m)
  <2> SUFFICES ASSUME NEW p \in DOMAIN m, NEW r \in DOMAIN m, m[p][1] = m[r][1] PROVE p = r
    BY <1>2 DEF IsTable, Pairs
  <2>1. QED BY <1>2, <1>3, <1>4 DEF IsTable
<1>6. Value(m, k) = v
  <2> DEFINE i == Len(l) + 1
  <2>1. i \in DOMAIN m /\ m[i][1] = k /\ m[i][2] = v
    BY <1>2, <1>3
  <2> HIDE DEF i
  <2>2. Value(m, m[i][1]) = m[i][2]
    BY ONLY <1>5, <2>1, ValueAt
  <2>3. QED BY <2>1, <2>2
<1>7. ASSUME NEW q \in Keys \ {k} PROVE Value(m, q) = Value(l, q)
  <2>1. \A j \in DOMAIN l : l[j][1] = q => j \in DOMAIN m /\ m[j] = l[j]
    BY <1>3, <1>4
  <2>2. \A j \in DOMAIN m : m[j][1] = q => j \in DOMAIN l /\ m[j] = l[j]
    BY <1>2, <1>3, <1>4, <1>7
  <2>3. \A j \in DOMAIN l : l[j][1] = q => \E p \in DOMAIN m : m[p] = l[j]
    BY <2>1
  <2>4. \A p \in DOMAIN m : m[p][1] = q => \E j \in DOMAIN l : l[j] = m[p]
    BY <2>2
  <2>5. QED BY ONLY IsTable(l), <1>5, <2>3, <2>4, SameValue
<1>8. QED BY <1>2, <1>5, <1>6, <1>7

\* The first lines of a table.
LEMMA FirstLines ==
  ASSUME NEW l, IsTable(l), NEW n \in 0 .. Len(l), NEW m, m = SubSeq(l, 1, n)
  PROVE  /\ IsTable(m) /\ Len(m) = n /\ DOMAIN m = 1 .. n
         /\ \A j \in 1 .. n : m[j] = l[j]
<1>1. Len(l) \in Nat /\ DOMAIN l = 1 .. Len(l) /\ \A j \in 1 .. n : l[j] \in Pairs
  BY TableFacts
<1>2. m \in Seq(Pairs) /\ Len(m) = n /\ \A j \in 1 .. n : m[j] = l[j]
  <2>1. n \in Nat /\ 1 \in Int /\ n \in Int /\ n - 1 + 1 = n
    BY <1>1
  <2>2. /\ SubSeq(l, 1, n) \in Seq(Pairs)
        /\ Len(SubSeq(l, 1, n)) = IF 1 =< n THEN n - 1 + 1 ELSE 0
        /\ \A j \in 1 .. n - 1 + 1 : SubSeq(l, 1, n)[j] = l[1 + j - 1]
    BY ONLY <1>1, <2>1, SubSeqProperties
  <2>3. \A j \in 1 .. n : 1 + j - 1 = j
    BY <2>1
  <2>4. QED BY <2>1, <2>2, <2>3
<1>3. DOMAIN m = 1 .. n
  BY <1>2, LenProperties
<1>4. \A i, j \in 1 .. n : l[i][1] = l[j][1] => i = j
  BY <1>1 DEF IsTable
<1>5. QED BY <1>2, <1>3, <1>4 DEF IsTable, Pairs

\* The last line takes the place of the one erased.
LEMMA EraseLine ==
  ASSUME NEW l, IsTable(l), NEW i \in DOMAIN l,
         NEW m, m = SubSeq([l EXCEPT ![i] = l[Len(l)]], 1, Len(l) - 1)
  PROVE  /\ IsTable(m) /\ Len(m) = Len(l) - 1 /\ Value(m, l[i][1]) = Absent
         /\ \A q \in Keys \ {l[i][1]} : Value(m, q) = Value(l, q)
<1> DEFINE k == l[i][1]
           n == Len(l) - 1
           e == [l EXCEPT ![i] = l[Len(l)]]
<1>1. /\ i \in 1 .. Len(l) /\ l \in Seq(Pairs) /\ DOMAIN l = 1 .. Len(l) /\ n \in Nat
      /\ Len(l) \in Nat /\ Len(l) = n + 1 /\ l[Len(l)] \in Pairs
  BY TableFacts
<1>2. /\ e \in Seq(Pairs) /\ Len(e) = Len(l)
      /\ \A j \in 1 .. Len(l) : e[j] = IF j = i THEN l[Len(l)] ELSE l[j]
  BY ONLY <1>1, ExceptSeq
<1> HIDE DEF e
<1>3. m \in Seq(Pairs) /\ Len(m) = n /\ \A j \in 1 .. n : m[j] = e[j]
  <2>1. 1 \in Int /\ n \in Int /\ n - 1 + 1 = n /\ \A j \in 1 .. n : e[j] \in Pairs
    BY <1>1, <1>2, ElementOfSeq
  <2>2. /\ SubSeq(e, 1, n) \in Seq(Pairs)
        /\ Len(SubSeq(e, 1, n)) = IF 1 =< n THEN n - 1 + 1 ELSE 0
        /\ \A j \in 1 .. n - 1 + 1 : SubSeq(e, 1, n)[j] = e[1 + j - 1]
    BY ONLY <2>1, SubSeqProperties
  <2>3. \A j \in 1 .. n : 1 + j - 1 = j
    BY <1>1
  <2>4. m = SubSeq(e, 1, n)
    BY DEF e
  <2>5. QED BY <1>1, <2>1, <2>2, <2>3, <2>4
<1>4. DOMAIN m = 1 .. n
  BY <1>3, LenProperties
<1>5. /\ \A j \in 1 .. n : m[j] = IF j = i THEN l[n + 1] ELSE l[j]
      /\ \A p, r \in 1 .. n + 1 : l[p][1] = l[r][1] => p = r
  <2>1. \A j \in 1 .. n : j \in 1 .. Len(l) /\ m[j] = e[j]
    BY <1>1, <1>3
  <2>2. \A j \in 1 .. n : m[j] = IF j = i THEN l[n + 1] ELSE l[j]
    BY <1>1, <1>2, <2>1
  <2>3. DOMAIN l = 1 .. n + 1
    BY <1>1
  <2>4. \A p, r \in DOMAIN l : l[p][1] = l[r][1] => p = r
    BY DEF IsTable
  <2>5. QED BY <2>2, <2>3, <2>4
<1> HIDE DEF n
<1>6. IsTable(m)
  <2> SUFFICES ASSUME NEW p \in 1 .. n, NEW r \in 1 .. n, m[p][1] = m[r][1] PROVE p = r
    BY <1>3, <1>4 DEF IsTable, Pairs
  <2>1. p # n + 1 /\ r # n + 1 /\ p \in 1 .. n + 1 /\ r \in 1 .. n + 1 /\ n + 1 \in 1 .. n + 1
    BY <1>1
  <2>2. QED BY <1>5, <2>1
<1>7. \A j \in 1 .. n : m[j][1] # k
  <2> SUFFICES ASSUME NEW j \in 1 .. n, m[j][1] = k PROVE FALSE
    OBVIOUS
  <2>1. j # n + 1 /\ j \in 1 .. n + 1 /\ n + 1 \in 1 .. n + 1 /\ i \in 1 .. n + 1
    BY <1>1
  <2>2. QED BY <1>5, <2>1
<1>8. Value(m, k) = Absent
  BY <1>4, <1>7, ValueNone
<1>9. ASSUME NEW q \in Keys \ {k} PROVE Value(m, q) = Value(l, q)
  <2>1. ASSUME NEW j \in DOMAIN l, l[j][1] = q PROVE \E p \in DOMAIN m : m[p] = l[j]
    <3>1. j # i /\ j \in 1 .. n + 1
      BY <1>1, <1>9, <2>1
    <3>2. CASE j = n + 1
      <4>1. i \in 1 .. n
        BY <1>1, <3>1, <3>2
      <4>2. QED BY <1>4, <1>5, <3>2, <4>1
    <3>3. CASE j # n + 1
      <4>1. j \in 1 .. n
        BY <1>1, <3>1, <3>3
      <4>2. QED BY <1>4, <1>5, <3>1, <4>1
    <3>4. QED BY <3>2, <3>3
  <2>2. ASSUME NEW p \in DOMAIN m PROVE \E j \in DOMAIN l : l[j] = m[p]
    <3>1. p \in 1 .. n + 1 /\ n + 1 \in 1 .. n + 1 /\ p \in 1 .. n
      BY <1>1, <1>4
    <3>2. QED BY <1>1, <1>5, <3>1
  <2>3. QED BY ONLY IsTable(l), <1>6, <2>1, <2>2, SameValue
<1>10. QED BY <1>3, <1>6, <1>8, <1>9 DEF n

\* What a file has of the table after a save that was cut off.
LEMMA CutTable ==
  ASSUME NEW l, IsTable(l), NEW n \in 1 .. Len(l), NEW v \in Values \cup {Cut},
         NEW m, m = Append(SubSeq(l, 1, n - 1), <<l[n][1], v>>)
  PROVE  IsTable(m)
<1> DEFINE s == SubSeq(l, 1, n - 1)
           k == l[n][1]
<1>1. n - 1 \in 0 .. Len(l) /\ n \in 1 .. Len(l) /\ DOMAIN l = 1 .. Len(l) /\ Len(l) \in Nat
  BY TableFacts
<1>2. IsTable(s) /\ DOMAIN s = 1 .. n - 1 /\ \A j \in 1 .. n - 1 : s[j] = l[j]
  BY <1>1, FirstLines
<1>3. \A j \in 1 .. n - 1 : l[j][1] # l[n][1]
  <2>1. \A j \in 1 .. n - 1 : j \in DOMAIN l /\ n \in DOMAIN l /\ j # n
    BY <1>1
  <2>2. QED BY <2>1 DEF IsTable
<1> HIDE DEF s
<1>4. Index(s, k) = {}
  BY <1>2, <1>3 DEF Index
<1>5. k \in Keys /\ m = Added(s, k, v)
  BY <1>1, TableFacts DEF s, Added
<1>6. QED BY ONLY <1>2, <1>4, <1>5, v \in Values \cup {Cut}, AddLine

\* What cfg_load_locked takes of a file.
LEMMA LinesOf ==
  ASSUME NEW file, file # Absent => IsTable(file)
  PROVE  /\ IsTable(Lines(file)) /\ Len(Lines(file)) =< CFG_MAX
         /\ file # Absent /\ Len(file) =< CFG_MAX => Lines(file) = file
<1>1. CFG_MAX \in Nat \ {0}
  BY UserDataAssumption
<1>2. CASE file = Absent
  BY <1>1, <1>2 DEF Lines, IsTable
<1>3. CASE file # Absent /\ Len(file) > CFG_MAX
  <2>1. Lines(file) = SubSeq(file, 1, CFG_MAX) /\ CFG_MAX \in 0 .. Len(file)
    BY <1>1, <1>3, TableFacts DEF Lines
  <2>2. IsTable(file)
    BY <1>3
  <2>3. IsTable(Lines(file)) /\ Len(Lines(file)) = CFG_MAX
    BY ONLY <2>1, <2>2, FirstLines
  <2>4. Len(file) \in Nat
    BY <2>2, TableFacts
  <2>5. QED BY <1>1, <1>3, <2>3, <2>4
<1>4. CASE file # Absent /\ ~(Len(file) > CFG_MAX)
  <2>1. Len(file) \in Nat /\ Len(file) =< CFG_MAX /\ file \in Seq(Pairs)
    BY <1>1, <1>4, TableFacts
  <2>2. SubSeq(file, 1, Len(file)) = file
    BY <2>1, SubSeqFull
  <2>3. QED BY <1>4, <2>1, <2>2 DEF Lines
<1>5. QED BY <1>2, <1>3, <1>4

-----------------------------------------------------------------------------
(* The player's files and the configuration store.                          *)

Labels == {"idle", "load", "read", "do", "save", "write", "unlock"}
Reading == \E t \in Threads : at[t] = "read"

DataTypes ==
  /\ launch \in {"off", "move", "stamp", "game"} /\ marker \in {"none", "torn", "done"}
  /\ DOMAIN top = Files /\ DOMAIN userdata = Files
  /\ locked \in Threads \cup {Absent} /\ loaded \in BOOLEAN /\ saved \in BOOLEAN
  /\ at \in [Threads -> Labels] /\ req \in [Threads -> Requests \cup {NoRequest}]
  /\ answer \in [Threads -> Values \cup {Cut, Absent}]
  /\ store \in [Keys -> Values \cup {Cut, Absent}]

TablesFit ==
  /\ IsTable(table) /\ Len(table) =< CFG_MAX
  /\ top[Config] # Absent => IsTable(top[Config])
  /\ userdata[Config] # Absent => IsTable(userdata[Config])

\* The game runs when all files are in userdata/, and until then nothing is done
\* to them but to move them.
MoveFits ==
  /\ launch \in {"move", "stamp"} => marker # "done"
  /\ launch = "game" => marker = "done"
  /\ launch = "stamp" \/ marker = "done" => \A f \in Files : top[f] = Absent
  /\ DOMAIN original = Files
  /\ \A f \in Files :
       /\ marker # "done" \/ f # Config => Copies(f) = original[f]
       /\ top[f] # Absent => top[f] # userdata[f]

\* One call at a time, in a running game.
LockFits ==
  /\ launch # "game" => ~loaded
  /\ \A t \in Threads :
       /\ at[t] # "idle" => locked = t /\ launch = "game" /\ req[t] \in Requests
       /\ at[t] \notin {"idle", "load"} => loaded
       /\ at[t] \in {"save", "write"} => req[t].what # "get"

\* The table has what was written last once it is loaded, and before that the
\* file does; the file has it, too, when the last save is not cut off.
StoreFits ==
  /\ ~loaded \/ Reading => table = <<>> /\ (launch = "game" => saved)
  /\ loaded /\ ~Reading => \A k \in Keys : Value(table, k) = store[k]
  /\ saved => marker = "done" /\ OnDisk = store
  /\ \A t \in Threads :
       at[t] = "unlock" /\ req[t].what = "get" => answer[t] = store[req[t].key]

DataInv == DataTypes /\ TablesFit /\ MoveFits /\ LockFits /\ StoreFits

LEMMA NoLines ==
  IsTable(<<>>) /\ Len(<<>>) = 0 /\ 0 =< CFG_MAX /\ \A k : Value(<<>>, k) = Absent
<1>1. IsTable(<<>>) /\ Len(<<>>) = 0 /\ DOMAIN <<>> = {}
  BY DEF IsTable
<1>2. \A k : Value(<<>>, k) = Absent
  BY <1>1, ValueNone
<1>3. QED BY <1>1, <1>2, UserDataAssumption

\* What a file gives, when it is one of the game's.
LEMMA DiskTypes ==
  ASSUME TablesFit
  PROVE  OnDisk \in [Keys -> Values \cup {Cut, Absent}]
<1>1. IsTable(Lines(userdata[Config]))
  BY LinesOf DEF TablesFit
<1>2. \A k \in Keys : Value(Lines(userdata[Config]), k) \in Values \cup {Cut, Absent}
  BY <1>1, ValueType
<1>3. QED BY <1>2 DEF OnDisk

\* What a step of a call leaves alone.
LEMMA CallFrame ==
  ASSUME DataInv, NEW t \in Threads, NEW from, NEW to, Step(t, from, to), from # "idle",
         to \in Labels
  PROVE  /\ launch = "game" /\ marker = "done" /\ locked = t /\ req[t] \in Requests
         /\ at[t] = from /\ at'[t] = to /\ at' \in [Threads -> Labels]
         /\ \A u \in Threads \ {t} : at[u] = "idle" /\ at'[u] = "idle"
         /\ UNCHANGED <<launch, marker, top, original>>
<1>1. at \in [Threads -> Labels] /\ at[t] = from /\ at' = [at EXCEPT ![t] = to]
  BY DEF DataInv, DataTypes, Step, Goto
<1>2. at'[t] = to /\ at' \in [Threads -> Labels] /\ \A u \in Threads \ {t} : at'[u] = at[u]
  BY <1>1
<1>3. locked = t /\ launch = "game" /\ req[t] \in Requests /\ \A u \in Threads \ {t} : at[u] = "idle"
  BY <1>1 DEF DataInv, LockFits
<1>4. marker = "done"
  BY <1>3 DEF DataInv, MoveFits
<1>5. QED BY <1>1, <1>2, <1>3, <1>4 DEF Step

\* The game touches no file but its configuration.
LEMMA CallMoves ==
  ASSUME DataInv, launch = "game", UNCHANGED <<launch, marker, top, original>>,
         \A f \in Files \ {Config} : userdata'[f] = userdata[f]
  PROVE  MoveFits'
  BY DEF DataInv, MoveFits, Copies

\* A step of a call keeps what the table and the file have.
LEMMA CallsKeep ==
  ASSUME DataInv, NEW t \in Threads, Call(t)
  PROVE  DataInv'
<1>1. ASSUME Lock(t) PROVE DataInv'
  <2>1. /\ launch = "game" /\ locked = Absent /\ locked' = t /\ at[t] = "idle"
        /\ at' = [at EXCEPT ![t] = "load"]
        /\ UNCHANGED <<launch, marker, top, original, userdata, loaded, table, answer, store, saved>>
    BY <1>1 DEF Lock, Step, Goto
  <2>2. PICK r \in Requests : req' = [req EXCEPT ![t] = r]
    BY <1>1 DEF Lock
  <2>3. req' \in [Threads -> Requests \cup {NoRequest}] /\ req'[t] = r
    BY <2>2 DEF DataInv, DataTypes
  <2>4. /\ at' \in [Threads -> Labels] /\ at'[t] = "load"
        /\ \A u \in Threads \ {t} : at[u] = "idle" /\ at'[u] = "idle"
    BY <2>1, UserDataAssumption DEF DataInv, DataTypes, LockFits, Labels
  <2>5. ~Reading /\ ~Reading'
    BY <2>1, <2>4 DEF Reading
  <2>10. DataTypes' /\ TablesFit'
    BY <2>1, <2>3, <2>4 DEF DataInv, DataTypes, TablesFit
  <2>11. MoveFits'
    BY <2>1, CallMoves
  <2>12. LockFits'
    BY <2>1, <2>3, <2>4 DEF DataInv, LockFits
  <2>13. StoreFits'
    BY <2>1, <2>4, <2>5 DEF DataInv, StoreFits, OnDisk
  <2>14. QED BY <2>10, <2>11, <2>12, <2>13 DEF DataInv
<1>2. ASSUME IsLoaded(t) PROVE DataInv'
  <2>1. Step(t, "load", "do") /\ UNCHANGED <<userdata, locked, loaded, table, req, answer, store, saved>>
    BY <1>2 DEF IsLoaded
  <2>2. /\ launch = "game" /\ marker = "done" /\ locked = t /\ req[t] \in Requests
        /\ at[t] = "load" /\ at'[t] = "do" /\ at' \in [Threads -> Labels]
        /\ \A u \in Threads \ {t} : at[u] = "idle" /\ at'[u] = "idle"
        /\ UNCHANGED <<launch, marker, top, original>>
    BY <2>1, CallFrame DEF Labels
  <2>3. loaded
    BY <1>2 DEF IsLoaded
  <2>10. DataTypes' /\ TablesFit'
    BY <2>1, <2>2 DEF DataInv, DataTypes, TablesFit
  <2>11. MoveFits'
    BY <2>1, <2>2, CallMoves
  <2>12. LockFits'
    BY <2>1, <2>2, <2>3 DEF DataInv, LockFits
  <2>13. StoreFits'
    BY <2>1, <2>2, <2>3 DEF DataInv, StoreFits, Reading, OnDisk
  <2>14. QED BY <2>10, <2>11, <2>12, <2>13 DEF DataInv
<1>3. ASSUME BeginLoad(t) PROVE DataInv'
  <2>1. Step(t, "load", "read") /\ UNCHANGED <<userdata, locked, table, req, answer, store, saved>>
    BY <1>3 DEF BeginLoad
  <2>2. /\ launch = "game" /\ marker = "done" /\ locked = t /\ req[t] \in Requests
        /\ at[t] = "load" /\ at'[t] = "read" /\ at' \in [Threads -> Labels]
        /\ \A u \in Threads \ {t} : at[u] = "idle" /\ at'[u] = "idle"
        /\ UNCHANGED <<launch, marker, top, original>>
    BY <2>1, CallFrame DEF Labels
  <2>3. ~loaded /\ loaded' = TRUE
    BY <1>3 DEF BeginLoad
  <2>10. DataTypes' /\ TablesFit'
    BY <2>1, <2>2, <2>3 DEF DataInv, DataTypes, TablesFit
  <2>11. MoveFits'
    BY <2>1, <2>2, <2>3, CallMoves
  <2>12. LockFits'
    BY <2>1, <2>2, <2>3 DEF DataInv, LockFits
  <2>13. StoreFits'
    BY <2>1, <2>2, <2>3 DEF DataInv, StoreFits, Reading, OnDisk
  <2>14. QED BY <2>10, <2>11, <2>12, <2>13 DEF DataInv
<1>4. ASSUME ReadFile(t) PROVE DataInv'
  <2>1. Step(t, "read", "do") /\ UNCHANGED <<userdata, locked, loaded, req, answer, store, saved>>
    BY <1>4 DEF ReadFile
  <2>2. /\ launch = "game" /\ marker = "done" /\ locked = t /\ req[t] \in Requests
        /\ at[t] = "read" /\ at'[t] = "do" /\ at' \in [Threads -> Labels]
        /\ \A u \in Threads \ {t} : at[u] = "idle" /\ at'[u] = "idle"
        /\ UNCHANGED <<launch, marker, top, original>>
    BY <2>1, CallFrame DEF Labels
  <2>3. table' = Lines(userdata[Config]) /\ IsTable(table') /\ Len(table') =< CFG_MAX
    BY <1>4, LinesOf DEF ReadFile, DataInv, TablesFit
  <2>4. saved /\ OnDisk = store /\ \A k \in Keys : OnDisk[k] = Value(table', k)
    BY <2>2, <2>3 DEF DataInv, StoreFits, Reading, OnDisk
  <2>5. ~Reading'
    BY <2>2 DEF Reading
  <2>6. loaded' /\ saved' /\ OnDisk' = OnDisk /\ \A k \in Keys : Value(table', k) = store[k]
    BY <2>1, <2>2, <2>4 DEF DataInv, LockFits, OnDisk
  <2>7. \A u \in Threads : at'[u] # "unlock"
    BY <2>2
  <2>10. DataTypes' /\ TablesFit'
    BY <2>1, <2>2, <2>3 DEF DataInv, DataTypes, TablesFit
  <2>11. MoveFits'
    BY <2>1, <2>2, <2>3, CallMoves
  <2>12. LockFits'
    BY <2>1, <2>2, <2>3 DEF DataInv, LockFits
  <2>13. StoreFits'
    BY <2>1, <2>2, <2>4, <2>5, <2>6, <2>7 DEF StoreFits
  <2>14. QED BY <2>10, <2>11, <2>12, <2>13 DEF DataInv
<1>5. ASSUME ReadFails(t) PROVE DataInv'
  <2>1. Step(t, "read", "do") /\ UNCHANGED <<userdata, locked, loaded, table, req, answer>>
    BY <1>5 DEF ReadFails
  <2>2. /\ launch = "game" /\ marker = "done" /\ locked = t /\ req[t] \in Requests
        /\ at[t] = "read" /\ at'[t] = "do" /\ at' \in [Threads -> Labels]
        /\ \A u \in Threads \ {t} : at[u] = "idle" /\ at'[u] = "idle"
        /\ UNCHANGED <<launch, marker, top, original>>
    BY <2>1, CallFrame DEF Labels
  <2>3. store' = [k \in Keys |-> Absent] /\ saved' = FALSE
    BY <1>5 DEF ReadFails
  <2>4. table = <<>> /\ \A k \in Keys : Value(table, k) = Absent
    BY <2>2, NoLines DEF DataInv, StoreFits, Reading
  <2>5. ~Reading' /\ loaded
    BY <2>2 DEF Reading, DataInv, LockFits
  <2>10. DataTypes' /\ TablesFit'
    BY <2>1, <2>2, <2>3 DEF DataInv, DataTypes, TablesFit
  <2>11. MoveFits'
    BY <2>1, <2>2, <2>3, CallMoves
  <2>12. LockFits'
    BY <2>1, <2>2, <2>3 DEF DataInv, LockFits
  <2>13. StoreFits'
    BY <2>1, <2>2, <2>3, <2>4, <2>5 DEF DataInv, StoreFits, Reading, OnDisk
  <2>14. QED BY <2>10, <2>11, <2>12, <2>13 DEF DataInv
<1>6. ASSUME cfg_get(t) PROVE DataInv'
  <2>1. Step(t, "do", "unlock") /\ UNCHANGED <<userdata, locked, loaded, table, req, store, saved>>
    BY <1>6 DEF cfg_get
  <2>2. /\ launch = "game" /\ marker = "done" /\ locked = t /\ req[t] \in Requests
        /\ at[t] = "do" /\ at'[t] = "unlock" /\ at' \in [Threads -> Labels]
        /\ \A u \in Threads \ {t} : at[u] = "idle" /\ at'[u] = "idle"
        /\ UNCHANGED <<launch, marker, top, original>>
    BY <2>1, CallFrame DEF Labels
  <2>3. /\ req[t].what = "get" /\ req[t].key \in Keys
        /\ answer' = [answer EXCEPT ![t] = Value(table, req[t].key)]
    BY <1>6, <2>2 DEF cfg_get, Requests
  <2>4. Value(table, req[t].key) \in Values \cup {Cut, Absent}
    BY ValueType DEF DataInv, TablesFit
  <2>5. answer' \in [Threads -> Values \cup {Cut, Absent}] /\ answer'[t] = Value(table, req[t].key)
    BY <2>3, <2>4 DEF DataInv, DataTypes
  <2>6. ~Reading /\ ~Reading' /\ loaded
    BY <2>2 DEF Reading, DataInv, LockFits
  <2>10. DataTypes' /\ TablesFit'
    BY <2>1, <2>2, <2>5 DEF DataInv, DataTypes, TablesFit
  <2>11. MoveFits'
    BY <2>1, <2>2, <2>5, CallMoves
  <2>12. LockFits'
    BY <2>1, <2>2, <2>5 DEF DataInv, LockFits
  <2>13. StoreFits'
    BY <2>1, <2>2, <2>3, <2>5, <2>6 DEF DataInv, StoreFits, Reading, OnDisk
  <2>14. QED BY <2>10, <2>11, <2>12, <2>13 DEF DataInv
<1>7. ASSUME cfg_set(t) PROVE DataInv'
  <2>1. Step(t, "do", "save") /\ UNCHANGED <<userdata, locked, loaded, req, answer>>
    BY <1>7 DEF cfg_set
  <2>2. /\ launch = "game" /\ marker = "done" /\ locked = t /\ req[t] \in Requests
        /\ at[t] = "do" /\ at'[t] = "save" /\ at' \in [Threads -> Labels]
        /\ \A u \in Threads \ {t} : at[u] = "idle" /\ at'[u] = "idle"
        /\ UNCHANGED <<launch, marker, top, original>>
    BY <2>1, CallFrame DEF Labels
  <2> DEFINE key == req[t].key
             val == req[t].value
  <2>3. /\ key \in Keys /\ val \in Values /\ req[t].what = "set" /\ loaded /\ ~Reading /\ ~Reading'
        /\ \A q \in Keys : Value(table, q) = store[q]
    BY <1>7, <2>2 DEF cfg_set, Requests, Reading, DataInv, LockFits, StoreFits
  <2>4. store' = [store EXCEPT ![key] = val] /\ saved' = FALSE
    BY <1>7 DEF cfg_set
  <2>5. /\ IsTable(table') /\ Len(table') =< CFG_MAX /\ Value(table', key) = val
        /\ \A q \in Keys \ {key} : Value(table', q) = Value(table, q)
    <3>1. IsTable(table) /\ Len(table) =< CFG_MAX /\ Len(table) \in Nat
      BY TableFacts DEF DataInv, TablesFit
    <3>2. CASE \E i \in Index(table, key) : table' = [table EXCEPT ![i] = <<key, val>>]
      <4>1. PICK i \in Index(table, key) : table' = [table EXCEPT ![i] = <<key, val>>]
        BY <3>2
      <4>2. i \in DOMAIN table /\ table[i][1] = key /\ table' = Changed(table, i, val)
        BY <4>1 DEF Index, Changed
      <4> HIDE DEF key, val
      <4>a. val \in Values \cup {Cut}
        BY <2>3
      <4>3. /\ IsTable(table') /\ Len(table') = Len(table) /\ Value(table', table[i][1]) = val
            /\ \A q \in Keys \ {table[i][1]} : Value(table', q) = Value(table, q)
        BY ONLY <3>1, <4>2, <4>a, SetLine
      <4>4. QED BY <3>1, <4>2, <4>3
    <3>3. CASE Index(table, key) = {} /\ Len(table) < CFG_MAX /\ table' = Append(table, <<key, val>>)
      <4> HIDE DEF key, val
      <4>a. key \in Keys /\ val \in Values \cup {Cut} /\ Index(table, key) = {} /\ table' = Added(table, key, val)
        BY <2>3, <3>3 DEF Added
      <4>1. /\ IsTable(table') /\ Len(table') = Len(table) + 1 /\ Value(table', key) = val
            /\ \A q \in Keys \ {key} : Value(table', q) = Value(table, q)
        BY ONLY <3>1, <4>a, AddLine
      <4>2. QED BY <3>1, <3>3, <4>1, UserDataAssumption
    <3>4. QED BY <1>7, <3>2, <3>3 DEF cfg_set
  <2>6. store' \in [Keys -> Values \cup {Cut, Absent}] /\ \A q \in Keys : Value(table', q) = store'[q]
    BY <2>3, <2>4, <2>5 DEF DataInv, DataTypes
  <2> HIDE DEF key, val
  <2>10. DataTypes' /\ TablesFit'
    BY <2>1, <2>2, <2>4, <2>5, <2>6 DEF DataInv, DataTypes, TablesFit
  <2>11. MoveFits'
    BY <2>1, <2>2, CallMoves
  <2>12. LockFits'
    BY <2>1, <2>2, <2>3 DEF DataInv, LockFits
  <2>13. StoreFits'
    BY <2>1, <2>2, <2>3, <2>4, <2>6 DEF StoreFits, OnDisk
  <2>14. QED BY <2>10, <2>11, <2>12, <2>13 DEF DataInv
<1>8. ASSUME cfg_erase(t) PROVE DataInv'
  <2>1. Step(t, "do", "save") /\ UNCHANGED <<userdata, locked, loaded, req, answer>>
    BY <1>8 DEF cfg_erase
  <2>2. /\ launch = "game" /\ marker = "done" /\ locked = t /\ req[t] \in Requests
        /\ at[t] = "do" /\ at'[t] = "save" /\ at' \in [Threads -> Labels]
        /\ \A u \in Threads \ {t} : at[u] = "idle" /\ at'[u] = "idle"
        /\ UNCHANGED <<launch, marker, top, original>>
    BY <2>1, CallFrame DEF Labels
  <2> DEFINE k == req[t].key
  <2>3. /\ k \in Keys /\ req[t].what = "erase" /\ loaded /\ ~Reading /\ ~Reading'
        /\ \A q \in Keys : Value(table, q) = store[q]
    BY <1>8, <2>2 DEF cfg_erase, Requests, Reading, DataInv, LockFits, StoreFits
  <2>4. store' = [store EXCEPT ![k] = Absent] /\ saved' = FALSE
    BY <1>8 DEF cfg_erase
  <2>5. /\ IsTable(table') /\ Len(table') =< CFG_MAX /\ Value(table', k) = Absent
        /\ \A q \in Keys \ {k} : Value(table', q) = Value(table, q)
    <3>1. IsTable(table) /\ Len(table) =< CFG_MAX /\ Len(table) \in Nat
      BY TableFacts DEF DataInv, TablesFit
    <3>2. PICK i \in Index(table, k) :
            table' = SubSeq([table EXCEPT ![i] = table[Len(table)]], 1, Len(table) - 1)
      BY <1>8 DEF cfg_erase
    <3>3. i \in DOMAIN table /\ table[i][1] = k
      BY <3>2 DEF Index
    <3> HIDE DEF k
    <3>4. /\ IsTable(table') /\ Len(table') = Len(table) - 1 /\ Value(table', table[i][1]) = Absent
          /\ \A q \in Keys \ {table[i][1]} : Value(table', q) = Value(table, q)
      BY ONLY <3>1, <3>2, <3>3, EraseLine
    <3>5. QED BY <3>1, <3>3, <3>4, UserDataAssumption
  <2>6. store' \in [Keys -> Values \cup {Cut, Absent}] /\ \A q \in Keys : Value(table', q) = store'[q]
    BY <2>3, <2>4, <2>5 DEF DataInv, DataTypes
  <2> HIDE DEF k
  <2>10. DataTypes' /\ TablesFit'
    BY <2>1, <2>2, <2>4, <2>5, <2>6 DEF DataInv, DataTypes, TablesFit
  <2>11. MoveFits'
    BY <2>1, <2>2, CallMoves
  <2>12. LockFits'
    BY <2>1, <2>2, <2>3 DEF DataInv, LockFits
  <2>13. StoreFits'
    BY <2>1, <2>2, <2>3, <2>4, <2>6 DEF StoreFits, OnDisk
  <2>14. QED BY <2>10, <2>11, <2>12, <2>13 DEF DataInv
<1>9. ASSUME NothingToDo(t) PROVE DataInv'
  <2>1. Step(t, "do", "unlock") /\ UNCHANGED <<userdata, locked, loaded, table, req, answer, store, saved>>
    BY <1>9 DEF NothingToDo
  <2>2. /\ launch = "game" /\ marker = "done" /\ locked = t /\ req[t] \in Requests
        /\ at[t] = "do" /\ at'[t] = "unlock" /\ at' \in [Threads -> Labels]
        /\ \A u \in Threads \ {t} : at[u] = "idle" /\ at'[u] = "idle"
        /\ UNCHANGED <<launch, marker, top, original>>
    BY <2>1, CallFrame DEF Labels
  <2>3. req[t].what # "get" /\ loaded /\ ~Reading /\ ~Reading'
    BY <1>9, <2>2 DEF NothingToDo, Reading, DataInv, LockFits
  <2>10. DataTypes' /\ TablesFit'
    BY <2>1, <2>2 DEF DataInv, DataTypes, TablesFit
  <2>11. MoveFits'
    BY <2>1, <2>2, CallMoves
  <2>12. LockFits'
    BY <2>1, <2>2, <2>3 DEF DataInv, LockFits
  <2>13. StoreFits'
    BY <2>1, <2>2, <2>3 DEF DataInv, StoreFits, Reading, OnDisk
  <2>14. QED BY <2>10, <2>11, <2>12, <2>13 DEF DataInv
<1>10. ASSUME OpenFails(t) PROVE DataInv'
  <2>1. Step(t, "save", "unlock") /\ UNCHANGED <<locked, loaded, table, req, answer, store>>
    BY <1>10 DEF OpenFails, Saves
  <2>2. /\ launch = "game" /\ marker = "done" /\ locked = t /\ req[t] \in Requests
        /\ at[t] = "save" /\ at'[t] = "unlock" /\ at' \in [Threads -> Labels]
        /\ \A u \in Threads \ {t} : at[u] = "idle" /\ at'[u] = "idle"
        /\ UNCHANGED <<launch, marker, top, original>>
    BY <2>1, CallFrame DEF Labels
  <2>3. req[t].what # "get" /\ loaded /\ ~Reading /\ ~Reading'
    BY <2>2 DEF Reading, DataInv, LockFits
  <2> DEFINE lines == userdata[Config]
  <2>4. lines # Absent => IsTable(lines)
    BY DEF DataInv, TablesFit
  <2>5. /\ DOMAIN userdata' = Files /\ userdata'[Config] = lines /\ saved' = FALSE
        /\ \A f \in Files \ {Config} : userdata'[f] = userdata[f]
    BY <1>10, <2>4, UserDataAssumption DEF OpenFails, Saves, DataInv, DataTypes
  <2>10. DataTypes' /\ TablesFit'
    BY <2>1, <2>2, <2>4, <2>5 DEF DataInv, DataTypes, TablesFit
  <2>11. MoveFits'
    BY <2>1, <2>2, <2>5, CallMoves
  <2>12. LockFits'
    BY <2>1, <2>2, <2>3 DEF DataInv, LockFits
  <2>13. StoreFits'
    BY <2>1, <2>2, <2>3, <2>5 DEF DataInv, StoreFits
  <2>14. QED BY <2>10, <2>11, <2>12, <2>13 DEF DataInv
<1>11. ASSUME OpenSave(t) PROVE DataInv'
  <2>1. Step(t, "save", "write") /\ UNCHANGED <<locked, loaded, table, req, answer, store>>
    BY <1>11 DEF OpenSave, Saves
  <2>2. /\ launch = "game" /\ marker = "done" /\ locked = t /\ req[t] \in Requests
        /\ at[t] = "save" /\ at'[t] = "write" /\ at' \in [Threads -> Labels]
        /\ \A u \in Threads \ {t} : at[u] = "idle" /\ at'[u] = "idle"
        /\ UNCHANGED <<launch, marker, top, original>>
    BY <2>1, CallFrame DEF Labels
  <2>3. req[t].what # "get" /\ loaded /\ ~Reading /\ ~Reading'
    BY <2>2 DEF Reading, DataInv, LockFits
  <2> DEFINE lines == <<>>
  <2>4. lines # Absent => IsTable(lines)
    BY NoLines
  <2>5. /\ DOMAIN userdata' = Files /\ userdata'[Config] = lines /\ saved' = FALSE
        /\ \A f \in Files \ {Config} : userdata'[f] = userdata[f]
    BY <1>11, <2>4, UserDataAssumption DEF OpenSave, Saves, DataInv, DataTypes
  <2>10. DataTypes' /\ TablesFit'
    BY <2>1, <2>2, <2>4, <2>5 DEF DataInv, DataTypes, TablesFit
  <2>11. MoveFits'
    BY <2>1, <2>2, <2>5, CallMoves
  <2>12. LockFits'
    BY <2>1, <2>2, <2>3 DEF DataInv, LockFits
  <2>13. StoreFits'
    BY <2>1, <2>2, <2>3, <2>5 DEF DataInv, StoreFits
  <2>14. QED BY <2>10, <2>11, <2>12, <2>13 DEF DataInv
<1>12. ASSUME WriteSome(t) PROVE DataInv'
  <2>1. Step(t, "write", "write") /\ UNCHANGED <<locked, loaded, table, req, answer, store>>
    BY <1>12 DEF WriteSome, Saves
  <2>2. /\ launch = "game" /\ marker = "done" /\ locked = t /\ req[t] \in Requests
        /\ at[t] = "write" /\ at'[t] = "write" /\ at' \in [Threads -> Labels]
        /\ \A u \in Threads \ {t} : at[u] = "idle" /\ at'[u] = "idle"
        /\ UNCHANGED <<launch, marker, top, original>>
    BY <2>1, CallFrame DEF Labels
  <2>3. req[t].what # "get" /\ loaded /\ ~Reading /\ ~Reading'
    BY <2>2 DEF Reading, DataInv, LockFits
  <2>a. PICK n \in 1 .. Len(table), v \in Values \cup {Cut} :
          /\ v \in {table[n][2], Cut}
          /\ Saves(t, Append(SubSeq(table, 1, n - 1), <<table[n][1], v>>), FALSE)
    BY <1>12 DEF WriteSome
  <2> DEFINE lines == Append(SubSeq(table, 1, n - 1), <<table[n][1], v>>)
  <2>4. lines # Absent => IsTable(lines)
    BY CutTable DEF DataInv, TablesFit
  <2>5. /\ DOMAIN userdata' = Files /\ userdata'[Config] = lines /\ saved' = FALSE
        /\ \A f \in Files \ {Config} : userdata'[f] = userdata[f]
    BY <2>a, <2>4, UserDataAssumption DEF Saves, DataInv, DataTypes
  <2>10. DataTypes' /\ TablesFit'
    BY <2>1, <2>2, <2>4, <2>5 DEF DataInv, DataTypes, TablesFit
  <2>11. MoveFits'
    BY <2>1, <2>2, <2>5, CallMoves
  <2>12. LockFits'
    BY <2>1, <2>2, <2>3 DEF DataInv, LockFits
  <2>13. StoreFits'
    BY <2>1, <2>2, <2>3, <2>5 DEF DataInv, StoreFits
  <2>14. QED BY <2>10, <2>11, <2>12, <2>13 DEF DataInv
<1>13. ASSUME WriteAll(t) PROVE DataInv'
  <2>1. Step(t, "write", "unlock") /\ UNCHANGED <<locked, loaded, table, req, answer, store>>
    BY <1>13 DEF WriteAll, Saves
  <2>2. /\ launch = "game" /\ marker = "done" /\ locked = t /\ req[t] \in Requests
        /\ at[t] = "write" /\ at'[t] = "unlock" /\ at' \in [Threads -> Labels]
        /\ \A u \in Threads \ {t} : at[u] = "idle" /\ at'[u] = "idle"
        /\ UNCHANGED <<launch, marker, top, original>>
    BY <2>1, CallFrame DEF Labels
  <2>3. req[t].what # "get" /\ loaded /\ ~Reading /\ ~Reading'
    BY <2>2 DEF Reading, DataInv, LockFits
  <2> DEFINE lines == table
  <2>4. IsTable(lines) /\ lines # Absent /\ Len(lines) =< CFG_MAX
    BY CopiesAssumption DEF DataInv, TablesFit
  <2>5. /\ DOMAIN userdata' = Files /\ userdata'[Config] = lines /\ saved' = TRUE
        /\ \A f \in Files \ {Config} : userdata'[f] = userdata[f]
    BY <1>13, <2>4, UserDataAssumption DEF WriteAll, Saves, DataInv, DataTypes
  <2>10. DataTypes' /\ TablesFit'
    BY <2>1, <2>2, <2>4, <2>5 DEF DataInv, DataTypes, TablesFit
  <2>11. MoveFits'
    BY <2>1, <2>2, <2>5, CallMoves
  <2>12. LockFits'
    BY <2>1, <2>2, <2>3 DEF DataInv, LockFits
  <2>13. StoreFits'
    <3>1. Lines(table) = table
      BY <2>4, LinesOf
    <3>2. OnDisk' = [k \in Keys |-> Value(table, k)]
      BY <2>1, <2>5, <3>1 DEF OnDisk
    <3>3. store = [k \in Keys |-> store[k]] /\ \A k \in Keys : Value(table, k) = store[k]
      BY <2>3 DEF DataInv, DataTypes, StoreFits
    <3>4. OnDisk' = store
      BY <3>2, <3>3
    <3>5. QED BY <2>1, <2>2, <2>3, <2>5, <3>4 DEF DataInv, StoreFits
  <2>14. QED BY <2>10, <2>11, <2>12, <2>13 DEF DataInv
<1>14. ASSUME WriteFails(t) PROVE DataInv'
  <2>1. Step(t, "write", "unlock") /\ UNCHANGED <<locked, loaded, table, req, answer, store>>
    BY <1>14 DEF WriteFails, Saves
  <2>2. /\ launch = "game" /\ marker = "done" /\ locked = t /\ req[t] \in Requests
        /\ at[t] = "write" /\ at'[t] = "unlock" /\ at' \in [Threads -> Labels]
        /\ \A u \in Threads \ {t} : at[u] = "idle" /\ at'[u] = "idle"
        /\ UNCHANGED <<launch, marker, top, original>>
    BY <2>1, CallFrame DEF Labels
  <2>3. req[t].what # "get" /\ loaded /\ ~Reading /\ ~Reading'
    BY <2>2 DEF Reading, DataInv, LockFits
  <2> DEFINE lines == userdata[Config]
  <2>4. lines # Absent => IsTable(lines)
    BY DEF DataInv, TablesFit
  <2>5. /\ DOMAIN userdata' = Files /\ userdata'[Config] = lines /\ saved' = FALSE
        /\ \A f \in Files \ {Config} : userdata'[f] = userdata[f]
    BY <1>14, <2>4, UserDataAssumption DEF WriteFails, Saves, DataInv, DataTypes
  <2>10. DataTypes' /\ TablesFit'
    BY <2>1, <2>2, <2>4, <2>5 DEF DataInv, DataTypes, TablesFit
  <2>11. MoveFits'
    BY <2>1, <2>2, <2>5, CallMoves
  <2>12. LockFits'
    BY <2>1, <2>2, <2>3 DEF DataInv, LockFits
  <2>13. StoreFits'
    BY <2>1, <2>2, <2>3, <2>5 DEF DataInv, StoreFits
  <2>14. QED BY <2>10, <2>11, <2>12, <2>13 DEF DataInv
<1>15. ASSUME Unlock(t) PROVE DataInv'
  <2>1. Step(t, "unlock", "idle") /\ UNCHANGED <<userdata, loaded, table, store, saved>>
    BY <1>15 DEF Unlock
  <2>2. /\ launch = "game" /\ marker = "done" /\ locked = t /\ req[t] \in Requests
        /\ at[t] = "unlock" /\ at'[t] = "idle" /\ at' \in [Threads -> Labels]
        /\ \A u \in Threads \ {t} : at[u] = "idle" /\ at'[u] = "idle"
        /\ UNCHANGED <<launch, marker, top, original>>
    BY <2>1, CallFrame DEF Labels
  <2>3. /\ locked' = Absent /\ req' = [req EXCEPT ![t] = NoRequest]
        /\ answer' = [answer EXCEPT ![t] = Absent]
    BY <1>15 DEF Unlock
  <2>4. req' \in [Threads -> Requests \cup {NoRequest}]
    BY <2>3 DEF DataInv, DataTypes
  <2>5. answer' \in [Threads -> Values \cup {Cut, Absent}]
    BY <2>3 DEF DataInv, DataTypes
  <2>6. loaded /\ ~Reading /\ ~Reading' /\ \A u \in Threads : at'[u] = "idle"
    BY <2>2 DEF Reading, DataInv, LockFits
  <2>10. DataTypes' /\ TablesFit'
    BY <2>1, <2>2, <2>3, <2>4, <2>5 DEF DataInv, DataTypes, TablesFit
  <2>11. MoveFits'
    BY <2>1, <2>2, <2>3, <2>4, <2>5, CallMoves
  <2>12. LockFits'
    BY <2>1, <2>2, <2>3, <2>6 DEF DataInv, LockFits
  <2>13. StoreFits'
    BY <2>1, <2>2, <2>6 DEF DataInv, StoreFits, Reading, OnDisk
  <2>14. QED BY <2>10, <2>11, <2>12, <2>13 DEF DataInv
<1>16. QED BY ONLY <1>1, <1>2, <1>3, <1>4, <1>5, <1>6, <1>7, <1>8, <1>9, <1>10, <1>11,
   <1>12, <1>13, <1>14, <1>15, Call(t)
  DEF Call

\* Whoever is not in a running game has no call.
LEMMA NoCalls ==
  ASSUME DataInv, launch # "game"
  PROVE  /\ \A t \in Threads : at[t] = "idle"
         /\ ~loaded /\ ~Reading /\ table = <<>>
  BY DEF DataInv, LockFits, StoreFits, Reading

\* A step before the game begins, which moves files or the marker only.
LEMMA BeforeGame ==
  ASSUME DataInv, launch # "game", launch' # "game", marker # "done" \/ UNCHANGED <<marker, userdata>>,
         UNCHANGED <<callVars, store, saved>>, launch' \in {"off", "move", "stamp"},
         marker' \in {"none", "torn", "done"}, DOMAIN top' = Files, DOMAIN userdata' = Files,
         top'[Config] # Absent => IsTable(top'[Config]),
         userdata'[Config] # Absent => IsTable(userdata'[Config]), MoveFits'
  PROVE  DataInv'
<1>1. UNCHANGED <<locked, loaded, table, at, req, answer, store, saved>>
  BY DEF callVars
<1>2. \A t \in Threads : at'[t] = "idle"
  BY <1>1, NoCalls
<1>3. ~loaded /\ table = <<>>
  BY NoCalls
<1>4. DataTypes' /\ TablesFit'
  BY <1>1 DEF DataInv, DataTypes, TablesFit
<1>5. LockFits'
  BY <1>2, <1>3, <1>1 DEF LockFits
<1>6. saved => marker' = "done" /\ OnDisk' = store
  BY <1>1 DEF DataInv, StoreFits, OnDisk
<1>7. StoreFits'
  BY <1>1, <1>2, <1>3, <1>6 DEF StoreFits
<1>8. QED BY <1>4, <1>5, <1>7 DEF DataInv

\* The game begins: what a save could not write is no longer there.
LEMMA GameBegins ==
  ASSUME DataInv, launch # "game", BeginGame, marker' = "done", \A f \in Files : top[f] = Absent,
         UNCHANGED <<top, userdata, original, callVars>>, \A f \in Files : Copies(f) = original[f] \/ (f = Config /\ marker = "done")
  PROVE  DataInv'
<1>1. UNCHANGED <<top, userdata, original, locked, loaded, table, at, req, answer>> /\ launch' = "game"
  BY DEF callVars, BeginGame
<1>2. \A t \in Threads : at'[t] = "idle"
  BY <1>1, NoCalls
<1>3. ~loaded /\ table = <<>>
  BY NoCalls
<1>4. saved' = TRUE /\ store' \in [Keys -> Values \cup {Cut, Absent}] /\ OnDisk = store'
  BY DiskTypes DEF BeginGame, DataInv, DataTypes, StoreFits
<1>5. OnDisk' = store'
  BY <1>1, <1>4 DEF OnDisk
<1>6. DataTypes' /\ TablesFit'
  BY <1>1, <1>4 DEF DataInv, DataTypes, TablesFit
<1>7. LockFits'
  BY <1>1, <1>2, <1>3 DEF LockFits
<1>8. StoreFits'
  BY <1>1, <1>2, <1>3, <1>4, <1>5 DEF StoreFits
<1>9. MoveFits'
  BY <1>1 DEF DataInv, MoveFits, Copies
<1>10. QED BY <1>6, <1>7, <1>8, <1>9 DEF DataInv

\* The migration, its failures and the end of a game keep every copy.
LEMMA MigrationKeeps ==
  ASSUME DataInv, Launch \/ OpenMarker \/ Stamp \/ PrepareFails \/ Stop
                    \/ \E f \in Files : Move(f) \/ Conflict(f) \/ Resolve(f)
  PROVE  DataInv'
<1>1. ASSUME Launch PROVE DataInv'
  <2>1. launch = "off" /\ UNCHANGED <<marker, top, userdata, original, callVars>>
    BY <1>1 DEF Launch, fileVars
  <2>2. CASE marker = "done"
    BY <1>1, <2>1, <2>2, GameBegins DEF Launch, DataInv, MoveFits
  <2>3. CASE marker # "done"
    <3>1. launch' = "move" /\ UNCHANGED <<store, saved>>
      BY <1>1, <2>3 DEF Launch
    <3>2. MoveFits'
      BY <2>1, <2>3, <3>1 DEF DataInv, MoveFits, Copies
    <3>3. QED BY <2>1, <2>3, <3>1, <3>2, BeforeGame DEF DataInv, DataTypes, TablesFit
  <2>4. QED BY <2>2, <2>3
<1>2. ASSUME OpenMarker PROVE DataInv'
  <2>1. /\ launch = "move" /\ launch' = "stamp" /\ marker' = "torn" /\ \A f \in Files : top[f] = Absent
        /\ UNCHANGED <<top, userdata, original, callVars, store, saved>>
    BY <1>2 DEF OpenMarker
  <2>2. MoveFits' /\ marker # "done"
    BY <2>1 DEF DataInv, MoveFits, Copies
  <2>3. QED BY <2>1, <2>2, BeforeGame DEF DataInv, DataTypes, TablesFit
<1>3. ASSUME Stamp PROVE DataInv'
  BY <1>3, GameBegins DEF Stamp, DataInv, MoveFits
<1>4. ASSUME PrepareFails PROVE DataInv'
  <2>1. /\ launch \in {"move", "stamp"} /\ launch' = "off"
        /\ marker' = marker \/ (launch = "stamp" /\ marker' = "done")
        /\ UNCHANGED <<top, userdata, original, callVars, store, saved>>
    BY <1>4 DEF PrepareFails
  <2>2. MoveFits' /\ marker # "done" /\ marker' \in {"none", "torn", "done"}
    BY <2>1 DEF DataInv, DataTypes, MoveFits, Copies
  <2>3. QED BY <2>1, <2>2, BeforeGame DEF DataInv, DataTypes, TablesFit
<1>5. ASSUME Stop PROVE DataInv'
  <2>1. /\ launch' = "off" /\ locked' = Absent /\ loaded' = FALSE /\ table' = <<>>
        /\ at' = [t \in Threads |-> "idle"] /\ req' = [t \in Threads |-> NoRequest]
        /\ answer' = [t \in Threads |-> Absent]
        /\ UNCHANGED <<marker, top, userdata, original, store, saved>>
    BY <1>5 DEF Stop, fileVars
  <2>2. DataTypes' /\ TablesFit'
    BY <2>1, NoLines DEF DataInv, DataTypes, TablesFit, Labels
  <2>3. MoveFits' /\ LockFits'
    BY <2>1 DEF DataInv, MoveFits, LockFits, Copies
  <2>4. StoreFits'
    BY <2>1 DEF DataInv, StoreFits, OnDisk
  <2>5. QED BY <2>2, <2>3, <2>4 DEF DataInv
<1>6. ASSUME NEW f \in Files, Move(f) PROVE DataInv'
  <2>1. /\ launch = "move" /\ top[f] # Absent /\ userdata[f] = Absent
        /\ userdata' = [userdata EXCEPT ![f] = top[f]]
        /\ top' = [top EXCEPT ![f] = Absent]
        /\ UNCHANGED <<launch, marker, original, callVars, store, saved>>
    BY <1>6 DEF Move
  <2>2. /\ DOMAIN top' = Files /\ DOMAIN userdata' = Files
        /\ top'[f] = Absent /\ userdata'[f] = top[f]
        /\ \A g \in Files \ {f} : top'[g] = top[g] /\ userdata'[g] = userdata[g]
    BY <2>1 DEF DataInv, DataTypes
  <2>3. marker # "done" /\ \A g \in Files : Copies(g)' = original[g]
    BY <2>1, <2>2 DEF DataInv, MoveFits, Copies
  <2>4. MoveFits'
    BY <2>1, <2>2, <2>3 DEF DataInv, MoveFits
  <2>5. /\ top'[Config] # Absent => IsTable(top'[Config])
        /\ userdata'[Config] # Absent => IsTable(userdata'[Config])
    BY <2>2, UserDataAssumption DEF DataInv, TablesFit
  <2>6. QED BY <2>1, <2>2, <2>3, <2>4, <2>5, BeforeGame DEF DataInv, DataTypes
<1>7. ASSUME NEW f \in Files, Conflict(f) PROVE DataInv'
  <2>1. /\ launch = "move" /\ launch' = "off"
        /\ UNCHANGED <<marker, top, userdata, original, callVars, store, saved>>
    BY <1>7 DEF Conflict, fileVars
  <2>2. MoveFits' /\ marker # "done"
    BY <2>1 DEF DataInv, MoveFits, Copies
  <2>3. QED BY <2>1, <2>2, BeforeGame DEF DataInv, DataTypes, TablesFit
<1>8. ASSUME NEW f \in Files, Resolve(f) PROVE DataInv'
  <2>1. /\ launch = "off" /\ launch' = "off" /\ top[f] # Absent
        /\ \/ top' = [top EXCEPT ![f] = Absent] /\ UNCHANGED userdata
           \/ userdata' = [userdata EXCEPT ![f] = Absent] /\ UNCHANGED top
        /\ original' = [original EXCEPT ![f] = {top'[f], userdata'[f]} \ {Absent}]
        /\ UNCHANGED <<marker, callVars, store, saved>>
    BY <1>8 DEF Resolve
  <2>2. /\ DOMAIN top' = Files /\ DOMAIN userdata' = Files
        /\ top'[f] \in {top[f], Absent} /\ userdata'[f] \in {userdata[f], Absent}
        /\ Absent \in {top'[f], userdata'[f]}
        /\ \A g \in Files \ {f} : top'[g] = top[g] /\ userdata'[g] = userdata[g]
    BY <2>1 DEF DataInv, DataTypes
  <2>3. /\ marker # "done" /\ DOMAIN original' = Files
        /\ \A g \in Files : Copies(g)' = original'[g] /\ (top'[g] # Absent => top'[g] # userdata'[g])
    BY <2>1, <2>2 DEF DataInv, MoveFits, Copies
  <2>4. MoveFits'
    BY <2>1, <2>2, <2>3 DEF DataInv, MoveFits
  <2>5. /\ top'[Config] # Absent => IsTable(top'[Config])
        /\ userdata'[Config] # Absent => IsTable(userdata'[Config])
    BY <2>2, UserDataAssumption DEF DataInv, TablesFit
  <2>6. QED BY <2>1, <2>2, <2>3, <2>4, <2>5, BeforeGame DEF DataInv, DataTypes
<1>9. QED BY <1>1, <1>2, <1>3, <1>4, <1>5, <1>6, <1>7, <1>8

\* What the files and the store need holds at the start, and every step keeps it.
LEMMA DataInvariant == AllSpec => []DataInv
<1>1. ASSUME AllInit PROVE DataInv
  <2>1. Init
    BY <1>1 DEF AllInit
  <2>2. /\ DOMAIN top = Files /\ DOMAIN userdata = Files
        /\ top[Config] # Absent => IsTable(top[Config])
        /\ userdata[Config] # Absent => IsTable(userdata[Config])
        /\ \A f \in Files : top[f] # Absent => top[f] # userdata[f]
    BY <2>1, CopiesAssumption DEF Init
  <2>3. /\ launch = "off" /\ marker = "none" /\ locked = Absent /\ loaded = FALSE /\ table = <<>>
        /\ at = [t \in Threads |-> "idle"] /\ req = [t \in Threads |-> NoRequest]
        /\ answer = [t \in Threads |-> Absent]
        /\ store = [k \in Keys |-> Absent] /\ saved = FALSE
        /\ original = [f \in Files |-> Copies(f)]
    BY <2>1 DEF Init
  <2>4. DataTypes /\ TablesFit
    BY <2>2, <2>3, NoLines DEF DataTypes, TablesFit, Labels
  <2>5. MoveFits
    BY <2>2, <2>3 DEF MoveFits
  <2>6. LockFits /\ StoreFits
    BY <2>3 DEF LockFits, StoreFits, Reading
  <2>7. QED BY <2>4, <2>5, <2>6 DEF DataInv
<1>2. ASSUME DataInv, [UseData \/ UseHeap \/ UseSlots \/ UseReports]_allVars PROVE DataInv'
  <2>1. CASE UseData
    <3>1. CASE \E t \in Threads : Call(t)
      BY <1>2, <3>1, CallsKeep
    <3>2. CASE Launch \/ OpenMarker \/ Stamp \/ PrepareFails \/ Stop
                 \/ \E f \in Files : Move(f) \/ Conflict(f) \/ Resolve(f)
      BY <1>2, <3>2, MigrationKeeps
    <3>3. QED BY <2>1, <3>1, <3>2 DEF UseData, Next
  <2>2. CASE UNCHANGED vars
    BY <1>2, <2>2
      DEF vars, fileVars, callVars, DataInv, DataTypes, TablesFit, MoveFits, Copies,
      LockFits, StoreFits, Reading, OnDisk
  <2>3. QED BY <1>2, <2>1, <2>2 DEF UseHeap, UseSlots, UseReports, allVars
<1>3. QED BY <1>1, <1>2, PTL DEF AllSpec

\* Two different things are two.
LEMMA PairCounts ==
  ASSUME NEW a, NEW b, a # b, NEW S, S = {a, b}
  PROVE  Cardinality(S) = 2
<1>1. IsFiniteSet({a}) /\ Cardinality({a}) = 1
  BY FS_Singleton
<1>2. Cardinality({a} \cup {b}) = Cardinality({a}) + 1
  BY <1>1, FS_AddElement
<1>3. {a} \cup {b} = {a, b}
  OBVIOUS
<1>4. QED BY <1>1, <1>2, <1>3

\* Cut off anywhere and repeated, the migration keeps every copy the player has,
\* merges no two of them, and lets the game run only with all in userdata/:
\* pvz2_prepare_userdata.
THEOREM NothingLost == AllSpec => []NothingIsLost
<1>1. ASSUME DataInv PROVE NothingIsLost
  <2>1. TypeOK
    BY <1>1 DEF DataInv, DataTypes, TablesFit, TypeOK, Labels
  <2>2. ASSUME NEW f \in Files
        PROVE  marker # "done" \/ f # Config => Copies(f) = original[f]
    BY <1>1 DEF DataInv, MoveFits
  <2>3. ASSUME NEW f \in Files, Absent \notin {top[f], userdata[f]}
        PROVE  Cardinality(original[f]) = 2
    <3>1. marker # "done" /\ top[f] # userdata[f] /\ original[f] = {top[f], userdata[f]}
      BY <1>1, <2>3 DEF DataInv, MoveFits, Copies
    <3>2. QED BY <3>1, PairCounts, ZenonT(30)
  <2>4. ASSUME NEW f \in Files PROVE marker = "done" => top[f] = Absent
    BY <1>1 DEF DataInv, MoveFits
  <2>5. QED BY <2>1, <2>2, <2>3, <2>4 DEF NothingIsLost
<1>2. QED BY <1>1, DataInvariant, PTL

\* A read returns what was written last, across the launches of the game, and a
\* finished save has it all: cfg_load_locked, cfg_save_locked and their callers.
THEOREM LastWriteRead == AllSpec => []ReadsLastWrite
<1>1. ASSUME DataInv PROVE ReadsLastWrite
  BY <1>1 DEF DataInv, StoreFits, ReadsLastWrite
<1>2. QED BY <1>1, DataInvariant, PTL

-----------------------------------------------------------------------------
(* The second heap of heap_fallback.c.                                      *)

HeapCalls == [at : Heap!Places, ptr : Nat, size : Nat, old : Nat, next : Nat]
Blocks == [ptr : Nat, requested : Nat, bytes : Nat]

HeapTypes ==
  /\ extent \in [Heap!Pages -> 0 .. PageCount]
  /\ maker \in [Heap!Pages -> {"newlib", "kernel", "none"}]
  /\ asked \in [Heap!Pages -> 0 .. 2 * PageCount]
  /\ reserved_bytes \in Int /\ reserved_bytes =< FALLBACK_BUDGET
  /\ low_address \in 1 .. PageCount + 1 /\ high_address \in 0 .. PageCount + 1
  /\ blocks \in [1 .. FALLBACK_SLOTS -> Blocks \cup {Absent}]
  /\ heapCall \in [Threads -> HeapCalls]

InUse(i) == blocks[i] # Absent
BlockAt(i, p) == InUse(i) /\ blocks[i].ptr = p

\* What the kernel gave is in a slot.
PageFits(p) ==
  /\ maker[p] = "none" <=> extent[p] = 0
  /\ asked[p] =< 2 * extent[p]
  /\ maker[p] = "kernel" => Heap!candidate(p) /\ \E i \in DOMAIN blocks : BlockAt(i, p)

\* A slot tells how long its block is and how much of it the program asked for,
\* unless the program has freed it and the kernel would not.
BlockFits(i) ==
  InUse(i) =>
    /\ blocks[i].ptr \in Heap!Pages /\ maker[blocks[i].ptr] = "kernel"
    /\ blocks[i].bytes = 2 * extent[blocks[i].ptr] /\ blocks[i].requested =< blocks[i].bytes
    /\ asked[blocks[i].ptr] \in {0, blocks[i].requested}

BlocksApart ==
  \A i, j \in DOMAIN blocks : InUse(i) /\ InUse(j) /\ blocks[i].ptr = blocks[j].ptr => i = j

\* No two calls have an object in common: the one a call is given, or the one it
\* copies to.
Holds(t) == {heapCall[t].ptr, heapCall[t].next} \ {0}
HoldsApart == \A t, u \in Threads : t # u => Holds(t) \cap Holds(u) = {}

Growing == {"fallback", "grow", "copy"}
Freeing == {"freeLook", "freeLocked", "newlibFree"}

\* The object of a call is there as long as the call needs it.
HasObject(t) ==
  /\ heapCall[t].at = "outside" => heapCall[t].ptr = 0
  /\ heapCall[t].at \notin {"outside", "fallback"} => heapCall[t].ptr # 0
  /\ heapCall[t].ptr # 0 => heapCall[t].ptr \in Heap!Pages /\ extent[heapCall[t].ptr] > 0
  /\ heapCall[t].at \in Freeing => asked[heapCall[t].ptr] = 0
  /\ heapCall[t].at \notin Freeing /\ heapCall[t].at # "outside" =>
       heapCall[t].size \in Sizes /\ (heapCall[t].ptr # 0 => asked[heapCall[t].ptr] > 0)
  /\ heapCall[t].at \in {"newlibFree", "newlibRealloc"} => maker[heapCall[t].ptr] = "newlib"
  /\ heapCall[t].at \in Growing /\ heapCall[t].ptr # 0 =>
       asked[heapCall[t].ptr] =< heapCall[t].old /\ heapCall[t].old =< 2 * extent[heapCall[t].ptr]

\* And the one it copies to is nobody else's yet.
HasTarget(t) ==
  /\ heapCall[t].at = "copy" => heapCall[t].next # 0
  /\ heapCall[t].next # 0 =>
       /\ heapCall[t].at \in Freeing \cup {"copy"}
       /\ heapCall[t].next \in Heap!Pages /\ heapCall[t].next # heapCall[t].ptr
       /\ extent[heapCall[t].next] > 0 /\ asked[heapCall[t].next] = 0
       /\ heapCall[t].size =< 2 * extent[heapCall[t].next]
       /\ \A i \in DOMAIN blocks :
            BlockAt(i, heapCall[t].next) => blocks[i].requested = heapCall[t].size

HeapInv ==
  /\ HeapTypes /\ BlocksApart /\ HoldsApart
  /\ \A p \in Heap!Pages : PageFits(p)
  /\ \A i \in DOMAIN blocks : BlockFits(i)
  /\ \A t \in Threads : HasObject(t) /\ HasTarget(t)

\* A size in pages.
LEMMA Halves ==
  ASSUME NEW size \in Sizes
  PROVE  /\ size \in 1 .. 2 * PageCount /\ Heap!PagesFor(size) \in Nat
         /\ Heap!PagesFor(size) >= 1 /\ size =< 2 * Heap!PagesFor(size)
<1>1. size \in Nat /\ size >= 1 /\ size \in 1 .. 2 * PageCount
  BY HeapAssumption
<1>2. (size + 1) \div 2 \in Nat /\ (size + 1) \div 2 >= 1 /\ size =< 2 * ((size + 1) \div 2)
  BY <1>1
<1>3. QED BY <1>1, <1>2 DEF Heap!PagesFor

\* What is free is nobody's.
LEMMA RoomFacts ==
  ASSUME HeapInv, NEW size \in Sizes, NEW n, n = Heap!PagesFor(size), NEW p \in Heap!Room(n)
  PROVE  /\ p \in Heap!Pages /\ n \in 1 .. PageCount /\ p + n =< PageCount + 1 /\ size =< 2 * n
         /\ extent[p] = 0 /\ maker[p] = "none" /\ asked[p] = 0 /\ size \in 1 .. 2 * PageCount
         /\ \A i \in DOMAIN blocks : ~BlockAt(i, p)
         /\ \A t \in Threads : p \notin Holds(t)
<1>1. n \in Nat /\ n >= 1 /\ size =< 2 * n /\ size \in 1 .. 2 * PageCount
  BY Halves
<1>2. /\ p \in 1 .. PageCount /\ p + n - 1 \in 1 .. PageCount
      /\ extent[p] > 0 => p + extent[p] =< p \/ p + n =< p
  BY DEF Heap!Room, Heap!Pages
<1>3. extent[p] \in 0 .. PageCount /\ asked[p] \in 0 .. 2 * PageCount /\ PageCount \in Nat
  BY <1>2, HeapAssumption DEF HeapInv, HeapTypes, Heap!Pages
<1>4. extent[p] = 0
  BY <1>1, <1>2, <1>3
<1>5. p \in Heap!Pages /\ n \in 1 .. PageCount /\ p + n =< PageCount + 1
  BY <1>1, <1>2, <1>3 DEF Heap!Pages
<1>6. maker[p] = "none" /\ asked[p] =< 2 * extent[p]
  BY <1>4, <1>5 DEF HeapInv, PageFits
<1>7. asked[p] = 0
  BY <1>3, <1>4, <1>6
<1>8. \A i \in DOMAIN blocks : ~BlockAt(i, p)
  BY <1>6 DEF HeapInv, BlockFits, BlockAt
<1>9. ASSUME NEW t \in Threads PROVE p \notin Holds(t)
  BY <1>4 DEF HeapInv, HasObject, HasTarget, Holds
<1>10. QED BY <1>1, <1>4, <1>5, <1>6, <1>7, <1>8, <1>9

\* How a call goes on, and how it ends.
LEMMA Goes ==
  ASSUME heapCall \in [Threads -> HeapCalls], NEW t \in Threads, NEW l \in Heap!Places,
         Heap!Go(t, l)
  PROVE  /\ heapCall' \in [Threads -> HeapCalls] /\ heapCall'[t].at = l
         /\ heapCall'[t].ptr = heapCall[t].ptr /\ heapCall'[t].size = heapCall[t].size
         /\ heapCall'[t].old = heapCall[t].old /\ heapCall'[t].next = heapCall[t].next
         /\ \A u \in Threads \ {t} : heapCall'[u] = heapCall[u]
  BY DEF Heap!Go, HeapCalls

LEMMA Returns ==
  ASSUME heapCall \in [Threads -> HeapCalls], NEW t \in Threads, Heap!Return(t)
  PROVE  /\ heapCall' \in [Threads -> HeapCalls] /\ heapCall'[t].at = "outside"
         /\ heapCall'[t].ptr = 0 /\ heapCall'[t].next = 0
         /\ \A u \in Threads \ {t} : heapCall'[u] = heapCall[u]
<1>1. Heap!NoCall \in HeapCalls
  BY DEF Heap!NoCall, HeapCalls, Heap!Places
<1>2. heapCall' \in [Threads -> HeapCalls] /\ heapCall'[t] = Heap!NoCall
      /\ \A u \in Threads \ {t} : heapCall'[u] = heapCall[u]
  BY <1>1 DEF Heap!Return
<1>3. QED BY <1>2 DEF Heap!NoCall

\* A call that is not in a step has what it had, when the step touches nothing of it.
LEMMA OtherCalls ==
  ASSUME HeapInv, NEW u \in Threads, heapCall'[u] = heapCall[u], DOMAIN blocks' = DOMAIN blocks,
         \A p \in Holds(u) : extent'[p] = extent[p] /\ maker'[p] = maker[p] /\ asked'[p] = asked[p],
         \A p \in Holds(u), i \in DOMAIN blocks : BlockAt(i, p)' => blocks'[i] = blocks[i]
  PROVE  HasObject(u)' /\ HasTarget(u)'
<1>1. HasObject(u) /\ HasTarget(u)
  BY DEF HeapInv
<1>2. HasObject(u)'
  BY <1>1 DEF HasObject, Holds, Growing, Freeing
<1>3. HasTarget(u)'
  BY <1>1 DEF HasTarget, Holds, Freeing, BlockAt, InUse
<1>4. QED BY <1>2, <1>3

\* A step of t touches the pages T, the slots of their blocks and the call of t.
LEMMA HeapStep ==
  ASSUME HeapInv, HeapTypes', BlocksApart', NEW t \in Threads, NEW T,
         \A u \in Threads \ {t} : heapCall'[u] = heapCall[u] /\ Holds(u) \cap T = {},
         Holds(t)' \subseteq Holds(t) \cup T, HasObject(t)' /\ HasTarget(t)',
         \A p \in Heap!Pages \ T :
           /\ extent'[p] = extent[p] /\ maker'[p] = maker[p] /\ asked'[p] = asked[p]
           /\ Heap!candidate(p) => Heap!candidate(p)',
         \A p \in Heap!Pages \cap T : PageFits(p)',
         \A i \in DOMAIN blocks :
           /\ InUse(i) /\ blocks[i].ptr \notin T => blocks'[i] = blocks[i]
           /\ InUse(i)' /\ blocks'[i].ptr \notin T => blocks'[i] = blocks[i]
           /\ InUse(i)' /\ blocks'[i].ptr \in T => BlockFits(i)'
  PROVE  HeapInv'
<1>1. DOMAIN blocks' = DOMAIN blocks
  BY DEF HeapInv, HeapTypes
<1>2. ASSUME NEW p \in Heap!Pages PROVE PageFits(p)'
  <2>1. CASE p \in T
    BY <2>1
  <2>2. CASE p \notin T
    <3>1. PageFits(p)
      BY DEF HeapInv
    <3>2. \A i \in DOMAIN blocks : BlockAt(i, p) => BlockAt(i, p)'
      BY <2>2 DEF BlockAt, InUse
    <3>3. QED BY <1>1, <2>2, <3>1, <3>2 DEF PageFits
  <2>3. QED BY <2>1, <2>2
<1>3. ASSUME NEW i \in DOMAIN blocks PROVE BlockFits(i)'
  <2>1. CASE InUse(i)' /\ blocks'[i].ptr \notin T
    BY <2>1 DEF HeapInv, BlockFits, InUse
  <2>2. CASE ~(InUse(i)' /\ blocks'[i].ptr \notin T)
    BY <2>2 DEF BlockFits
  <2>3. QED BY <2>1, <2>2
<1>4. ASSUME NEW u \in Threads \ {t} PROVE HasObject(u)' /\ HasTarget(u)'
  <2>1. heapCall'[u] = heapCall[u] /\ Holds(u) \cap T = {}
    OBVIOUS
  <2>2. Holds(u) \subseteq Heap!Pages
    BY DEF HeapInv, HasObject, HasTarget, Holds
  <2>3. \A p \in Holds(u) : extent'[p] = extent[p] /\ maker'[p] = maker[p] /\ asked'[p] = asked[p]
    BY <2>1, <2>2
  <2>4. \A p \in Holds(u), i \in DOMAIN blocks : BlockAt(i, p)' => blocks'[i] = blocks[i]
    BY <2>1 DEF BlockAt
  <2>5. QED BY <1>1, <2>1, <2>3, <2>4, OtherCalls
<1>5. HoldsApart'
  <2>1. \A u \in Threads \ {t} : Holds(u)' = Holds(u)
    BY DEF Holds
  <2>2. \A u \in Threads \ {t} : Holds(t)' \cap Holds(u) = {}
    BY DEF HeapInv, HoldsApart
  <2>3. QED BY <2>1, <2>2 DEF HeapInv, HoldsApart
<1>6. QED BY <1>1, <1>2, <1>3, <1>4, <1>5 DEF HeapInv

\* A step that changes the call of t only, which may take an object p.
LEMMA OneHeapCall ==
  ASSUME HeapInv, NEW t \in Threads, NEW T, heapCall' \in [Threads -> HeapCalls],
         \A u \in Threads \ {t} : heapCall'[u] = heapCall[u] /\ Holds(u) \cap T = {},
         Holds(t)' \subseteq Holds(t) \cup T, HasObject(t)' /\ HasTarget(t)',
         UNCHANGED <<blocks, reserved_bytes, low_address, high_address, extent, maker, asked>>
  PROVE  HeapInv'
<1>1. HeapTypes' /\ BlocksApart'
  BY DEF HeapInv, HeapTypes, BlocksApart, InUse
<1>2. \A p \in Heap!Pages : PageFits(p)' /\ (Heap!candidate(p) => Heap!candidate(p)')
  BY DEF HeapInv, PageFits, BlockAt, InUse, Heap!candidate
<1>3. \A i \in DOMAIN blocks : BlockFits(i)' /\ blocks'[i] = blocks[i]
  BY DEF HeapInv, BlockFits, InUse
<1>4. QED BY <1>1, <1>2, <1>3, HeapStep

\* A step that changes the call of t only, which keeps its objects.
LEMMA SameObjects ==
  ASSUME HeapInv, NEW t \in Threads, heapCall' \in [Threads -> HeapCalls],
         \A u \in Threads \ {t} : heapCall'[u] = heapCall[u],
         Holds(t)' = Holds(t), HasObject(t)' /\ HasTarget(t)',
         UNCHANGED <<blocks, reserved_bytes, low_address, high_address, extent, maker, asked>>
  PROVE  HeapInv'
<1> DEFINE T == {}
<1>1. (\A u \in Threads \ {t} : Holds(u) \cap T = {}) /\ Holds(t)' \subseteq Holds(t) \cup T
  OBVIOUS
<1> HIDE DEF T
<1>2. QED BY <1>1, OneHeapCall

\* Outside the bounds, or in no slot, a pointer is newlib's.
LEMMA NotTheKernels ==
  ASSUME HeapInv, NEW p \in Heap!Pages, extent[p] > 0,
         ~Heap!candidate(p) \/ Heap!find_locked(p) = {}
  PROVE  maker[p] = "newlib"
<1>1. maker[p] # "none" /\ maker[p] \in {"newlib", "kernel", "none"}
  BY DEF HeapInv, HeapTypes, PageFits
<1>2. ASSUME maker[p] = "kernel" PROVE FALSE
  <2>1. Heap!candidate(p)
    BY <1>2 DEF HeapInv, PageFits
  <2>2. PICK i \in DOMAIN blocks : BlockAt(i, p)
    BY <1>2 DEF HeapInv, PageFits
  <2>3. i \in Heap!find_locked(p)
    BY <2>2 DEF BlockAt, InUse, Heap!find_locked
  <2>4. QED BY <2>1, <2>3
<1>3. QED BY <1>1, <1>2

\* A new object at p reaches the caller, or the copy that realloc makes.
LEMMA Delivers ==
  ASSUME HeapInv, NEW t \in Threads, heapCall[t].at \in {"fallback", "grow"},
         NEW p \in Heap!Pages, extent[p] = 0, asked[p] = 0, Heap!Deliver(t, p),
         heapCall[t].size \in 1 .. 2 * PageCount, heapCall[t].size =< 2 * extent'[p],
         extent'[p] > 0,
         \A q \in Heap!Pages \ {p} : extent'[q] = extent[q] /\ maker'[q] = maker[q],
         \A i \in DOMAIN blocks' : BlockAt(i, p)' => blocks'[i].requested = heapCall[t].size
  PROVE  /\ heapCall' \in [Threads -> HeapCalls]
         /\ \A u \in Threads \ {t} : heapCall'[u] = heapCall[u]
         /\ asked' \in [Heap!Pages -> 0 .. 2 * PageCount] /\ asked'[p] \in {0, heapCall[t].size}
         /\ \A q \in Heap!Pages \ {p} : asked'[q] = asked[q]
         /\ HasObject(t)' /\ HasTarget(t)' /\ Holds(t)' \subseteq Holds(t) \cup {p}
<1> DEFINE c == heapCall[t]
<1>1. /\ heapCall \in [Threads -> HeapCalls] /\ c \in HeapCalls /\ HasObject(t) /\ HasTarget(t)
      /\ asked \in [Heap!Pages -> 0 .. 2 * PageCount] /\ p \in Nat /\ p # 0
  BY HeapAssumption DEF HeapInv, HeapTypes, Heap!Pages
<1>2. CASE c.ptr = 0
  <2>1. Heap!Return(t) /\ asked' = [asked EXCEPT ![p] = c.size]
    BY <1>2 DEF Heap!Deliver
  <2>2. /\ heapCall' \in [Threads -> HeapCalls] /\ heapCall'[t].at = "outside"
        /\ heapCall'[t].ptr = 0 /\ heapCall'[t].next = 0
        /\ \A u \in Threads \ {t} : heapCall'[u] = heapCall[u]
    BY <1>1, <2>1, Returns
  <2>3. HasObject(t)' /\ HasTarget(t)' /\ Holds(t)' = {}
    BY <2>2 DEF HasObject, HasTarget, Holds, Growing, Freeing
  <2>4. QED BY <1>1, <2>1, <2>2, <2>3
<1>3. CASE c.ptr # 0
  <2>1. /\ heapCall' = [heapCall EXCEPT ![t].at = "copy", ![t].next = p]
        /\ asked' = asked
    BY <1>3 DEF Heap!Deliver
  <2>2. /\ heapCall' \in [Threads -> HeapCalls] /\ heapCall'[t].at = "copy"
        /\ heapCall'[t].ptr = c.ptr /\ heapCall'[t].size = c.size
        /\ heapCall'[t].old = c.old /\ heapCall'[t].next = p
        /\ \A u \in Threads \ {t} : heapCall'[u] = heapCall[u]
    BY <1>1, <2>1 DEF HeapCalls, Heap!Places
  <2>3. c.ptr \in Heap!Pages \ {p}
    BY <1>1, <1>3 DEF HasObject
  <2>4. HasObject(t)'
    BY <1>1, <1>3, <2>1, <2>2, <2>3 DEF HasObject, Growing, Freeing
  <2>5. HasTarget(t)'
    BY <1>1, <2>1, <2>2, <2>3 DEF HasTarget, Freeing
  <2>6. Holds(t)' \subseteq Holds(t) \cup {p}
    BY <2>2 DEF Holds
  <2>7. QED BY <1>1, <2>1, <2>2, <2>4, <2>5, <2>6
<1>4. QED BY <1>2, <1>3

\* The end of free, which hands a moved object over.
LEMMA Frees ==
  ASSUME HeapInv, NEW t \in Threads, heapCall[t].at \in Freeing, Heap!Freed(t),
         NEW p, p = heapCall[t].ptr, NEW q, q = heapCall[t].next
  PROVE  /\ heapCall' \in [Threads -> HeapCalls]
         /\ \A u \in Threads \ {t} : heapCall'[u] = heapCall[u] /\ Holds(u) \cap {p, q} = {}
         /\ HasObject(t)' /\ HasTarget(t)' /\ Holds(t)' = {}
         /\ asked' \in [Heap!Pages -> 0 .. 2 * PageCount]
         /\ \A r \in Heap!Pages \ {p, q} : asked'[r] = asked[r]
         /\ p \in Heap!Pages /\ p # q /\ extent[p] > 0 /\ asked'[p] = 0
         /\ q \in Heap!Pages => asked'[q] = heapCall[t].size /\ asked'[q] =< 2 * extent[q] /\ extent[q] > 0
         /\ q \in Heap!Pages => \A i \in DOMAIN blocks : BlockAt(i, q) => blocks[i].requested = asked'[q]
<1>1. /\ heapCall \in [Threads -> HeapCalls] /\ heapCall[t] \in HeapCalls /\ HasObject(t) /\ HasTarget(t)
      /\ asked \in [Heap!Pages -> 0 .. 2 * PageCount] /\ extent \in [Heap!Pages -> 0 .. PageCount]
  BY DEF HeapInv, HeapTypes
<1>2. /\ Heap!Return(t)
      /\ asked' = [r \in Heap!Pages |-> IF r = q THEN heapCall[t].size ELSE asked[r]]
  BY DEF Heap!Freed
<1>3. /\ heapCall' \in [Threads -> HeapCalls] /\ heapCall'[t].at = "outside"
      /\ heapCall'[t].ptr = 0 /\ heapCall'[t].next = 0
      /\ \A u \in Threads \ {t} : heapCall'[u] = heapCall[u]
  BY <1>1, <1>2, Returns
<1>4. HasObject(t)' /\ HasTarget(t)' /\ Holds(t)' = {}
  BY <1>3 DEF HasObject, HasTarget, Holds, Growing, Freeing
<1>5. p # 0 /\ p \in Heap!Pages /\ extent[p] > 0 /\ asked[p] = 0
  BY <1>1 DEF HasObject, Freeing
<1>6. q # 0 => /\ q \in Heap!Pages /\ q # p /\ extent[q] > 0 /\ heapCall[t].size =< 2 * extent[q]
               /\ \A i \in DOMAIN blocks : BlockAt(i, q) => blocks[i].requested = heapCall[t].size
  BY <1>1 DEF HasTarget
<1>7. 0 \notin Heap!Pages
  BY DEF Heap!Pages
<1>8. q \in Heap!Pages => heapCall[t].size \in 0 .. 2 * PageCount
  BY <1>1, <1>6, <1>7, HeapAssumption DEF HeapCalls
<1>9. asked' \in [Heap!Pages -> 0 .. 2 * PageCount]
  BY <1>1, <1>2, <1>8
<1>10. \A u \in Threads \ {t} : Holds(u) \cap {p, q} = {}
  BY DEF HeapInv, HoldsApart, Holds
<1>11. asked'[p] = 0 /\ p # q
  BY <1>2, <1>5, <1>6
<1>12. QED BY <1>2, <1>3, <1>4, <1>5, <1>6, <1>7, <1>9, <1>10, <1>11

\* No step takes an object from a call, or gives it back to the wrong heap.
LEMMA HeapKeeps ==
  ASSUME HeapInv, Heap!Next
  PROVE  HeapInv'
<1>1. ASSUME NEW t \in Threads, Heap!FreeLook(t) PROVE HeapInv'
  <2>1. heapCall[t].at = "freeLook" /\ UNCHANGED <<blocks, reserved_bytes, low_address, high_address, extent, maker, asked>>
    BY <1>1 DEF Heap!FreeLook, Heap!At, Heap!poolVars, Heap!memoryVars
  <2>2. PICK l \in {"freeLocked", "newlibFree"} : Heap!Go(t, l) /\ (l = "newlibFree" => ~Heap!candidate(heapCall[t].ptr))
    BY <1>1 DEF Heap!FreeLook
  <2>3. heapCall \in [Threads -> HeapCalls] /\ heapCall[t] \in HeapCalls /\ HasObject(t) /\ HasTarget(t)
    BY DEF HeapInv, HeapTypes
  <2>4. /\ heapCall' \in [Threads -> HeapCalls] /\ heapCall'[t].at = l
        /\ heapCall'[t].ptr = heapCall[t].ptr /\ heapCall'[t].size = heapCall[t].size
        /\ heapCall'[t].old = heapCall[t].old /\ heapCall'[t].next = heapCall[t].next
        /\ \A u \in Threads \ {t} : heapCall'[u] = heapCall[u]
    BY <2>2, <2>3, Goes DEF Heap!Places
  <2>a. heapCall[t].ptr \in Heap!Pages /\ extent[heapCall[t].ptr] > 0
    BY <2>1, <2>3 DEF HasObject
  <2>b. l \in {"newlibFree", "newlibRealloc"} => maker[heapCall[t].ptr] = "newlib"
    BY <2>2, <2>a, NotTheKernels
  <2>5. HasObject(t)'
    BY <2>1, <2>2, <2>3, <2>4, <2>a, <2>b DEF HasObject, Growing, Freeing
  <2>6. HasTarget(t)'
    BY <2>1, <2>2, <2>3, <2>4 DEF HasTarget, Freeing, BlockAt, InUse
  <2>7. Holds(t)' = Holds(t)
    BY <2>4 DEF Holds
  <2>8. QED BY <2>1, <2>4, <2>5, <2>6, <2>7, SameObjects
<1>2. ASSUME NEW t \in Threads, Heap!FreeNoBlock(t) PROVE HeapInv'
  <2>1. heapCall[t].at = "freeLocked" /\ UNCHANGED <<blocks, reserved_bytes, low_address, high_address, extent, maker, asked>>
    BY <1>2 DEF Heap!FreeNoBlock, Heap!At, Heap!poolVars, Heap!memoryVars
  <2>2. PICK l \in {"newlibFree"} : Heap!Go(t, l) /\ Heap!find_locked(heapCall[t].ptr) = {}
    BY <1>2 DEF Heap!FreeNoBlock
  <2>3. heapCall \in [Threads -> HeapCalls] /\ heapCall[t] \in HeapCalls /\ HasObject(t) /\ HasTarget(t)
    BY DEF HeapInv, HeapTypes
  <2>4. /\ heapCall' \in [Threads -> HeapCalls] /\ heapCall'[t].at = l
        /\ heapCall'[t].ptr = heapCall[t].ptr /\ heapCall'[t].size = heapCall[t].size
        /\ heapCall'[t].old = heapCall[t].old /\ heapCall'[t].next = heapCall[t].next
        /\ \A u \in Threads \ {t} : heapCall'[u] = heapCall[u]
    BY <2>2, <2>3, Goes DEF Heap!Places
  <2>a. heapCall[t].ptr \in Heap!Pages /\ extent[heapCall[t].ptr] > 0
    BY <2>1, <2>3 DEF HasObject
  <2>b. l \in {"newlibFree", "newlibRealloc"} => maker[heapCall[t].ptr] = "newlib"
    BY <2>2, <2>a, NotTheKernels
  <2>5. HasObject(t)'
    BY <2>1, <2>2, <2>3, <2>4, <2>a, <2>b DEF HasObject, Growing, Freeing
  <2>6. HasTarget(t)'
    BY <2>1, <2>2, <2>3, <2>4 DEF HasTarget, Freeing, BlockAt, InUse
  <2>7. Holds(t)' = Holds(t)
    BY <2>4 DEF Holds
  <2>8. QED BY <2>1, <2>4, <2>5, <2>6, <2>7, SameObjects
<1>3. ASSUME NEW t \in Threads, Heap!Look(t) PROVE HeapInv'
  <2>1. heapCall[t].at = "look" /\ UNCHANGED <<blocks, reserved_bytes, low_address, high_address, extent, maker, asked>>
    BY <1>3 DEF Heap!Look, Heap!At, Heap!poolVars, Heap!memoryVars
  <2>2. PICK l \in {"locked", "newlibRealloc"} : Heap!Go(t, l) /\ (l = "newlibRealloc" => ~Heap!candidate(heapCall[t].ptr))
    BY <1>3 DEF Heap!Look
  <2>3. heapCall \in [Threads -> HeapCalls] /\ heapCall[t] \in HeapCalls /\ HasObject(t) /\ HasTarget(t)
    BY DEF HeapInv, HeapTypes
  <2>4. /\ heapCall' \in [Threads -> HeapCalls] /\ heapCall'[t].at = l
        /\ heapCall'[t].ptr = heapCall[t].ptr /\ heapCall'[t].size = heapCall[t].size
        /\ heapCall'[t].old = heapCall[t].old /\ heapCall'[t].next = heapCall[t].next
        /\ \A u \in Threads \ {t} : heapCall'[u] = heapCall[u]
    BY <2>2, <2>3, Goes DEF Heap!Places
  <2>a. heapCall[t].ptr \in Heap!Pages /\ extent[heapCall[t].ptr] > 0
    BY <2>1, <2>3 DEF HasObject
  <2>b. l \in {"newlibFree", "newlibRealloc"} => maker[heapCall[t].ptr] = "newlib"
    BY <2>2, <2>a, NotTheKernels
  <2>5. HasObject(t)'
    BY <2>1, <2>2, <2>3, <2>4, <2>a, <2>b DEF HasObject, Growing, Freeing
  <2>6. HasTarget(t)'
    BY <2>1, <2>2, <2>3, <2>4 DEF HasTarget, Freeing, BlockAt, InUse
  <2>7. Holds(t)' = Holds(t)
    BY <2>4 DEF Holds
  <2>8. QED BY <2>1, <2>4, <2>5, <2>6, <2>7, SameObjects
<1>4. ASSUME NEW t \in Threads, Heap!NoBlockToResize(t) PROVE HeapInv'
  <2>1. heapCall[t].at = "locked" /\ UNCHANGED <<blocks, reserved_bytes, low_address, high_address, extent, maker, asked>>
    BY <1>4 DEF Heap!NoBlockToResize, Heap!At, Heap!poolVars, Heap!memoryVars
  <2>2. PICK l \in {"newlibRealloc"} : Heap!Go(t, l) /\ Heap!find_locked(heapCall[t].ptr) = {}
    BY <1>4 DEF Heap!NoBlockToResize
  <2>3. heapCall \in [Threads -> HeapCalls] /\ heapCall[t] \in HeapCalls /\ HasObject(t) /\ HasTarget(t)
    BY DEF HeapInv, HeapTypes
  <2>4. /\ heapCall' \in [Threads -> HeapCalls] /\ heapCall'[t].at = l
        /\ heapCall'[t].ptr = heapCall[t].ptr /\ heapCall'[t].size = heapCall[t].size
        /\ heapCall'[t].old = heapCall[t].old /\ heapCall'[t].next = heapCall[t].next
        /\ \A u \in Threads \ {t} : heapCall'[u] = heapCall[u]
    BY <2>2, <2>3, Goes DEF Heap!Places
  <2>a. heapCall[t].ptr \in Heap!Pages /\ extent[heapCall[t].ptr] > 0
    BY <2>1, <2>3 DEF HasObject
  <2>b. l \in {"newlibFree", "newlibRealloc"} => maker[heapCall[t].ptr] = "newlib"
    BY <2>2, <2>a, NotTheKernels
  <2>5. HasObject(t)'
    BY <2>1, <2>2, <2>3, <2>4, <2>a, <2>b DEF HasObject, Growing, Freeing
  <2>6. HasTarget(t)'
    BY <2>1, <2>2, <2>3, <2>4 DEF HasTarget, Freeing, BlockAt, InUse
  <2>7. Holds(t)' = Holds(t)
    BY <2>4 DEF Holds
  <2>8. QED BY <2>1, <2>4, <2>5, <2>6, <2>7, SameObjects
<1>5. ASSUME NEW t \in Threads, Heap!Outgrown(t) PROVE HeapInv'
  <2> DEFINE c == heapCall[t]
  <2>1. c.at = "locked" /\ UNCHANGED <<blocks, reserved_bytes, low_address, high_address, extent, maker, asked>>
    BY <1>5 DEF Heap!Outgrown, Heap!At, Heap!poolVars, Heap!memoryVars
  <2>2. PICK i \in Heap!find_locked(c.ptr) :
          heapCall' = [heapCall EXCEPT ![t].at = "grow", ![t].old = blocks[i].requested]
    BY <1>5 DEF Heap!Outgrown
  <2>3. heapCall \in [Threads -> HeapCalls] /\ heapCall[t] \in HeapCalls /\ HasObject(t) /\ HasTarget(t)
    BY DEF HeapInv, HeapTypes
  <2>4. i \in DOMAIN blocks /\ BlockAt(i, c.ptr) /\ blocks[i] \in Blocks /\ BlockFits(i)
    BY <2>2 DEF Heap!find_locked, BlockAt, InUse, HeapInv, HeapTypes
  <2>5. asked[c.ptr] = blocks[i].requested /\ blocks[i].requested =< 2 * extent[c.ptr]
    BY <2>1, <2>3, <2>4 DEF BlockFits, BlockAt, HasObject, Freeing
  <2>6. blocks[i].requested \in Nat
    BY <2>4 DEF Blocks
  <2>7. /\ heapCall' \in [Threads -> HeapCalls] /\ heapCall'[t].at = "grow"
        /\ heapCall'[t].ptr = c.ptr /\ heapCall'[t].size = c.size
        /\ heapCall'[t].old = blocks[i].requested /\ heapCall'[t].next = c.next
        /\ \A u \in Threads \ {t} : heapCall'[u] = heapCall[u]
    BY <2>2, <2>3, <2>6 DEF HeapCalls, Heap!Places
  <2>8. HasObject(t)'
    BY <2>1, <2>3, <2>5, <2>6, <2>7 DEF HasObject, Growing, Freeing
  <2>9. HasTarget(t)'
    BY <2>1, <2>3, <2>7 DEF HasTarget, Freeing
  <2>10. Holds(t)' = Holds(t)
    BY <2>7 DEF Holds
  <2>11. QED BY <2>1, <2>7, <2>8, <2>9, <2>10, SameObjects
<1>6. ASSUME NEW t \in Threads, Heap!NewlibRefuses(t) PROVE HeapInv'
  <2> DEFINE c == heapCall[t]
  <2>1. c.at = "newlibRealloc" /\ UNCHANGED <<blocks, reserved_bytes, low_address, high_address, extent, maker, asked>>
    BY <1>6 DEF Heap!NewlibRefuses, Heap!At, Heap!poolVars, Heap!memoryVars
  <2>2. heapCall' = [heapCall EXCEPT ![t].at = "fallback", ![t].old = 2 * extent[heapCall[t].ptr]]
    BY <1>6 DEF Heap!NewlibRefuses
  <2>3. heapCall \in [Threads -> HeapCalls] /\ heapCall[t] \in HeapCalls /\ HasObject(t) /\ HasTarget(t)
    BY DEF HeapInv, HeapTypes
  <2>4. c.ptr \in Heap!Pages
    BY <2>1, <2>3 DEF HasObject
  <2>5. 2 * extent[c.ptr] \in Nat /\ asked[c.ptr] =< 2 * extent[c.ptr]
    BY <2>4, HeapAssumption DEF HeapInv, HeapTypes, PageFits
  <2>7. /\ heapCall' \in [Threads -> HeapCalls] /\ heapCall'[t].at = "fallback"
        /\ heapCall'[t].ptr = c.ptr /\ heapCall'[t].size = c.size
        /\ heapCall'[t].old = 2 * extent[c.ptr] /\ heapCall'[t].next = c.next
        /\ \A u \in Threads \ {t} : heapCall'[u] = heapCall[u]
    BY <2>2, <2>3, <2>5 DEF HeapCalls, Heap!Places
  <2>8. HasObject(t)'
    BY <2>1, <2>3, <2>5, <2>7 DEF HasObject, Growing, Freeing
  <2>9. HasTarget(t)'
    BY <2>1, <2>3, <2>7 DEF HasTarget, Freeing
  <2>10. Holds(t)' = Holds(t)
    BY <2>7 DEF Holds
  <2>11. QED BY <2>1, <2>7, <2>8, <2>9, <2>10, SameObjects
<1>7. ASSUME NEW t \in Threads, Heap!FallbackRefuses(t) PROVE HeapInv'
  <2>1. Heap!Return(t) /\ UNCHANGED <<blocks, reserved_bytes, low_address, high_address, extent, maker, asked>>
    BY <1>7
      DEF Heap!FallbackRefuses, Heap!DeliverNull, Heap!At, Heap!poolVars, Heap!memoryVars
  <2>2. heapCall \in [Threads -> HeapCalls]
    BY DEF HeapInv, HeapTypes
  <2>3. /\ heapCall' \in [Threads -> HeapCalls] /\ heapCall'[t].at = "outside"
        /\ heapCall'[t].ptr = 0 /\ heapCall'[t].next = 0
        /\ \A u \in Threads \ {t} : heapCall'[u] = heapCall[u]
    BY <2>1, <2>2, Returns
  <2>4. HasObject(t)' /\ HasTarget(t)' /\ Holds(t)' = {}
    BY <2>3 DEF HasObject, HasTarget, Holds, Growing, Freeing
  <2>5. QED BY <2>1, <2>3, <2>4, OneHeapCall
<1>8. ASSUME NEW t \in Threads, NEW p \in Heap!Pages, NEW size \in Sizes, Heap!Realloc(t, p, size)
      PROVE  HeapInv'
  <2> DEFINE c == heapCall[t]
  <2>1. /\ c.at = "outside" /\ asked[p] > 0 /\ \A u \in Threads : heapCall[u].ptr # p
        /\ heapCall' = [heapCall EXCEPT ![t].at = "look", ![t].ptr = p, ![t].size = size]
        /\ UNCHANGED <<blocks, reserved_bytes, low_address, high_address, extent, maker, asked>>
    BY <1>8 DEF Heap!Realloc, Heap!At, Heap!poolVars, Heap!memoryVars
  <2>2. heapCall \in [Threads -> HeapCalls] /\ heapCall[t] \in HeapCalls /\ HasObject(t) /\ HasTarget(t)
    BY DEF HeapInv, HeapTypes
  <2>3. p \in Nat /\ p # 0 /\ size \in Nat /\ c.next = 0
    BY <2>1, <2>2, Halves, HeapAssumption DEF Heap!Pages, HasTarget, Freeing
  <2>4. extent[p] > 0
    BY <2>1, HeapAssumption DEF HeapInv, HeapTypes, PageFits
  <2>5. \A u \in Threads : p \notin Holds(u)
    BY <2>1 DEF HeapInv, HasTarget, Holds
  <2>6. /\ heapCall' \in [Threads -> HeapCalls] /\ heapCall'[t].at = "look"
        /\ heapCall'[t].ptr = p /\ heapCall'[t].size = size /\ heapCall'[t].next = 0
        /\ \A u \in Threads \ {t} : heapCall'[u] = heapCall[u]
    BY <2>1, <2>2, <2>3 DEF HeapCalls, Heap!Places
  <2>7. HasObject(t)' /\ HasTarget(t)'
    BY <2>1, <2>3, <2>4, <2>6 DEF HasObject, HasTarget, Growing, Freeing
  <2>8. Holds(t)' = {p}
    BY <2>3, <2>6 DEF Holds
  <2>9. QED BY <2>1, <2>5, <2>6, <2>7, <2>8, OneHeapCall
<1>9. ASSUME NEW t \in Threads, NEW size \in Sizes, Heap!Malloc(t, size) PROVE HeapInv'
  <2>1. heapCall[t].at = "outside" /\ UNCHANGED <<blocks, reserved_bytes, low_address, high_address>>
    BY <1>9 DEF Heap!Malloc, Heap!At, Heap!poolVars, Heap!memoryVars
  <2>2. heapCall \in [Threads -> HeapCalls] /\ heapCall[t] \in HeapCalls /\ HasObject(t) /\ HasTarget(t)
    BY DEF HeapInv, HeapTypes
  <2>3. CASE heapCall' = [heapCall EXCEPT ![t].at = "fallback", ![t].size = size] /\ UNCHANGED <<blocks, reserved_bytes, low_address, high_address, extent, maker, asked>>
    <3>a. size \in Nat
      BY HeapAssumption
    <3>1. /\ heapCall' \in [Threads -> HeapCalls] /\ heapCall'[t].at = "fallback"
          /\ heapCall'[t].ptr = heapCall[t].ptr /\ heapCall'[t].size = size
          /\ heapCall'[t].next = heapCall[t].next
          /\ \A u \in Threads \ {t} : heapCall'[u] = heapCall[u]
      BY <2>2, <2>3, <3>a DEF HeapCalls, Heap!Places
    <3>2. HasObject(t)' /\ HasTarget(t)' /\ Holds(t)' = Holds(t)
      BY <2>1, <2>2, <3>1 DEF HasObject, HasTarget, Holds, Growing, Freeing
    <3>3. QED BY <2>3, <3>1, <3>2, SameObjects
  <2> DEFINE n == Heap!PagesFor(size)
  <2>4. CASE \E p \in Heap!Room(n) :
               /\ Heap!Allocated(p, n, "newlib") /\ asked' = [asked EXCEPT ![p] = size]
               /\ UNCHANGED heapCall
    <3> HIDE DEF n
    <3>1. PICK p \in Heap!Room(n) :
            /\ Heap!Allocated(p, n, "newlib") /\ asked' = [asked EXCEPT ![p] = size]
            /\ UNCHANGED heapCall
      BY <2>4
    <3>2. /\ p \in Heap!Pages /\ n \in 1 .. PageCount /\ size =< 2 * n /\ size \in 1 .. 2 * PageCount
          /\ \A i \in DOMAIN blocks : ~BlockAt(i, p)
          /\ \A u \in Threads : p \notin Holds(u)
      BY <3>1, RoomFacts DEF n
    <3> DEFINE T == {p}
    <3>3. /\ HeapTypes' /\ BlocksApart'
          /\ extent'[p] = n /\ maker'[p] = "newlib" /\ asked'[p] = size
          /\ \A q \in Heap!Pages \ T : extent'[q] = extent[q] /\ maker'[q] = maker[q] /\ asked'[q] = asked[q]
      BY <2>1, <3>1, <3>2 DEF HeapInv, HeapTypes, BlocksApart, InUse, Heap!Allocated
    <3>4. \A q \in Heap!Pages : Heap!candidate(q) => Heap!candidate(q)'
      BY <2>1 DEF Heap!candidate
    <3>5. \A q \in Heap!Pages \cap T : PageFits(q)'
      BY <3>2, <3>3 DEF PageFits
    <3>6. \A i \in DOMAIN blocks : blocks'[i] = blocks[i] /\ (InUse(i) => blocks[i].ptr \notin T)
      BY <2>1, <3>2 DEF BlockAt
    <3>7. HasObject(t)' /\ HasTarget(t)'
      BY <2>1, <3>1, <3>2, <3>3, OtherCalls DEF HeapInv, HasObject, HasTarget, Holds
    <3>8. Holds(t)' = Holds(t) /\ \A u \in Threads : Holds(u) \cap T = {}
      BY <3>1, <3>2 DEF Holds
    <3> HIDE DEF T
    <3>9. QED BY <3>1, <3>3, <3>4, <3>5, <3>6, <3>7, <3>8, HeapStep DEF InUse
  <2>5. QED BY <1>9, <2>1, <2>3, <2>4 DEF Heap!Malloc, Heap!memoryVars
<1>10. ASSUME NEW t \in Threads, NEW p \in Heap!Pages, Heap!Free(t, p) PROVE HeapInv'
  <2>1. /\ heapCall[t].at = "outside" /\ asked[p] > 0 /\ \A u \in Threads : heapCall[u].ptr # p
        /\ asked' = [asked EXCEPT ![p] = 0]
        /\ heapCall' = [heapCall EXCEPT ![t].at = "freeLook", ![t].ptr = p]
        /\ UNCHANGED <<blocks, reserved_bytes, low_address, high_address, extent, maker>>
    BY <1>10 DEF Heap!Free, Heap!At, Heap!poolVars, Heap!memoryVars
  <2>2. heapCall \in [Threads -> HeapCalls] /\ heapCall[t] \in HeapCalls /\ HasObject(t) /\ HasTarget(t)
    BY DEF HeapInv, HeapTypes
  <2>3. p \in Nat /\ p # 0 /\ heapCall[t].next = 0
    BY <2>1, <2>2, HeapAssumption DEF Heap!Pages, HasTarget, Freeing
  <2>4. extent[p] > 0 /\ asked[p] =< 2 * extent[p] /\ extent[p] \in 0 .. PageCount
    BY <2>1, HeapAssumption DEF HeapInv, HeapTypes, PageFits
  <2>5. \A u \in Threads : p \notin Holds(u)
    BY <2>1 DEF HeapInv, HasTarget, Holds
  <2>6. /\ heapCall' \in [Threads -> HeapCalls] /\ heapCall'[t].at = "freeLook"
        /\ heapCall'[t].ptr = p /\ heapCall'[t].next = 0
        /\ \A u \in Threads \ {t} : heapCall'[u] = heapCall[u]
    BY <2>1, <2>2, <2>3 DEF HeapCalls, Heap!Places
  <2> DEFINE T == {p}
  <2>7. /\ HeapTypes' /\ BlocksApart' /\ asked'[p] = 0
        /\ \A q \in Heap!Pages \ T : extent'[q] = extent[q] /\ maker'[q] = maker[q] /\ asked'[q] = asked[q]
    <3>1. 0 \in 0 .. 2 * PageCount /\ asked \in [Heap!Pages -> 0 .. 2 * PageCount]
      BY HeapAssumption DEF HeapInv, HeapTypes
    <3>2. /\ asked' \in [Heap!Pages -> 0 .. 2 * PageCount] /\ asked'[p] = 0
          /\ \A q \in Heap!Pages \ T : asked'[q] = asked[q]
      BY <2>1, <3>1
    <3>3. HeapTypes'
      BY <2>1, <2>6, <3>2 DEF HeapInv, HeapTypes
    <3>4. BlocksApart'
      BY <2>1 DEF HeapInv, BlocksApart, InUse
    <3>5. QED BY <2>1, <3>2, <3>3, <3>4
  <2>8. HasObject(t)' /\ HasTarget(t)'
    BY <2>1, <2>3, <2>4, <2>6, <2>7 DEF HasObject, HasTarget, Growing, Freeing
  <2>9. Holds(t)' = T /\ \A u \in Threads : Holds(u) \cap T = {}
    BY <2>3, <2>5, <2>6 DEF Holds
  <2>10. \A q \in Heap!Pages : Heap!candidate(q) => Heap!candidate(q)'
    BY <2>1 DEF Heap!candidate
  <2>11. \A q \in Heap!Pages \cap T : PageFits(q)'
    BY <2>1, <2>4, <2>7 DEF HeapInv, PageFits, BlockAt, InUse, Heap!candidate
  <2>12. \A i \in DOMAIN blocks : blocks'[i] = blocks[i] /\ (InUse(i)' /\ blocks'[i].ptr \in T => BlockFits(i)')
    BY <2>1, <2>7 DEF HeapInv, BlockFits, InUse
  <2> HIDE DEF T
  <2>13. QED BY <2>6, <2>7, <2>8, <2>9, <2>10, <2>11, <2>12, HeapStep DEF InUse
<1>11. ASSUME NEW t \in Threads, Heap!FreeBlock(t) PROVE HeapInv'
  <2>0. PICK p, q : p = heapCall[t].ptr /\ q = heapCall[t].next
    OBVIOUS
  <2> DEFINE T == {p, q}
  <2>1. heapCall[t].at \in Freeing /\ Heap!Freed(t) /\ heapCall[t].at = "freeLocked"
    BY <1>11 DEF Heap!FreeBlock, Heap!At, Freeing
  <2>2. heapCall \in [Threads -> HeapCalls] /\ heapCall[t] \in HeapCalls /\ HasObject(t) /\ HasTarget(t)
    BY DEF HeapInv, HeapTypes
  <2>3. /\ heapCall' \in [Threads -> HeapCalls]
        /\ \A u \in Threads \ {t} : heapCall'[u] = heapCall[u] /\ Holds(u) \cap T = {}
        /\ HasObject(t)' /\ HasTarget(t)' /\ Holds(t)' = {}
        /\ asked' \in [Heap!Pages -> 0 .. 2 * PageCount]
        /\ \A r \in Heap!Pages \ T : asked'[r] = asked[r]
        /\ p \in Heap!Pages /\ p # q /\ extent[p] > 0 /\ asked'[p] = 0
        /\ q \in Heap!Pages => asked'[q] =< 2 * extent[q] /\ extent[q] > 0
        /\ q \in Heap!Pages => \A i \in DOMAIN blocks : BlockAt(i, q) => blocks[i].requested = asked'[q]
    BY <2>0, <2>1, Frees
  <2>a. PICK i \in Heap!find_locked(p) :
          /\ reserved_bytes' = reserved_bytes - blocks[i].bytes
          /\ blocks' = [blocks EXCEPT ![i] = Absent]
    BY <1>11, <2>0 DEF Heap!FreeBlock
  <2>b. /\ extent' = [extent EXCEPT ![p] = 0] /\ maker' = [maker EXCEPT ![p] = "none"]
        /\ UNCHANGED <<low_address, high_address>>
    BY <1>11, <2>0 DEF Heap!FreeBlock, Heap!GiveUp
  <2>c. /\ i \in DOMAIN blocks /\ InUse(i) /\ blocks[i].ptr = p /\ blocks[i].bytes \in Nat
        /\ \A j \in DOMAIN blocks \ {i} : blocks'[j] = blocks[j] /\ ~BlockAt(j, p)
        /\ ~InUse(i)' /\ DOMAIN blocks' = DOMAIN blocks
    BY <2>a DEF Heap!find_locked, InUse, BlockAt, BlocksApart, HeapInv, HeapTypes, Blocks
  <2>4. HeapTypes'
    <3>1. reserved_bytes' \in Int /\ reserved_bytes' =< FALLBACK_BUDGET
      BY <2>a, <2>c, HeapAssumption DEF HeapInv, HeapTypes
    <3>2. blocks' \in [1 .. FALLBACK_SLOTS -> Blocks \cup {Absent}]
      BY <2>a DEF HeapInv, HeapTypes
    <3>3. QED BY <2>3, <2>b, <3>1, <3>2, HeapAssumption DEF HeapInv, HeapTypes
  <2>5. BlocksApart'
    BY <2>c DEF HeapInv, BlocksApart, InUse
  <2>6. \A r \in Heap!Pages \ T :
          /\ extent'[r] = extent[r] /\ maker'[r] = maker[r] /\ asked'[r] = asked[r]
          /\ Heap!candidate(r) => Heap!candidate(r)'
    BY <2>3, <2>b DEF HeapInv, HeapTypes, Heap!candidate
  <2>7. \A r \in Heap!Pages \cap T : PageFits(r)'
    <3>1. PageFits(p)'
      BY <2>3, <2>b, HeapAssumption DEF HeapInv, HeapTypes, PageFits
    <3>2. ASSUME q \in Heap!Pages PROVE PageFits(q)'
      <4>1. PageFits(q) /\ extent'[q] = extent[q] /\ maker'[q] = maker[q]
            /\ (Heap!candidate(q) => Heap!candidate(q)')
        BY <2>3, <2>b, <3>2 DEF HeapInv, HeapTypes, Heap!candidate
      <4>2. \A j \in DOMAIN blocks : BlockAt(j, q) => BlockAt(j, q)'
        BY <2>3, <2>c DEF BlockAt, InUse
      <4>3. QED BY <2>3, <2>c, <3>2, <4>1, <4>2 DEF PageFits
    <3>3. QED BY <3>1, <3>2
  <2>8. \A j \in DOMAIN blocks :
          /\ InUse(j) /\ blocks[j].ptr \notin T => blocks'[j] = blocks[j]
          /\ InUse(j)' /\ blocks'[j].ptr \notin T => blocks'[j] = blocks[j]
          /\ InUse(j)' /\ blocks'[j].ptr \in T => BlockFits(j)'
    <3>1. ASSUME NEW j \in DOMAIN blocks, InUse(j)', blocks'[j].ptr \in T
          PROVE  BlockFits(j)'
      <4>1. j # i /\ blocks'[j] = blocks[j] /\ InUse(j) /\ blocks[j].ptr = q /\ q \in Heap!Pages
        BY <2>c, <3>1 DEF InUse, BlockAt, HeapInv, BlockFits
      <4>2. extent'[q] = extent[q] /\ maker'[q] = maker[q]
        BY <2>3, <2>b, <4>1 DEF HeapInv, HeapTypes
      <4>3. asked'[q] = blocks[j].requested
        BY <2>3, <4>1 DEF BlockAt
      <4>4. QED BY <4>1, <4>2, <4>3 DEF HeapInv, BlockFits, InUse
    <3>2. QED BY <2>c, <3>1
  <2> HIDE DEF T
  <2>10. QED BY <2>3, <2>4, <2>5, <2>6, <2>7, <2>8, HeapStep
<1>12. ASSUME NEW t \in Threads, Heap!FreeRefused(t) PROVE HeapInv'
  <2>0. PICK p, q : p = heapCall[t].ptr /\ q = heapCall[t].next
    OBVIOUS
  <2> DEFINE T == {p, q}
  <2>1. heapCall[t].at \in Freeing /\ Heap!Freed(t) /\ heapCall[t].at = "freeLocked"
    BY <1>12 DEF Heap!FreeRefused, Heap!At, Freeing
  <2>2. heapCall \in [Threads -> HeapCalls] /\ heapCall[t] \in HeapCalls /\ HasObject(t) /\ HasTarget(t)
    BY DEF HeapInv, HeapTypes
  <2>3. /\ heapCall' \in [Threads -> HeapCalls]
        /\ \A u \in Threads \ {t} : heapCall'[u] = heapCall[u] /\ Holds(u) \cap T = {}
        /\ HasObject(t)' /\ HasTarget(t)' /\ Holds(t)' = {}
        /\ asked' \in [Heap!Pages -> 0 .. 2 * PageCount]
        /\ \A r \in Heap!Pages \ T : asked'[r] = asked[r]
        /\ p \in Heap!Pages /\ p # q /\ extent[p] > 0 /\ asked'[p] = 0
        /\ q \in Heap!Pages => asked'[q] =< 2 * extent[q] /\ extent[q] > 0
        /\ q \in Heap!Pages => \A i \in DOMAIN blocks : BlockAt(i, q) => blocks[i].requested = asked'[q]
    BY <2>0, <2>1, Frees
  <2>a. UNCHANGED <<blocks, reserved_bytes, low_address, high_address, extent, maker>>
    BY <1>12 DEF Heap!FreeRefused, Heap!At, Heap!poolVars, Heap!memoryVars
  <2>4. HeapTypes'
    BY <2>3, <2>a DEF HeapInv, HeapTypes
  <2>5. BlocksApart'
    BY <2>a DEF HeapInv, BlocksApart, InUse
  <2>6. \A r \in Heap!Pages \ T :
          /\ extent'[r] = extent[r] /\ maker'[r] = maker[r] /\ asked'[r] = asked[r]
          /\ Heap!candidate(r) => Heap!candidate(r)'
    BY <2>3, <2>a DEF Heap!candidate
  <2>7. \A r \in Heap!Pages \cap T : PageFits(r)'
    <3>1. \A r \in Heap!Pages \cap T : asked'[r] =< 2 * extent[r]
      BY <2>3, HeapAssumption DEF HeapInv, HeapTypes
    <3>2. QED BY <2>a, <3>1 DEF HeapInv, PageFits, BlockAt, InUse, Heap!candidate
  <2>8. \A j \in DOMAIN blocks :
          /\ InUse(j) /\ blocks[j].ptr \notin T => blocks'[j] = blocks[j]
          /\ InUse(j)' /\ blocks'[j].ptr \notin T => blocks'[j] = blocks[j]
          /\ InUse(j)' /\ blocks'[j].ptr \in T => BlockFits(j)'
    <3>1. ASSUME NEW j \in DOMAIN blocks, InUse(j), blocks[j].ptr \in T PROVE BlockFits(j)'
      <4>1. BlockFits(j) /\ blocks[j].ptr \in Heap!Pages
        BY <3>1 DEF HeapInv, BlockFits
      <4>2. asked'[blocks[j].ptr] \in {0, blocks[j].requested}
        BY <2>3, <3>1, <4>1 DEF BlockAt
      <4>3. QED BY <2>a, <4>1, <4>2 DEF BlockFits, InUse
    <3>2. QED BY <2>a, <3>1 DEF InUse
  <2> HIDE DEF T
  <2>10. QED BY <2>3, <2>4, <2>5, <2>6, <2>7, <2>8, HeapStep
<1>13. ASSUME NEW t \in Threads, Heap!NewlibFree(t) PROVE HeapInv'
  <2>0. PICK p, q : p = heapCall[t].ptr /\ q = heapCall[t].next
    OBVIOUS
  <2> DEFINE T == {p, q}
  <2>1. heapCall[t].at \in Freeing /\ Heap!Freed(t) /\ heapCall[t].at = "newlibFree"
    BY <1>13 DEF Heap!NewlibFree, Heap!At, Freeing
  <2>2. heapCall \in [Threads -> HeapCalls] /\ heapCall[t] \in HeapCalls /\ HasObject(t) /\ HasTarget(t)
    BY DEF HeapInv, HeapTypes
  <2>3. /\ heapCall' \in [Threads -> HeapCalls]
        /\ \A u \in Threads \ {t} : heapCall'[u] = heapCall[u] /\ Holds(u) \cap T = {}
        /\ HasObject(t)' /\ HasTarget(t)' /\ Holds(t)' = {}
        /\ asked' \in [Heap!Pages -> 0 .. 2 * PageCount]
        /\ \A r \in Heap!Pages \ T : asked'[r] = asked[r]
        /\ p \in Heap!Pages /\ p # q /\ extent[p] > 0 /\ asked'[p] = 0
        /\ q \in Heap!Pages => asked'[q] =< 2 * extent[q] /\ extent[q] > 0
        /\ q \in Heap!Pages => \A i \in DOMAIN blocks : BlockAt(i, q) => blocks[i].requested = asked'[q]
    BY <2>0, <2>1, Frees
  <2>a. /\ extent' = [extent EXCEPT ![p] = 0] /\ maker' = [maker EXCEPT ![p] = "none"]
        /\ UNCHANGED <<blocks, reserved_bytes, low_address, high_address>>
    BY <1>13, <2>0 DEF Heap!NewlibFree, Heap!GiveUp, Heap!At, Heap!poolVars, Heap!memoryVars
  <2>b. maker[p] = "newlib" /\ \A j \in DOMAIN blocks : ~BlockAt(j, p)
    BY <2>0, <2>1, <2>2 DEF HasObject, HeapInv, BlockFits, BlockAt
  <2>4. HeapTypes'
    BY <2>3, <2>a, HeapAssumption DEF HeapInv, HeapTypes
  <2>5. BlocksApart'
    BY <2>a DEF HeapInv, BlocksApart, InUse
  <2>6. \A r \in Heap!Pages \ T :
          /\ extent'[r] = extent[r] /\ maker'[r] = maker[r] /\ asked'[r] = asked[r]
          /\ Heap!candidate(r) => Heap!candidate(r)'
    BY <2>3, <2>a DEF HeapInv, HeapTypes, Heap!candidate
  <2>7. \A r \in Heap!Pages \cap T : PageFits(r)'
    <3>1. PageFits(p)'
      BY <2>3, <2>a, HeapAssumption DEF HeapInv, HeapTypes, PageFits
    <3>2. ASSUME q \in Heap!Pages PROVE PageFits(q)'
      <4>1. PageFits(q) /\ extent'[q] = extent[q] /\ maker'[q] = maker[q]
            /\ (Heap!candidate(q) => Heap!candidate(q)')
        BY <2>3, <2>a, <3>2 DEF HeapInv, HeapTypes, Heap!candidate
      <4>2. QED BY <2>3, <2>a, <3>2, <4>1 DEF PageFits, BlockAt, InUse
    <3>3. QED BY <3>1, <3>2
  <2>8. \A j \in DOMAIN blocks :
          /\ InUse(j) /\ blocks[j].ptr \notin T => blocks'[j] = blocks[j]
          /\ InUse(j)' /\ blocks'[j].ptr \notin T => blocks'[j] = blocks[j]
          /\ InUse(j)' /\ blocks'[j].ptr \in T => BlockFits(j)'
    <3>1. ASSUME NEW j \in DOMAIN blocks, InUse(j), blocks[j].ptr \in T PROVE BlockFits(j)'
      <4>1. BlockFits(j) /\ blocks[j].ptr = q /\ q \in Heap!Pages
        BY <2>b, <3>1 DEF HeapInv, BlockFits, BlockAt
      <4>2. asked'[q] = blocks[j].requested /\ extent'[q] = extent[q] /\ maker'[q] = maker[q]
        BY <2>3, <2>a, <3>1, <4>1 DEF BlockAt, HeapInv, HeapTypes
      <4>3. QED BY <2>a, <4>1, <4>2 DEF BlockFits, InUse
    <3>2. QED BY <2>a, <3>1 DEF InUse
  <2> HIDE DEF T
  <2>10. QED BY <2>3, <2>4, <2>5, <2>6, <2>7, <2>8, HeapStep
<1>14. ASSUME NEW t \in Threads, Heap!Copy(t) PROVE HeapInv'
  <2>0. PICK p : p = heapCall[t].ptr
    OBVIOUS
  <2> DEFINE T == {p}
  <2>1. /\ heapCall[t].at = "copy" /\ Heap!Go(t, "freeLook") /\ asked' = [asked EXCEPT ![p] = 0]
        /\ UNCHANGED <<blocks, reserved_bytes, low_address, high_address, extent, maker>>
    BY <1>14, <2>0 DEF Heap!Copy, Heap!At, Heap!poolVars, Heap!memoryVars
  <2>2. heapCall \in [Threads -> HeapCalls] /\ heapCall[t] \in HeapCalls /\ HasObject(t) /\ HasTarget(t)
    BY DEF HeapInv, HeapTypes
  <2>3. /\ heapCall' \in [Threads -> HeapCalls] /\ heapCall'[t].at = "freeLook"
        /\ heapCall'[t].ptr = heapCall[t].ptr /\ heapCall'[t].size = heapCall[t].size
        /\ heapCall'[t].old = heapCall[t].old /\ heapCall'[t].next = heapCall[t].next
        /\ \A u \in Threads \ {t} : heapCall'[u] = heapCall[u]
    BY <2>1, <2>2, Goes DEF Heap!Places
  <2>4. p # 0 /\ p \in Heap!Pages /\ extent[p] > 0 /\ asked[p] > 0
    BY <2>0, <2>1, <2>2 DEF HasObject, Freeing
  <2>5. 0 \in 0 .. 2 * PageCount /\ asked \in [Heap!Pages -> 0 .. 2 * PageCount]
        /\ extent \in [Heap!Pages -> 0 .. PageCount]
    BY HeapAssumption DEF HeapInv, HeapTypes
  <2>6. /\ asked' \in [Heap!Pages -> 0 .. 2 * PageCount] /\ asked'[p] = 0
        /\ \A q \in Heap!Pages \ T : asked'[q] = asked[q]
    BY <2>1, <2>4, <2>5
  <2>7. HeapTypes' /\ BlocksApart'
    BY <2>1, <2>3, <2>6 DEF HeapInv, HeapTypes, BlocksApart, InUse
  <2>8. HasObject(t)'
    BY <2>0, <2>1, <2>2, <2>3, <2>4, <2>6 DEF HasObject, Growing, Freeing
  <2>9. HasTarget(t)'
    BY <2>0, <2>1, <2>2, <2>3, <2>6 DEF HasTarget, Freeing, BlockAt, InUse
  <2>10. Holds(t)' = Holds(t) /\ \A u \in Threads \ {t} : Holds(u) \cap T = {}
    BY <2>0, <2>3, <2>4 DEF Holds, HeapInv, HoldsApart
  <2>11. \A q \in Heap!Pages : Heap!candidate(q) => Heap!candidate(q)'
    BY <2>1 DEF Heap!candidate
  <2>12. \A q \in Heap!Pages \cap T : PageFits(q)'
    <3>1. asked'[p] =< 2 * extent[p]
      BY <2>4, <2>5, <2>6, HeapAssumption
    <3>2. QED BY <2>1, <2>4, <3>1 DEF HeapInv, PageFits, BlockAt, InUse, Heap!candidate
  <2>13. \A i \in DOMAIN blocks : blocks'[i] = blocks[i] /\ (InUse(i)' /\ blocks'[i].ptr \in T => BlockFits(i)')
    BY <2>1, <2>6 DEF HeapInv, BlockFits, InUse
  <2> HIDE DEF T
  <2>14. QED BY <2>1, <2>3, <2>6, <2>7, <2>8, <2>9, <2>10, <2>11, <2>12, <2>13, HeapStep
    DEF InUse
<1>15. ASSUME NEW t \in Threads, Heap!ResizeInPlace(t) PROVE HeapInv'
  <2>0. PICK p, size : p = heapCall[t].ptr /\ size = heapCall[t].size
    OBVIOUS
  <2> DEFINE T == {p}
  <2>1. /\ heapCall[t].at = "locked" /\ Heap!Return(t) /\ asked' = [asked EXCEPT ![p] = size]
        /\ UNCHANGED <<reserved_bytes, low_address, high_address, extent, maker>>
    BY <1>15, <2>0 DEF Heap!ResizeInPlace, Heap!At, Heap!poolVars, Heap!memoryVars
  <2>2. PICK i \in Heap!find_locked(p) :
          size =< blocks[i].bytes /\ blocks' = [blocks EXCEPT ![i].requested = size]
    BY <1>15, <2>0 DEF Heap!ResizeInPlace
  <2>3. heapCall \in [Threads -> HeapCalls] /\ heapCall[t] \in HeapCalls /\ HasObject(t) /\ HasTarget(t)
    BY DEF HeapInv, HeapTypes
  <2>4. /\ heapCall' \in [Threads -> HeapCalls] /\ heapCall'[t].at = "outside"
        /\ heapCall'[t].ptr = 0 /\ heapCall'[t].next = 0
        /\ \A u \in Threads \ {t} : heapCall'[u] = heapCall[u]
    BY <2>1, <2>3, Returns
  <2>5. p # 0 /\ p \in Heap!Pages /\ extent[p] > 0 /\ size \in Sizes
    BY <2>0, <2>1, <2>3 DEF HasObject, Freeing
  <2>6. size \in 0 .. 2 * PageCount /\ size \in Nat
    BY <2>5, HeapAssumption
  <2>7. /\ asked' \in [Heap!Pages -> 0 .. 2 * PageCount] /\ asked'[p] = size
        /\ \A q \in Heap!Pages \ T : asked'[q] = asked[q]
    BY <2>1, <2>5, <2>6 DEF HeapInv, HeapTypes
  <2>8. /\ i \in DOMAIN blocks /\ InUse(i) /\ blocks[i].ptr = p /\ blocks[i] \in Blocks /\ BlockFits(i)
        /\ \A j \in DOMAIN blocks : BlockAt(j, p) => j = i
    BY <2>2 DEF Heap!find_locked, InUse, BlockAt, BlocksApart, HeapInv, HeapTypes
  <2>9. [blocks[i] EXCEPT !.requested = size] \in Blocks
    BY <2>6, <2>8 DEF Blocks
  <2>10. /\ blocks' \in [1 .. FALLBACK_SLOTS -> Blocks \cup {Absent}]
         /\ \A j \in DOMAIN blocks \ {i} : blocks'[j] = blocks[j]
         /\ blocks'[i].ptr = p /\ blocks'[i].bytes = blocks[i].bytes /\ blocks'[i].requested = size
         /\ blocks'[i] \in Blocks
    BY <2>2, <2>8, <2>9 DEF HeapInv, HeapTypes, Blocks
  <2>11. InUse(i)'
    BY <2>10, HeapAssumption DEF InUse, Blocks
  <2>12. HeapTypes'
    BY <2>1, <2>4, <2>7, <2>10 DEF HeapInv, HeapTypes
  <2>13. BlocksApart'
    BY <2>2, <2>8, <2>10 DEF HeapInv, HeapTypes, BlocksApart, InUse
  <2>14. HasObject(t)' /\ HasTarget(t)' /\ Holds(t)' = {}
    BY <2>4 DEF HasObject, HasTarget, Holds, Growing, Freeing
  <2>15. \A u \in Threads \ {t} : Holds(u) \cap T = {}
    BY <2>0, <2>5 DEF Holds, HeapInv, HoldsApart
  <2>16. \A q \in Heap!Pages : Heap!candidate(q) => Heap!candidate(q)'
    BY <2>1 DEF Heap!candidate
  <2>17. BlockFits(i)' /\ size =< 2 * extent[p]
    BY <2>1, <2>2, <2>7, <2>8, <2>10 DEF BlockFits, InUse
  <2>18. PageFits(p)'
    <3>1. PageFits(p) /\ (Heap!candidate(p) => Heap!candidate(p)')
      BY <2>5, <2>16 DEF HeapInv
    <3>2. BlockAt(i, p)' /\ i \in DOMAIN blocks'
      BY <2>8, <2>10, <2>11 DEF BlockAt, HeapInv, HeapTypes
    <3>3. QED BY <2>1, <2>7, <2>17, <3>1, <3>2 DEF PageFits
  <2>19. \A j \in DOMAIN blocks :
           /\ InUse(j) /\ blocks[j].ptr \notin T => blocks'[j] = blocks[j]
           /\ InUse(j)' /\ blocks'[j].ptr \notin T => blocks'[j] = blocks[j]
           /\ InUse(j)' /\ blocks'[j].ptr \in T => BlockFits(j)'
    BY <2>8, <2>10, <2>17 DEF InUse, BlockAt
  <2>20. \A q \in Heap!Pages \cap T : PageFits(q)'
    BY <2>18
  <2> HIDE DEF T
  <2>21. QED BY <2>1, <2>4, <2>7, <2>12, <2>13, <2>14, <2>15, <2>16, <2>19, <2>20, HeapStep
<1>16. ASSUME NEW t \in Threads, Heap!NewlibReallocates(t) PROVE HeapInv'
  <2>0. PICK r, size, n : r = heapCall[t].ptr /\ size = heapCall[t].size /\ n = Heap!PagesFor(size)
    OBVIOUS
  <2>1. /\ heapCall[t].at = "newlibRealloc" /\ Heap!Return(t)
        /\ UNCHANGED <<blocks, reserved_bytes, low_address, high_address>>
    BY <1>16 DEF Heap!NewlibReallocates, Heap!At, Heap!poolVars, Heap!memoryVars
  <2>2. PICK p \in Heap!Room(n) \cup {q \in {r} : n =< extent[q]} :
          /\ extent' = [extent EXCEPT ![r] = 0, ![p] = n]
          /\ maker' = [maker EXCEPT ![r] = "none", ![p] = "newlib"]
          /\ asked' = [asked EXCEPT ![r] = 0, ![p] = size]
    BY <1>16, <2>0 DEF Heap!NewlibReallocates
  <2> DEFINE T == {p, r}
  <2>3. heapCall \in [Threads -> HeapCalls] /\ heapCall[t] \in HeapCalls /\ HasObject(t) /\ HasTarget(t)
    BY DEF HeapInv, HeapTypes
  <2>4. /\ heapCall' \in [Threads -> HeapCalls] /\ heapCall'[t].at = "outside"
        /\ heapCall'[t].ptr = 0 /\ heapCall'[t].next = 0
        /\ \A u \in Threads \ {t} : heapCall'[u] = heapCall[u]
    BY <2>1, <2>3, Returns
  <2>5. r # 0 /\ r \in Heap!Pages /\ size \in Sizes /\ maker[r] = "newlib" /\ r \in Holds(t)
    BY <2>0, <2>1, <2>3 DEF HasObject, Freeing, Holds
  <2>6. n \in Nat /\ n >= 1 /\ size =< 2 * n /\ size \in 1 .. 2 * PageCount
    BY <2>0, <2>5, Halves
  <2>7. /\ p \in Heap!Pages /\ n \in 1 .. PageCount /\ \A j \in DOMAIN blocks : ~BlockAt(j, p)
        /\ \A u \in Threads \ {t} : p \notin Holds(u)
    <3>1. CASE p \in Heap!Room(n)
      BY <2>0, <2>5, <3>1, RoomFacts
    <3>2. CASE p = r /\ n =< extent[r]
      <4>1. extent[r] \in 0 .. PageCount /\ PageCount \in Nat
        BY <2>5, HeapAssumption DEF HeapInv, HeapTypes
      <4>2. \A j \in DOMAIN blocks : ~BlockAt(j, r)
        BY <2>5 DEF HeapInv, BlockFits, BlockAt
      <4>3. \A u \in Threads \ {t} : r \notin Holds(u)
        BY <2>5 DEF HeapInv, HoldsApart
      <4>4. QED BY <2>5, <2>6, <3>2, <4>1, <4>2, <4>3
    <3>3. QED BY <2>2, <3>1, <3>2
  <2>8. \A j \in DOMAIN blocks : InUse(j) => blocks[j].ptr \notin T
    BY <2>5, <2>7 DEF HeapInv, BlockFits, BlockAt
  <2>9. \A u \in Threads \ {t} : Holds(u) \cap T = {}
    BY <2>5, <2>7 DEF HeapInv, HoldsApart
  <2>10. /\ extent' \in [Heap!Pages -> 0 .. PageCount] /\ extent'[p] = n /\ (r # p => extent'[r] = 0)
         /\ \A q \in Heap!Pages \ T : extent'[q] = extent[q]
    BY <2>2, <2>5, <2>7, HeapAssumption DEF HeapInv, HeapTypes
  <2>11. /\ maker' \in [Heap!Pages -> {"newlib", "kernel", "none"}] /\ maker'[p] = "newlib"
         /\ (r # p => maker'[r] = "none") /\ \A q \in Heap!Pages \ T : maker'[q] = maker[q]
    BY <2>2, <2>5, <2>7 DEF HeapInv, HeapTypes
  <2>a. PageCount \in Nat /\ 2 * PageCount \in Nat /\ asked \in [Heap!Pages -> 0 .. 2 * PageCount]
    BY HeapAssumption DEF HeapInv, HeapTypes
  <2>b. size \in 0 .. 2 * PageCount BY <2>5, <2>6, <2>a
  <2>12. /\ asked' \in [Heap!Pages -> 0 .. 2 * PageCount] /\ asked'[p] = size /\ (r # p => asked'[r] = 0)
         /\ \A q \in Heap!Pages \ T : asked'[q] = asked[q]
    BY <2>2, <2>5, <2>7, <2>a, <2>b
  <2>13. HeapTypes'
    BY <2>1, <2>4, <2>10, <2>11, <2>12 DEF HeapInv, HeapTypes
  <2>14. BlocksApart'
    BY <2>1 DEF HeapInv, BlocksApart, InUse
  <2>15. HasObject(t)' /\ HasTarget(t)' /\ Holds(t)' = {}
    BY <2>4 DEF HasObject, HasTarget, Holds, Growing, Freeing
  <2>16. \A q \in Heap!Pages : Heap!candidate(q) => Heap!candidate(q)'
    BY <2>1 DEF Heap!candidate
  <2>17. PageFits(p)' /\ (r # p => PageFits(r)')
    BY <2>6, <2>7, <2>10, <2>11, <2>12 DEF PageFits
  <2>18. \A q \in Heap!Pages \cap T : PageFits(q)'
    BY <2>17
  <2>19. \A j \in DOMAIN blocks : blocks'[j] = blocks[j] /\ (InUse(j)' => InUse(j))
    BY <2>1 DEF InUse
  <2> HIDE DEF T
  <2>20. QED
    BY <2>4, <2>8, <2>9, <2>10, <2>11, <2>12, <2>13, <2>14, <2>15, <2>16, <2>18, <2>19,
        HeapStep
<1>17. ASSUME NEW t \in Threads, Heap!Grow(t) PROVE HeapInv'
  <2>1. heapCall[t].at = "grow" /\ UNCHANGED <<blocks, reserved_bytes, low_address, high_address>>
    BY <1>17 DEF Heap!Grow, Heap!At, Heap!poolVars, Heap!memoryVars
  <2>2. heapCall \in [Threads -> HeapCalls] /\ heapCall[t] \in HeapCalls /\ HasObject(t) /\ HasTarget(t)
    BY DEF HeapInv, HeapTypes
  <2>3. CASE Heap!Go(t, "fallback") /\ UNCHANGED <<blocks, reserved_bytes, low_address, high_address, extent, maker, asked>>
    <3>1. /\ heapCall' \in [Threads -> HeapCalls] /\ heapCall'[t].at = "fallback"
          /\ heapCall'[t].ptr = heapCall[t].ptr /\ heapCall'[t].size = heapCall[t].size
          /\ heapCall'[t].old = heapCall[t].old /\ heapCall'[t].next = heapCall[t].next
          /\ \A u \in Threads \ {t} : heapCall'[u] = heapCall[u]
      BY <2>2, <2>3, Goes DEF Heap!Places
    <3>2. HasObject(t)' /\ HasTarget(t)' /\ Holds(t)' = Holds(t)
      BY <2>1, <2>2, <2>3, <3>1 DEF HasObject, HasTarget, Holds, Growing, Freeing
    <3>3. QED BY <2>3, <3>1, <3>2, SameObjects
  <2>4. PICK size, n : size = heapCall[t].size /\ n = Heap!PagesFor(size)
    OBVIOUS
  <2>5. CASE \E p \in Heap!Room(n) : Heap!Allocated(p, n, "newlib") /\ Heap!Deliver(t, p)
    <3>1. PICK p \in Heap!Room(n) : Heap!Allocated(p, n, "newlib") /\ Heap!Deliver(t, p)
      BY <2>5
    <3>2. size \in Sizes
      BY <2>1, <2>2, <2>4 DEF HasObject, Freeing
    <3>3. /\ p \in Heap!Pages /\ n \in 1 .. PageCount /\ size =< 2 * n /\ size \in 1 .. 2 * PageCount
          /\ extent[p] = 0 /\ asked[p] = 0 /\ \A i \in DOMAIN blocks : ~BlockAt(i, p)
          /\ \A u \in Threads : p \notin Holds(u)
      BY <2>4, <3>1, <3>2, RoomFacts
    <3> DEFINE T == {p}
    <3>4. /\ extent' \in [Heap!Pages -> 0 .. PageCount] /\ extent'[p] = n
          /\ maker' \in [Heap!Pages -> {"newlib", "kernel", "none"}] /\ maker'[p] = "newlib"
          /\ \A q \in Heap!Pages \ {p} : extent'[q] = extent[q] /\ maker'[q] = maker[q]
      BY <3>1, <3>3 DEF HeapInv, HeapTypes, Heap!Allocated
    <3>5. \A i \in DOMAIN blocks' : ~BlockAt(i, p)'
      BY <2>1, <3>3 DEF BlockAt, InUse
    <3>6. /\ heapCall' \in [Threads -> HeapCalls]
          /\ \A u \in Threads \ {t} : heapCall'[u] = heapCall[u]
          /\ asked' \in [Heap!Pages -> 0 .. 2 * PageCount] /\ asked'[p] \in {0, size}
          /\ \A q \in Heap!Pages \ {p} : asked'[q] = asked[q]
          /\ HasObject(t)' /\ HasTarget(t)' /\ Holds(t)' \subseteq Holds(t) \cup {p}
      <4>1. extent'[p] > 0 /\ size =< 2 * extent'[p]
        BY <3>3, <3>4
      <4>2. QED BY <2>1, <2>4, <3>1, <3>3, <3>4, <3>5, <4>1, Delivers
    <3>7. HeapTypes' /\ BlocksApart'
      BY <2>1, <3>4, <3>6 DEF HeapInv, HeapTypes, BlocksApart, InUse
    <3>8. \A q \in Heap!Pages : Heap!candidate(q) => Heap!candidate(q)'
      BY <2>1 DEF Heap!candidate
    <3>9. PageFits(p)'
      BY <3>3, <3>4, <3>6 DEF PageFits
    <3>10. \A i \in DOMAIN blocks : blocks'[i] = blocks[i] /\ (InUse(i) => blocks[i].ptr \notin T)
      BY <2>1, <3>3 DEF BlockAt
    <3>11. /\ \A u \in Threads \ {t} : Holds(u) \cap T = {}
           /\ Holds(t)' \subseteq Holds(t) \cup T /\ \A q \in Heap!Pages \cap T : PageFits(q)'
           /\ \A q \in Heap!Pages \ T : extent'[q] = extent[q] /\ maker'[q] = maker[q] /\ asked'[q] = asked[q]
      BY <3>3, <3>4, <3>6, <3>9
    <3> HIDE DEF T
    <3>12. QED BY <3>6, <3>7, <3>8, <3>10, <3>11, HeapStep DEF InUse
  <2>6. QED BY <1>17, <2>1, <2>3, <2>4, <2>5 DEF Heap!Grow, Heap!memoryVars
<1>18. ASSUME NEW t \in Threads, Heap!FallbackGives(t) PROVE HeapInv'
  <2>1. PICK size, n : size = heapCall[t].size /\ n = Heap!PagesFor(size)
    OBVIOUS
  <2>2. /\ heapCall[t].at = "fallback" /\ 2 * n =< FALLBACK_BUDGET - reserved_bytes
        /\ reserved_bytes' = reserved_bytes + 2 * n
    BY <1>18, <2>1 DEF Heap!FallbackGives, Heap!At
  <2>3. PICK i \in Heap!EmptySlots, p \in Heap!Room(n) :
          /\ blocks' = [blocks EXCEPT ![i] = [ptr |-> p, requested |-> size, bytes |-> 2 * n]]
          /\ low_address' = Heap!Lower(low_address, p)
          /\ high_address' = Heap!Upper(high_address, p + n)
          /\ Heap!Allocated(p, n, "kernel") /\ Heap!Deliver(t, p)
    BY <1>18, <2>1 DEF Heap!FallbackGives
  <2>4. heapCall \in [Threads -> HeapCalls] /\ heapCall[t] \in HeapCalls /\ HasObject(t) /\ HasTarget(t)
    BY DEF HeapInv, HeapTypes
  <2>5. size \in Sizes
    BY <2>1, <2>2, <2>4 DEF HasObject, Freeing
  <2>6. /\ p \in Heap!Pages /\ n \in 1 .. PageCount /\ size =< 2 * n /\ size \in 1 .. 2 * PageCount
        /\ p + n =< PageCount + 1 /\ extent[p] = 0 /\ asked[p] = 0
        /\ \A j \in DOMAIN blocks : ~BlockAt(j, p)
        /\ \A u \in Threads : p \notin Holds(u)
    BY <2>1, <2>5, RoomFacts
  <2> DEFINE T == {p}
             b == [ptr |-> p, requested |-> size, bytes |-> 2 * n]
  <2>7. PageCount \in Nat /\ p \in 1 .. PageCount /\ 2 * n \in Nat /\ size \in Nat /\ n \in Nat
    BY <2>6, HeapAssumption DEF Heap!Pages
  <2>8. b \in Blocks /\ b.ptr = p /\ b.requested = size /\ b.bytes = 2 * n
    BY <2>7 DEF Blocks
  <2>9. b # Absent
    BY <2>8, HeapAssumption DEF Blocks
  <2> HIDE DEF b
  <2>10. /\ i \in DOMAIN blocks /\ ~InUse(i) /\ blocks'[i] = b /\ DOMAIN blocks' = DOMAIN blocks
         /\ blocks' \in [1 .. FALLBACK_SLOTS -> Blocks \cup {Absent}]
         /\ \A j \in DOMAIN blocks \ {i} : blocks'[j] = blocks[j]
    BY <2>3, <2>8 DEF b, Heap!EmptySlots, InUse, HeapInv, HeapTypes
  <2>11. /\ extent' \in [Heap!Pages -> 0 .. PageCount] /\ extent'[p] = n
         /\ maker' \in [Heap!Pages -> {"newlib", "kernel", "none"}] /\ maker'[p] = "kernel"
         /\ \A q \in Heap!Pages \ {p} : extent'[q] = extent[q] /\ maker'[q] = maker[q]
    BY <2>3, <2>6 DEF HeapInv, HeapTypes, Heap!Allocated
  <2>12. \A j \in DOMAIN blocks' : BlockAt(j, p)' => blocks'[j].requested = size
    BY <2>6, <2>8, <2>10 DEF BlockAt, InUse
  <2>13. /\ heapCall' \in [Threads -> HeapCalls]
         /\ \A u \in Threads \ {t} : heapCall'[u] = heapCall[u]
         /\ asked' \in [Heap!Pages -> 0 .. 2 * PageCount] /\ asked'[p] \in {0, size}
         /\ \A q \in Heap!Pages \ {p} : asked'[q] = asked[q]
         /\ HasObject(t)' /\ HasTarget(t)' /\ Holds(t)' \subseteq Holds(t) \cup {p}
    <3>1. extent'[p] > 0 /\ size =< 2 * extent'[p]
      BY <2>6, <2>11
    <3>2. QED BY <2>1, <2>2, <2>3, <2>6, <2>11, <2>12, <3>1, Delivers
  <2>14. /\ low_address' \in 1 .. PageCount + 1 /\ high_address' \in 0 .. PageCount + 1
         /\ low_address' =< low_address /\ high_address' >= high_address
         /\ low_address' =< p /\ p < high_address'
    BY <2>3, <2>6, <2>7 DEF Heap!Lower, Heap!Upper, HeapInv, HeapTypes
  <2>15. reserved_bytes' \in Int /\ reserved_bytes' =< FALLBACK_BUDGET
    BY <2>2, <2>7, HeapAssumption DEF HeapInv, HeapTypes
  <2>16. HeapTypes'
    BY <2>10, <2>11, <2>13, <2>14, <2>15 DEF HeapTypes
  <2>17. BlocksApart'
    BY <2>6, <2>8, <2>10 DEF HeapInv, BlocksApart, BlockAt, InUse
  <2>18. \A q \in Heap!Pages : Heap!candidate(q) => Heap!candidate(q)'
    <3>1. \A q \in Heap!Pages : q \in Int
      BY <2>7 DEF Heap!Pages
    <3>2. low_address \in Int /\ high_address \in Int
      BY <2>7 DEF HeapInv, HeapTypes
    <3>3. QED BY <2>7, <2>14, <3>1, <3>2 DEF Heap!candidate
  <2>19. PageFits(p)'
    <3>1. Heap!candidate(p)'
      BY <2>14 DEF Heap!candidate
    <3>2. BlockAt(i, p)' /\ i \in DOMAIN blocks'
      BY <2>8, <2>9, <2>10 DEF BlockAt, InUse
    <3>3. n # 0 /\ asked'[p] =< 2 * n
      BY <2>6, <2>7, <2>13
    <3>4. QED BY <2>11, <3>1, <3>2, <3>3 DEF PageFits
  <2>20. BlockFits(i)'
    BY <2>6, <2>8, <2>10, <2>11, <2>13 DEF BlockFits, InUse
  <2>21. \A j \in DOMAIN blocks :
           /\ InUse(j) /\ blocks[j].ptr \notin T => blocks'[j] = blocks[j]
           /\ InUse(j)' /\ blocks'[j].ptr \notin T => blocks'[j] = blocks[j]
           /\ InUse(j)' /\ blocks'[j].ptr \in T => BlockFits(j)'
    BY <2>6, <2>8, <2>10, <2>20 DEF InUse, BlockAt
  <2>22. /\ \A u \in Threads \ {t} : Holds(u) \cap T = {}
         /\ Holds(t)' \subseteq Holds(t) \cup T /\ \A q \in Heap!Pages \cap T : PageFits(q)'
         /\ \A q \in Heap!Pages \ T : extent'[q] = extent[q] /\ maker'[q] = maker[q] /\ asked'[q] = asked[q]
    BY <2>6, <2>11, <2>13, <2>19
  <2> HIDE DEF T
  <2>23. QED BY <2>13, <2>16, <2>17, <2>18, <2>21, <2>22, HeapStep
<1>19. QED
  BY ONLY <1>1, <1>2, <1>3, <1>4, <1>5, <1>6, <1>7, <1>8, <1>9, <1>10, <1>11, <1>12, <1>13,
      <1>14, <1>15, <1>16, <1>17, <1>18, Heap!Next
    DEF Heap!Next, Heap!Step

\* What the second heap needs holds at the start, and every step keeps it.
LEMMA HeapInvariant == AllSpec => []HeapInv
<1>1. ASSUME AllInit PROVE HeapInv
  <2>1. /\ blocks = [i \in 1 .. FALLBACK_SLOTS |-> Absent] /\ reserved_bytes = 0
        /\ low_address = PageCount + 1 /\ high_address = 0
        /\ extent = [p \in Heap!Pages |-> 0] /\ maker = [p \in Heap!Pages |-> "none"]
        /\ asked = [p \in Heap!Pages |-> 0] /\ heapCall = [t \in Threads |-> Heap!NoCall]
    BY <1>1 DEF AllInit, Heap!Init
  <2>2. Heap!NoCall \in HeapCalls
    BY DEF Heap!NoCall, HeapCalls, Heap!Places
  <2>3. HeapTypes
    BY <2>1, <2>2, HeapAssumption DEF HeapTypes
  <2>4. BlocksApart /\ (\A i \in DOMAIN blocks : BlockFits(i)) /\ \A p \in Heap!Pages : PageFits(p)
    BY <2>1 DEF BlocksApart, BlockFits, PageFits, InUse
  <2>5. \A t \in Threads : heapCall[t].at = "outside" /\ heapCall[t].ptr = 0 /\ heapCall[t].next = 0
    BY <2>1 DEF Heap!NoCall
  <2>6. HoldsApart /\ \A t \in Threads : HasObject(t) /\ HasTarget(t)
    BY <2>5 DEF HoldsApart, Holds, HasObject, HasTarget, Growing, Freeing
  <2>7. QED BY <2>3, <2>4, <2>6 DEF HeapInv
<1>2. ASSUME HeapInv, [UseData \/ UseHeap \/ UseSlots \/ UseReports]_allVars PROVE HeapInv'
  <2>1. CASE UseHeap
    BY <1>2, <2>1, HeapKeeps DEF UseHeap
  <2>2. CASE UNCHANGED heapVars
    <3>1. HeapTypes' /\ BlocksApart' /\ HoldsApart'
      BY <1>2, <2>2 DEF heapVars, HeapInv, HeapTypes, BlocksApart, InUse, HoldsApart, Holds
    <3>2. \A p \in Heap!Pages : PageFits(p)'
      BY <1>2, <2>2 DEF heapVars, HeapInv, PageFits, BlockAt, InUse, Heap!candidate
    <3>3. \A i \in DOMAIN blocks' : BlockFits(i)'
      BY <1>2, <2>2 DEF heapVars, HeapInv, BlockFits, InUse
    <3>4. \A t \in Threads : HasObject(t)' /\ HasTarget(t)'
      BY <1>2, <2>2 DEF heapVars, HeapInv, HasObject, HasTarget, BlockAt, InUse
    <3>5. QED BY <3>1, <3>2, <3>3, <3>4 DEF HeapInv
  <2>3. QED BY <1>2, <2>1, <2>2 DEF UseData, UseSlots, UseReports, allVars
<1>3. QED BY <1>1, <1>2, PTL DEF AllSpec

\* newlib is never given pages of the kernel's, each block of which is in one slot
\* and within the bounds, also when the kernel does not take it back; a moved object
\* is whole, and the budget is kept: pvz2_heap_free and pvz2_heap_realloc.
THEOREM OwnersAreKnown ==
  AllSpec => [](Heap!TypeOK /\ Heap!OwnersKnown /\ reserved_bytes =< FALLBACK_BUDGET)
<1>1. ASSUME HeapInv PROVE Heap!TypeOK /\ reserved_bytes =< FALLBACK_BUDGET
  BY <1>1 DEF HeapInv, HeapTypes, HeapCalls, Heap!TypeOK
<1>2. ASSUME HeapInv PROVE Heap!OwnersKnown
  <2>1. ASSUME NEW t \in Threads, heapCall[t].at \in {"newlibFree", "newlibRealloc"}
        PROVE  maker[heapCall[t].ptr] = "newlib"
    BY <1>2, <2>1 DEF HeapInv, HasObject
  <2>2. ASSUME NEW t \in Threads, Heap!At(t, "copy")
        PROVE  /\ Heap!Copied(t) >= Heap!Lower(asked[heapCall[t].ptr], heapCall[t].size)
               /\ Heap!Copied(t) =< 2 * extent[heapCall[t].ptr]
    <3>1. PICK a, o, s, x : /\ a = asked[heapCall[t].ptr] /\ o = heapCall[t].old
                            /\ s = heapCall[t].size /\ x = 2 * extent[heapCall[t].ptr]
      OBVIOUS
    <3>2. heapCall[t].at = "copy" /\ heapCall[t] \in HeapCalls /\ HasObject(t)
      BY <1>2, <2>2 DEF Heap!At, HeapInv, HeapTypes
    <3>3. heapCall[t].ptr \in Heap!Pages
      BY <3>2 DEF HasObject
    <3>4. a \in Int /\ o \in Int /\ s \in Int /\ x \in Int
      BY <1>2, <3>1, <3>2, <3>3, HeapAssumption DEF HeapInv, HeapTypes, HeapCalls
    <3>5. a =< o /\ o =< x
      BY <3>1, <3>2 DEF HasObject, Growing
    <3>6. QED BY <3>1, <3>4, <3>5 DEF Heap!Copied, Heap!Lower
  <2>3. ASSUME NEW p \in Heap!Pages
        PROVE  Cardinality(Heap!find_locked(p)) = IF maker[p] = "kernel" THEN 1 ELSE 0
    <3>1. \A i : i \in Heap!find_locked(p) <=> i \in DOMAIN blocks /\ BlockAt(i, p)
      BY DEF Heap!find_locked, BlockAt, InUse
    <3>2. CASE maker[p] = "kernel"
      <4>1. PICK i \in DOMAIN blocks : BlockAt(i, p)
        BY <1>2, <3>2 DEF HeapInv, PageFits
      <4>2. Heap!find_locked(p) = {i}
        BY <1>2, <3>1, <4>1 DEF HeapInv, BlocksApart, BlockAt
      <4>3. QED BY <3>2, <4>2, FS_Singleton
    <3>3. CASE maker[p] # "kernel"
      <4>1. Heap!find_locked(p) = {}
        BY <1>2, <3>1, <3>3 DEF HeapInv, BlockFits, BlockAt
      <4>2. QED BY <3>3, <4>1, FS_EmptySet
    <3>4. QED BY <3>2, <3>3
  <2>4. \A p \in Heap!Pages : asked[p] =< 2 * extent[p] /\ (maker[p] = "kernel" => Heap!candidate(p))
    BY <1>2 DEF HeapInv, PageFits
  <2>5. \A t \in Threads : Heap!At(t, "copy") =>
          /\ Heap!Copied(t) >= Heap!Lower(asked[heapCall[t].ptr], heapCall[t].size)
          /\ Heap!Copied(t) =< 2 * extent[heapCall[t].ptr]
    BY <2>2
  <2>6. \A t \in Threads :
          heapCall[t].at \in {"newlibFree", "newlibRealloc"} => maker[heapCall[t].ptr] = "newlib"
    BY <2>1
  <2>7. \A p \in Heap!Pages :
          Cardinality(Heap!find_locked(p)) = IF maker[p] = "kernel" THEN 1 ELSE 0
    BY <2>3
  <2>8. QED BY <2>4, <2>5, <2>6, <2>7 DEF Heap!OwnersKnown, Heap!Cardinality, Cardinality
<1>3. QED BY <1>1, <1>2, HeapInvariant, PTL

-----------------------------------------------------------------------------
(* Sums.                                                                    *)

\* Induction over the subsets of a finite set, with the property as the set of the
\* sets that have it.
LEMMA SubsetInduction ==
  ASSUME NEW S, IsFiniteSet(S), NEW P, {} \in P,
         \A T \in SUBSET S : T # {} /\ (\A x \in T : T \ {x} \in P) => T \in P
  PROVE SUBSET S \subseteq P
<1> DEFINE B == {T \in SUBSET S : T \notin P}
<1>1. SUFFICES ASSUME B # {} PROVE FALSE OBVIOUS
<1>2. B \subseteq FiniteSubsetsOf(S) BY FS_Subset DEF FiniteSubsetsOf
<1>3. PICK y \in B : \A z \in B : ~(<<z, y>> \in StrictSubsetOrdering(S))
  <2> HIDE DEF B
  <2> QED BY <1>1, <1>2, FS_StrictSubsetOrderingWellFounded, WFMin
<1>4. y # {} OBVIOUS
<1>5. ASSUME NEW x \in y PROVE y \ {x} \in P
  <2>1. <<y \ {x}, y>> \in StrictSubsetOrdering(S) BY <1>3 DEF StrictSubsetOrdering
  <2>2. QED BY <1>3, <2>1
<1>6. QED BY <1>3, <1>4, <1>5

\* What MapThenFoldSet folds for a sum.
Pick(s) == CHOOSE x \in s : TRUE
Folds(iter, f, S) ==
  iter = [s \in SUBSET S |-> IF s = {} THEN 0 ELSE f[Pick(s)] + iter[s \ {Pick(s)}]]

Total(f, S) == (CHOOSE iter : Folds(iter, f, S))[S]

LEMMA FoldsAlike ==
  ASSUME NEW f, NEW R, NEW S, IsFiniteSet(S), NEW g, NEW h, Folds(g, f, R), Folds(h, f, S)
  PROVE \A T \in SUBSET (R \cap S) : g[T] = h[T]
<1> DEFINE P == {T \in SUBSET (R \cap S) : g[T] = h[T]}
<1>1. \A T \in SUBSET (R \cap S) :
        /\ g[T] = IF T = {} THEN 0 ELSE f[Pick(T)] + g[T \ {Pick(T)}]
        /\ h[T] = IF T = {} THEN 0 ELSE f[Pick(T)] + h[T \ {Pick(T)}]
  BY DEF Folds
<1>2. {} \in P BY <1>1
<1>3. ASSUME NEW T \in SUBSET (R \cap S), T # {}, \A x \in T : T \ {x} \in P PROVE T \in P
  <2>1. Pick(T) \in T BY <1>3 DEF Pick
  <2>2. g[T \ {Pick(T)}] = h[T \ {Pick(T)}] BY <1>3, <2>1
  <2>3. QED BY <1>1, <1>3, <2>2
<1>4. IsFiniteSet(R \cap S) BY FS_Subset
<1> HIDE DEF P
<1>5. SUBSET (R \cap S) \subseteq P BY <1>2, <1>3, <1>4, SubsetInduction
<1>6. QED BY <1>5 DEF P

LEMMA FoldsPart ==
  ASSUME NEW f, NEW S, NEW T \in SUBSET S, NEW g, Folds(g, f, S)
  PROVE Folds([s \in SUBSET T |-> g[s]], f, T)
<1> DEFINE h == [s \in SUBSET T |-> g[s]]
<1>1. \A s \in SUBSET T : h[s] = IF s = {} THEN 0 ELSE f[Pick(s)] + g[s \ {Pick(s)}]
  BY DEF Folds
<1>2. \A s \in SUBSET T : g[s \ {Pick(s)}] = h[s \ {Pick(s)}] OBVIOUS
<1>3. QED BY <1>1, <1>2 DEF Folds

LEMMA FoldExists ==
  ASSUME NEW f, NEW S, IsFiniteSet(S)
  PROVE \E g : Folds(g, f, S)
<1> DEFINE P == {T \in SUBSET S : \E g : Folds(g, f, T)}
           G(s) == CHOOSE g : Folds(g, f, s)
           FoldOf(s) == G(s)[s]
<1>1. {} \in P
  <2>1. Folds([s \in SUBSET {} |-> 0], f, {}) BY DEF Folds
  <2>2. QED BY <2>1
<1>2. ASSUME NEW T \in SUBSET S, T # {}, \A x \in T : T \ {x} \in P PROVE T \in P
  <2> DEFINE h == [s \in SUBSET T |-> IF s = {} THEN 0 ELSE f[Pick(s)] + FoldOf(s \ {Pick(s)})]
  <2>1. ASSUME NEW s \in SUBSET T, s # T PROVE Folds(G(s), f, s)
    <3>1. PICK x \in T : s \subseteq T \ {x} BY <2>1
    <3>2. PICK g : Folds(g, f, T \ {x}) BY <1>2
    <3>3. \E g2 : Folds(g2, f, s) BY <3>1, <3>2, FoldsPart
    <3>4. QED BY <3>3
  <2>2. ASSUME NEW s \in SUBSET T, s # {} PROVE FoldOf(s \ {Pick(s)}) = h[s \ {Pick(s)}]
    <3> DEFINE r == s \ {Pick(s)}
               q == r \ {Pick(r)}
    <3>1. r \in SUBSET T /\ r # T /\ q \in SUBSET T /\ q # T BY <2>2 DEF Pick
    <3>2. Folds(G(r), f, r) /\ Folds(G(q), f, q) BY <2>1, <3>1
    <3> HIDE DEF G
    <3>3. FoldOf(r) = IF r = {} THEN 0 ELSE f[Pick(r)] + G(r)[q] BY <3>2 DEF Folds
    <3>4. G(r)[q] = G(q)[q]
      <4>1. IsFiniteSet(q) BY FS_Subset
      <4>2. q \in SUBSET (r \cap q) OBVIOUS
      <4>3. QED BY <3>2, <4>1, <4>2, FoldsAlike
    <3>5. QED BY <3>1, <3>3, <3>4
  <2>3. Folds(h, f, T)
    <3> HIDE DEF FoldOf
    <3>1. \A s \in SUBSET T : h[s] = IF s = {} THEN 0 ELSE f[Pick(s)] + h[s \ {Pick(s)}] BY <2>2
    <3>2. h = [s \in SUBSET T |-> h[s]] OBVIOUS
    <3> HIDE DEF h
    <3>3. QED BY <3>1, <3>2 DEF Folds
  <2>4. QED BY <2>3
<1> HIDE DEF P
<1>3. SUBSET S \subseteq P BY <1>1, <1>2, SubsetInduction
<1>4. QED BY <1>3 DEF P

LEMMA SumIs ==
  ASSUME NEW f, NEW S, IsFiniteSet(S), NEW g, Folds(g, f, S)
  PROVE \A T \in SUBSET S : Total(f, T) = g[T]
<1>1. SUFFICES ASSUME NEW T \in SUBSET S PROVE Total(f, T) = g[T] OBVIOUS
<1> DEFINE G == CHOOSE iter : Folds(iter, f, T)
<1>2. Total(f, T) = G[T] BY DEF Total
<1>3. IsFiniteSet(T) BY FS_Subset
<1>4. Folds(G, f, T) BY <1>3, FoldExists
<1> HIDE DEF G
<1>5. QED BY <1>2, <1>3, <1>4, FoldsAlike

\* What a fold over the empty set and over others is.
LEMMA SumUnfolds ==
  ASSUME NEW S, IsFiniteSet(S), NEW f
  PROVE \A T \in SUBSET S :
          Total(f, T) =
            IF T = {} THEN 0 ELSE f[Pick(T)] + Total(f, T \ {Pick(T)})
<1>1. PICK g : Folds(g, f, S) BY FoldExists
<1>2. \A T \in SUBSET S : Total(f, T) = g[T] BY <1>1, SumIs
<1>3. \A T \in SUBSET S : g[T] = IF T = {} THEN 0 ELSE f[Pick(T)] + g[T \ {Pick(T)}]
  BY <1>1 DEF Folds
<1>4. \A T \in SUBSET S : Total(f, T \ {Pick(T)}) = g[T \ {Pick(T)}] BY <1>2
<1>5. QED BY <1>2, <1>3, <1>4

\* A sum of integers is one.
LEMMA SumIsInt ==
  ASSUME NEW S, IsFiniteSet(S), NEW f, \A x \in S : f[x] \in Int
  PROVE \A T \in SUBSET S : Total(f, T) \in Int
<1> DEFINE Sum(T) == Total(f, T)
           P == {T \in SUBSET S : Sum(T) \in Int}
<1>1. \A T \in SUBSET S : Sum(T) = IF T = {} THEN 0 ELSE f[Pick(T)] + Sum(T \ {Pick(T)})
  BY SumUnfolds
<1> HIDE DEF Sum
<1>2. {} \in P
  <2>1. Sum({}) = 0 BY <1>1
  <2>2. QED BY <2>1
<1>3. ASSUME NEW T \in SUBSET S, T # {}, \A x \in T : T \ {x} \in P PROVE T \in P
  <2>1. Pick(T) \in T BY <1>3 DEF Pick
  <2>2. Sum(T \ {Pick(T)}) \in Int /\ f[Pick(T)] \in Int BY <1>3, <2>1
  <2>3. QED BY <1>1, <1>3, <2>2
<1> HIDE DEF P
<1>4. SUBSET S \subseteq P BY <1>2, <1>3, SubsetInduction
<1>5. QED BY <1>4 DEF P, Sum

\* Whichever element is taken out, the sum is it and the sum of the others.
LEMMA SumSplits ==
  ASSUME NEW S, IsFiniteSet(S), NEW f, \A x \in S : f[x] \in Int, NEW a \in S
  PROVE Total(f, S) = f[a] + Total(f, S \ {a})
<1> DEFINE Sum(T) == Total(f, T)
           P == {T \in SUBSET S : \A x \in T : Sum(T) = f[x] + Sum(T \ {x})}
<1>1. \A T \in SUBSET S : Sum(T) = IF T = {} THEN 0 ELSE f[Pick(T)] + Sum(T \ {Pick(T)})
  BY SumUnfolds
<1>2. \A T \in SUBSET S : Sum(T) \in Int BY SumIsInt
<1> HIDE DEF Sum
<1>3. {} \in P OBVIOUS
<1>4. ASSUME NEW T \in SUBSET S, T # {}, \A x \in T : T \ {x} \in P PROVE T \in P
  <2> DEFINE y == Pick(T)
  <2>1. y \in T BY <1>4 DEF Pick
  <2> HIDE DEF y
  <2>2. Sum(T) = f[y] + Sum(T \ {y}) BY <1>1, <1>4 DEF y
  <2>3. ASSUME NEW x \in T, x # y PROVE Sum(T) = f[x] + Sum(T \ {x})
    <3> DEFINE rest == (T \ {y}) \ {x}
    <3>1. rest = (T \ {x}) \ {y} /\ rest \in SUBSET S OBVIOUS
    <3>2. Sum(T \ {y}) = f[x] + Sum(rest) BY <1>4, <2>1, <2>3
    <3>3. Sum(T \ {x}) = f[y] + Sum(rest) BY <1>4, <2>1, <2>3, <3>1
    <3>4. Sum(rest) \in Int /\ f[x] \in Int /\ f[y] \in Int BY <1>2, <2>1, <3>1
    <3> HIDE DEF rest
    <3>5. QED BY <2>2, <3>2, <3>3, <3>4
  <2>4. QED BY <2>2, <2>3
<1> HIDE DEF P
<1>5. SUBSET S \subseteq P BY <1>3, <1>4, SubsetInduction
<1>6. S \in P BY <1>5
<1>7. QED BY <1>6 DEF P, Sum

\* Equal summands, equal sums.
LEMMA SumIsOf ==
  ASSUME NEW S, IsFiniteSet(S), NEW f, NEW g, \A x \in S : f[x] = g[x]
  PROVE Total(f, S) = Total(g, S)
<1> DEFINE Sum(h, T) == Total(h, T)
           P == {T \in SUBSET S : Sum(f, T) = Sum(g, T)}
<1>1. \A T \in SUBSET S :
        /\ Sum(f, T) = IF T = {} THEN 0 ELSE f[Pick(T)] + Sum(f, T \ {Pick(T)})
        /\ Sum(g, T) = IF T = {} THEN 0 ELSE g[Pick(T)] + Sum(g, T \ {Pick(T)})
  BY SumUnfolds
<1> HIDE DEF Sum
<1>2. {} \in P
  <2>1. Sum(f, {}) = 0 /\ Sum(g, {}) = 0 BY <1>1
  <2>2. QED BY <2>1
<1>3. ASSUME NEW T \in SUBSET S, T # {}, \A x \in T : T \ {x} \in P PROVE T \in P
  <2>1. Pick(T) \in T BY <1>3 DEF Pick
  <2>2. Sum(f, T \ {Pick(T)}) = Sum(g, T \ {Pick(T)}) /\ f[Pick(T)] = g[Pick(T)] BY <1>3, <2>1
  <2>3. QED BY <1>1, <1>3, <2>2
<1> HIDE DEF P
<1>4. SUBSET S \subseteq P BY <1>2, <1>3, SubsetInduction
<1>5. QED BY <1>4 DEF P, Sum

-----------------------------------------------------------------------------
(* The budget of the second heap.                                           *)

Bytes == [i \in Heap!Filled |-> blocks[i].bytes]
Reserved == Total(Bytes, Heap!Filled)
BudgetInv == HeapInv /\ reserved_bytes = Reserved

LEMMA FilledIs ==
  ASSUME HeapInv
  PROVE /\ IsFiniteSet(Heap!Filled) /\ Heap!Filled \subseteq 1 .. FALLBACK_SLOTS
        /\ \A i \in Heap!Filled : InUse(i) /\ blocks[i] \in Blocks /\ blocks[i].bytes \in Int
<1>1. /\ blocks \in [1 .. FALLBACK_SLOTS -> Blocks \cup {Absent}]
      /\ Heap!Filled = {i \in 1 .. FALLBACK_SLOTS : InUse(i)}
  BY DEF HeapInv, HeapTypes, Heap!Filled, InUse
<1>2. IsFiniteSet(1 .. FALLBACK_SLOTS) BY HeapAssumption, FS_Interval
<1>3. IsFiniteSet(Heap!Filled) BY <1>1, <1>2, FS_Subset
<1>4. \A i \in Heap!Filled : blocks[i] \in Blocks BY <1>1 DEF InUse
<1>5. QED BY <1>1, <1>3, <1>4 DEF Blocks

\* A block more, or one less.
LEMMA OneMore ==
  ASSUME NEW S, IsFiniteSet(S), NEW a, a \notin S, NEW f, NEW g,
         \A x \in S : f[x] \in Int /\ g[x] = f[x], g[a] \in Int
  PROVE Total(g, S \cup {a}) = g[a] + Total(f, S)
<1>1. IsFiniteSet(S \cup {a}) BY FS_AddElement
<1>2. Total(g, S \cup {a}) = g[a] + Total(g, (S \cup {a}) \ {a})
  BY <1>1, SumSplits
<1>3. (S \cup {a}) \ {a} = S OBVIOUS
<1>4. Total(f, S) = Total(g, S) BY SumIsOf
<1>5. QED BY <1>2, <1>3, <1>4

LEMMA BudgetKeeps ==
  ASSUME BudgetInv, HeapInv', Heap!Next
  PROVE BudgetInv'
<1> DEFINE A == Heap!Filled
           B == Heap!Filled'
           f == Bytes
           g == Bytes'
<1>1. /\ f = [i \in A |-> blocks[i].bytes] /\ g = [i \in B |-> blocks'[i].bytes]
      /\ A = {i \in DOMAIN blocks : InUse(i)} /\ B = {i \in DOMAIN blocks' : InUse(i)'}
  BY DEF Bytes, Heap!Filled, InUse
<1>2. /\ IsFiniteSet(A) /\ A \subseteq 1 .. FALLBACK_SLOTS
      /\ \A i \in A : blocks[i] \in Blocks /\ f[i] \in Int
  BY FilledIs DEF BudgetInv, Bytes
<1>3. /\ IsFiniteSet(B) /\ B \subseteq 1 .. FALLBACK_SLOTS
      /\ \A i \in B : blocks'[i] \in Blocks /\ g[i] \in Int
  <2>1. (/\ IsFiniteSet(Heap!Filled) /\ Heap!Filled \subseteq 1 .. FALLBACK_SLOTS
         /\ \A i \in Heap!Filled : InUse(i) /\ blocks[i] \in Blocks /\ blocks[i].bytes \in Int)'
    BY FilledIs, PTL
  <2>2. \A i \in B : g[i] = blocks'[i].bytes BY <1>1
  <2>3. QED BY <2>1, <2>2
<1> HIDE DEF A, B, f, g
<1>s. SUFFICES reserved_bytes' = Total(g, B)
  BY DEF BudgetInv, Reserved, g, B
<1>r. reserved_bytes = Total(f, A) /\ reserved_bytes \in Int
  BY DEF BudgetInv, Reserved, f, A, HeapInv, HeapTypes
<1>4. CASE blocks' = blocks /\ reserved_bytes' = reserved_bytes
  <2>1. A = B BY <1>1, <1>4 DEF InUse
  <2>2. \A x \in A : f[x] = g[x] BY <1>1, <1>4, <2>1
  <2>3. QED BY <1>2, <1>4, <1>r, <2>1, <2>2, SumIsOf
<1>5. ASSUME NEW t \in Threads, Heap!FallbackGives(t) PROVE reserved_bytes' = Total(g, B)
  <2>1. PICK n : n = Heap!PagesFor(heapCall[t].size) /\ reserved_bytes' = reserved_bytes + 2 * n
    BY <1>5 DEF Heap!FallbackGives
  <2>2. PICK i \in Heap!EmptySlots, p \in Heap!Room(n) :
          blocks' = [blocks EXCEPT ![i] = [ptr |-> p, requested |-> heapCall[t].size, bytes |-> 2 * n]]
    BY <1>5, <2>1 DEF Heap!FallbackGives
  <2>3. i \in DOMAIN blocks /\ i \notin A BY <1>1, <2>2 DEF Heap!EmptySlots, InUse
  <2>4. /\ DOMAIN blocks' = DOMAIN blocks /\ blocks'[i].bytes = 2 * n
        /\ \A j \in DOMAIN blocks : j # i => blocks'[j] = blocks[j]
    BY <2>2, <2>3
  <2>5. blocks'[i] # Absent
    <3>1. blocks'[i] = [ptr |-> p, requested |-> heapCall[t].size, bytes |-> 2 * n]
      BY <2>2, <2>3
    <3>2. p \in Nat /\ heapCall[t].size \in Nat /\ 2 * n \in Nat
      <4>1. p \in Nat BY <2>2, HeapAssumption DEF Heap!Room, Heap!Pages
      <4>2. heapCall[t].size \in Nat BY DEF BudgetInv, HeapInv, HeapTypes, HeapCalls
      <4>3. n \in Nat BY <2>1, <4>2 DEF Heap!PagesFor
      <4>4. QED BY <4>1, <4>2, <4>3
    <3>3. QED BY <3>1, <3>2, HeapAssumption
  <2>6. B = A \cup {i} BY <1>1, <2>3, <2>4, <2>5 DEF InUse
  <2>7. g[i] = 2 * n /\ \A x \in A : g[x] = f[x] BY <1>1, <2>3, <2>4, <2>6
  <2>8. Total(g, A \cup {i}) = g[i] + Total(f, A) BY <1>2, <1>3, <2>3, <2>6, <2>7, OneMore
  <2>9. g[i] \in Int BY <1>3, <2>6
  <2>10. QED BY <1>r, <2>1, <2>6, <2>7, <2>8, <2>9
<1>6. ASSUME NEW t \in Threads, Heap!FreeBlock(t) PROVE reserved_bytes' = Total(g, B)
  <2>1. PICK i \in Heap!find_locked(heapCall[t].ptr) :
          /\ reserved_bytes' = reserved_bytes - blocks[i].bytes
          /\ blocks' = [blocks EXCEPT ![i] = Absent]
    BY <1>6 DEF Heap!FreeBlock
  <2>2. i \in DOMAIN blocks /\ InUse(i) BY <2>1 DEF Heap!find_locked, InUse
  <2>3. /\ DOMAIN blocks' = DOMAIN blocks /\ blocks'[i] = Absent
        /\ \A j \in DOMAIN blocks : j # i => blocks'[j] = blocks[j]
    BY <2>1, <2>2
  <2>4. A = B \cup {i} /\ i \notin B BY <1>1, <2>2, <2>3 DEF InUse
  <2>5. f[i] = blocks[i].bytes /\ \A x \in B : f[x] = g[x] BY <1>1, <2>2, <2>3, <2>4
  <2>6. Total(f, B \cup {i}) = f[i] + Total(g, B) BY <1>2, <1>3, <2>4, <2>5, OneMore
  <2>7. f[i] \in Int BY <1>2, <2>4
  <2>8. Total(g, B) \in Int
    BY <1>3, SumIsInt
  <2>9. QED BY <1>r, <2>1, <2>4, <2>5, <2>6, <2>7, <2>8
<1>7. ASSUME NEW t \in Threads, Heap!ResizeInPlace(t) PROVE reserved_bytes' = Total(g, B)
  <2>1. /\ reserved_bytes' = reserved_bytes
        /\ \E i \in Heap!find_locked(heapCall[t].ptr) :
             blocks' = [blocks EXCEPT ![i].requested = heapCall[t].size]
    BY <1>7 DEF Heap!ResizeInPlace
  <2>2. PICK i \in Heap!find_locked(heapCall[t].ptr) :
          blocks' = [blocks EXCEPT ![i].requested = heapCall[t].size]
    BY <2>1
  <2>3. i \in A BY <1>1 DEF Heap!find_locked, InUse
  <2>4. blocks[i] \in Blocks BY <1>2, <2>3
  <2>5. /\ DOMAIN blocks' = DOMAIN blocks
        /\ blocks'[i] = [blocks[i] EXCEPT !.requested = heapCall[t].size]
        /\ \A j \in DOMAIN blocks : j # i => blocks'[j] = blocks[j]
    BY <1>1, <2>2, <2>3
  <2>6. blocks'[i].bytes = blocks[i].bytes BY <2>4, <2>5 DEF Blocks
  <2>7. blocks'[i] # Absent
    <3>1. blocks'[i] = [ptr |-> blocks[i].ptr, requested |-> heapCall[t].size, bytes |-> blocks[i].bytes]
      BY <2>4, <2>5 DEF Blocks
    <3>2. blocks[i].ptr \in Nat /\ blocks[i].bytes \in Nat /\ heapCall[t].size \in Nat
      BY <1>7, <2>4 DEF Blocks, BudgetInv, HeapInv, HeapTypes, HeapCalls
    <3>3. QED BY <3>1, <3>2, HeapAssumption
  <2>8. A = B BY <1>1, <2>3, <2>5, <2>7 DEF InUse
  <2>9. \A x \in A : f[x] = g[x] BY <1>1, <2>5, <2>6, <2>8
  <2>10. QED BY <1>2, <1>r, <2>1, <2>8, <2>9, SumIsOf
<1>8. CASE \E t \in Threads :
        \/ \E size \in Sizes : Heap!Malloc(t, size) \/ \E p \in Heap!Pages : Heap!Realloc(t, p, size)
        \/ \E p \in Heap!Pages : Heap!Free(t, p)
        \/ Heap!FallbackRefuses(t) \/ Heap!FreeLook(t) \/ Heap!FreeRefused(t)
        \/ Heap!FreeNoBlock(t) \/ Heap!NewlibFree(t) \/ Heap!Look(t) \/ Heap!Outgrown(t)
        \/ Heap!NoBlockToResize(t) \/ Heap!NewlibReallocates(t) \/ Heap!NewlibRefuses(t)
        \/ Heap!Grow(t) \/ Heap!Copy(t)
  <2>1. blocks' = blocks /\ reserved_bytes' = reserved_bytes
    BY <1>8 DEF Heap!Malloc, Heap!Realloc, Heap!Free, Heap!FallbackRefuses, Heap!FreeLook,
       Heap!FreeRefused, Heap!FreeNoBlock, Heap!NewlibFree, Heap!Look, Heap!Outgrown,
       Heap!NoBlockToResize, Heap!NewlibReallocates, Heap!NewlibRefuses, Heap!Grow, Heap!Copy,
       Heap!poolVars
  <2>2. QED BY <2>1, <1>4
<1>9. QED BY <1>5, <1>6, <1>7, <1>8 DEF Heap!Next, Heap!Step

LEMMA BudgetInvariant == AllSpec => []BudgetInv
<1>1. ASSUME AllInit, HeapInv PROVE BudgetInv
  <2>1. reserved_bytes = 0 /\ Heap!Filled = {}
    BY <1>1 DEF AllInit, Heap!Init, Heap!Filled
  <2>2. Total(Bytes, {}) = 0
    BY FS_EmptySet, SumUnfolds
  <2>3. QED BY <1>1, <2>1, <2>2 DEF BudgetInv, Reserved
<1>2. ASSUME BudgetInv, HeapInv', [UseData \/ UseHeap \/ UseSlots \/ UseReports]_allVars
      PROVE BudgetInv'
  <2>1. CASE UseHeap BY <1>2, <2>1, BudgetKeeps DEF UseHeap
  <2>2. CASE UNCHANGED heapVars
    <3>1. blocks' = blocks /\ reserved_bytes' = reserved_bytes BY <2>2 DEF heapVars
    <3>2. Heap!Filled' = Heap!Filled /\ Bytes' = Bytes BY <3>1 DEF Heap!Filled, Bytes
    <3>3. QED BY <1>2, <3>1, <3>2 DEF BudgetInv, Reserved
  <2>3. QED BY <1>2, <2>1, <2>2 DEF UseData, UseSlots, UseReports, allVars
<1>3. QED BY <1>1, <1>2, HeapInvariant, PTL DEF AllSpec

\* Every pointer goes back where it came from and a moved object is whole
\* (OwnersAreKnown), and the bytes counted against the budget are those of the blocks
\* in the slots, each counted once: pvz2_heap_free, pvz2_heap_realloc, fallback_alloc.
THEOREM BudgetIsExact == AllSpec => []PointersGoHome
<1>1. ASSUME BudgetInv PROVE reserved_bytes = Heap!SumFunction(Bytes)
  <2>1. DOMAIN Bytes = Heap!Filled BY DEF Bytes
  <2>2. Heap!SumFunction(Bytes) = Total(Bytes, DOMAIN Bytes)
    BY DEF Heap!SumFunction, Heap!SumFunctionOnSet, Heap!FoldFunctionOnSet, Heap!MapThenFoldSet,
       Total, Folds, Pick
  <2>3. QED BY <1>1, <2>1, <2>2 DEF BudgetInv, Reserved
<1>2. ASSUME Heap!TypeOK /\ Heap!OwnersKnown /\ reserved_bytes =< FALLBACK_BUDGET, BudgetInv
      PROVE PointersGoHome
  <2>1. reserved_bytes = Heap!SumFunction([i \in Heap!Filled |-> blocks[i].bytes])
    BY <1>1, <1>2 DEF Bytes
  <2>2. QED BY <1>2, <2>1 DEF PointersGoHome, Heap!PointersGoHome
<1>3. QED BY <1>2, OwnersAreKnown, BudgetInvariant, PTL

=============================================================================
