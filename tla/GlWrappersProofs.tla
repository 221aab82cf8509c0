-------------------------- MODULE GlWrappersProofs --------------------------
(***************************************************************************)
(* The wrappers of GL keep their promises for every number of textures,     *)
(* slots, programs, locations, entries and states.                          *)
(*                                                                         *)
(* Textures: in a table with linear probing a name is found exactly when it  *)
(* is in a slot, because no slot between its home and it is empty (Fits).    *)
(* Marking a name keeps this; taking one out does because the names behind   *)
(* it move up until the next empty slot, which is shown by induction over    *)
(* the turns of that loop.  Programs: what an entry or a state says of a     *)
(* uniform is what the driver has.                                          *)
(***************************************************************************)
EXTENDS GlWrappers, FiniteSetTheorems, TLAPS

\* How far it is from slot a to slot b, going up and around.
Ahead(a, b) == IF a =< b THEN b - a ELSE b - a + Slots

Has(table, x) == \E i \in Index : table[i] = x

\* A name is in one slot, and no slot on the way there from its home is empty.
Fits(table) ==
  /\ table \in [Index -> Textures \cup {None}]
  /\ \A i, j \in Index : table[i] = table[j] /\ table[i] # None => i = j
  /\ \A i, q \in Index :
       table[i] # None /\ Ahead(Home[table[i]], q) =< Ahead(Home[table[i]], i) => table[q] # None

-----------------------------------------------------------------------------
(* Numbers.                                                                 *)

\* A set of natural numbers has a least one.
LEMMA Least ==
  ASSUME NEW T \in SUBSET Nat, NEW k \in T
  PROVE \E n \in T : \A m \in T : n =< m
<1> DEFINE F == {0 .. n : n \in T}
<1>1. F \subseteq FiniteSubsetsOf(Nat) /\ F # {}
  <2>1. \A n \in T : 0 .. n \in SUBSET Nat /\ IsFiniteSet(0 .. n) BY FS_Interval
  <2>2. QED BY <2>1 DEF FiniteSubsetsOf
<1>2. PICK y \in F : \A z \in F : ~(<<z, y>> \in StrictSubsetOrdering(Nat))
  <2> HIDE DEF F
  <2> QED BY <1>1, FS_StrictSubsetOrderingWellFounded, WFMin
<1>3. PICK n \in T : y = 0 .. n BY <1>2
<1>4. ASSUME NEW m \in T PROVE n =< m
  <2>1. SUFFICES ASSUME m < n PROVE FALSE OBVIOUS
  <2>2. 0 .. m \in SUBSET Nat /\ 0 .. n \in SUBSET Nat OBVIOUS
  <2>3. 0 .. m \subseteq 0 .. n /\ n \in 0 .. n /\ n \notin 0 .. m BY <2>1
  <2>4. <<0 .. m, 0 .. n>> \in StrictSubsetOrdering(Nat)
    BY <2>2, <2>3 DEF StrictSubsetOrdering
  <2>5. QED BY <2>4, <1>2, <1>3
<1>5. QED BY <1>4

\* Induction, with the property as the set of the numbers that have it.
LEMMA Induction ==
  ASSUME NEW S, 0 \in S, \A n \in Nat : n \in S => n + 1 \in S
  PROVE Nat \subseteq S
<1> DEFINE T == {n \in Nat : n \notin S}
<1>1. SUFFICES ASSUME NEW k \in T PROVE FALSE OBVIOUS
<1>2. PICK n \in T : \A m \in T : n =< m BY Least
<1>3. n # 0 /\ n - 1 \in Nat OBVIOUS
<1>4. n - 1 \in S BY <1>2, <1>3
<1>5. QED BY <1>3, <1>4

\* Ring is arithmetic modulo Slots.
LEMMA RingIs ==
  ASSUME NEW a \in Index, NEW b \in Index
  PROVE /\ Ring(a + b) = (IF a + b < Slots THEN a + b ELSE a + b - Slots)
        /\ Ring(b - a) = Ahead(a, b)
        /\ Ring(a + b) \in Index /\ Ahead(a, b) \in Index
        /\ Ahead(a, Ring(a + b)) = b /\ Ring(a + Ahead(a, b)) = b
<1>0. Slots \in Nat \ {0} BY TextureAssumption
<1>1. ASSUME NEW i \in Int, -Slots < i, i < 2 * Slots
      PROVE i % Slots = IF i < 0 THEN i + Slots ELSE IF i < Slots THEN i ELSE i - Slots
  BY <1>0, <1>1
<1>2. /\ Ring(a + b) = (IF a + b < Slots THEN a + b ELSE a + b - Slots)
      /\ Ring(b - a) = Ahead(a, b)
  BY <1>0, <1>1 DEF Ring, Ahead, Index
<1>3. Ring(a + b) \in Index /\ Ahead(a, b) \in Index BY <1>0, <1>2 DEF Ahead, Index
<1>4. Ahead(a, Ring(a + b)) = b BY <1>0, <1>2 DEF Ahead, Index
<1>5. Ring(a + Ahead(a, b)) = b
  <2>1. Ring(a + Ahead(a, b)) = LET d == Ahead(a, b) IN
            IF a + d < Slots THEN a + d ELSE a + d - Slots
    BY <1>0, <1>1, <1>3 DEF Ring, Index
  <2>2. QED BY <2>1, <1>0 DEF Ahead, Index
<1>6. QED BY <1>2, <1>3, <1>4, <1>5

LEMMA AheadIs ==
  ASSUME NEW a \in Index, NEW b \in Index
  PROVE Ahead(a, b) \in Nat /\ Ahead(a, b) < Slots
<1>1. Ahead(a, b) \in Index BY RingIs
<1>2. QED BY <1>1, TextureAssumption DEF Index

-----------------------------------------------------------------------------
(* The tables.                                                              *)

\* There is room: fewer textures than slots.
LEMMA SomeEmpty ==
  ASSUME NEW table, Fits(table)
  PROVE \E i \in Index : table[i] = None
<1>1. SUFFICES ASSUME \A i \in Index : table[i] # None PROVE FALSE OBVIOUS
<1>2. table \in [Index -> Textures] BY <1>1 DEF Fits
<1>3. \A i, j \in Index : table[i] = table[j] => i = j BY <1>1 DEF Fits
<1>4. table \in Injection(Index, Textures) BY <1>2, <1>3 DEF Injection, IsInjective
<1>5. Cardinality(Index) = Slots
  BY TextureAssumption, FS_Interval DEF Index
<1>6. IsFiniteSet(Textures) BY TextureAssumption
<1>7. Cardinality(Index) =< Cardinality(Textures) BY <1>4, <1>6, FS_Injection
<1>8. QED BY <1>5, <1>7, <1>6, TextureAssumption, FS_CardinalityType

\* Probe finds the first slot with the name or without one.
LEMMA ProbeIs ==
  ASSUME NEW table, Fits(table), NEW x \in Textures
  PROVE /\ Probe(table, x) \in Index /\ table[Probe(table, x)] \in {x, None}
        /\ \A q \in Index :
             Ahead(Home[x], q) < Ahead(Home[x], Probe(table, x)) => table[q] \notin {x, None}
<1> DEFINE At(n) == Ring(Home[x] + n)
           First(n) == /\ table[At(n)] \in {x, None}
                       /\ \A m \in 0 .. n - 1 : table[At(m)] \notin {x, None}
           T == {n \in Index : table[At(n)] \in {x, None}}
<1>0. Home[x] \in Index BY TextureAssumption DEF Index
<1>1. PICK i \in Index : table[i] = None BY SomeEmpty
<1>2. Ahead(Home[x], i) \in T BY <1>0, <1>1, RingIs
<1>3. T \in SUBSET Nat BY TextureAssumption DEF Index
<1>4. PICK n \in T : \A m \in T : n =< m BY <1>2, <1>3, Least
<1>5. First(n) BY <1>4, TextureAssumption DEF Index
<1>6. PICK k \in Index : k = (CHOOSE m \in Index : First(m)) /\ First(k) BY <1>4, <1>5
<1>7. Probe(table, x) = At(k) BY <1>6 DEF Probe
<1>8. At(k) \in Index /\ Ahead(Home[x], At(k)) = k BY <1>0, <1>6, RingIs
<1>9. ASSUME NEW q \in Index, Ahead(Home[x], q) < k PROVE table[q] \notin {x, None}
  <2>1. Ahead(Home[x], q) \in 0 .. k - 1
    <3>1. Ahead(Home[x], q) \in Index BY <1>0, RingIs
    <3>2. QED BY <1>6, <1>9, <3>1, TextureAssumption DEF Index
  <2>2. At(Ahead(Home[x], q)) = q BY <1>0, RingIs
  <2>3. QED BY <2>1, <2>2, <1>6
<1>10. QED BY <1>6, <1>7, <1>8, <1>9

\* A table that fits answers by what it has.
LEMMA MarkedIs ==
  ASSUME NEW table, Fits(table), NEW x \in Textures
  PROVE Marked(table, x) <=> Has(table, x)
<1> DEFINE p == Probe(table, x)
<1>1. /\ p \in Index /\ table[p] \in {x, None}
      /\ \A q \in Index : Ahead(Home[x], q) < Ahead(Home[x], p) => table[q] \notin {x, None}
  BY ProbeIs
<1>2. x # None BY TextureAssumption
<1>3. ASSUME NEW i \in Index, table[i] = x, table[p] = None PROVE FALSE
  <2>1. ~(Ahead(Home[x], p) =< Ahead(Home[x], i)) BY <1>1, <1>2, <1>3 DEF Fits
  <2>2. Ahead(Home[x], i) < Ahead(Home[x], p)
    <3>1. Home[x] \in Index BY TextureAssumption DEF Index
    <3>2. Ahead(Home[x], i) \in Index /\ Ahead(Home[x], p) \in Index BY <3>1, <1>1, RingIs
    <3>3. Ahead(Home[x], i) \in Int /\ Ahead(Home[x], p) \in Int BY <3>2 DEF Index
    <3>4. QED BY <2>1, <3>3
  <2>3. QED BY <2>2, <1>1, <1>3
<1>4. QED BY <1>1, <1>3 DEF Marked, Has

\* Mark adds a name.
LEMMA MarkIs ==
  ASSUME NEW table, Fits(table), NEW x \in Textures
  PROVE /\ Fits(Mark(table, x))
        /\ \A y \in Textures : Has(Mark(table, x), y) <=> y = x \/ Has(table, y)
<1> DEFINE p == Probe(table, x)
           new == Mark(table, x)
<1>1. /\ p \in Index /\ table[p] \in {x, None}
      /\ \A q \in Index : Ahead(Home[x], q) < Ahead(Home[x], p) => table[q] \notin {x, None}
  BY ProbeIs
<1>2. x # None BY TextureAssumption
<1>3. /\ new \in [Index -> Textures \cup {None}]
      /\ \A q \in Index : new[q] = IF q = p THEN x ELSE table[q]
  BY <1>1 DEF Mark, Fits
<1>4. \A i \in Index : table[i] = x => i = p
  BY MarkedIs, <1>1, <1>2 DEF Marked, Has, Fits
<1> HIDE DEF p, new
<1>5. \A i, j \in Index : new[i] = new[j] /\ new[i] # None => i = j
  BY <1>1, <1>3, <1>4 DEF Fits
<1>6. ASSUME NEW i \in Index, NEW q \in Index, new[i] # None,
             Ahead(Home[new[i]], q) =< Ahead(Home[new[i]], i)
      PROVE new[q] # None
  <2>1. CASE q = p BY <2>1, <1>2, <1>3
  <2>2. CASE q # p /\ i # p BY <2>2, <1>3, <1>6 DEF Fits
  <2>3. CASE q # p /\ i = p
    <3>1. Home[x] \in Index BY TextureAssumption DEF Index
    <3>2. Ahead(Home[x], q) # Ahead(Home[x], p)
      <4>1. Ring(Home[x] + Ahead(Home[x], q)) = q /\ Ring(Home[x] + Ahead(Home[x], p)) = p
        BY <3>1, <1>1, RingIs
      <4>2. QED BY <4>1, <2>3
    <3>3. Ahead(Home[x], q) < Ahead(Home[x], p)
      <4>1. Ahead(Home[x], q) \in Index /\ Ahead(Home[x], p) \in Index BY <3>1, <1>1, RingIs
      <4>2. Ahead(Home[x], q) \in Int /\ Ahead(Home[x], p) \in Int BY <4>1 DEF Index
      <4>3. Ahead(Home[x], q) =< Ahead(Home[x], p) BY <2>3, <1>3, <1>6, <1>1
      <4>4. QED BY <3>2, <4>2, <4>3
    <3>4. QED BY <3>3, <1>1, <1>3
  <2>4. QED BY <2>1, <2>2, <2>3
<1>7. Fits(new) BY <1>3, <1>5, <1>6 DEF Fits
<1>8. \A y \in Textures : Has(new, y) <=> y = x \/ Has(table, y)
  BY <1>1, <1>3, TextureAssumption DEF Has
<1>9. QED BY <1>7, <1>8 DEF new

-----------------------------------------------------------------------------
(* Closing the gap.                                                         *)

\* Moved is what its recursion says: such a function exists for every number of
\* steps.
LEMMA MovedIs ==
  ASSUME NEW table, NEW first
  PROVE Moved(table, first) =
          [n \in Index |-> IF n = 0 THEN [table |-> table, hole |-> first]
                           ELSE MoveUp(Moved(table, first)[n - 1], Ring(first + n))]
<1> DEFINE Start == [table |-> table, hole |-> first]
           Good(k, f) == f = [n \in 0 .. k |-> IF n = 0 THEN Start
                                               ELSE MoveUp(f[n - 1], Ring(first + n))]
           S == {k \in Nat : \E f : Good(k, f)}
<1>1. 0 \in S
  <2>1. Good(0, [n \in 0 .. 0 |-> Start]) OBVIOUS
  <2>2. QED BY <2>1
<1>2. ASSUME NEW k \in Nat, k \in S PROVE k + 1 \in S
  <2>1. PICK f : Good(k, f) BY <1>2
  <2> DEFINE g == [n \in 0 .. k + 1 |->
                     IF n = k + 1 THEN MoveUp(f[k], Ring(first + n)) ELSE f[n]]
  <2>2. \A n \in 0 .. k + 1 :
          g[n] = IF n = 0 THEN Start ELSE MoveUp(g[n - 1], Ring(first + n))
    <3>1. ASSUME NEW n \in 0 .. k, n # 0
          PROVE f[n] = MoveUp(f[n - 1], Ring(first + n)) /\ n - 1 \in 0 .. k
      BY <2>1, <3>1
    <3>2. f[0] = Start BY <2>1
    <3>3. QED BY <3>1, <3>2
  <2>3. Good(k + 1, g) BY <2>2
  <2> HIDE DEF g
  <2>4. QED BY <2>3
<1>3. Slots - 1 \in S
  <2>1. Slots - 1 \in Nat BY TextureAssumption
  <2> HIDE DEF S
  <2>2. QED BY <1>1, <1>2, <2>1, Induction
<1>4. \E f : Good(Slots - 1, f) BY <1>3
<1>5. QED BY <1>4 DEF Moved, Index

\* What the loop keeps after n slots, with the name x that was in the first hole:
\* the hole counts as occupied, the others have the other names, and none of the
\* slots behind the first hole is reached across the present one.
GapFits(table, first, n, t, hole) ==
  /\ t \in [Index -> Textures \cup {None}]
  /\ hole \in Index /\ Ahead(first, hole) =< n
  /\ \A q \in Index : t[q] = None <=> table[q] = None
  /\ \A q \in Index : Ahead(first, q) > n => t[q] = table[q]
  /\ \A y \in Textures :
       (\E q \in Index : q # hole /\ t[q] = y) <=> y # table[first] /\ Has(table, y)
  /\ \A q, r \in Index : t[q] = t[r] /\ t[q] # None /\ hole \notin {q, r} => q = r
  /\ \A q, r \in Index :
       q # hole /\ t[q] # None /\ Ahead(Home[t[q]], r) =< Ahead(Home[t[q]], q) => t[r] # None
  /\ \A q \in Index :
       q # hole /\ t[q] # None /\ Ahead(first, q) =< n
          => Ahead(Home[t[q]], hole) > Ahead(Home[t[q]], q)

\* Going around: what lies on the way to b.
LEMMA Around ==
  ASSUME NEW a \in Index, NEW b \in Index, NEW c \in Index
  PROVE /\ Ahead(b, c) = (IF Ahead(a, b) =< Ahead(a, c) THEN Ahead(a, c) - Ahead(a, b)
                          ELSE Ahead(a, c) - Ahead(a, b) + Slots)
        /\ b # c => (Ahead(b, c) =< Ahead(a, c) <=> Ahead(a, b) < Ahead(a, c))
        /\ Ahead(a, b) = Ahead(a, c) => b = c
BY TextureAssumption DEF Ahead, Index

LEMMA GapStarts ==
  ASSUME NEW table, Fits(table), NEW first \in Index, table[first] # None
  PROVE GapFits(table, first, 0, table, first)
<1>1. Ahead(first, first) = 0 BY TextureAssumption DEF Ahead, Index
<1>2. \A q \in Index : q # first => ~(Ahead(first, q) =< 0)
  BY TextureAssumption DEF Ahead, Index
<1>3. table \in [Index -> Textures \cup {None}] BY DEF Fits
<1>4. ASSUME NEW y \in Textures
      PROVE (\E q \in Index : q # first /\ table[q] = y) <=> y # table[first] /\ Has(table, y)
  BY TextureAssumption DEF Fits, Has
<1>5. \A q, r \in Index : table[q] = table[r] /\ table[q] # None => q = r BY DEF Fits
<1>6. \A q, r \in Index :
        table[q] # None /\ Ahead(Home[table[q]], r) =< Ahead(Home[table[q]], q) => table[r] # None
  BY DEF Fits
<1>7. QED BY <1>1, <1>2, <1>3, <1>4, <1>5, <1>6 DEF GapFits

LEMMA MoveKeepsGap ==
  ASSUME NEW table, Fits(table), NEW first \in Index, table[first] # None,
         NEW n \in Nat, n + 1 \in Index, NEW t, NEW hole, GapFits(table, first, n, t, hole),
         \A m \in 1 .. n + 1 : table[Ring(first + m)] # None
  PROVE LET s == MoveUp([table |-> t, hole |-> hole], Ring(first + n + 1)) IN
        GapFits(table, first, n + 1, s.table, s.hole)
<1> DEFINE next == Ring(first + n + 1)
           x == t[next]
<1>1. next \in Index /\ Ahead(first, next) = n + 1
  <2>1. first + n + 1 = first + (n + 1) BY DEF Index
  <2>2. QED BY <2>1, RingIs
<1>2. hole \in Index /\ Ahead(first, hole) =< n /\ hole # next
  BY <1>1 DEF GapFits, Ahead, Index
<1>3. x # None /\ x \in Textures /\ x = table[next] /\ Home[x] \in Index
  <2>1. table[next] # None
    <3>1. first + n + 1 = first + (n + 1) BY DEF Index
    <3>2. QED BY <3>1
  <2>2. Ahead(first, next) > n BY <1>1
  <2>3. QED BY <2>1, <2>2, <1>1, TextureAssumption DEF GapFits, Index
\* Slots up to next have names.
<1>4. \A q \in Index : Ahead(first, q) =< n + 1 => t[q] # None
  <2>1. ASSUME NEW q \in Index, Ahead(first, q) =< n + 1 PROVE t[q] # None
    <3>1. Ahead(first, q) \in Nat /\ Ring(first + Ahead(first, q)) = q
      BY RingIs DEF Index
    <3>2. CASE Ahead(first, q) = 0
      <4>1. q = first BY <3>2, TextureAssumption DEF Ahead, Index
      <4>2. QED BY <4>1 DEF GapFits
    <3>3. CASE Ahead(first, q) # 0
      <4>1. Ahead(first, q) \in 1 .. n + 1 BY <3>1, <3>3, <2>1
      <4>2. table[q] # None BY <4>1, <3>1
      <4>3. QED BY <4>2 DEF GapFits
    <3>4. QED BY <3>2, <3>3
  <2>2. QED BY <2>1
<1>5. PICK empty \in Index : t[empty] = None
  BY SomeEmpty DEF GapFits
<1>6. Ring(next - Home[x]) = Ahead(Home[x], next) /\ Ring(next - hole) = Ahead(hole, next)
  BY <1>1, <1>2, <1>3, RingIs
<1>7. ASSUME NEW q \in Index, Ahead(first, q) =< n + 1, q # next PROVE Ahead(first, q) =< n
  <2>1. Ahead(first, q) # n + 1 BY <1>1, <1>7, Around
  <2>2. Ahead(first, q) \in Int BY RingIs DEF Index
  <2>3. QED BY <2>1, <2>2, <1>7
<1>8. CASE Ahead(Home[x], next) >= Ahead(hole, next)
  <2> DEFINE new == [t EXCEPT ![hole] = x]
  <2>1. MoveUp([table |-> t, hole |-> hole], next) = [table |-> new, hole |-> next]
    BY <1>6, <1>8 DEF MoveUp
  <2>2. /\ new \in [Index -> Textures \cup {None}]
        /\ \A q \in Index : new[q] = IF q = hole THEN x ELSE t[q]
    BY <1>2, <1>3 DEF GapFits
  <2>3. Ahead(Home[x], hole) < Ahead(Home[x], next) BY <1>1, <1>2, <1>3, <1>8, Around
  <2> HIDE DEF new
  <2>4. \A q \in Index : new[q] = None <=> table[q] = None
    <3>1. Ahead(first, hole) =< n + 1 BY <1>2, AheadIs
    <3>2. t[hole] # None BY <3>1, <1>2, <1>4
    <3>3. QED BY <3>2, <1>3, <2>2 DEF GapFits
  <2>5. ASSUME NEW q \in Index, Ahead(first, q) > n + 1 PROVE new[q] = table[q]
    <3>1. Ahead(first, q) > n BY <2>5, RingIs DEF Index
    <3>2. q # hole BY <3>1, <1>2, RingIs DEF Index
    <3>3. QED BY <3>1, <3>2, <2>2 DEF GapFits
  <2>6. ASSUME NEW y \in Textures
        PROVE (\E q \in Index : q # next /\ new[q] = y) <=> y # table[first] /\ Has(table, y)
    <3>1. (\E q \in Index : q # next /\ new[q] = y) <=> (\E q \in Index : q # hole /\ t[q] = y)
      BY <1>1, <1>2, <1>3, <2>2
    <3>2. QED BY <3>1 DEF GapFits
  <2>7. ASSUME NEW q \in Index, NEW r \in Index, new[q] = new[r], new[q] # None,
               next \notin {q, r}
        PROVE q = r
    BY <1>1, <1>2, <1>3, <2>2, <2>7 DEF GapFits
  <2>8. ASSUME NEW q \in Index, NEW r \in Index, q # next, new[q] # None,
               Ahead(Home[new[q]], r) =< Ahead(Home[new[q]], q)
        PROVE new[r] # None
    <3>1. CASE q = hole
      <4>1. Ahead(Home[x], r) =< Ahead(Home[x], hole) BY <3>1, <2>8, <2>2
      <4>2. Ahead(Home[x], r) \in Int /\ Ahead(Home[x], hole) \in Int /\ Ahead(Home[x], next) \in Int
        BY <1>1, <1>2, <1>3, AheadIs
      <4>3. Ahead(Home[x], r) =< Ahead(Home[x], next) BY <4>1, <4>2, <2>3
      <4>4. t[r] # None BY <4>3, <1>1, <1>2, <1>3 DEF GapFits
      <4>5. QED BY <4>4, <2>2, <1>3
    <3>2. CASE q # hole
      <4>1. t[r] # None BY <3>2, <2>8, <2>2 DEF GapFits
      <4>2. QED BY <4>1, <2>2, <1>3
    <3>3. QED BY <3>1, <3>2
  <2>9. ASSUME NEW q \in Index, q # next, new[q] # None, Ahead(first, q) =< n + 1
        PROVE Ahead(Home[new[q]], next) > Ahead(Home[new[q]], q)
    <3>1. CASE q = hole BY <3>1, <2>2, <2>3, <1>1, <1>2, <1>3, RingIs DEF Index
    <3>2. CASE q # hole
      <4> DEFINE h == Home[t[q]]
      <4>1. t[q] # None /\ new[q] = t[q] BY <3>2, <2>2, <2>9
      <4>2. h \in Index BY <4>1, TextureAssumption DEF GapFits, Index
      <4>3. ~(Ahead(h, empty) =< Ahead(h, q)) BY <4>1, <3>2, <1>5 DEF GapFits
      <4>4. ~(Ahead(first, empty) =< n + 1) BY <1>4, <1>5
      <4>5. Ahead(first, q) =< n BY <1>7, <2>9
      <4>6. SUFFICES Ahead(h, next) > Ahead(h, q) BY <4>1
      <4> HIDE DEF h, next
      <4>7. \A c \in {q, next, empty} :
              /\ Ahead(first, c) \in Index
              /\ Ahead(h, c) = IF Ahead(first, h) =< Ahead(first, c)
                               THEN Ahead(first, c) - Ahead(first, h)
                               ELSE Ahead(first, c) - Ahead(first, h) + Slots
        <5>1. q \in Index /\ next \in Index /\ empty \in Index BY <1>1, <1>5
        <5>2. \A c \in Index :
                /\ Ahead(first, c) \in Index
                /\ Ahead(h, c) = IF Ahead(first, h) =< Ahead(first, c)
                                 THEN Ahead(first, c) - Ahead(first, h)
                                 ELSE Ahead(first, c) - Ahead(first, h) + Slots
          BY <4>2, RingIs, Around
        <5>3. QED BY <5>1, <5>2
      <4>8. Ahead(first, h) \in Index BY <4>2, RingIs
      <4>9. QED BY <4>3, <4>4, <4>5, <4>7, <4>8, <1>1, TextureAssumption DEF Index
    <3>3. QED BY <3>1, <3>2
  <2>10. GapFits(table, first, n + 1, new, next)
    <3>1. Ahead(first, next) =< n + 1 BY <1>1
    <3>2. QED BY <3>1, <1>1, <2>2, <2>4, <2>5, <2>6, <2>7, <2>8, <2>9 DEF GapFits
  <2>11. QED BY <2>1, <2>10
<1>9. CASE ~(Ahead(Home[x], next) >= Ahead(hole, next))
  <2>1. MoveUp([table |-> t, hole |-> hole], next) = [table |-> t, hole |-> hole]
    BY <1>6, <1>9 DEF MoveUp
  <2>2. ~(Ahead(Home[x], hole) < Ahead(Home[x], next)) /\ Ahead(Home[x], hole) # Ahead(Home[x], next)
    <3>1. ~(Ahead(hole, next) =< Ahead(Home[x], next))
      BY <1>9, <1>1, <1>2, <1>3, RingIs DEF Index
    <3>2. QED BY <3>1, <1>1, <1>2, <1>3, Around
  <2>3. Ahead(Home[x], hole) > Ahead(Home[x], next)
    BY <2>2, <1>1, <1>2, <1>3, AheadIs
  <2>4. ASSUME NEW q \in Index, q # hole, t[q] # None, Ahead(first, q) =< n + 1
        PROVE Ahead(Home[t[q]], hole) > Ahead(Home[t[q]], q)
    <3>1. CASE q = next BY <3>1, <2>3
    <3>2. CASE q # next
      <4>1. Ahead(first, q) =< n BY <3>2, <2>4, <1>7
      <4>2. QED BY <4>1, <2>4 DEF GapFits
    <3>3. QED BY <3>1, <3>2
  <2>5. Ahead(first, hole) =< n + 1 BY <1>2, RingIs DEF Index
  <2>6. ASSUME NEW q \in Index, Ahead(first, q) > n + 1 PROVE t[q] = table[q]
    <3>1. Ahead(first, q) > n BY <2>6, RingIs DEF Index
    <3>2. QED BY <3>1 DEF GapFits
  <2>7. GapFits(table, first, n + 1, t, hole)
    BY <2>4, <2>5, <2>6 DEF GapFits
  <2>8. QED BY <2>1, <2>7
<1>10. QED BY <1>8, <1>9

\* The loop ends before an empty slot, or when it has been around.
LEMMA ScannedIs ==
  ASSUME NEW table, NEW first \in Index
  PROVE /\ Scanned(table, first) \in Index
        /\ \A m \in 1 .. Scanned(table, first) : table[Ring(first + m)] # None
        /\ \/ Scanned(table, first) = Slots - 1
           \/ table[Ring(first + Scanned(table, first) + 1)] = None
<1> DEFINE Ends(n) == n = Slots - 1 \/ table[Ring(first + n + 1)] = None
           Good(n) == (\A m \in 1 .. n : table[Ring(first + m)] # None) /\ Ends(n)
           T == {n \in Index : Ends(n)}
<1>1. Slots - 1 \in T /\ T \in SUBSET Nat BY TextureAssumption DEF Index
<1>2. PICK n \in T : \A m \in T : n =< m BY <1>1, Least
<1>3. ASSUME NEW m \in 1 .. n PROVE table[Ring(first + m)] # None
  <2>1. m - 1 \in Index /\ m - 1 < n BY <1>1, <1>2, TextureAssumption DEF Index
  <2>2. ~Ends(m - 1)
    <3>1. n \in Int /\ m - 1 \in Int BY <1>1
    <3>2. ~(n =< m - 1) BY <3>1, <2>1
    <3>3. m - 1 \notin T BY <3>2, <1>2
    <3>4. QED BY <3>3, <2>1
  <2>3. first + (m - 1) + 1 = first + m BY DEF Index
  <2>4. QED BY <2>2, <2>3
<1>4. Good(n) /\ n \in Index BY <1>2, <1>3
<1>5. Scanned(table, first) = CHOOSE k \in Index : Good(k) BY DEF Scanned
<1>6. Scanned(table, first) \in Index /\ Good(Scanned(table, first))
  <2> HIDE DEF Good
  <2>1. QED BY <1>4, <1>5
<1>7. QED BY <1>6

\* Closing the gap takes the name of the first hole out, and only that.
LEMMA CloseGapIs ==
  ASSUME NEW table, Fits(table), NEW first \in Index, table[first] # None
  PROVE /\ Fits(CloseGap(table, first))
        /\ \A y \in Textures :
             Has(CloseGap(table, first), y) <=> y # table[first] /\ Has(table, y)
<1> DEFINE after == Moved(table, first)
           end == Scanned(table, first)
           S == {n \in Nat : n =< end =>
                   /\ after[n] = [table |-> after[n].table, hole |-> after[n].hole]
                   /\ GapFits(table, first, n, after[n].table, after[n].hole)}
<1>1. end \in Index /\ \A m \in 1 .. end : table[Ring(first + m)] # None BY ScannedIs
<1>2. \A n \in Index : after[n] = IF n = 0 THEN [table |-> table, hole |-> first]
                                  ELSE MoveUp(after[n - 1], Ring(first + n))
  BY MovedIs
<1>3. 0 \in S
  <2>1. 0 \in Index BY TextureAssumption DEF Index
  <2>2. QED BY <1>2, <2>1, GapStarts
<1>4. ASSUME NEW n \in Nat, n \in S PROVE n + 1 \in S
  <2>1. SUFFICES ASSUME n + 1 =< end
                 PROVE /\ after[n + 1] = [table |-> after[n + 1].table, hole |-> after[n + 1].hole]
                       /\ GapFits(table, first, n + 1, after[n + 1].table, after[n + 1].hole)
    BY <1>4
  <2>2. /\ n + 1 \in Index /\ n =< end /\ n + 1 # 0 /\ n + 1 - 1 = n
        /\ first + (n + 1) = first + n + 1
    BY <2>1, <1>1, TextureAssumption DEF Index
  <2>3. after[n + 1] = MoveUp([table |-> after[n].table, hole |-> after[n].hole], Ring(first + n + 1))
    BY <1>2, <1>4, <2>2
  <2>4. GapFits(table, first, n, after[n].table, after[n].hole) BY <1>4, <2>2
  <2>5. \A m \in 1 .. n + 1 : table[Ring(first + m)] # None BY <1>1, <2>1 DEF Index
  <2>6. GapFits(table, first, n + 1, after[n + 1].table, after[n + 1].hole)
    BY <2>2, <2>3, <2>4, <2>5, MoveKeepsGap
  <2>7. after[n + 1] = [table |-> after[n + 1].table, hole |-> after[n + 1].hole]
    BY <2>3 DEF MoveUp
  <2>8. QED BY <2>6, <2>7
<1>5. end \in S
  <2>1. end \in Nat BY <1>1, TextureAssumption DEF Index
  <2> HIDE DEF S
  <2>2. QED BY <1>3, <1>4, <2>1, Induction
<1> DEFINE t == after[end].table
           hole == after[end].hole
           new == CloseGap(table, first)
<1>6. GapFits(table, first, end, t, hole)
  <2>1. end =< end BY <1>1 DEF Index
  <2>2. QED BY <1>5, <2>1
<1>7. new = [t EXCEPT ![hole] = None] BY DEF CloseGap
<1>8. \A q \in Index : new[q] = IF q = hole THEN None ELSE t[q] BY <1>6, <1>7 DEF GapFits
<1>9. new \in [Index -> Textures \cup {None}] BY <1>6, <1>7 DEF GapFits
<1> HIDE DEF t, hole, new, after
\* Nothing behind the empty slot is reached across the hole.
<1>10. ASSUME NEW q \in Index, q # hole, t[q] # None
       PROVE Ahead(Home[t[q]], hole) > Ahead(Home[t[q]], q)
  <2> DEFINE h == Home[t[q]]
             next == Ring(first + end + 1)
  <2>1. h \in Index BY <1>6, <1>10, TextureAssumption DEF GapFits, Index
  <2>2. Ahead(first, q) \in Index /\ Ahead(first, hole) \in Index /\ Ahead(first, h) \in Index
    BY <1>6, <2>1, RingIs DEF GapFits
  <2>3. CASE Ahead(first, q) =< end BY <2>3, <1>6, <1>10 DEF GapFits
  <2>4. CASE ~(Ahead(first, q) =< end)
    <3>1. end # Slots - 1 /\ end + 1 \in Index
      BY <2>4, <2>2, <1>1, TextureAssumption DEF Index
    <3>2. first + end + 1 = first + (end + 1) BY <1>1 DEF Index
    <3>3. next \in Index /\ Ahead(first, next) = end + 1 BY <3>1, <3>2, RingIs
    <3>4. t[next] = None BY <3>1, <3>3, <1>6, ScannedIs DEF GapFits
    <3>5. ~(Ahead(h, next) =< Ahead(h, q)) BY <3>3, <3>4, <1>6, <1>10 DEF GapFits
    <3>6. Ahead(first, hole) =< end BY <1>6 DEF GapFits
    <3>7. hole \in Index BY <1>6 DEF GapFits
    <3> HIDE DEF next, h
    <3>8. \A c \in {q, next, hole} :
              Ahead(h, c) = IF Ahead(first, h) =< Ahead(first, c)
                               THEN Ahead(first, c) - Ahead(first, h)
                               ELSE Ahead(first, c) - Ahead(first, h) + Slots
      BY <2>1, <3>3, <3>7, Around
    <3>9. Ahead(h, hole) > Ahead(h, q)
      BY <3>3, <3>5, <3>6, <3>8, <2>2, <2>4, <1>1, TextureAssumption DEF Index
    <3>10. QED BY <3>9 DEF h
  <2>5. QED BY <2>3, <2>4
<1>11. \A i, j \in Index : new[i] = new[j] /\ new[i] # None => i = j
  BY <1>6, <1>8 DEF GapFits
<1>12. ASSUME NEW i \in Index, NEW q \in Index, new[i] # None,
              Ahead(Home[new[i]], q) =< Ahead(Home[new[i]], i)
       PROVE new[q] # None
  <2>1. i # hole /\ new[i] = t[i] BY <1>8, <1>12
  <2>2. Ahead(Home[t[i]], hole) > Ahead(Home[t[i]], i) BY <2>1, <1>10, <1>12
  <2>3. Home[t[i]] \in Index BY <2>1, <1>6, <1>12, TextureAssumption DEF GapFits, Index
  <2>4. q # hole
    <3>1. Ahead(Home[t[i]], i) \in Int /\ Ahead(Home[t[i]], q) \in Int BY <2>3, AheadIs
    <3>2. SUFFICES ASSUME q = hole PROVE FALSE OBVIOUS
    <3>3. Ahead(Home[t[i]], q) > Ahead(Home[t[i]], i) BY <3>2, <2>2
    <3>4. Ahead(Home[t[i]], q) =< Ahead(Home[t[i]], i) BY <2>1, <1>12
    <3>5. QED BY ONLY <3>1, <3>3, <3>4
  <2>5. t[q] # None BY <2>1, <1>6, <1>12 DEF GapFits
  <2>6. QED BY <2>4, <2>5, <1>8
<1>13. Fits(new) BY <1>9, <1>11, <1>12 DEF Fits
<1>14. ASSUME NEW y \in Textures PROVE Has(new, y) <=> y # table[first] /\ Has(table, y)
  <2>1. Has(new, y) <=> \E q \in Index : q # hole /\ t[q] = y
    BY <1>8, TextureAssumption DEF Has
  <2>2. QED BY <2>1, <1>6 DEF GapFits
<1>15. QED BY <1>13, <1>14 DEF new

\* texture_marks_remove takes a name out, if it is there.
LEMMA UnmarkIs ==
  ASSUME NEW table, Fits(table), NEW x \in Textures
  PROVE /\ Fits(Unmark(table, x))
        /\ \A y \in Textures : Has(Unmark(table, x), y) <=> y # x /\ Has(table, y)
<1>1. CASE Marked(table, x)
  <2>1. Probe(table, x) \in Index /\ table[Probe(table, x)] = x BY <1>1, ProbeIs DEF Marked
  <2>2. x # None BY TextureAssumption
  <2>3. QED BY <1>1, <2>1, <2>2, CloseGapIs DEF Unmark, Marked
<1>2. CASE ~Marked(table, x) BY <1>2, MarkedIs DEF Unmark, Marked
<1>3. QED BY <1>1, <1>2

-----------------------------------------------------------------------------
(* The textures.                                                            *)

Declarable == {"rgba", "alpha", "bgra", "other", "etc1", "compressed", None}
Pixels == {"none", "rgba", "bgra", "other"}
\* The formats that go to the driver as the game gives them.
Direct == {"bgra", "other"}

\* What the three sets, the storage and the formats of a texture have to do with
\* each other; d is what the game declared.
Sound(d, size, format, inDsamp, inTexfail, inAlpha8) ==
  /\ inDsamp <=> size = "half"
  /\ inTexfail <=> size = "tiny"
  /\ inAlpha8 <=> d = "alpha" /\ size \in {"full", "half"}
  /\ d \in {"rgba", "etc1", "alpha"} /\ size # "none" => format = "rgba"
  /\ d \in {"bgra", "other"} => size \in {"none", "full"} /\ (size = "full" => format = d)

TablesFit == Fits(dsamp) /\ Fits(alpha8) /\ Fits(texfail)

TexInv ==
  /\ TypeOK /\ TablesFit /\ UploadsFit
  /\ running => \A x \in Textures :
       Sound(declared[x], storage[x], pixel[x], Has(dsamp, x), Has(texfail, x), Has(alpha8, x))

\* texture_marks_reset and the new marks: the others keep theirs.
LEMMA RemarkIs ==
  ASSUME TablesFit, NEW x \in Textures, NEW marks, Remark(x, marks)
  PROVE /\ TablesFit'
        /\ \A y \in Textures :
             /\ Has(dsamp', y) <=> IF y = x THEN "dsamp" \in marks ELSE Has(dsamp, y)
             /\ Has(alpha8', y) <=> IF y = x THEN "alpha8" \in marks ELSE Has(alpha8, y)
             /\ Has(texfail', y) <=> IF y = x THEN "texfail" \in marks ELSE Has(texfail, y)
<1> DEFINE Set(table, mark) ==
             IF mark \in marks THEN Mark(Unmark(table, x), x) ELSE Unmark(table, x)
<1>1. ASSUME NEW table, NEW mark, Fits(table)
      PROVE /\ Fits(Set(table, mark))
            /\ \A y \in Textures :
                 Has(Set(table, mark), y) <=> IF y = x THEN mark \in marks ELSE Has(table, y)
  <2>1. /\ Fits(Unmark(table, x))
        /\ \A y \in Textures : Has(Unmark(table, x), y) <=> y # x /\ Has(table, y)
    BY <1>1, UnmarkIs
  <2>2. /\ Fits(Mark(Unmark(table, x), x))
        /\ \A y \in Textures :
             Has(Mark(Unmark(table, x), x), y) <=> y = x \/ Has(Unmark(table, x), y)
    BY <2>1, MarkIs
  <2>3. QED BY <2>1, <2>2
<1>2. /\ dsamp' = Set(dsamp, "dsamp") /\ alpha8' = Set(alpha8, "alpha8")
      /\ texfail' = Set(texfail, "texfail")
  BY DEF Remark
<1> HIDE DEF Set
<1>3. QED BY <1>1, <1>2 DEF TablesFit, Fits

\* A definition that ends well leaves a texture that is sound.
LEMMA StoredKeeps ==
  ASSUME TexInv, running, NEW x \in Textures,
         declared' \in [Textures -> Declarable],
         \A y \in Textures : y # x => declared'[y] = declared[y],
         NEW size \in {"none", "full", "half", "tiny"}, NEW format \in Pixels,
         NEW marks, Stored(x, size, format, marks),
         Sound(declared'[x], size, format, "dsamp" \in marks, "texfail" \in marks, "alpha8" \in marks)
  PROVE TexInv'
<1>1. /\ TablesFit'
      /\ \A y \in Textures :
           /\ Has(dsamp', y) <=> IF y = x THEN "dsamp" \in marks ELSE Has(dsamp, y)
           /\ Has(alpha8', y) <=> IF y = x THEN "alpha8" \in marks ELSE Has(alpha8, y)
           /\ Has(texfail', y) <=> IF y = x THEN "texfail" \in marks ELSE Has(texfail, y)
  BY RemarkIs DEF TexInv, Stored
<1>2. /\ storage' = [storage EXCEPT ![x] = size] /\ pixel' = [pixel EXCEPT ![x] = format]
      /\ sent' = Nothing /\ running' = running
  BY DEF Stored
<1>3. TypeOK'
  <2>1. dsamp' \in [Index -> Textures \cup {None}] /\ alpha8' \in [Index -> Textures \cup {None}]
        /\ texfail' \in [Index -> Textures \cup {None}]
    BY <1>1 DEF TablesFit, Fits
  <2>2. QED BY <2>1, <1>2 DEF TexInv, TypeOK, Declarable, Pixels
<1>4. UploadsFit' BY <1>2 DEF UploadsFit, Nothing
<1>5. ASSUME NEW y \in Textures
      PROVE Sound(declared'[y], storage'[y], pixel'[y], Has(dsamp', y), Has(texfail', y), Has(alpha8', y))
  <2>1. CASE y = x
    <3>1. /\ storage'[y] = size /\ pixel'[y] = format
          /\ Has(dsamp', y) <=> "dsamp" \in marks
          /\ Has(alpha8', y) <=> "alpha8" \in marks
          /\ Has(texfail', y) <=> "texfail" \in marks
      BY <2>1, <1>1, <1>2 DEF TexInv, TypeOK, Declarable, Pixels
    <3>2. QED BY <2>1, <3>1 DEF Sound
  <2>2. CASE y # x
    <3>1. /\ storage'[y] = storage[y] /\ pixel'[y] = pixel[y] /\ declared'[y] = declared[y]
          /\ Has(dsamp', y) <=> Has(dsamp, y)
          /\ Has(alpha8', y) <=> Has(alpha8, y)
          /\ Has(texfail', y) <=> Has(texfail, y)
      BY <2>2, <1>1, <1>2 DEF TexInv, TypeOK, Declarable, Pixels
    <3>2. Sound(declared[y], storage[y], pixel[y], Has(dsamp, y), Has(texfail, y), Has(alpha8, y))
      BY DEF TexInv
    <3>3. QED BY <3>1, <3>2 DEF Sound
  <2>3. QED BY <2>1, <2>2
<1>6. QED BY <1>1, <1>3, <1>4, <1>5 DEF TexInv

LEMMA FatalKeeps ==
  ASSUME TexInv, Fatal,
         declared' \in [Textures -> Declarable]
  PROVE TexInv'
<1>1. running' = FALSE /\ sent' = Nothing /\ UNCHANGED <<storage, pixel, dsamp, alpha8, texfail>>
  BY DEF Fatal, markVars
<1>2. TypeOK' BY <1>1 DEF TexInv, TypeOK, Declarable, Pixels
<1>3. TablesFit' BY <1>1 DEF TexInv, TablesFit, Fits
<1>4. UploadsFit' BY <1>1 DEF UploadsFit, Nothing
<1>5. QED BY <1>1, <1>2, <1>3, <1>4 DEF TexInv

\* Whatever is uploaded or not, the definition ends in a sound texture or not at all.
Ends(x, d) ==
  \/ Fatal
  \/ \E size \in {"none", "full", "half", "tiny"}, format \in Pixels,
        marks \in SUBSET {"dsamp", "texfail", "alpha8"} :
       /\ Stored(x, size, format, marks)
       /\ Sound(d, size, format, "dsamp" \in marks, "texfail" \in marks, "alpha8" \in marks)

LEMMA OutcomesAreSound ==
  ASSUME NEW x, NEW d
  PROVE /\ d \notin {"bgra", "other"} /\ Placeholder(x) => Ends(x, d)
        /\ d \notin {"bgra", "other", "alpha"} /\ Halved(x) => Ends(x, d)
        /\ Stored(x, "none", "none", {}) => Ends(x, d)
        /\ d \notin {"bgra", "other", "alpha"} /\ Stored(x, "full", "rgba", {}) => Ends(x, d)
        /\ d = "compressed" /\ Stored(x, "full", "other", {}) => Ends(x, d)
        /\ d \in Direct /\ Stored(x, "full", d, {}) => Ends(x, d)
        /\ d = "alpha" /\ Stored(x, "half", "rgba", {"alpha8", "dsamp"}) => Ends(x, d)
        /\ d = "alpha" /\ Stored(x, "full", "rgba", {"alpha8"}) => Ends(x, d)
<1> DEFINE One(size, format, marks) ==
             /\ Stored(x, size, format, marks)
             /\ Sound(d, size, format, "dsamp" \in marks, "texfail" \in marks, "alpha8" \in marks)
<1>1. ASSUME NEW size \in {"none", "full", "half", "tiny"}, NEW format \in Pixels,
             NEW marks \in SUBSET {"dsamp", "texfail", "alpha8"}, One(size, format, marks)
      PROVE Ends(x, d)
  BY <1>1 DEF Ends
<1>2. d \notin {"bgra", "other"} => Sound(d, "tiny", "rgba", FALSE, TRUE, FALSE) BY DEF Sound
<1>3. d \notin {"bgra", "other", "alpha"} => Sound(d, "half", "rgba", TRUE, FALSE, FALSE) BY DEF Sound
<1>4. Sound(d, "none", "none", FALSE, FALSE, FALSE) BY DEF Sound
<1>5. d \notin {"bgra", "other", "alpha"} => Sound(d, "full", "rgba", FALSE, FALSE, FALSE) BY DEF Sound
<1>6. /\ d = "compressed" => Sound(d, "full", "other", FALSE, FALSE, FALSE)
      /\ d \in Direct => Sound(d, "full", d, FALSE, FALSE, FALSE)
  BY DEF Sound, Direct
<1>7. d = "alpha" => Sound(d, "half", "rgba", TRUE, FALSE, TRUE) BY DEF Sound
<1>8. d = "alpha" => Sound(d, "full", "rgba", FALSE, FALSE, TRUE) BY DEF Sound
<1>9. d \notin {"bgra", "other"} /\ Stored(x, "tiny", "rgba", {"texfail"}) => One("tiny", "rgba", {"texfail"})
  BY <1>2 DEF Sound
<1>10. d \notin {"bgra", "other", "alpha"} /\ Stored(x, "half", "rgba", {"dsamp"}) => One("half", "rgba", {"dsamp"})
  BY <1>3 DEF Sound
<1>11. Stored(x, "none", "none", {}) => One("none", "none", {}) BY <1>4 DEF Sound
<1>12. d \notin {"bgra", "other", "alpha"} /\ Stored(x, "full", "rgba", {}) => One("full", "rgba", {})
  BY <1>5 DEF Sound
<1>13. /\ d = "compressed" /\ Stored(x, "full", "other", {}) => One("full", "other", {})
       /\ d \in Direct /\ Stored(x, "full", d, {}) => One("full", d, {}) /\ d \in Pixels
  BY <1>6 DEF Sound, Direct, Pixels
<1>14. d = "alpha" /\ Stored(x, "half", "rgba", {"alpha8", "dsamp"}) => One("half", "rgba", {"alpha8", "dsamp"})
  BY <1>7 DEF Sound
<1>15. d = "alpha" /\ Stored(x, "full", "rgba", {"alpha8"}) => One("full", "rgba", {"alpha8"})
  BY <1>8 DEF Sound
<1>16. Fatal => Ends(x, d) BY DEF Ends
<1> HIDE DEF One
<1>17. d \notin {"bgra", "other"} /\ Placeholder(x) => Ends(x, d)
  BY <1>1, <1>9, <1>16 DEF Placeholder, Pixels
<1>18. d \notin {"bgra", "other", "alpha"} /\ Halved(x) => Ends(x, d)
  BY <1>1, <1>10, <1>17 DEF Halved, Pixels
<1>19. QED BY <1>1, <1>11, <1>12, <1>13, <1>14, <1>15, <1>17, <1>18 DEF Pixels

LEMMA EndsKeeps ==
  ASSUME TexInv, running, NEW x \in Textures,
         declared' \in [Textures -> Declarable],
         \A y \in Textures : y # x => declared'[y] = declared[y],
         Ends(x, declared'[x])
  PROVE TexInv'
<1>1. CASE Fatal BY <1>1, FatalKeeps
<1>2. CASE ~Fatal BY <1>2, StoredKeeps DEF Ends
<1>3. QED BY <1>1, <1>2

LEMMA TexImage2DKeeps ==
  ASSUME TexInv, NEW x \in Textures, NEW format \in {"rgba", "packed", "alpha", "bgra", "other"},
         TexImage2D(x, format)
  PROVE TexInv'
<1> DEFINE d == declared'[x]
<1>1. /\ running /\ d = (IF format = "packed" THEN "rgba" ELSE format)
      /\ declared' \in [Textures -> Declarable]
      /\ \A y \in Textures : y # x => declared'[y] = declared[y]
  BY DEF TexImage2D, Declare, TexInv, TypeOK, Declarable, Pixels
<1>s. SUFFICES Ends(x, d) BY <1>1, EndsKeeps
<1> HIDE DEF d
<1>2. Fatal => Ends(x, d) BY DEF Ends
<1>3. ASSUME d = "rgba", NEW retry, UploadFull(x, "rgba", retry) PROVE Ends(x, d)
  BY <1>3, OutcomesAreSound DEF UploadFull
<1>4. ASSUME d = "rgba", NEW size, UploadRGBA(x, size) PROVE Ends(x, d)
  BY <1>3, <1>4, OutcomesAreSound DEF UploadRGBA
<1>5. CASE format = "rgba" /\ \E size \in Sizes : UploadRGBA(x, size) BY <1>1, <1>4, <1>5
<1>6. CASE format = "packed" /\ UploadPacked(x)
  <2>1. d = "rgba" BY <1>1, <1>6
  <2>2. CASE Placeholder(x) BY <2>1, <2>2, OutcomesAreSound
  <2>3. CASE \E size \in Sizes : UploadRGBA(x, size) BY <2>1, <2>3, <1>4
  <2>4. QED BY <2>2, <2>3, <1>6 DEF UploadPacked
<1>7. CASE format = "alpha" /\ UploadAlpha(x)
  <2>1. d = "alpha" BY <1>1, <1>7
  <2>2. QED BY <2>1, <1>7, OutcomesAreSound DEF UploadAlpha
<1>8. CASE format \in {"bgra", "other"} /\ (UploadBlank(x, format) \/ UploadFull(x, format, FALSE))
  <2>1. d = format /\ d \in Direct BY <1>1, <1>8 DEF Direct
  <2>2. QED BY <2>1, <1>2, <1>8, OutcomesAreSound DEF UploadBlank, UploadFull
<1>9. CASE format \in {"rgba", "packed"} /\ UploadBlank(x, "rgba")
  <2>1. d = "rgba" BY <1>1, <1>9
  <2>2. QED BY <2>1, <1>2, <1>9, OutcomesAreSound DEF UploadBlank
<1>10. QED BY <1>5, <1>6, <1>7, <1>8, <1>9 DEF TexImage2D

LEMMA CompressedTexImage2DKeeps ==
  ASSUME TexInv, NEW x \in Textures, NEW format \in {"etc1", "compressed"},
         CompressedTexImage2D(x, format)
  PROVE TexInv'
<1> DEFINE d == declared'[x]
<1>1. /\ running /\ d = format
      /\ declared' \in [Textures -> Declarable]
      /\ \A y \in Textures : y # x => declared'[y] = declared[y]
  BY DEF CompressedTexImage2D, Declare, TexInv, TypeOK, Declarable, Pixels
<1>s. SUFFICES Ends(x, d) BY <1>1, EndsKeeps
<1> HIDE DEF d
<1>2. Fatal => Ends(x, d) BY DEF Ends
<1>3. ASSUME d = "etc1", NEW retry, UploadFull(x, "rgba", retry) PROVE Ends(x, d)
  BY <1>3, OutcomesAreSound DEF UploadFull
<1>4. ASSUME d = "etc1", NEW size, UploadRGBA(x, size) PROVE Ends(x, d)
  BY <1>3, <1>4, OutcomesAreSound DEF UploadRGBA
<1>5. CASE format = "etc1" /\ (UploadBlank(x, "rgba") \/ UploadETC1(x))
  <2>1. d = "etc1" BY <1>1, <1>5
  <2>2. CASE UploadBlank(x, "rgba") BY <2>1, <2>2, <1>2, OutcomesAreSound DEF UploadBlank
  <2>3. CASE UploadETC1(x) BY <2>1, <2>3, <1>4, OutcomesAreSound DEF UploadETC1
  <2>4. QED BY <2>2, <2>3, <1>5
<1>6. CASE format = "compressed" /\ UploadCompressed(x)
  BY <1>1, <1>6, OutcomesAreSound DEF UploadCompressed
<1>7. QED BY <1>5, <1>6 DEF CompressedTexImage2D

\* Steps that define nothing: what is sent has to fit.
LEMMA SendKeeps ==
  ASSUME TexInv, UNCHANGED <<imageVars, markVars, running>>, UploadsFit'
  PROVE TexInv'
<1>1. /\ declared' = declared /\ storage' = storage /\ pixel' = pixel /\ dsamp' = dsamp
      /\ alpha8' = alpha8 /\ texfail' = texfail /\ running' = running
  BY DEF imageVars, markVars
<1>2. TypeOK' BY <1>1 DEF TexInv, TypeOK, Declarable, Pixels
<1>3. TablesFit' BY <1>1 DEF TexInv, TablesFit, Fits
<1>4. QED BY <1>1, <1>2, <1>3 DEF TexInv

LEMMA DropKeeps == ASSUME TexInv, Drop PROVE TexInv'
<1>1. UploadsFit' BY DEF Drop, UploadsFit, Nothing
<1>2. QED BY <1>1, SendKeeps DEF Drop

\* What the fill path makes of the marks.
LEMMA FillFits ==
  ASSUME TexInv, NEW x \in Textures, NEW scale, NEW format, MayFill(x),
         Upload(x, scale, format), ~Has(texfail, x),
         format = FillFormat(x) \/ (declared[x] # "etc1" /\ format = LevelFormat(x)),
         scale = IF Has(dsamp, x) /\ format = "rgba" THEN "half" ELSE "full"
  PROVE TexInv'
<1>1. Sound(declared[x], storage[x], pixel[x], Has(dsamp, x), Has(texfail, x), Has(alpha8, x))
  BY DEF TexInv, MayFill
<1>2. declared[x] \in {"rgba", "alpha", "bgra", "other", "etc1"} /\ storage[x] \in {"none", "full", "half", "tiny"}
  BY DEF TexInv, TypeOK, MayFill, Declarable
<1>3. Marked(alpha8, x) <=> Has(alpha8, x) BY MarkedIs DEF TexInv, TablesFit
<1>4. storage[x] # "none" =>
        scale = storage[x] /\ (format = pixel[x] \/ (format = "rgba" /\ pixel[x] = "bgra"))
  BY <1>1, <1>2, <1>3 DEF Sound, LevelFormat, FillFormat
<1>5. sent' = [texture |-> x, scale |-> scale, pixel |-> format] /\ storage' = storage /\ pixel' = pixel
  BY DEF Upload, imageVars
<1>6. UploadsFit' BY <1>4, <1>5 DEF UploadsFit
<1>7. QED BY <1>6, SendKeeps DEF Upload

LEMMA TextureStepKeeps == ASSUME TexInv, Next PROVE TexInv'
<1> SUFFICES ASSUME NEW x \in Textures, NEW b \in BOOLEAN,
                    \/ TexImageMip(x) \/ TexImageMipDropped(x) \/ DeleteTexture(x)
                    \/ TexSubImage2D(x, b) \/ TexSubImage2DDropped(x, b)
                    \/ CompressedTexSubImage2D(x, b)
                    \/ \E format \in {"rgba", "packed", "alpha", "bgra", "other"} :
                         TexImage2D(x, format)
                    \/ \E format \in {"etc1", "compressed"} : CompressedTexImage2D(x, format)
             PROVE TexInv'
  BY DEF Next
<1>0. /\ Marked(dsamp, x) <=> Has(dsamp, x)
      /\ Marked(texfail, x) <=> Has(texfail, x)
  BY MarkedIs DEF TexInv, TablesFit
<1>1. CASE TexImageMip(x)
  BY <1>0, <1>1, FillFits DEF TexImageMip
<1>2. CASE TexImageMipDropped(x) BY <1>2, DropKeeps DEF TexImageMipDropped
<1>3. CASE DeleteTexture(x)
  <2>1. /\ running /\ Stored(x, "none", "none", {})
        /\ declared' \in [Textures -> Declarable]
        /\ \A y \in Textures : y # x => declared'[y] = declared[y]
    BY <1>3 DEF DeleteTexture, TexInv, TypeOK, Declarable, Pixels
  <2>2. Ends(x, declared'[x]) BY <2>1, OutcomesAreSound
  <2>3. QED BY <2>1, <2>2, EndsKeeps
<1>4. CASE TexSubImage2D(x, b)
  BY <1>0, <1>4, FillFits DEF TexSubImage2D
<1>5. CASE TexSubImage2DDropped(x, b) BY <1>5, DropKeeps DEF TexSubImage2DDropped
<1>6. CASE CompressedTexSubImage2D(x, b)
  <2>1. /\ running /\ declared' = declared /\ declared[x] = "compressed"
        /\ declared' \in [Textures -> Declarable]
    BY <1>6 DEF CompressedTexSubImage2D, TexInv, TypeOK, Declarable, Pixels
  <2>2. CASE UploadCompressed(x)
    <3>1. Ends(x, declared'[x]) BY <2>1, <2>2, OutcomesAreSound DEF UploadCompressed
    <3>2. QED BY <2>1, <3>1, EndsKeeps
  <2>3. CASE sent' = Nothing /\ UNCHANGED <<storage, pixel, markVars, running>>
    <3>1. Drop BY <2>1, <2>3 DEF Drop, imageVars
    <3>2. QED BY <3>1, DropKeeps
  <2>4. QED BY <2>2, <2>3, <1>6 DEF CompressedTexSubImage2D
<1>7. CASE \/ \E format \in {"rgba", "packed", "alpha", "bgra", "other"} : TexImage2D(x, format)
           \/ \E format \in {"etc1", "compressed"} : CompressedTexImage2D(x, format)
  BY <1>7, TexImage2DKeeps, CompressedTexImage2DKeeps
<1>8. QED BY <1>1, <1>2, <1>3, <1>4, <1>5, <1>6, <1>7

-----------------------------------------------------------------------------
(* The programs.                                                            *)

Finite == Values \cup {P!Bad}
Uploaded == Finite \cup {P!Unset} \cup {2 * v : v \in Values}
Sprite == [program : Programs \cup {None}, location : Locations \cup {None},
           kind : {"none", "scalar", "vector", "element", "matrix"},
           have : BOOLEAN, value : Finite]
State == [program : Programs \cup {None}, sole : Locations \cup {None}, cached : BOOLEAN,
          finite : Finite, upload : Finite]
Entries == 0 .. Ways - 1

DriverFits ==
  /\ layout \in [Programs -> Layouts \cup {None}]
  /\ current \in {None} \cup {p \in Programs : layout[p] # None}
  /\ uniform \in [Programs -> [Locations -> Uploaded]]
  /\ wanted = uniform

\* A location has one entry, and what an entry has is what the driver has.
SpritesFit ==
  /\ sprites \in [Entries -> Sprite] /\ victim \in Entries
  /\ \A w \in Entries :
       sprites[w].have => /\ sprites[w].program \in Programs /\ sprites[w].location \in Locations
                          /\ uniform[sprites[w].program][sprites[w].location] = sprites[w].value
  /\ \A v, w \in Entries :
       /\ sprites[v].program = sprites[w].program /\ sprites[v].program # None
       /\ sprites[v].location = sprites[w].location
       => v = w

\* What the state of a program says of its matrix is so.
StateTells(state) ==
  /\ state.cached /\ state.sole = P!SoleMatrix(state.program)
  /\ state.upload # P!Bad => /\ state.sole # None
                             /\ uniform[state.program][state.sole] = state.upload

\* A program has one state.
StatesFit ==
  /\ states \in [States -> State]
  /\ \A r, s \in States : states[r].program = states[s].program /\ states[r].program # None => r = s
  /\ \A s \in States : states[s].program # None => StateTells(states[s])

ProgInv == DriverFits /\ SpritesFit /\ StatesFit

LEMMA SoleIs ==
  ASSUME NEW p
  PROVE P!SoleMatrix(p) = None \/ P!SoleMatrix(p) \in P!Matrices(p)
<1>1. CASE P!Matrices(p) = {}
  <2>1. Cardinality(P!Matrices(p)) = 0 BY <1>1, FS_EmptySet
  <2>2. QED BY <2>1 DEF P!SoleMatrix
<1>2. CASE P!Matrices(p) # {} BY <1>2 DEF P!SoleMatrix
<1>3. QED BY <1>1, <1>2

\* The entry of a location is the one it has, or one that is given up.
LEMMA EntryIs ==
  ASSUME ProgInv, NEW l
  PROVE /\ P!EntryFor(l) \in Entries
        /\ P!Hits(l) # {} => P!EntryFor(l) \in P!Hits(l)
        /\ P!NextVictim(l) \in Entries
<1>1. DOMAIN sprites = Entries /\ victim \in Entries BY DEF ProgInv, SpritesFit
<1>2. Ways \in Nat \ {0} BY ProgramAssumption
<1>3. CASE P!Hits(l) # {}
  BY <1>1, <1>3 DEF P!Hits, P!EntryFor, P!NextVictim
<1>4. CASE P!Hits(l) = {} /\ P!Unused # {}
  <2> DEFINE T == {Ways - 1 - w : w \in P!Unused}
  <2>1. P!Unused \subseteq Entries BY <1>1 DEF P!Unused
  <2>2. T \in SUBSET Nat /\ T # {}
    <3>1. \A w \in P!Unused : Ways - 1 - w \in Nat BY <1>2, <2>1 DEF Entries
    <3>2. QED BY <3>1, <1>4
  <2>3. PICK k \in T : \A m \in T : k =< m BY <2>2, Least
  <2>4. PICK w \in P!Unused : k = Ways - 1 - w BY <2>3
  <2>5. \A v \in P!Unused : v =< w
    <3>1. ASSUME NEW v \in P!Unused PROVE v =< w
      <4>1. Ways - 1 - w =< Ways - 1 - v BY <2>3, <2>4
      <4>2. v \in Int /\ w \in Int BY <2>1 DEF Entries
      <4>3. QED BY <4>1, <4>2, <1>2
    <3>2. QED BY <3>1
  <2>6. P!EntryFor(l) \in P!Unused BY <2>5, <1>4 DEF P!EntryFor
  <2>7. QED BY <2>1, <2>6, <1>1, <1>4 DEF P!NextVictim
<1>5. CASE P!Hits(l) = {} /\ P!Unused = {}
  <2>1. P!EntryFor(l) = victim BY <1>5 DEF P!EntryFor
  <2>2. P!NextVictim(l) = (victim + 1) % Ways BY <1>5 DEF P!NextVictim
  <2>3. (victim + 1) % Ways \in Entries BY <1>1, <1>2 DEF Entries
  <2>4. QED BY <2>1, <2>2, <2>3, <1>1, <1>5
<1>6. QED BY <1>3, <1>4, <1>5

\* The slot of the state of a program is its own, or one that is given up.
LEMMA SlotIs ==
  ASSUME ProgInv, NEW p \in Programs
  PROVE /\ P!StateSlot(p) \in States
        /\ \A s \in States : states[s].program = p => s = P!StateSlot(p)
<1>0. p # None BY ProgramAssumption
<1>1. CASE \E s \in States : states[s].program = p
  <2>1. P!StateSlot(p) \in States /\ states[P!StateSlot(p)].program = p
    BY <1>1 DEF P!StateSlot
  <2>2. QED BY <2>1, <1>0 DEF ProgInv, StatesFit
<1>2. CASE ~(\E s \in States : states[s].program = p) /\ \E s \in States : states[s].program = None
  <2> DEFINE T == {s \in States : states[s].program = None}
  <2>1. T \in SUBSET Nat /\ T # {} BY <1>2, ProgramAssumption
  <2>2. PICK s \in T : \A r \in T : s =< r BY <2>1, Least
  <2>3. P!StateSlot(p) \in States BY <1>2, <2>2 DEF P!StateSlot
  <2>4. QED BY <2>3, <1>2
<1>3. CASE /\ ~(\E s \in States : states[s].program = p)
           /\ ~\E s \in States : states[s].program = None
  BY <1>3, ProgramAssumption DEF P!StateSlot
<1>4. QED BY <1>1, <1>2, <1>3

\* The state a call works on.
LEMMA StateOfIs ==
  ASSUME ProgInv, NEW p \in Programs
  PROVE /\ P!StateOf(p) \in State /\ P!StateOf(p).program = p
        /\ StateTells(P!StateOf(p))
<1> DEFINE state == states[P!StateSlot(p)]
           mine == IF state.program = p THEN state ELSE [P!NoState EXCEPT !.program = p]
<1>0. p # None BY ProgramAssumption
<1>1. state \in State BY SlotIs DEF ProgInv, StatesFit
<1>2. P!SoleMatrix(p) \in Locations \cup {None}
  BY SoleIs DEF P!Matrices
<1>3. CASE state.program = p
  <2>1. StateTells(state) BY <1>0, <1>3, SlotIs DEF ProgInv, StatesFit
  <2>2. P!StateOf(p) = state BY <1>3, <2>1 DEF P!StateOf, StateTells
  <2>3. QED BY <1>1, <1>3, <2>1, <2>2
<1>4. CASE state.program # p
  <2>1. P!StateOf(p) = [program |-> p, sole |-> P!SoleMatrix(p), cached |-> TRUE,
                        finite |-> P!Bad, upload |-> P!Bad]
    BY <1>4 DEF P!StateOf, P!NoState
  <2>2. QED BY <2>1, <1>2 DEF State, StateTells, Finite
<1>5. QED BY <1>3, <1>4

\* One uniform changes, of the program in use, or none, and what is told of it.
LEMMA SpritesKeep ==
  ASSUME ProgInv, current # None, NEW l \in Locations, NEW value \in Uploaded,
         uniform' = [uniform EXCEPT ![current][l] = value],
         sprites' = P!ForgetAt(l), victim' = victim
  PROVE SpritesFit'
<1>1. sprites \in [Entries -> Sprite] /\ victim \in Entries /\ current \in Programs
  BY DEF ProgInv, SpritesFit, DriverFits
<1>2. sprites' = [w \in Entries |-> IF w \in P!Hits(l) THEN [sprites[w] EXCEPT !.have = FALSE]
                                    ELSE sprites[w]]
  BY <1>1 DEF P!ForgetAt, P!SpritesWithout
<1>3. \A w \in Entries :
        /\ sprites'[w] \in Sprite
        /\ sprites'[w].program = sprites[w].program /\ sprites'[w].location = sprites[w].location
        /\ sprites'[w].value = sprites[w].value
        /\ sprites'[w].have => sprites[w].have /\ w \notin P!Hits(l)
  <2>1. SUFFICES ASSUME NEW w \in Entries
                 PROVE /\ sprites'[w] \in Sprite
                       /\ sprites'[w].program = sprites[w].program
                       /\ sprites'[w].location = sprites[w].location
                       /\ sprites'[w].value = sprites[w].value
                       /\ sprites'[w].have => sprites[w].have /\ w \notin P!Hits(l)
    OBVIOUS
  <2>2. sprites[w] \in Sprite BY <1>1
  <2>3. CASE w \in P!Hits(l)
    <3>1. sprites'[w] = [sprites[w] EXCEPT !.have = FALSE] BY <2>3, <1>2
    <3>2. QED BY <2>2, <3>1 DEF Sprite
  <2>4. CASE w \notin P!Hits(l) BY <2>2, <2>4, <1>2
  <2>5. QED BY <2>3, <2>4
<1>4. sprites' \in [Entries -> Sprite] BY <1>2, <1>3
<1>5. ASSUME NEW w \in Entries, sprites'[w].have
      PROVE /\ sprites'[w].program \in Programs /\ sprites'[w].location \in Locations
            /\ uniform'[sprites'[w].program][sprites'[w].location] = sprites'[w].value
  <2>1. sprites[w].have /\ w \notin P!Hits(l) BY <1>3, <1>5
  <2>2. ~(sprites[w].program = current /\ sprites[w].location = l)
    BY <2>1, <1>1 DEF P!Hits
  <2>3. /\ sprites[w].program \in Programs /\ sprites[w].location \in Locations
        /\ uniform[sprites[w].program][sprites[w].location] = sprites[w].value
    BY <2>1 DEF ProgInv, SpritesFit
  <2>4. uniform'[sprites[w].program][sprites[w].location] = sprites[w].value
    BY <2>2, <2>3, <1>1 DEF ProgInv, DriverFits
  <2>5. QED BY <2>3, <2>4, <1>3
<1>6. \A v, w \in Entries :
        /\ sprites'[v].program = sprites'[w].program /\ sprites'[v].program # None
        /\ sprites'[v].location = sprites'[w].location
        => v = w
  BY <1>3 DEF ProgInv, SpritesFit
<1>7. QED BY <1>1, <1>4, <1>5, <1>6 DEF SpritesFit

\* The states stay, when a uniform changes that is no matrix.
LEMMA StatesKeep ==
  ASSUME ProgInv, current # None, states' = states, layout' = layout,
         \A p \in Programs, l \in Locations :
           p # current \/ l = P!SoleMatrix(current) => uniform'[p][l] = uniform[p][l]
  PROVE StatesFit'
<1>1. ASSUME NEW s \in States, states[s].program # None
      PROVE StateTells(states[s])'
  <2>1. StateTells(states[s]) /\ states[s] \in State BY <1>1 DEF ProgInv, StatesFit
  <2>2. states[s].program \in Programs BY <2>1, <1>1 DEF State
  <2>3. P!SoleMatrix(states[s].program)' = P!SoleMatrix(states[s].program)
    BY DEF P!SoleMatrix, P!Matrices
  <2>4. P!SoleMatrix(states[s].program) # None =>
          /\ P!SoleMatrix(states[s].program) \in Locations
          /\ uniform'[states[s].program][P!SoleMatrix(states[s].program)]
               = uniform[states[s].program][P!SoleMatrix(states[s].program)]
    BY <2>2, SoleIs DEF P!Matrices
  <2>5. QED BY <2>1, <2>3, <2>4 DEF StateTells
<1>2. QED BY <1>1 DEF ProgInv, StatesFit

\* A state is kept that tells what the driver has then.
LEMMA KeepKeeps ==
  ASSUME ProgInv, current # None, layout' = layout,
         NEW state, P!Keep(state), state \in State, state.program = current,
         state.cached, state.sole = P!SoleMatrix(current),
         state.upload # P!Bad => state.sole # None /\ uniform'[current][state.sole] = state.upload,
         \A p \in Programs, l \in Locations : p # current => uniform'[p][l] = uniform[p][l]
  PROVE StatesFit'
<1> DEFINE slot == P!StateSlot(current)
<1>1. current \in Programs BY DEF ProgInv, DriverFits
<1>2. slot \in States /\ \A s \in States : states[s].program = current => s = slot
  BY <1>1, SlotIs
<1>3. /\ states' \in [States -> State]
      /\ \A s \in States : states'[s] = IF s = slot THEN state ELSE states[s]
  BY <1>2 DEF P!Keep, ProgInv, StatesFit
<1> HIDE DEF slot
<1>4. \A r, s \in States :
        states'[r].program = states'[s].program /\ states'[r].program # None => r = s
  BY <1>2, <1>3 DEF ProgInv, StatesFit
<1>5. ASSUME NEW s \in States, states'[s].program # None
      PROVE StateTells(states[s])'
  <2>0. P!SoleMatrix(states[s].program)' = P!SoleMatrix(states'[s].program)
    BY DEF P!SoleMatrix, P!Matrices
  <2>1. CASE s = slot
    <3>1. states'[s] = state BY <2>1, <1>3
    <3>2. P!SoleMatrix(states[s].program)' = state.sole BY <3>1, <2>0
    <3>3. QED BY <3>1, <3>2 DEF StateTells
  <2>2. CASE s # slot
    <3>1. states'[s] = states[s] /\ states[s].program # current BY <2>2, <1>2, <1>3
    <3>2. StateTells(states[s]) /\ states[s] \in State BY <3>1, <1>5 DEF ProgInv, StatesFit
    <3>3. states[s].program \in Programs BY <3>1, <3>2, <1>5 DEF State
    <3>4. P!SoleMatrix(states[s].program)' = P!SoleMatrix(states'[s].program)
          /\ P!SoleMatrix(states'[s].program) = P!SoleMatrix(states[s].program)
      BY <2>0, <3>1
    <3>5. P!SoleMatrix(states[s].program) # None =>
            /\ P!SoleMatrix(states[s].program) \in Locations
            /\ uniform'[states[s].program][P!SoleMatrix(states[s].program)]
                 = uniform[states[s].program][P!SoleMatrix(states[s].program)]
      BY <3>1, <3>3, SoleIs DEF P!Matrices
    <3>6. QED BY <3>1, <3>2, <3>4, <3>5 DEF StateTells
  <2>3. QED BY <2>1, <2>2
<1>6. QED BY <1>3, <1>4, <1>5 DEF StatesFit

\* Matrices are uniforms of a linked program.
LEMMA KindIs ==
  ASSUME ProgInv, current # None
  PROVE /\ current \in Programs /\ layout[current] \in Layouts
        /\ layout[current] \in [Locations -> {"scalar", "vector", "element", "matrix"}]
        /\ P!SoleMatrix(current) # None =>
             /\ P!SoleMatrix(current) \in Locations
             /\ layout[current][P!SoleMatrix(current)] = "matrix"
        /\ \A l \in Locations : layout[current][l] # "matrix" => l # P!SoleMatrix(current)
BY SoleIs, ProgramAssumption DEF ProgInv, DriverFits, P!Matrices

LEMMA PutKeeps ==
  ASSUME ProgInv, current # None, NEW l \in Locations, NEW v \in Uploaded,
         uniform' = [uniform EXCEPT ![current][l] = v],
         wanted' = [wanted EXCEPT ![current][l] = v],
         UNCHANGED <<layout, current>>
  PROVE DriverFits'
BY DEF ProgInv, DriverFits

LEMMA SetSpriteKeeps ==
  ASSUME ProgInv, NEW l \in Locations, NEW v \in Finite, P!SetSprite(l, v)
  PROVE ProgInv'
<1> DEFINE w == P!EntryFor(l)
           kind == layout[current][l]
           keep == kind # "element" /\ v # P!Bad
           entry == [program |-> current, location |-> l, kind |-> kind,
                     have |-> keep, value |-> IF keep THEN v ELSE P!Bad]
           same == sprites[w].program = current /\ sprites[w].location = l /\ sprites[w].kind = kind
           hit == same /\ sprites[w].have /\ sprites[w].value = v /\ keep
<1>1. /\ current # None /\ kind # "matrix"
      /\ layout' = layout /\ current' = current /\ states' = states
      /\ victim' = P!NextVictim(l)
      /\ sprites' = [sprites EXCEPT ![w] = entry]
      /\ IF hit THEN uniform' = uniform /\ wanted' = [wanted EXCEPT ![current][l] = v]
         ELSE P!Put(l, v)
  BY DEF P!SetSprite, P!driverVars
<1>2. current \in Programs /\ kind \in {"scalar", "vector", "element", "matrix"}
  BY <1>1, KindIs
<1>3. w \in Entries /\ P!NextVictim(l) \in Entries /\ (P!Hits(l) # {} => w \in P!Hits(l))
  BY EntryIs
<1>4. sprites \in [Entries -> Sprite] /\ uniform \in [Programs -> [Locations -> Uploaded]]
      /\ wanted = uniform
  BY DEF ProgInv, SpritesFit, DriverFits
<1>5. entry \in Sprite BY <1>2 DEF Sprite, Finite
<1> HIDE DEF w, kind
<1>6. uniform' = [uniform EXCEPT ![current][l] = v] /\ wanted' = [wanted EXCEPT ![current][l] = v]
  <2>1. CASE hit
    <3>1. uniform[current][l] = v
      BY <2>1, <1>2, <1>3 DEF ProgInv, SpritesFit
    <3>2. [uniform EXCEPT ![current][l] = v] = uniform BY <3>1, <1>2, <1>4
    <3>3. QED BY <2>1, <3>2, <1>1
  <2>2. CASE ~hit BY <2>2, <1>1 DEF P!Put
  <2>3. QED BY <2>1, <2>2
<1>7. DriverFits' BY <1>1, <1>6, PutKeeps DEF Uploaded
<1> DEFINE new == sprites'
<1>8. new \in [Entries -> Sprite] /\ \A x \in Entries : new[x] = IF x = w THEN entry ELSE sprites[x]
  BY <1>1, <1>3, <1>4, <1>5
<1>9. \A x \in Entries : x # w => ~(sprites[x].program = current /\ sprites[x].location = l)
  <2>1. SUFFICES ASSUME NEW x \in Entries, sprites[x].program = current, sprites[x].location = l
                 PROVE x = w
    OBVIOUS
  <2>2. x \in P!Hits(l) BY <2>1, <1>4 DEF P!Hits
  <2>3. w \in P!Hits(l) BY <2>2, <1>3
  <2>4. sprites[w].program = current /\ sprites[w].location = l BY <2>3 DEF P!Hits
  <2>5. QED BY <2>1, <2>4, <1>1, <1>3 DEF ProgInv, SpritesFit
<1>10. entry.program = current /\ entry.location = l /\ entry.have = keep
       /\ (keep => entry.value = v)
  OBVIOUS
<1> HIDE DEF entry, new
<1>11. ASSUME NEW x \in Entries, new[x].have
       PROVE /\ new[x].program \in Programs /\ new[x].location \in Locations
             /\ uniform'[new[x].program][new[x].location] = new[x].value
  <2>1. CASE x = w BY <2>1, <1>2, <1>4, <1>6, <1>8, <1>10, <1>11
  <2>2. CASE x # w
    <3>1. new[x] = sprites[x] BY <2>2, <1>8
    <3>2. /\ sprites[x].program \in Programs /\ sprites[x].location \in Locations
          /\ uniform[sprites[x].program][sprites[x].location] = sprites[x].value
      BY <3>1, <1>11 DEF ProgInv, SpritesFit
    <3>3. uniform'[sprites[x].program][sprites[x].location] = sprites[x].value
      BY <3>2, <2>2, <1>9, <1>4, <1>6
    <3>4. QED BY <3>1, <3>2, <3>3
  <2>3. QED BY <2>1, <2>2
<1>12. ASSUME NEW x \in Entries, NEW y \in Entries, new[x].program = new[y].program,
              new[x].program # None, new[x].location = new[y].location
       PROVE x = y
  BY <1>8, <1>9, <1>10, <1>12 DEF ProgInv, SpritesFit
<1>13. SpritesFit'
  BY <1>1, <1>3, <1>8, <1>11, <1>12 DEF SpritesFit, new
<1>14. StatesFit'
  <2>1. l # P!SoleMatrix(current) BY <1>1, KindIs DEF kind
  <2>2. \A p \in Programs, k \in Locations : p # current \/ k # l => uniform'[p][k] = uniform[p][k]
    BY <1>4, <1>6
  <2>3. QED BY <2>1, <2>2, <1>1, StatesKeep
<1>15. QED BY <1>7, <1>13, <1>14 DEF ProgInv

LEMMA SetOtherKeeps ==
  ASSUME ProgInv, NEW l \in Locations, NEW v \in Values, P!SetOther(l, v)
  PROVE ProgInv'
<1>1. /\ current # None /\ layout[current][l] = "element"
      /\ uniform' = [uniform EXCEPT ![current][l] = v]
      /\ wanted' = [wanted EXCEPT ![current][l] = v]
      /\ sprites' = P!ForgetAt(l) /\ UNCHANGED <<layout, current, victim, states>>
  BY DEF P!SetOther, P!Put, P!driverVars
<1>2. v \in Uploaded BY DEF Uploaded, Finite
<1>3. DriverFits' BY <1>1, <1>2, PutKeeps
<1>4. SpritesFit' BY <1>1, <1>2, SpritesKeep
<1>5. l # P!SoleMatrix(current) BY <1>1, KindIs
<1>6. \A p \in Programs, k \in Locations : p # current \/ k # l => uniform'[p][k] = uniform[p][k]
  BY <1>1 DEF ProgInv, DriverFits
<1>7. StatesFit' BY <1>1, <1>5, <1>6, StatesKeep
<1>8. QED BY <1>3, <1>4, <1>7 DEF ProgInv

\* Nothing is cached after sprite_uniforms_begin.
LEMMA ForgetAllKeeps ==
  ASSUME ProgInv, sprites' = P!ForgetAll, victim' = victim
  PROVE SpritesFit'
<1>1. sprites \in [Entries -> Sprite] /\ victim \in Entries BY DEF ProgInv, SpritesFit
<1>2. sprites' = [w \in Entries |-> [sprites[w] EXCEPT !.have = FALSE]]
  BY <1>1 DEF P!ForgetAll, P!SpritesWithout
<1>3. ASSUME NEW w \in Entries
      PROVE /\ sprites'[w] \in Sprite /\ ~sprites'[w].have
            /\ sprites'[w].program = sprites[w].program
            /\ sprites'[w].location = sprites[w].location
  <2>1. sprites[w] \in Sprite /\ sprites'[w] = [sprites[w] EXCEPT !.have = FALSE] BY <1>1, <1>2
  <2>2. QED BY <2>1 DEF Sprite
<1>4. sprites' \in [Entries -> Sprite] BY <1>2, <1>3
<1>5. QED BY <1>1, <1>3, <1>4 DEF SpritesFit, ProgInv

LEMMA SetArrayKeeps ==
  ASSUME ProgInv, NEW v \in Values, P!SetArray(v)
  PROVE ProgInv'
<1>1. /\ current # None /\ \A l \in Locations : layout[current][l] = "element"
      /\ uniform' = [uniform EXCEPT ![current] = [l \in Locations |-> v]]
      /\ wanted' = [wanted EXCEPT ![current] = [l \in Locations |-> v]]
      /\ sprites' = P!ForgetAll /\ UNCHANGED <<layout, current, victim, states>>
  BY DEF P!SetArray, P!driverVars
<1>2. v \in Uploaded BY DEF Uploaded, Finite
<1>3. DriverFits' BY <1>1, <1>2 DEF ProgInv, DriverFits
<1>4. SpritesFit' BY <1>1, ForgetAllKeeps
<1>5. \A l \in Locations : l # P!SoleMatrix(current) BY <1>1, KindIs
<1>6. \A p \in Programs, k \in Locations : p # current => uniform'[p][k] = uniform[p][k]
  BY <1>1 DEF ProgInv, DriverFits
<1>7. StatesFit' BY <1>1, <1>5, <1>6, StatesKeep
<1>8. QED BY <1>3, <1>4, <1>7 DEF ProgInv

LEMMA BeginFrameKeeps == ASSUME ProgInv, P!BeginFrame PROVE ProgInv'
<1>1. /\ sprites' = P!ForgetAll
      /\ UNCHANGED <<layout, uniform, wanted, current, victim, states>>
  BY DEF P!BeginFrame
<1>2. SpritesFit' BY <1>1, ForgetAllKeeps
<1>3. DriverFits' BY <1>1 DEF ProgInv, DriverFits
<1>4. StatesFit' BY <1>1 DEF ProgInv, StatesFit, StateTells, P!SoleMatrix, P!Matrices
<1>5. QED BY <1>2, <1>3, <1>4 DEF ProgInv

\* Where a matrix goes.
LEMMA MatrixIs ==
  ASSUME ProgInv, NEW l \in Locations, NEW v, P!MatrixArguments(l, v)
  PROVE /\ current # None /\ current \in Programs /\ v \in Finite
        /\ layout' = layout /\ current' = current /\ victim' = victim
        /\ P!StateOf(current) \in State /\ P!StateOf(current).program = current
        /\ StateTells(P!StateOf(current))
        /\ P!StateOf(current).sole = P!SoleMatrix(current)
        /\ P!At(P!SoleMatrix(current), l) \in Locations
        /\ P!SoleMatrix(current) # None => P!At(P!SoleMatrix(current), l) = P!SoleMatrix(current)
<1>1. /\ current # None /\ v \in Finite /\ layout' = layout /\ current' = current /\ victim' = victim
  BY DEF P!MatrixArguments, P!driverVars, Finite
<1>2. current \in Programs BY <1>1, KindIs
<1>3. /\ P!StateOf(current) \in State /\ P!StateOf(current).program = current
      /\ StateTells(P!StateOf(current))
  BY <1>2, StateOfIs
<1>4. P!StateOf(current).sole = P!SoleMatrix(current) BY <1>3 DEF StateTells
<1>5. QED BY <1>1, <1>2, <1>3, <1>4, KindIs DEF P!At

LEMMA SkipMatrixKeeps ==
  ASSUME ProgInv, NEW l \in Locations, NEW v \in Values, P!SkipMatrix(l, v)
  PROVE ProgInv'
<1> DEFINE state == P!StateOf(current)
           at == P!At(P!SoleMatrix(current), l)
<1>1. /\ P!MatrixArguments(l, v) /\ state.sole # None /\ state.upload = v /\ v # P!Bad
      /\ wanted' = [wanted EXCEPT ![current][at] = v]
      /\ P!Keep(state) /\ uniform' = uniform /\ sprites' = sprites
  BY DEF P!SkipMatrix, P!IsCached
<1>2. /\ current # None /\ current \in Programs
      /\ layout' = layout /\ current' = current /\ victim' = victim
      /\ state \in State /\ state.program = current
      /\ StateTells(state) /\ state.sole = P!SoleMatrix(current)
      /\ at \in Locations /\ (P!SoleMatrix(current) # None => at = P!SoleMatrix(current))
  BY <1>1, MatrixIs
<1> HIDE DEF state, at
<1>3. uniform[current][at] = v BY <1>1, <1>2 DEF StateTells
<1>4. wanted' = uniform
  BY <1>1, <1>2, <1>3 DEF ProgInv, DriverFits
<1>5. DriverFits' BY <1>1, <1>2, <1>4 DEF ProgInv, DriverFits
<1>6. SpritesFit' BY <1>1, <1>2 DEF ProgInv, SpritesFit
<1>7. /\ state.cached
      /\ state.upload # P!Bad => state.sole # None /\ uniform'[current][state.sole] = state.upload
  BY <1>1, <1>2 DEF StateTells
<1>8. StatesFit' BY <1>1, <1>2, <1>7, KeepKeeps
<1>9. QED BY <1>5, <1>6, <1>8 DEF ProgInv

\* An upload of a matrix, finite or repaired, by a state with this finite value.
LEMMA UploadMatrixKeeps ==
  ASSUME ProgInv, NEW l \in Locations, NEW v \in Values, NEW plain \in BOOLEAN,
         current # None, layout' = layout, current' = current, victim' = victim,
         NEW state \in State, state.program = current, state.cached,
         state.sole = P!SoleMatrix(current), P!UploadMatrix(state, l, v, plain)
  PROVE ProgInv'
<1> DEFINE at == P!At(P!SoleMatrix(current), l)
           value == P!Stored(v, plain)
           kept == [state EXCEPT !.upload = IF P!IsCached(state, plain) THEN v ELSE P!Bad]
<1>1. /\ uniform' = [uniform EXCEPT ![current][at] = value]
      /\ wanted' = [wanted EXCEPT ![current][at] = value]
      /\ sprites' = P!ForgetAt(at) /\ P!Keep(kept)
  BY DEF P!UploadMatrix
<1>2. /\ current \in Programs /\ at \in Locations
      /\ P!SoleMatrix(current) # None => at = P!SoleMatrix(current)
  BY KindIs DEF P!At
<1>3. value \in Uploaded BY DEF Uploaded, Finite, P!Stored
<1>4. plain => value = v BY DEF P!Stored
<1>5. /\ kept \in State /\ kept.program = current /\ kept.cached
      /\ kept.sole = P!SoleMatrix(current)
      /\ kept.upload # P!Bad => kept.upload = v /\ plain /\ P!SoleMatrix(current) # None
  BY DEF State, Finite, P!IsCached
<1> HIDE DEF at, value, kept
<1>6. DriverFits' BY <1>1, <1>2, <1>3, PutKeeps
<1>7. SpritesFit' BY <1>1, <1>2, <1>3, SpritesKeep
<1>8. uniform'[current][at] = value /\ \A p \in Programs, k \in Locations : p # current => uniform'[p][k] = uniform[p][k]
  BY <1>1, <1>2 DEF ProgInv, DriverFits
<1>9. kept.upload # P!Bad => kept.sole # None /\ uniform'[current][kept.sole] = kept.upload
  BY <1>2, <1>4, <1>5, <1>8
<1>10. StatesFit' BY <1>1, <1>5, <1>8, <1>9, KeepKeeps
<1>11. QED BY <1>6, <1>7, <1>10 DEF ProgInv

LEMMA SetMatrixKeeps ==
  ASSUME ProgInv, NEW l \in Locations, NEW v \in Values, NEW plain \in BOOLEAN,
         P!SetMatrix(l, v, plain)
  PROVE ProgInv'
<1> DEFINE state == P!StateOf(current)
           set == [state EXCEPT !.finite = v]
<1>1. P!MatrixArguments(l, v) /\ P!UploadMatrix(set, l, v, plain) BY DEF P!SetMatrix
<1>2. /\ current # None /\ layout' = layout /\ current' = current /\ victim' = victim
      /\ state \in State /\ state.program = current /\ StateTells(state)
      /\ state.sole = P!SoleMatrix(current)
  BY <1>1, MatrixIs
<1> HIDE DEF state
<1>3. /\ set \in State /\ set.program = current /\ set.cached /\ set.sole = P!SoleMatrix(current)
  BY <1>2 DEF State, Finite, StateTells
<1> HIDE DEF set
<1>4. QED BY <1>1, <1>2, <1>3, UploadMatrixKeeps

LEMMA RepairMatrixKeeps ==
  ASSUME ProgInv, NEW l \in Locations, NEW plain \in BOOLEAN, P!RepairMatrix(l, plain)
  PROVE ProgInv'
<1> DEFINE state == P!StateOf(current)
<1>1. P!MatrixArguments(l, P!Bad) /\ state.finite # P!Bad BY DEF P!RepairMatrix
<1>2. PICK v \in {state.finite, -state.finite} : P!UploadMatrix(state, l, v, plain)
  BY DEF P!RepairMatrix
<1>3. /\ current # None /\ layout' = layout /\ current' = current /\ victim' = victim
      /\ state \in State /\ state.program = current /\ StateTells(state)
      /\ state.sole = P!SoleMatrix(current)
  BY <1>1, MatrixIs
<1> HIDE DEF state
<1>4. state.finite \in Values BY <1>1, <1>3 DEF State, Finite
<1>5. v \in Values BY <1>2, <1>4, ProgramAssumption
<1>6. QED BY <1>2, <1>3, <1>5, UploadMatrixKeeps DEF StateTells

LEMMA RejectMatrixKeeps ==
  ASSUME ProgInv, NEW l \in Locations, NEW plain \in BOOLEAN, P!RejectMatrix(l, plain)
  PROVE ProgInv'
<1> DEFINE state == P!StateOf(current)
           kept == P!Remembered(state, plain)
<1>1. /\ P!MatrixArguments(l, P!Bad) /\ P!Keep(kept)
      /\ uniform' = uniform /\ wanted' = wanted /\ sprites' = sprites
  BY DEF P!RejectMatrix
<1>2. /\ current # None /\ layout' = layout /\ current' = current /\ victim' = victim
      /\ state \in State /\ state.program = current /\ StateTells(state)
      /\ state.sole = P!SoleMatrix(current)
  BY <1>1, MatrixIs
<1> HIDE DEF state
<1>3. /\ kept \in State /\ kept.program = current /\ kept.cached
      /\ kept.sole = P!SoleMatrix(current)
      /\ kept.upload # P!Bad => kept.sole # None /\ uniform'[current][kept.sole] = kept.upload
  BY <1>1, <1>2 DEF P!Remembered, State, StateTells, Finite
<1> HIDE DEF kept
<1>4. DriverFits' /\ SpritesFit' BY <1>1, <1>2 DEF ProgInv, DriverFits, SpritesFit
<1>5. StatesFit' BY <1>1, <1>2, <1>3, KeepKeeps
<1>6. QED BY <1>4, <1>5 DEF ProgInv

\* What is told of a program goes with it, what is told of others stays true.
LEMMA InvalidateKeeps ==
  ASSUME ProgInv, NEW p \in Programs, P!Invalidate(p),
         NEW types \in Layouts \cup {None},
         layout' = [layout EXCEPT ![p] = types],
         uniform' = [uniform EXCEPT ![p] = [l \in Locations |-> P!Unset]],
         wanted' = [wanted EXCEPT ![p] = [l \in Locations |-> P!Unset]],
         current' \in {None} \cup {q \in Programs : layout'[q] # None}
  PROVE ProgInv'
<1>1. DriverFits' BY DEF ProgInv, DriverFits, Uploaded
<1>2. /\ sprites' = [w \in Entries |-> IF sprites[w].program = p THEN P!NoSprite ELSE sprites[w]]
      /\ states' = [s \in States |-> IF states[s].program = p THEN P!NoState ELSE states[s]]
      /\ victim' = victim
  BY DEF P!Invalidate, ProgInv, SpritesFit
<1>3. /\ P!NoSprite \in Sprite /\ ~P!NoSprite.have /\ P!NoSprite.program = None
      /\ P!NoState \in State /\ P!NoState.program = None
  BY DEF P!NoSprite, P!NoState, Sprite, State, Finite
<1>4. \A q \in Programs : q # p => layout'[q] = layout[q] /\ uniform'[q] = uniform[q]
  BY DEF ProgInv, DriverFits
<1>5. SpritesFit'
  <2>1. sprites' \in [Entries -> Sprite] /\ victim' \in Entries
    BY <1>2, <1>3 DEF ProgInv, SpritesFit
  <2>2. \A w \in Entries :
          sprites'[w].have => /\ sprites'[w].program \in Programs /\ sprites'[w].location \in Locations
                              /\ uniform'[sprites'[w].program][sprites'[w].location] = sprites'[w].value
    BY <1>2, <1>3, <1>4 DEF ProgInv, SpritesFit
  <2>3. \A v, w \in Entries :
          /\ sprites'[v].program = sprites'[w].program /\ sprites'[v].program # None
          /\ sprites'[v].location = sprites'[w].location
          => v = w
    BY <1>2, <1>3 DEF ProgInv, SpritesFit
  <2>4. QED BY <2>1, <2>2, <2>3 DEF SpritesFit
<1>6. StatesFit'
  <2>1. states' \in [States -> State] BY <1>2, <1>3 DEF ProgInv, StatesFit
  <2>2. \A r, s \in States :
          states'[r].program = states'[s].program /\ states'[r].program # None => r = s
    BY <1>2, <1>3 DEF ProgInv, StatesFit
  <2>3. ASSUME NEW s \in States, states'[s].program # None
        PROVE StateTells(states[s])'
    <3>1. states'[s] = states[s] /\ states[s].program # p /\ states[s].program # None
      BY <2>3, <1>2, <1>3
    <3>2. StateTells(states[s]) /\ states[s].program \in Programs
      BY <3>1 DEF ProgInv, StatesFit, State
    <3>3. P!SoleMatrix(states[s].program)' = P!SoleMatrix(states[s].program)
      BY <1>4, <3>1, <3>2 DEF P!SoleMatrix, P!Matrices
    <3>4. QED BY <1>4, <3>1, <3>2, <3>3 DEF StateTells
  <2>4. QED BY <2>1, <2>2, <2>3 DEF StatesFit
<1>7. QED BY <1>1, <1>5, <1>6 DEF ProgInv

LEMMA UseProgramKeeps == ASSUME ProgInv, NEW p \in Programs, P!UseProgram(p) PROVE ProgInv'
<1>1. /\ layout[p] # None /\ current' = p
      /\ UNCHANGED <<layout, uniform, wanted, sprites, victim, states>>
  BY DEF P!UseProgram
<1>2. DriverFits' BY <1>1 DEF ProgInv, DriverFits
<1>3. SpritesFit' BY <1>1 DEF ProgInv, SpritesFit
<1>4. StatesFit' BY <1>1 DEF ProgInv, StatesFit, StateTells, P!SoleMatrix, P!Matrices
<1>5. QED BY <1>2, <1>3, <1>4 DEF ProgInv

LEMMA ProgramStepKeeps == ASSUME ProgInv, P!Next PROVE ProgInv'
<1>1. ASSUME NEW p \in Programs, NEW types \in Layouts, P!LinkProgram(p, types) PROVE ProgInv'
  <2>1. /\ layout' = [layout EXCEPT ![p] = types] /\ P!Invalidate(p) /\ current' = current
        /\ uniform' = [uniform EXCEPT ![p] = [l \in Locations |-> P!Unset]]
        /\ wanted' = [wanted EXCEPT ![p] = [l \in Locations |-> P!Unset]]
    BY <1>1 DEF P!LinkProgram
  <2>2. current' \in {None} \cup {q \in Programs : layout'[q] # None}
    BY <2>1, ProgramAssumption DEF ProgInv, DriverFits
  <2>3. QED BY <2>1, <2>2, InvalidateKeeps
<1>2. ASSUME NEW p \in Programs, P!DeleteProgram(p) PROVE ProgInv'
  <2>1. /\ layout' = [layout EXCEPT ![p] = None] /\ P!Invalidate(p)
        /\ uniform' = [uniform EXCEPT ![p] = [l \in Locations |-> P!Unset]]
        /\ wanted' = [wanted EXCEPT ![p] = [l \in Locations |-> P!Unset]]
        /\ current' = IF current = p THEN None ELSE current
    BY <1>2 DEF P!DeleteProgram
  <2>2. current' \in {None} \cup {q \in Programs : layout'[q] # None}
    BY <2>1 DEF ProgInv, DriverFits
  <2>3. QED BY <2>1, <2>2, InvalidateKeeps
<1>3. ASSUME NEW l \in Locations, NEW plain \in BOOLEAN,
             \/ \E v \in Values \cup {P!Bad} : P!SetSprite(l, v)
             \/ \E v \in Values : P!SetOther(l, v) \/ P!SkipMatrix(l, v) \/ P!SetMatrix(l, v, plain)
             \/ P!RepairMatrix(l, plain) \/ P!RejectMatrix(l, plain)
      PROVE ProgInv'
  BY <1>3, SetSpriteKeeps, SetOtherKeeps, SkipMatrixKeeps, SetMatrixKeeps, RepairMatrixKeeps,
     RejectMatrixKeeps DEF Finite
<1>4. QED
  BY <1>1, <1>2, <1>3, UseProgramKeeps, SetArrayKeeps, BeginFrameKeeps DEF P!Next

-----------------------------------------------------------------------------
(* The specification.                                                       *)

AllInv == TexInv /\ ProgInv

LEMMA TexInit == Init => TexInv
<1> SUFFICES ASSUME Init PROVE TexInv OBVIOUS
<1>1. 0 \in Index BY TextureAssumption DEF Index
<1>2. TypeOK BY DEF Init, TypeOK, Declarable, Pixels
<1>3. TablesFit BY DEF Init, TablesFit, Fits
<1>4. UploadsFit BY DEF Init, UploadsFit
<1>5. \A x \in Textures : ~Has(dsamp, x) /\ ~Has(texfail, x) /\ ~Has(alpha8, x)
  BY TextureAssumption DEF Init, Has
<1>6. \A x \in Textures :
        Sound(declared[x], storage[x], pixel[x], Has(dsamp, x), Has(texfail, x), Has(alpha8, x))
  BY <1>5 DEF Init, Sound
<1>7. QED BY <1>2, <1>3, <1>4, <1>6 DEF TexInv

LEMMA ProgInit == P!Init => ProgInv
<1> SUFFICES ASSUME P!Init PROVE ProgInv OBVIOUS
<1>1. Ways \in Nat \ {0} BY ProgramAssumption
<1>2. 0 \in Entries BY <1>1 DEF Entries
<1>3. DriverFits BY DEF P!Init, DriverFits, Uploaded
<1>4. SpritesFit BY <1>2 DEF P!Init, SpritesFit, Entries, P!NoSprite, Sprite, Finite
<1>5. StatesFit BY DEF P!Init, StatesFit, P!NoState, State, Finite
<1>6. QED BY <1>3, <1>4, <1>5 DEF ProgInv

LEMMA AllInductive == ASSUME AllInv, [CallTexture \/ CallProgram]_allVars PROVE AllInv'
<1>1. ASSUME UNCHANGED vars PROVE TexInv'
  <2>1. UNCHANGED <<imageVars, markVars, running>> /\ sent' = sent BY <1>1 DEF vars
  <2>2. storage' = storage /\ pixel' = pixel BY <2>1 DEF imageVars
  <2>3. UploadsFit' BY <2>1, <2>2 DEF AllInv, TexInv, UploadsFit
  <2>4. QED BY <2>1, <2>3, SendKeeps DEF AllInv
<1>2. ASSUME UNCHANGED programVars PROVE ProgInv'
  <2>1. UNCHANGED <<layout, uniform, wanted, current, sprites, victim, states>>
    BY <1>2 DEF programVars
  <2>2. DriverFits' BY <2>1 DEF AllInv, ProgInv, DriverFits
  <2>3. SpritesFit' BY <2>1 DEF AllInv, ProgInv, SpritesFit
  <2>4. StatesFit' BY <2>1 DEF AllInv, ProgInv, StatesFit, StateTells, P!SoleMatrix, P!Matrices
  <2>5. QED BY <2>2, <2>3, <2>4 DEF ProgInv
<1>3. CASE CallTexture BY <1>2, <1>3, TextureStepKeeps DEF AllInv, CallTexture
<1>4. CASE CallProgram BY <1>1, <1>4, ProgramStepKeeps DEF AllInv, CallProgram
<1>5. CASE UNCHANGED allVars BY <1>1, <1>2, <1>5 DEF AllInv, allVars
<1>6. QED BY <1>3, <1>4, <1>5

LEMMA AllInvariant == AllSpec => []AllInv
<1>1. AllInit => AllInv BY TexInit, ProgInit DEF AllInit, AllInv
<1>2. AllInv /\ [CallTexture \/ CallProgram]_allVars => AllInv' BY AllInductive
<1>3. QED BY <1>1, <1>2, PTL DEF AllSpec

\* The three sets of names say what the driver has of every texture, after any
\* definitions, failures, deletions and recycled names, whatever names hash to
\* whatever slots (texture_marks_add, texture_marks_remove, which closes the gap it
\* leaves, and texture_marks_reset).
THEOREM TextureMarks == AllSpec => []MarksTellStorage
<1>1. ASSUME AllInv PROVE MarksTellStorage
  <2>1. /\ TypeOK /\ Fits(dsamp) /\ Fits(alpha8) /\ Fits(texfail)
        /\ running => \A x \in Textures :
             Sound(declared[x], storage[x], pixel[x], Has(dsamp, x), Has(texfail, x), Has(alpha8, x))
    BY <1>1 DEF AllInv, TexInv, TablesFit
  <2>2. \A x \in Textures : /\ Marked(dsamp, x) <=> Has(dsamp, x)
                            /\ Marked(alpha8, x) <=> Has(alpha8, x)
                            /\ Marked(texfail, x) <=> Has(texfail, x)
    BY <2>1, MarkedIs
  <2>3. QED BY <2>1, <2>2 DEF MarksTellStorage, Sound
<1>2. QED BY <1>1, AllInvariant, PTL

\* Whatever is sent to an image the driver has, by a fill, a mip level or a
\* conversion, has the scale of that image, and its pixel format unless it is a
\* fill of BGRA: that one is converted to RGBA (glutil.c:3459-3468), the image it
\* fills is left as BGRA (3154).
THEOREM FillsHaveTheScale == AllSpec => []UploadsFit
<1>1. AllInv => UploadsFit BY DEF AllInv, TexInv
<1>2. QED BY <1>1, AllInvariant, PTL

\* No upload the caches skip can be seen: the driver has every uniform as if each
\* call had reached it, for any number of programs, entries and states, also when
\* entries and states are evicted and names of programs are recycled.
THEOREM SkippedUploads == AllSpec => []CachesAreTransparent
<1>1. ASSUME AllInv PROVE CachesAreTransparent
  <2>1. P!TypeOK
    <3>1. /\ layout \in [Programs -> Layouts \cup {None}]
          /\ current \in {None} \cup {p \in Programs : layout[p] # None}
          /\ sprites \in [Entries -> Sprite] /\ victim \in Entries
          /\ states \in [States -> State]
      BY <1>1 DEF AllInv, ProgInv, DriverFits, SpritesFit, StatesFit
    <3>2. \A w \in Entries : /\ sprites[w].program \in Programs \cup {None}
                             /\ sprites[w].location \in Locations \cup {None}
      BY <3>1 DEF Sprite
    <3>3. \A s \in States : /\ states[s].program \in Programs \cup {None}
                            /\ states[s].sole \in Locations \cup {None}
      BY <3>1 DEF State
    <3>4. QED BY <3>1, <3>2, <3>3 DEF P!TypeOK, Entries
  <2>2. uniform = wanted BY <1>1 DEF AllInv, ProgInv, DriverFits
  <2>3. QED BY <2>1, <2>2 DEF CachesAreTransparent, P!CachesAreTransparent
<1>2. QED BY <1>1, AllInvariant, PTL
=============================================================================
