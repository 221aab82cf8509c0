---------------------------- MODULE PthrObjects ----------------------------
(***************************************************************************)
(* The engine's mutexes and condition variables in reimpl/pthr.c: an       *)
(* Android object gets its real object at its first use, and an             *)
(* open-addressed table says which objects have one.                        *)
(*                                                                         *)
(* Lookups read the table slot by slot without a lock; initialisation and   *)
(* destruction hold pthr_mutex, and a lookup that missed is repeated there. *)
(* Every read of a lookup and every store of a removal is one action; what  *)
(* happens under the lock and no lookup can see is not divided.             *)
(*                                                                         *)
(* Data abstracted: an object is a model value and Home its hash; its first *)
(* word is a static initializer or says in what state the real object is.   *)
(* Whether pthreads-embedded finds an object busy is left open.             *)
(***************************************************************************)
EXTENDS Integers, FiniteSets

CONSTANTS
  Threads, Objects,
  Conds,        \* the objects that are condition variables
  StaticWord,   \* object -> its static initializer: "null" is 0
  AskedKinds,   \* object -> the kinds an init call with an attribute asks for
  N,            \* slots of initializedObjects (8192)
  Home,         \* object_hash
  None

MutexKinds == {"normal", "recursive", "errorcheck"}

ASSUME PthrAssumption ==
  /\ N \in Nat \ {0} /\ Home \in [Objects -> 0 .. N - 1]
  /\ StaticWord \in [Objects -> {"null", "recursive", "errorcheck"}]
  /\ Conds \subseteq Objects /\ \A c \in Conds : StaticWord[c] = "null"
  /\ AskedKinds \in [Objects -> SUBSET MutexKinds] /\ \A c \in Conds : AskedKinds[c] = {}
  /\ None \notin Threads \cup Objects \cup MutexKinds \cup {"cond"}

VARIABLES
  key,     \* initializedObjects
  owner,   \* the holder of pthr_mutex, or None
  word,    \* the object's first word: an initializer, or its real object is
           \* "raw" (allocated) or "ready"
  made,    \* per object: how many real objects of it exist
  kind,    \* the kind of the real object the word points to
  forgotten, \* history: the objects whose initializer a failure or a destruction cleared
  hole, start, step, \* a removal: the slot to fill, where it began, how far it is
  pc,
  obj, asked, \* a call's arguments
  at       \* how far a lookup is from its home

tableVars   == <<key, owner>>
objectVars  == <<word, made, kind, forgotten>>
removalVars == <<hole, start, step>>
callVars    == <<obj, asked, at>>
vars == <<tableVars, objectVars, removalVars, pc, callVars>>

Labels == {"idle", "probe", "lock", "build", "remember", "use", "destroy", "shift"}

Goto(t, label) == pc' = [pc EXCEPT ![t] = label]
Return(t) ==
  /\ Goto(t, "idle")
  /\ obj' = [obj EXCEPT ![t] = None]
  /\ asked' = [asked EXCEPT ![t] = None]
  /\ at' = [at EXCEPT ![t] = 0]

InUse(o) == \E t \in Threads : obj[t] = o
InDestruction(o) == \E t \in Threads : pc[t] \in {"destroy", "shift"} /\ obj[t] = o

Published == {o \in Objects : \E s \in 0 .. N - 1 : key[s] = o}

\* What a lookup that nothing disturbs visits: the slots from p's home to the
\* first that is empty or has p.
Slot(p, i) == (Home[p] + i) % N
Visited(p) == {i \in 0 .. N - 1 : \A j \in 0 .. i - 1 : key[Slot(p, j)] \notin {None, p}}
object_slot(p) == {Slot(p, i) : i \in {j \in Visited(p) : key[Slot(p, j)] = p}}

\* The first empty slot from p's home on, for rememberObject_nl.
EmptySlot(p) == {Slot(p, i) : i \in {j \in Visited(p) : key[Slot(p, j)] = None}}

\* What the kind is computed from when there is no attribute.
InitialKind(o, k) ==
  CASE o \in Conds -> "cond"
    [] o \notin Conds /\ k # None -> k
    [] o \notin Conds /\ k = None /\ word[o] = "null" -> "normal"
    [] OTHER -> word[o]

-----------------------------------------------------------------------------
(* A call that uses an object: init, lock, trylock, signal, wait, ...       *)

\* The program uses no object that it is destroying.
Call(t, o) ==
  /\ pc[t] = "idle" /\ ~InDestruction(o)
  /\ \E k \in AskedKinds[o] \cup {None} : asked' = [asked EXCEPT ![t] = k]
  /\ obj' = [obj EXCEPT ![t] = o]
  /\ Goto(t, "probe")
  /\ UNCHANGED <<tableVars, objectVars, at, removalVars>>

ProbeHit(t) ==
  /\ pc[t] = "probe" /\ key[Slot(obj[t], at[t])] = obj[t]
  /\ Goto(t, "use")
  /\ UNCHANGED <<tableVars, objectVars, callVars, removalVars>>

ProbeOther(t) ==
  /\ pc[t] = "probe" /\ key[Slot(obj[t], at[t])] \notin {None, obj[t]}
  /\ at[t] < N - 1
  /\ at' = [at EXCEPT ![t] = @ + 1]
  /\ UNCHANGED <<tableVars, objectVars, pc, obj, asked, removalVars>>

ProbeMiss(t) ==
  /\ pc[t] = "probe"
  /\ \/ key[Slot(obj[t], at[t])] = None
     \/ key[Slot(obj[t], at[t])] # obj[t] /\ at[t] = N - 1
  /\ Goto(t, "lock")
  /\ UNCHANGED <<tableVars, objectVars, callVars, removalVars>>

\* The second lookup, under the lock: another thread may have been faster, or
\* the first lookup may have met a removal.
AlreadyInitialized(t) ==
  /\ pc[t] = "lock" /\ owner = None /\ object_slot(obj[t]) # {}
  /\ Goto(t, "use")
  /\ UNCHANGED <<tableVars, objectVars, callVars, removalVars>>

\* Mutant: the object is made without the second lookup.
AllocateUnchecked(t) ==
  /\ pc[t] = "lock" /\ owner = None
  /\ owner' = t
  /\ kind' = [kind EXCEPT ![obj[t]] = InitialKind(obj[t], asked[t])]
  /\ word' = [word EXCEPT ![obj[t]] = "raw"]
  /\ Goto(t, "build")
  /\ UNCHANGED <<key, made, forgotten, callVars, removalVars>>

Allocate(t) ==
  /\ pc[t] = "lock" /\ owner = None /\ object_slot(obj[t]) = {}
  /\ owner' = t
  /\ kind' = [kind EXCEPT ![obj[t]] = InitialKind(obj[t], asked[t])]
  /\ word' = [word EXCEPT ![obj[t]] = "raw"]
  /\ Goto(t, "build")
  /\ UNCHANGED <<key, made, forgotten, callVars, removalVars>>

\* The call fails: whatever the word was, it is NULL now.
Fail(t) ==
  /\ owner' = None
  /\ word' = [word EXCEPT ![obj[t]] = "null"]
  /\ forgotten' = forgotten \cup {obj[t]}
  /\ kind' = [kind EXCEPT ![obj[t]] = None]
  /\ Return(t)
  /\ UNCHANGED <<key, removalVars>>

NoMemory(t) ==
  /\ pc[t] = "lock" /\ owner = None /\ object_slot(obj[t]) = {}
  /\ Fail(t) /\ UNCHANGED made

Initialize(t) ==
  /\ pc[t] = "build"
  /\ made' = [made EXCEPT ![obj[t]] = @ + 1]
  /\ word' = [word EXCEPT ![obj[t]] = "ready"]
  /\ Goto(t, "remember")
  /\ UNCHANGED <<tableVars, kind, forgotten, callVars, removalVars>>

InitializeFails(t) == pc[t] = "build" /\ Fail(t) /\ UNCHANGED made

rememberObject_nl(t) ==
  /\ pc[t] = "remember"
  /\ \E s \in EmptySlot(obj[t]) : key' = [key EXCEPT ![s] = obj[t]]
  /\ owner' = None
  /\ Goto(t, "use")
  /\ UNCHANGED <<objectVars, callVars, removalVars>>

TableFull(t) ==
  /\ pc[t] = "remember" /\ EmptySlot(obj[t]) = {}
  /\ made' = [made EXCEPT ![obj[t]] = @ - 1]
  /\ Fail(t)

\* The real call; pthread_mutex_unlock alone comes here without a lookup.
Use(t) ==
  /\ pc[t] = "use"
  /\ Return(t)
  /\ UNCHANGED <<tableVars, objectVars, removalVars>>

\* The program makes a new object where one was destroyed or never used.
Construct(o) ==
  /\ ~InUse(o) /\ o \notin Published
  /\ word' = [word EXCEPT ![o] = StaticWord[o]]
  /\ forgotten' = forgotten \ {o}
  /\ UNCHANGED <<tableVars, made, kind, pc, callVars, removalVars>>

-----------------------------------------------------------------------------
(* pthread_mutex_destroy_soloader and pthread_cond_destroy_soloader         *)

DestroyCall(t, o) ==
  /\ pc[t] = "idle" /\ ~InUse(o)
  /\ obj' = [obj EXCEPT ![t] = o]
  /\ Goto(t, "destroy")
  /\ UNCHANGED <<tableVars, objectVars, asked, at, removalVars>>

DestroyUnused(t) ==
  /\ pc[t] = "destroy" /\ owner = None /\ object_slot(obj[t]) = {}
  /\ word' = [word EXCEPT ![obj[t]] = "null"]
  /\ forgotten' = forgotten \cup {obj[t]}
  /\ Return(t)
  /\ UNCHANGED <<tableVars, made, kind, removalVars>>

\* EBUSY: the object stays as it is.
DestroyBusy(t) ==
  /\ pc[t] = "destroy" /\ owner = None /\ object_slot(obj[t]) # {}
  /\ Return(t)
  /\ UNCHANGED <<tableVars, objectVars, removalVars>>

DestroyReal(t) ==
  /\ pc[t] = "destroy" /\ owner = None
  /\ \E s \in object_slot(obj[t]) :
       /\ hole' = s
       /\ start' = s
  /\ owner' = t
  /\ made' = [made EXCEPT ![obj[t]] = @ - 1]
  /\ step' = 1
  /\ Goto(t, "shift")
  /\ UNCHANGED <<key, word, kind, forgotten, callVars>>

\* remove_slot: the entries behind the hole that may move back do, one by one.
Ahead == (start + step) % N
MustMove(s) == (hole - Home[key[s]]) % N < (s - Home[key[s]]) % N
Walking(t) == pc[t] = "shift" /\ step < N /\ key[Ahead] # None

\* Mutant: an entry moves back however close to its home it is.
MoveAny(t) ==
  /\ Walking(t)
  /\ key' = [key EXCEPT ![hole] = key[Ahead]]
  /\ hole' = Ahead
  /\ step' = step + 1
  /\ UNCHANGED <<owner, objectVars, pc, callVars, start>>

MoveBack(t) ==
  /\ Walking(t) /\ MustMove(Ahead)
  /\ key' = [key EXCEPT ![hole] = key[Ahead]]
  /\ hole' = Ahead
  /\ step' = step + 1
  /\ UNCHANGED <<owner, objectVars, pc, callVars, start>>

StayBehind(t) ==
  /\ Walking(t) /\ ~MustMove(Ahead)
  /\ step' = step + 1
  /\ UNCHANGED <<tableVars, objectVars, pc, callVars, hole, start>>

\* The last hole is emptied, the memory given back and the word cleared.
FinishRemoval(t) ==
  /\ pc[t] = "shift" /\ ~Walking(t)
  /\ key' = [key EXCEPT ![hole] = None]
  /\ owner' = None
  /\ word' = [word EXCEPT ![obj[t]] = "null"]
  /\ forgotten' = forgotten \cup {obj[t]}
  /\ kind' = [kind EXCEPT ![obj[t]] = None]
  /\ hole' = 0 /\ start' = 0 /\ step' = 1
  /\ Return(t)
  /\ UNCHANGED made

-----------------------------------------------------------------------------
Init ==
  /\ key = [s \in 0 .. N - 1 |-> None] /\ owner = None
  /\ word = StaticWord
  /\ made = [o \in Objects |-> 0] /\ kind = [o \in Objects |-> None]
  /\ forgotten = {}
  /\ pc = [t \in Threads |-> "idle"]
  /\ obj = [t \in Threads |-> None]
  /\ asked = [t \in Threads |-> None]
  /\ at = [t \in Threads |-> 0]
  /\ hole = 0 /\ start = 0 /\ step = 1

Step(t) ==
  \/ ProbeHit(t) \/ ProbeOther(t) \/ ProbeMiss(t)
  \/ AlreadyInitialized(t) \/ Allocate(t) \/ NoMemory(t)
  \/ Initialize(t) \/ InitializeFails(t) \/ rememberObject_nl(t) \/ TableFull(t)
  \/ Use(t)
  \/ DestroyUnused(t) \/ DestroyBusy(t) \/ DestroyReal(t)
  \/ MoveBack(t) \/ StayBehind(t) \/ FinishRemoval(t)

Next ==
  \/ \E t \in Threads : Step(t)
  \/ \E t \in Threads, o \in Objects : Call(t, o) \/ DestroyCall(t, o)
  \/ \E o \in Objects : Construct(o)

Spec == Init /\ [][Next]_vars

-----------------------------------------------------------------------------
TypeOK ==
  /\ key \in [0 .. N - 1 -> Objects \cup {None}]
  /\ owner \in Threads \cup {None}
  /\ word \in [Objects -> {"null", "recursive", "errorcheck", "raw", "ready"}]
  /\ made \in [Objects -> Nat]
  /\ kind \in [Objects -> MutexKinds \cup {"cond", None}]
  /\ forgotten \subseteq Objects
  /\ pc \in [Threads -> Labels] /\ obj \in [Threads -> Objects \cup {None}]
  /\ asked \in [Threads -> MutexKinds \cup {None}]
  /\ at \in [Threads -> 0 .. N - 1]
  /\ hole \in 0 .. N - 1 /\ start \in 0 .. N - 1 /\ step \in 1 .. N

\* An object never has two real objects, so its waiters and its signals meet;
\* who found it in the table, however the entries were moving, uses a real
\* object that is ready; and outside the lock the table says exactly which
\* objects have one (pthr.c:37-39, 124-126 and 169-171).
OneRealObject ==
  /\ TypeOK
  /\ \A o \in Objects : made[o] =< 1
  /\ \A t \in Threads : pc[t] = "use" => word[obj[t]] = "ready" /\ made[obj[t]] = 1
  /\ owner = None => \A o \in Objects : made[o] = 1 <=> o \in Published

\* The table is a set of objects with a kind each: whatever stores a removal
\* is made of, readers see one object leave and no other, and an object is of
\* the kind its initializer or its attribute says (pthr.c:49-87, 133-156).
Abstract == INSTANCE ObjectSet WITH
  kind <- [o \in Objects |-> IF o \in Published THEN kind[o] ELSE None],
  forgotten <- forgotten \cup
               {o \in Objects \ Published : \E t \in Threads : pc[t] = "shift" /\ obj[t] = o},
  DeclaredKind <- [o \in Objects |->
                     IF o \in Conds THEN "cond"
                     ELSE IF StaticWord[o] = "null" THEN "normal" ELSE StaticWord[o]],
  DefaultKind <- [o \in Objects |-> IF o \in Conds THEN "cond" ELSE "normal"]
ActsAsObjectSet == Abstract!Spec
=============================================================================
