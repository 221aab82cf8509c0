------------------------------ MODULE JniRefs ------------------------------
(***************************************************************************)
(* The reference counts of the fake JNI, lib/falso_jni/FalsoJNI.c: strings, *)
(* buffers and object arrays are tracked in a table of counted entries, the *)
(* entries come from a small pool or from the heap, and an object goes when *)
(* neither a local nor a global reference is left, an array together with   *)
(* the references it holds on its elements.                                 *)
(*                                                                         *)
(* A section under g_tracked_refs_lock is one step; what runs outside it,   *)
(* filling a private entry or freeing an object, is another.  The buckets   *)
(* are left out, a chain is a set, and the class names, the fake objects,   *)
(* which never go, and the reserved references are not tracked.             *)
(*                                                                         *)
(* The program keeps to JNI: it passes and deletes only references it holds *)
(* and does not access one array from two threads at a time.  It makes no   *)
(* array reach itself, which counting could not free: here an array becomes  *)
(* an element of new arrays only.                                           *)
(***************************************************************************)
EXTENDS Integers, Sequences, FiniteSets

CONSTANTS
  Threads,
  Objects,      \* addresses: one that was freed is given out again
  Pool,         \* g_ref_pool
  HeapEntries,  \* records malloc may return
  Length,       \* of every object array
  Null,
  MaxRefs       \* bound: references a thread, or the program, has on an object

ASSUME JniAssumption ==
  /\ IsFiniteSet(Threads) /\ IsFiniteSet(Objects)
  /\ Pool \cap HeapEntries = {} /\ Length \in Nat /\ MaxRefs \in Nat \ {0}
  /\ Null \notin Objects \cup Pool \cup HeapEntries

VARIABLES
  heap,         \* what an address holds
  elem,         \* the elements of the arrays; Null also when not yet filled, or released
  chain,        \* the entries linked in g_tracked_refs
  entryObj, kind, localRefs, globalRefs,  \* the fields of an entry
  freeEntries,  \* g_ref_free and what g_ref_pool_used has not reached
  malloced,     \* the heap entries in use
  heldLocal, heldGlobal,  \* the references of each thread, and of the program
  call,         \* the call a thread is in: its place, its arguments, the record it has taken
  frames        \* the tracked_free_object calls of a thread, the innermost last

entryVars == <<chain, entryObj, kind, localRefs, globalRefs, freeEntries, malloced>>
heldVars == <<heldLocal, heldGlobal>>
refsVars == <<heap, elem, entryVars, heldVars, call, frames>>

Entries == Pool \cup HeapEntries
Indices == 1 .. Length
Labels == {"idle", "fill", "find", "malloc", "link", "store", "get", "free"}

Idle == [at |-> "idle", arg |-> Null, index |-> 1, val |-> Null, entry |-> Null]
GoOn(t, label) ==
  call' = [call EXCEPT ![t] = IF label = "idle" THEN Idle ELSE [@ EXCEPT !.at = label]]
Call(t, label, o, i, v) ==
  /\ call[t].at = "idle"
  /\ call' = [call EXCEPT ![t] = [at |-> label, arg |-> o, index |-> i, val |-> v, entry |-> Null]]

\* tracked_find_locked
EntriesOf(o) == {e \in chain : entryObj[e] = o}
Tracked == {entryObj[e] : e \in chain}

AddRef(count, o) ==
  [e \in Entries |-> IF e \in EntriesOf(o) THEN count[e] + 1 ELSE count[e]]

\* What JNI demands of the program: t may pass o; no call counts on its global reference.
Holds(t, o) == heldLocal[t][o] > 0 \/ heldGlobal[o] > 0
InCall(o) ==
  \E t \in Threads : o \in {call[t].arg, call[t].val} /\ heldLocal[t][o] = 0
MayUse(t, a) ==
  /\ Holds(t, a) /\ heap[a] = "array"
  /\ \A u \in Threads : call[u].at \in {"store", "get"} => call[u].arg # a

-----------------------------------------------------------------------------
(* tracked_release_ref_if_known: under the lock it unlinks the entry of an  *)
(* object without references; the object it destroys later.                 *)

Drop(count, o) ==
  [e \in Entries |-> IF e \in EntriesOf(o) /\ count[e] > 0 THEN count[e] - 1 ELSE count[e]]

Frame(e) == [obj |-> entryObj[e], kind |-> kind[e], entry |-> e]

\* local and global are the counts left.
Release(t, o, local, global) ==
  LET unused == {e \in EntriesOf(o) : local[e] = 0 /\ global[e] = 0} IN
  /\ localRefs' = local /\ globalRefs' = global
  /\ chain' = chain \ unused
  /\ freeEntries' = freeEntries \cup (unused \cap Pool)
  /\ frames' = [frames EXCEPT ![t] =
                  IF unused = {} THEN @ ELSE Append(@, Frame(CHOOSE e \in unused : TRUE))]
  /\ GoOn(t, IF frames'[t] = <<>> THEN "idle" ELSE "free")
  /\ UNCHANGED <<entryObj, kind, malloced>>

-----------------------------------------------------------------------------
(* tracked_free_object: the members of an array first, then the memory.     *)

Innermost(t) == frames[t][Len(frames[t])]
HasMembers(frame) ==
  frame.kind = "array" /\ \E i \in Indices : elem[frame.obj][i] # Null
NextMember(a) ==
  CHOOSE i \in Indices : elem[a][i] # Null /\ \A j \in 1 .. i - 1 : elem[a][j] = Null

\* Mutant: the members go as local references.
FreeMemberAsLocal(t) ==
  LET a == Innermost(t).obj
      i == NextMember(a) IN
  /\ call[t].at = "free" /\ HasMembers(Innermost(t))
  /\ elem' = [elem EXCEPT ![a][i] = Null]
  /\ Release(t, elem[a][i], Drop(localRefs, elem[a][i]), globalRefs)
  /\ UNCHANGED <<heap, heldVars>>

\* Null takes the place of the loop's index: nobody reads the array again.
FreeMember(t) ==
  LET a == Innermost(t).obj
      i == NextMember(a) IN
  /\ call[t].at = "free" /\ HasMembers(Innermost(t))
  /\ elem' = [elem EXCEPT ![a][i] = Null]
  /\ Release(t, elem[a][i], localRefs, Drop(globalRefs, elem[a][i]))
  /\ UNCHANGED <<heap, heldVars>>

\* A record that is not the pool's goes after the object.
FreeObject(t) ==
  /\ call[t].at = "free" /\ ~HasMembers(Innermost(t))
  /\ heap' = [heap EXCEPT ![Innermost(t).obj] = "free"]
  /\ malloced' = malloced \ {Innermost(t).entry}
  /\ frames' = [frames EXCEPT ![t] = SubSeq(@, 1, Len(@) - 1)]
  /\ GoOn(t, IF Len(frames[t]) = 1 THEN "idle" ELSE "free")
  /\ UNCHANGED <<elem, chain, entryObj, kind, localRefs, globalRefs, freeEntries, heldVars>>

-----------------------------------------------------------------------------
(* New objects: NewStringUTF, NewDirectByteBuffer, NewObjectArray and       *)
(* tracked_register_local_owned.                                            *)

NewPlain(t, o) ==
  /\ heap[o] = "free"
  /\ heap' = [heap EXCEPT ![o] = "plain"]
  /\ Call(t, "find", o, 1, Null)
  /\ UNCHANGED <<elem, entryVars, heldVars, frames>>

\* The element v of every index may be Null.
NewObjectArray(t, o, v) ==
  /\ heap[o] = "free"
  /\ v # Null => Holds(t, v)
  /\ heap' = [heap EXCEPT ![o] = "array"]
  /\ Call(t, IF v = Null \/ Length = 0 THEN "find" ELSE "fill", o, 1, v)
  /\ UNCHANGED <<elem, entryVars, heldVars, frames>>

FillElement(t) ==
  /\ call[t].at = "fill"
  /\ elem' = [elem EXCEPT ![call[t].arg][call[t].index] = call[t].val]
  /\ globalRefs' = AddRef(globalRefs, call[t].val)
  /\ call' = [call EXCEPT ![t].index = @ + 1,
                          ![t].at = IF call[t].index = Length THEN "find" ELSE "fill"]
  /\ UNCHANGED <<heap, chain, entryObj, kind, localRefs, freeEntries, malloced, heldVars,
                 frames>>

\* The record is filled in before anybody can find it.
Record(t, e) ==
  /\ entryObj' = [entryObj EXCEPT ![e] = call[t].arg]
  /\ kind' = [kind EXCEPT ![e] = heap[call[t].arg]]
  /\ localRefs' = [localRefs EXCEPT ![e] = 1]
  /\ globalRefs' = [globalRefs EXCEPT ![e] = 0]
  /\ call' = [call EXCEPT ![t].at = "link", ![t].entry = e]

TakeEntry(t, e) ==
  /\ call[t].at = "find" /\ e \in freeEntries
  /\ freeEntries' = freeEntries \ {e}
  /\ Record(t, e)
  /\ UNCHANGED <<heap, elem, chain, malloced, heldVars, frames>>

PoolIsEmpty(t) ==
  /\ call[t].at = "find" /\ freeEntries = {}
  /\ GoOn(t, "malloc")
  /\ UNCHANGED <<heap, elem, entryVars, heldVars, frames>>

MallocEntry(t, e) ==
  /\ call[t].at = "malloc" /\ e \in HeapEntries \ malloced
  /\ malloced' = malloced \cup {e}
  /\ Record(t, e)
  /\ UNCHANGED <<heap, elem, chain, freeEntries, heldVars, frames>>

\* Mutant: an object that cannot be tracked is forgotten.
NoMemoryForgets(t) ==
  /\ call[t].at = "malloc"
  /\ GoOn(t, "idle")
  /\ UNCHANGED <<heap, elem, entryVars, heldVars, frames>>

\* tracked_free_object releases the elements of an array that cannot be tracked.
NoMemory(t) ==
  /\ call[t].at = "malloc"
  /\ frames' = [frames EXCEPT ![t] = <<[obj |-> call[t].arg, kind |-> heap[call[t].arg], entry |-> Null]>>]
  /\ GoOn(t, "free")
  /\ UNCHANGED <<heap, elem, entryVars, heldVars>>

\* Its branch for an address that is tracked already is out of reach (NothingLeaks).
Link(t) ==
  /\ call[t].at = "link" /\ call[t].arg \notin Tracked
  /\ chain' = chain \cup {call[t].entry}
  /\ heldLocal' = [heldLocal EXCEPT ![t][call[t].arg] = @ + 1]
  /\ GoOn(t, "idle")
  /\ UNCHANGED <<heap, elem, entryObj, kind, localRefs, globalRefs, freeEntries, malloced,
                 heldGlobal, frames>>

-----------------------------------------------------------------------------
(* References.                                                              *)

NewLocalRef(t, o) ==
  /\ call[t].at = "idle" /\ Holds(t, o) /\ heldLocal[t][o] < MaxRefs
  /\ localRefs' = AddRef(localRefs, o)
  /\ heldLocal' = [heldLocal EXCEPT ![t][o] = @ + 1]
  /\ UNCHANGED <<heap, elem, chain, entryObj, kind, globalRefs, freeEntries, malloced,
                 heldGlobal, call, frames>>

NewGlobalRef(t, o) ==
  /\ call[t].at = "idle" /\ Holds(t, o) /\ heldGlobal[o] < MaxRefs
  /\ globalRefs' = AddRef(globalRefs, o)
  /\ heldGlobal' = [heldGlobal EXCEPT ![o] = @ + 1]
  /\ UNCHANGED <<heap, elem, chain, entryObj, kind, localRefs, freeEntries, malloced,
                 heldLocal, call, frames>>

DeleteLocalRef(t, o) ==
  /\ call[t].at = "idle" /\ heldLocal[t][o] > 0
  /\ heldLocal' = [heldLocal EXCEPT ![t][o] = @ - 1]
  /\ Release(t, o, Drop(localRefs, o), globalRefs)
  /\ UNCHANGED <<heap, elem, heldGlobal>>

DeleteGlobalRef(t, o) ==
  /\ call[t].at = "idle" /\ heldGlobal[o] > 0 /\ ~InCall(o)
  /\ heldGlobal' = [heldGlobal EXCEPT ![o] = @ - 1]
  /\ Release(t, o, localRefs, Drop(globalRefs, o))
  /\ UNCHANGED <<heap, elem, heldLocal>>

-----------------------------------------------------------------------------
(* GetObjectArrayElement and SetObjectArrayElement.                         *)

SetObjectArrayElement(t, a, i, v) ==
  /\ MayUse(t, a) /\ (v # Null => Holds(t, v) /\ heap[v] = "plain")
  /\ globalRefs' = AddRef(globalRefs, v)
  /\ Call(t, "store", a, i, v)
  /\ UNCHANGED <<heap, elem, chain, entryObj, kind, localRefs, freeEntries, malloced,
                 heldVars, frames>>

StoreElement(t) ==
  LET old == elem[call[t].arg][call[t].index] IN
  /\ call[t].at = "store"
  /\ elem' = [elem EXCEPT ![call[t].arg][call[t].index] = call[t].val]
  /\ Release(t, old, localRefs, Drop(globalRefs, old))
  /\ UNCHANGED <<heap, heldVars>>

GetObjectArrayElement(t, a, i) ==
  /\ MayUse(t, a) /\ elem[a][i] # Null /\ heldLocal[t][elem[a][i]] < MaxRefs
  /\ Call(t, "get", a, i, elem[a][i])
  /\ UNCHANGED <<heap, elem, entryVars, heldVars, frames>>

ReturnElement(t) ==
  /\ call[t].at = "get"
  /\ localRefs' = AddRef(localRefs, call[t].val)
  /\ heldLocal' = [heldLocal EXCEPT ![t][call[t].val] = @ + 1]
  /\ GoOn(t, "idle")
  /\ UNCHANGED <<heap, elem, chain, entryObj, kind, globalRefs, freeEntries, malloced,
                 heldGlobal, frames>>

-----------------------------------------------------------------------------

RefsInit ==
  /\ heap = [o \in Objects |-> "free"]
  /\ elem = [o \in Objects |-> [i \in Indices |-> Null]]
  /\ chain = {} /\ freeEntries = Pool /\ malloced = {}
  /\ entryObj = [e \in Entries |-> Null] /\ kind = [e \in Entries |-> "free"]
  /\ localRefs = [e \in Entries |-> 0] /\ globalRefs = [e \in Entries |-> 0]
  /\ heldLocal = [t \in Threads |-> [o \in Objects |-> 0]] /\ heldGlobal = [o \in Objects |-> 0]
  /\ call = [t \in Threads |-> Idle]
  /\ frames = [t \in Threads |-> <<>>]

Proceed(t) ==
  \/ FreeMember(t) \/ FreeObject(t)
  \/ FillElement(t) \/ PoolIsEmpty(t) \/ NoMemory(t) \/ Link(t)
  \/ \E e \in Pool : TakeEntry(t, e)
  \/ \E e \in HeapEntries : MallocEntry(t, e)
  \/ StoreElement(t) \/ ReturnElement(t)

CallJNI(t) ==
  \E o \in Objects :
    \/ NewPlain(t, o)
    \/ NewLocalRef(t, o) \/ NewGlobalRef(t, o)
    \/ DeleteLocalRef(t, o) \/ DeleteGlobalRef(t, o)
    \/ \E v \in Objects \cup {Null} :
         \/ NewObjectArray(t, o, v)
         \/ \E i \in Indices : SetObjectArrayElement(t, o, i, v)
    \/ \E i \in Indices : GetObjectArrayElement(t, o, i)

RefsNext == \E t \in Threads : Proceed(t) \/ CallJNI(t)

RefsSpec == RefsInit /\ [][RefsNext]_refsVars

-----------------------------------------------------------------------------
RefsTypeOK ==
  /\ heap \in [Objects -> {"free", "plain", "array"}]
  /\ elem \in [Objects -> [Indices -> Objects \cup {Null}]]
  /\ chain \subseteq Entries /\ freeEntries \subseteq Pool /\ malloced \subseteq HeapEntries
  /\ entryObj \in [Entries -> Objects \cup {Null}]
  /\ kind \in [Entries -> {"free", "plain", "array"}]
  /\ localRefs \in [Entries -> Nat] /\ globalRefs \in [Entries -> Nat]
  /\ heldLocal \in [Threads -> [Objects -> 0 .. MaxRefs]]
  /\ heldGlobal \in [Objects -> 0 .. MaxRefs]
  /\ \A t \in Threads :
       /\ call[t].at \in Labels
       /\ call[t].arg \in Objects \cup {Null} /\ call[t].val \in Objects \cup {Null}
       /\ call[t].index \in 1 .. Length + 1 /\ call[t].entry \in Entries \cup {Null}

\* The references on o, but for the local ones: the program's, the elements of
\* arrays, and a value counted by SetObjectArrayElement and not yet stored.
GlobalReferences(o) ==
  heldGlobal[o]
    + Cardinality({slot \in Objects \X Indices : elem[slot[1]][slot[2]] = o})
    + Cardinality({t \in Threads : call[t].at = "store" /\ call[t].val = o})
LocalReferences(o) ==
  Cardinality({ref \in Threads \X (1 .. MaxRefs) : ref[2] =< heldLocal[ref[1]][o]})

\* What the program, an array or a call refers to is there, and counted: an
\* object that has an entry is allocated and its counts are exactly its
\* references, one that has none is referred to by nobody.  So no order of calls
\* frees an object in use (tracked_add_ref_if_known, tracked_release_ref_if_known,
\* and the elements in NewObjectArray, SetObjectArrayElement, tracked_free_object).
CountsAreExact ==
  /\ RefsTypeOK
  /\ \A o \in Objects :
       /\ o \notin Tracked => LocalReferences(o) + GlobalReferences(o) = 0
       /\ \A e \in EntriesOf(o) :
            /\ heap[o] = kind[e] /\ kind[e] # "free"
            /\ localRefs[e] = LocalReferences(o) /\ globalRefs[e] = GlobalReferences(o)

InHand == {call[t].entry : t \in {u \in Threads : call[u].at = "link"}}
Making(t, o) == call[t].at \in {"fill", "find", "malloc", "link"} /\ call[t].arg = o
Freeing(t, o) == \E n \in DOMAIN frames[t] : frames[t][n].obj = o
ToFree == UNION {{frames[t][n].entry : n \in DOMAIN frames[t]} : t \in Threads}

\* Nothing is lost and nothing is freed twice, in calls that fail and in calls
\* that destroy arrays as well: an address in use has one entry and a reference,
\* or is being made or freed by one call and has none; every record is free, in
\* a chain or in the hands of a call, and of one only (tracked_entry_take_locked,
\* tracked_entry_return_locked, tracked_register_local_owned).
NothingLeaks ==
  /\ \A o \in Objects :
       LET hands == {t \in Threads : Making(t, o) \/ Freeing(t, o)} IN
       IF heap[o] = "free" THEN o \notin Tracked /\ hands = {}
       ELSE /\ Cardinality(EntriesOf(o)) + Cardinality(hands) = 1
            /\ o \in Tracked => LocalReferences(o) + GlobalReferences(o) > 0
  /\ freeEntries \cup ((chain \cup InHand) \cap Pool) = Pool
  /\ freeEntries \cap (chain \cup InHand) = {} /\ chain \cap InHand = {}
  /\ malloced = (chain \cup InHand \cup ToFree) \cap HeapEntries
=============================================================================
