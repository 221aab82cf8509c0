----------------------------- MODULE ObjectSet -----------------------------
(***************************************************************************)
(* What reimpl/pthr.c promises about the engine's mutexes and condition    *)
(* variables: a set of objects, each with one kind, that changes by one    *)
(* object at a time.  An object is made with the kind its caller asks for,  *)
(* or with the one its static initializer says, which is forgotten when an  *)
(* initialisation fails or the object is destroyed.                        *)
(***************************************************************************)
CONSTANTS
  Objects,
  AskedKinds,   \* the kinds an attribute may ask for
  DeclaredKind, \* object -> what its static initializer says
  DefaultKind,  \* object -> what a cleared one is made with
  None

VARIABLES
  kind,         \* object -> its kind, or None when it does not exist
  forgotten     \* the objects whose initializer is gone

Init == kind = [o \in Objects |-> None] /\ forgotten = {}

ImplicitKind(o) == IF o \in forgotten THEN DefaultKind[o] ELSE DeclaredKind[o]

Make(o) ==
  /\ kind[o] = None
  /\ \E k \in AskedKinds[o] \cup {ImplicitKind(o)} : kind' = [kind EXCEPT ![o] = k]
  /\ UNCHANGED forgotten

FailToMake(o) ==
  /\ kind[o] = None
  /\ forgotten' = forgotten \cup {o}
  /\ UNCHANGED kind

Destroy(o) ==
  /\ kind' = [kind EXCEPT ![o] = None]
  /\ forgotten' = forgotten \cup {o}

\* The program builds a new object in the same memory.
Construct(o) ==
  /\ kind[o] = None
  /\ forgotten' = forgotten \ {o}
  /\ UNCHANGED kind

Next == \E o \in Objects : Make(o) \/ FailToMake(o) \/ Destroy(o) \/ Construct(o)

Spec == Init /\ [][Next]_<<kind, forgotten>>
=============================================================================
