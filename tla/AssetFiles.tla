----------------------------- MODULE AssetFiles -----------------------------
(***************************************************************************)
(* What the game relies on when it uses an asset descriptor (the promise   *)
(* of asset_vfd_open, _read, _pread, _lseek and _close in reimpl/io.c),    *)
(* with no kernel descriptor, cache or lock in sight: a descriptor is open *)
(* on one file until it is closed, the bytes of a read are bytes of that   *)
(* file, readers of the shared position follow one another, and a close    *)
(* waits for the reads it finds running.                                   *)
(***************************************************************************)
EXTENDS Integers

CONSTANTS Threads, Slots, Files, None, Length, MaxPos

VARIABLES
  state,    \* per descriptor: "free", "open" or "closing"
  file,     \* per descriptor: the file it is open on, or None
  pos,      \* per descriptor: the shared position
  reader,   \* per thread: None, or the descriptor it reads, shared or not
  bytes     \* per thread: the bytes it was given, <<file, offset, count>>

avars == <<state, file, pos, reader, bytes>>

NoBytes == <<None, 0, 0>>
Readers(s) == {t \in Threads : reader[t] # None /\ reader[t][1] = s}

Init ==
  /\ state = [s \in Slots |-> "free"]
  /\ file = [s \in Slots |-> None]
  /\ pos = [s \in Slots |-> 0]
  /\ reader = [t \in Threads |-> None]
  /\ bytes = [t \in Threads |-> NoBytes]

OpenFile(s, f) ==
  /\ state[s] = "free"
  /\ state' = [state EXCEPT ![s] = "open"]
  /\ file' = [file EXCEPT ![s] = f]
  /\ UNCHANGED <<pos, reader, bytes>>

\* One reader at a time uses the shared position.
BeginRead(t, s, sh) ==
  /\ state[s] = "open" /\ reader[t] = None
  /\ sh => \A u \in Readers(s) : ~reader[u][2]
  /\ reader' = [reader EXCEPT ![t] = <<s, sh>>]
  /\ UNCHANGED <<state, file, pos, bytes>>

\* The bytes come from the descriptor's file; a shared read takes them at the
\* position the descriptor has.
Deliver(t) ==
  /\ reader[t] # None /\ bytes[t] = NoBytes
  /\ \E o \in 0 .. Length + MaxPos, n \in 0 .. Length :
       /\ reader[t][2] => o = pos[reader[t][1]]
       /\ bytes' = [bytes EXCEPT ![t] = <<file[reader[t][1]], o, n>>]
  /\ UNCHANGED <<state, file, pos, reader>>

EndRead(t) ==
  /\ reader[t] # None
  /\ pos' = IF reader[t][2] /\ bytes[t][3] > 0
            THEN [pos EXCEPT ![reader[t][1]] = bytes[t][2] + bytes[t][3]] ELSE pos
  /\ reader' = [reader EXCEPT ![t] = None]
  /\ bytes' = [bytes EXCEPT ![t] = NoBytes]
  /\ UNCHANGED <<state, file>>

Seek(s, p) ==
  /\ state[s] = "open"
  /\ \A t \in Readers(s) : ~reader[t][2]
  /\ pos' = [pos EXCEPT ![s] = p]
  /\ UNCHANGED <<state, file, reader, bytes>>

\* No read begins on a descriptor that is closing.
BeginClose(s) ==
  /\ state[s] = "open"
  /\ state' = [state EXCEPT ![s] = "closing"]
  /\ UNCHANGED <<file, pos, reader, bytes>>

\* From "open" when nobody reads.
EndClose(s) ==
  /\ state[s] # "free"
  /\ Readers(s) = {}
  /\ state' = [state EXCEPT ![s] = "free"]
  /\ file' = [file EXCEPT ![s] = None]
  /\ pos' = [pos EXCEPT ![s] = 0]
  /\ UNCHANGED <<reader, bytes>>

Next ==
  \/ \E s \in Slots :
       \/ \E f \in Files : OpenFile(s, f)
       \/ \E t \in Threads, sh \in BOOLEAN : BeginRead(t, s, sh)
       \/ \E p \in 0 .. MaxPos : Seek(s, p)
       \/ BeginClose(s) \/ EndClose(s)
  \/ \E t \in Threads : Deliver(t) \/ EndRead(t)

Spec == Init /\ [][Next]_avars
=============================================================================
