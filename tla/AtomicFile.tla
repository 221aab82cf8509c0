----------------------------- MODULE AtomicFile -----------------------------
(***************************************************************************)
(* What a transaction on a file promises across power loss: the next launch *)
(* reads the old contents or the new ones, never neither, and the answer    *)
(* says which.  utils/save_editor.cpp and utils/port_locale.c both promise  *)
(* it ("Keep a recoverable original across the two renames, including power *)
(* loss").  The promise does not cover a call that took an existing file    *)
(* for missing, until its transaction commits.                             *)
(***************************************************************************)

CONSTANTS
  Contents,   \* what a transaction may write
  Others,     \* what somebody else may write between two transactions
  Readable,   \* what a launch may find
  None        \* no transaction, no answer

VARIABLES
  stored,     \* what the next launch will read
  wanted,     \* the contents of the running transaction, or None
  committed,  \* the running transaction has taken effect
  answer,     \* what the last transaction answered
  elsewhere,  \* input: somebody else has the file
  mistaken    \* input: the running call took an existing file for missing

fvars == <<stored, wanted, committed, answer>>

Init == wanted = None /\ ~committed /\ answer = None

\* The game, between two launches.
Overwrite(c) ==
  /\ elsewhere /\ wanted = None
  /\ stored' = c
  /\ UNCHANGED <<wanted, committed, answer>>

\* What a rename onto the file that was not seen does to it.
Lose(c) ==
  /\ mistaken /\ ~committed
  /\ stored' = c
  /\ UNCHANGED <<wanted, committed, answer>>

Begin(c) ==
  /\ wanted = None
  /\ wanted' = c /\ ~committed' /\ answer' = None
  /\ UNCHANGED stored

Commit ==
  /\ wanted # None /\ ~committed
  /\ stored' = wanted /\ committed'
  /\ UNCHANGED <<wanted, answer>>

Succeed ==
  /\ committed
  /\ wanted' = None /\ ~committed' /\ answer' = TRUE
  /\ UNCHANGED stored

Refuse ==
  /\ ~committed
  /\ wanted' = None /\ ~committed' /\ answer' = FALSE
  /\ UNCHANGED stored

\* The answer is taken, or power is lost: no answer, and either contents.
Forget ==
  /\ wanted' = None /\ ~committed' /\ answer' = None
  /\ UNCHANGED stored

Next ==
  \/ \E c \in Others : Overwrite(c)
  \/ \E c \in Readable : Lose(c)
  \/ \E c \in Contents : Begin(c)
  \/ Commit \/ Succeed \/ Refuse \/ Forget

Spec == Init /\ [][Next]_fvars
=============================================================================
