----------------------------- MODULE SaveEditor -----------------------------
(***************************************************************************)
(* The startup editor of pp.dat (utils/save_editor.cpp): one backed-up      *)
(* transaction over all edited profiles, by a temporary file and two        *)
(* renames, and the recovery of the next launch.  Every library call that   *)
(* touches the directory is one action, and each may fail.  exists() is an  *)
(* fopen: when that fails, a file that is there counts as missing.          *)
(*                                                                         *)
(* A parsed save is its balance per profile; one that does not parse is     *)
(* Damaged, and so is a file while it is being written.  Assumed of the     *)
(* file system (external): a rename first removes a file at its new name    *)
(* and then moves the old one there (reimpl/io.c:1035); the removal and the *)
(* move are atomic and reach the card in order, and a write that was synced *)
(* and read back stays.                                                    *)
(***************************************************************************)
EXTENDS Integers

CONSTANTS
  Profiles,    \* the players of the save
  Balances,    \* coins and gems of one player
  Slots,       \* number of backup names (1000)
  Missing, Damaged

ASSUME SaveAssumption ==
  /\ Slots \in Nat \ {0}
  /\ Missing # Damaged /\ {Missing, Damaged} \cap [Profiles -> Balances] = {}

VARIABLES
  pp, tmp, old,        \* pp.dat, pp.dat.editor-tmp and pp.dat.editor-old
  backups,             \* pp.dat.backup-0 ..
  at,                  \* where pvz2_save_apply_batch is
  original, changed,   \* its buffers
  slot,                \* the backup name it probes, and then writes
  unseen               \* history: this call took an existing file for missing

saveFiles == <<pp, tmp, old, backups>>
saveLocals == <<original, changed, slot, unseen>>
saveVars == <<saveFiles, at, saveLocals>>

Saves == [Profiles -> Balances]
Files == Saves \cup {Missing, Damaged}

\* Earlier edits that were cut off may have taken backup names.
SaveInit ==
  /\ pp \in Files
  /\ tmp = Missing /\ old = Missing
  /\ backups \in [0 .. Slots - 1 -> {Missing, Damaged}]
  /\ at = "idle" /\ original = Missing /\ changed = Missing /\ slot = 0
  /\ unseen = FALSE

-----------------------------------------------------------------------------
(* pvz2_save_recover.                                                       *)

\* A save is there, or no staged original is seen.
RecoverNothing == at = "idle" /\ UNCHANGED saveVars

\* No save is seen, and the staged original is to be renamed.
RecoverStarts ==
  /\ at = "idle" /\ old # Missing
  /\ unseen' = (pp # Missing)
  /\ at' = "restore"
  /\ UNCHANGED <<saveFiles, original, changed, slot>>

\* The rename removes the save that was not seen.
RecoverClobbers ==
  /\ at = "restore" /\ pp # Missing
  /\ pp' = Missing
  /\ UNCHANGED <<tmp, old, backups, at, saveLocals>>

RestoreOld ==
  /\ pp = Missing
  /\ pp' = old /\ old' = Missing
  /\ UNCHANGED <<tmp, backups>>

Recovered ==
  /\ at = "restore" /\ RestoreOld
  /\ at' = "idle" /\ unseen' = FALSE
  /\ UNCHANGED <<original, changed, slot>>

-----------------------------------------------------------------------------
(* pvz2_save_apply_batch.                                                   *)

\* The save after the edit: the tokens of the profiles that are not selected
\* are copied.
Edited(desired, mask) == [p \in Profiles |-> IF p \in mask THEN desired[p] ELSE pp[p]]

Apply(desired, mask) ==
  /\ at = "idle" /\ pp \in Saves
  /\ original' = pp /\ changed' = Edited(desired, mask)
  /\ at' = "backup" /\ slot' = 0 /\ unseen' = FALSE
  /\ UNCHANGED saveFiles

\* The save cannot be read, or is none the editor can parse.
ApplyRefused ==
  /\ at = "idle"
  /\ at' = "failed"
  /\ UNCHANGED <<saveFiles, saveLocals>>

\* Failures that leave every file as it is: an open, a write or a rename that fails.
GiveUp(step) ==
  /\ at = step
  /\ at' = "failed"
  /\ UNCHANGED <<saveFiles, saveLocals>>

\* Failures after which the temporary file is removed, if that succeeds.
DropTemp(step) ==
  /\ at = step
  /\ tmp' \in {tmp, Missing}
  /\ at' = "failed"
  /\ UNCHANGED <<pp, old, backups, saveLocals>>

\* The loop over the backup names, one exists() at a time.
NameTaken ==
  /\ at = "backup" /\ backups[slot] # Missing
  /\ \/ slot < Slots - 1 /\ slot' = slot + 1 /\ UNCHANGED at
     \/ slot = Slots - 1 /\ at' = "failed" /\ UNCHANGED slot
  /\ UNCHANGED <<saveFiles, original, changed, unseen>>

\* Mutant: the last name is written whether it is taken or not.
NameFreeOrLast ==
  /\ at = "backup"
  /\ backups[slot] = Missing \/ slot = Slots - 1
  /\ at' = "backup open"
  /\ UNCHANGED <<saveFiles, saveLocals>>

\* The name is free, or its exists() fails.
NameFree ==
  /\ at = "backup"
  /\ unseen' = (backups[slot] # Missing)
  /\ at' = "backup open"
  /\ UNCHANGED <<saveFiles, original, changed, slot>>

\* A file that is opened for writing is empty first.
BackupOpen ==
  /\ at = "backup open"
  /\ backups' = [backups EXCEPT ![slot] = Damaged]
  /\ at' = "backup write"
  /\ UNCHANGED <<pp, tmp, old, saveLocals>>

\* Mutant: a short write is not noticed.
BackupUnchecked ==
  /\ at = "backup write"
  /\ backups' \in {backups, [backups EXCEPT ![slot] = original]}
  /\ at' = "temp"
  /\ UNCHANGED <<pp, tmp, old, saveLocals>>

\* Written, synced, closed and read back.
BackupWrite ==
  /\ at = "backup write"
  /\ backups' = [backups EXCEPT ![slot] = original]
  /\ at' = "temp"
  /\ UNCHANGED <<pp, tmp, old, saveLocals>>

TempOpen ==
  /\ at = "temp"
  /\ tmp' = Damaged
  /\ at' = "temp write"
  /\ UNCHANGED <<pp, old, backups, saveLocals>>

TempWrite ==
  /\ at = "temp write"
  /\ tmp' = changed
  /\ at' = "recheck"
  /\ UNCHANGED <<pp, old, backups, saveLocals>>

Recheck ==
  /\ at = "recheck" /\ pp = original
  /\ at' = "clear"
  /\ UNCHANGED <<saveFiles, saveLocals>>

\* Removed, if it is there and seen.
ClearOld ==
  /\ at = "clear"
  /\ old' \in {old, Missing}
  /\ at' = "stage"
  /\ UNCHANGED <<pp, tmp, backups, saveLocals>>

\* Mutant: the original is removed to make room for the new file.
StageByRemoving ==
  /\ at = "stage"
  /\ pp' = Missing
  /\ at' = "commit"
  /\ UNCHANGED <<tmp, old, backups, saveLocals>>

\* The rename removes an older original that was not seen.
StageClobbers ==
  /\ at = "stage" /\ old # Missing
  /\ old' = Missing
  /\ UNCHANGED <<pp, tmp, backups, at, saveLocals>>

Stage ==
  /\ at = "stage" /\ old = Missing
  /\ old' = pp /\ pp' = Missing
  /\ at' = "commit"
  /\ UNCHANGED <<tmp, backups, saveLocals>>

CommitTemp ==
  /\ at = "commit" /\ pp = Missing
  /\ pp' = tmp /\ tmp' = Missing
  /\ at' = "cleanup"
  /\ UNCHANGED <<old, backups, saveLocals>>

CommitFails ==
  /\ at = "commit"
  /\ at' = "rollback"
  /\ UNCHANGED <<saveFiles, saveLocals>>

Rollback ==
  /\ at = "rollback"
  /\ RestoreOld
  /\ at' = "failed"
  /\ UNCHANGED saveLocals

\* The removal's result is ignored.
Cleanup ==
  /\ at = "cleanup"
  /\ old' \in {old, Missing}
  /\ at' = "done"
  /\ UNCHANGED <<pp, tmp, backups, saveLocals>>

ApplyStep ==
  \/ NameTaken \/ NameFree \/ BackupOpen \/ BackupWrite
  \/ TempOpen \/ TempWrite \/ Recheck \/ ClearOld \/ StageClobbers \/ Stage
  \/ CommitTemp \/ CommitFails \/ Rollback \/ Cleanup
  \/ (\E step \in {"backup open", "backup write", "stage", "rollback"} : GiveUp(step))
  \/ old # Missing /\ GiveUp("clear")
  \/ (\E step \in {"temp", "temp write", "recheck"} : DropTemp(step))

-----------------------------------------------------------------------------

\* What the next launch reads.
StoredSave == IF pp # Missing THEN pp ELSE old

SaveTypeOK ==
  /\ pp \in Files /\ tmp \in Files /\ old \in Files
  /\ backups \in [0 .. Slots - 1 -> Files]
  /\ at \in {"idle", "restore", "backup", "backup open", "backup write", "temp", "temp write",
             "recheck", "clear", "stage", "commit", "rollback", "cleanup", "done", "failed"}
  /\ original \in Saves \cup {Missing} /\ changed \in Saves \cup {Missing}
  /\ slot \in 0 .. Slots - 1
  /\ unseen \in BOOLEAN

\* From the moment the temporary file is written the original is in a backup of
\* its own, whatever happens to the transaction.
EditIsBackedUp ==
  at \in {"temp", "temp write", "recheck", "clear", "stage", "commit", "rollback",
          "cleanup", "done"} => backups[slot] = original

\* A finished backup is written again in one case only: its own name was probed in
\* this call and the fopen of the probe failed (pvz2_save_apply_batch).  Nothing else
\* reaches it: not a later edit, not a full set of names, not a power loss.
BackupsAreKept ==
  [][\A s \in 0 .. Slots - 1 :
       /\ backups[s] \in Saves /\ backups'[s] # backups[s]
       => at = "backup open" /\ s = slot /\ unseen]_backups
=============================================================================
