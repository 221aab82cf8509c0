--------------------------- MODULE PortMenuProofs ---------------------------
(***************************************************************************)
(* Proofs about the settings screen, the save editor and the preferences,   *)
(* for any players, balances, settings and number of backups.               *)
(***************************************************************************)
EXTENDS PortMenu, TLAPS

-----------------------------------------------------------------------------
(* The invariant.                                                           *)

\* The editor: what each file holds at each step of the transaction.
Changing == Running \/ at = "done"

SaveFits ==
  /\ at = "restore" => phase = "recover" /\ old # Missing /\ (pp = Missing \/ unseen)
  /\ at \notin {"idle", "restore"} => phase = "apply"
  /\ Changing => original \in Saves /\ changed \in Saves
  /\ at \in {"backup", "backup open", "backup write", "temp", "temp write", "recheck", "clear",
            "stage"} => pp = original
  /\ at \in {"recheck", "clear", "stage", "commit"} => tmp = changed
  /\ at \in {"commit", "rollback"} => pp = Missing /\ old = original
  /\ at \in {"cleanup", "done"} => pp = changed

\* The backup that is being written is new, unless its probe failed, and a written one
\* is the original.
BackupFits ==
  /\ at = "backup open" => unseen \/ backups[slot] = Missing
  /\ at = "backup write" => backups[slot] = Damaged
  /\ EditIsBackedUp

\* The preferences: the same, but there may be none to stage, or none that are seen.
TextFits ==
  /\ sat \in {"restore", "reopen"} => phase = "load"
  /\ sat \notin {"idle", "restore", "reopen"} => phase = "save" /\ value = staged
  /\ sat \in {"clear", "stage"} => txt # NoText
  /\ sat \in {"restore", "commit", "rollback"} => txt = NoText \/ txtUnseen
  /\ sat \in {"verify", "probe", "clear", "stage", "commit"} => txtTmp = value
  /\ sat \in {"cleanup", "done"} => txt = value

\* The screen: it is empty until it is opened; then it shows what the next launch
\* would read and marks what differs, and the transaction writes what it shows.
MenuFits ==
  /\ phase \in {"off", "recover", "load", "chord", "game"} => profiles = None
  /\ profiles = None => mask = {}
  /\ phase \in {"menu", "apply"} /\ profiles # None =>
       /\ shown \in Saves /\ \A p \in Profiles : p \in mask <=> profiles[p] # shown[p]
       /\ at \notin {"cleanup", "done"} => shown = StoredSave
  /\ Changing => changed = profiles
  /\ phase = "save" => shown = profiles /\ mask = {}
  /\ phase \in {"save", "finished"} /\ profiles # None => StoredSave = profiles
  /\ phase = "finished" => StoredText = staged

ScreenTypes ==
  /\ phase \in {"off", "recover", "load", "chord", "menu", "apply", "save", "finished", "game"}
  /\ profiles \in Saves \cup {None} /\ shown \in Saves \cup {None}
  /\ mask \subseteq Profiles
  /\ staged \in Settings
  /\ dones \in 0 .. MaxDones

IInv == TypeOK /\ SaveFits /\ BackupFits /\ TextFits /\ MenuFits

THEOREM InvariantStarts == Init => IInv
<1> SUFFICES ASSUME Init PROVE IInv
  OBVIOUS
<1> USE SaveAssumption, LocaleAssumption, MenuAssumption
<1>1. TypeOK
  <2>1. backups \in [0 .. Slots - 1 -> Files] /\ slot \in 0 .. Slots - 1
    BY DEF Init, SaveInit, Files
  <2>2. dones \in 0 .. MaxDones
    BY ONLY Init, MenuAssumption DEF Init
  <2>3. QED
    BY <2>1, <2>2 DEF Init, SaveInit, LocaleInit, TypeOK, SaveTypeOK, LocaleTypeOK, Files, Texts
<1>2. SaveFits /\ BackupFits /\ TextFits /\ MenuFits
  BY DEF Init, SaveInit, LocaleInit, SaveFits, BackupFits, TextFits, MenuFits, Changing,
         Running, EditIsBackedUp
<1>3. QED BY <1>1, <1>2 DEF IInv

\* No save is one of the marks, and an edited save is a save.
LEMMA SavesAreReal == Missing \notin Saves /\ Damaged \notin Saves /\ None \notin Saves
  BY SaveAssumption, MenuAssumption DEF Saves

LEMMA EditedIsSave ==
  ASSUME NEW desired \in Saves, NEW m, pp \in Saves
  PROVE  Edited(desired, m) \in Saves
  BY DEF Edited, Saves

\* The types of the editor's files.
LEMMA SaveTypesKeep ==
  ASSUME IInv, [Next]_vars
  PROVE  SaveTypeOK'
<1> USE SaveAssumption, LocaleAssumption, MenuAssumption
<1> USE
  DEF IInv, TypeOK, SaveTypeOK, Files, saveVars, saveFiles, saveLocals, localeVars,
      localeFiles, menuVars
<1>z. 0 \in 0 .. Slots - 1
  BY ONLY SaveAssumption
<1>1. CASE Applying
  <2>1. CASE NameTaken
    <3>1. slot \in 0 .. Slots - 1
      OBVIOUS
    <3>2. slot' \in 0 .. Slots - 1
      BY ONLY <2>1, <3>1, SaveAssumption DEF NameTaken
    <3>3. QED BY <1>1, <2>1, <3>2 DEF Applying, NameTaken
  <2>2. CASE NameFree
    BY <1>1, <2>2 DEF Applying, NameFree
  <2>3. CASE BackupOpen
    BY <1>1, <2>3 DEF Applying, BackupOpen
  <2>4. CASE BackupWrite
    BY <1>1, <2>4 DEF Applying, BackupWrite
  <2>5. CASE TempOpen
    BY <1>1, <2>5 DEF Applying, TempOpen
  <2>6. CASE TempWrite
    BY <1>1, <2>6 DEF Applying, TempWrite
  <2>7. CASE Recheck
    BY <1>1, <2>7 DEF Applying, Recheck
  <2>8. CASE ClearOld
    BY <1>1, <2>8 DEF Applying, ClearOld
  <2>9. CASE StageClobbers
    BY <1>1, <2>9 DEF Applying, StageClobbers
  <2>10. CASE Stage
    BY <1>1, <2>10 DEF Applying, Stage
  <2>11. CASE CommitTemp
    BY <1>1, <2>11 DEF Applying, CommitTemp
  <2>12. CASE CommitFails
    BY <1>1, <2>12 DEF Applying, CommitFails
  <2>13. CASE Rollback
    BY <1>1, <2>13 DEF Applying, Rollback, RestoreOld
  <2>14. CASE Cleanup
    BY <1>1, <2>14 DEF Applying, Cleanup
  <2>15. CASE \E step \in {"backup open", "backup write", "stage", "rollback"} : GiveUp(step)
    BY <1>1, <2>15 DEF Applying, GiveUp
  <2>16. CASE old # Missing /\ GiveUp("clear")
    BY <1>1, <2>16 DEF Applying, GiveUp
  <2>17. CASE \E step \in {"temp", "temp write", "recheck"} : DropTemp(step)
    BY <1>1, <2>17 DEF Applying, DropTemp
  <2>18. QED
    BY ONLY <1>1, <2>1, <2>2, <2>3, <2>4, <2>5, <2>6, <2>7, <2>8, <2>9, <2>10, <2>11, <2>12,
       <2>13, <2>14, <2>15, <2>16, <2>17
      DEF Applying, ApplyStep
<1>2. CASE Saving
  <2>1. CASE SaveOpen
    BY <1>2, <2>1 DEF Saving, SaveOpen
  <2>2. CASE SaveWrite
    BY <1>2, <2>2 DEF Saving, SaveWrite
  <2>3. CASE SaveDropsTemp
    BY <1>2, <2>3 DEF Saving, SaveDropsTemp
  <2>4. CASE SaveVerify
    BY <1>2, <2>4 DEF Saving, SaveVerify
  <2>5. CASE SaveProbe
    BY <1>2, <2>5 DEF Saving, SaveProbe
  <2>6. CASE SaveMisses
    BY <1>2, <2>6 DEF Saving, SaveMisses
  <2>7. CASE SaveClear
    BY <1>2, <2>7 DEF Saving, SaveClear
  <2>8. CASE SaveStage
    BY <1>2, <2>8 DEF Saving, SaveStage
  <2>9. CASE TextClobbered({"commit", "rollback"})
    BY <1>2, <2>9 DEF Saving, TextClobbered
  <2>10. CASE SaveCommit
    BY <1>2, <2>10 DEF Saving, SaveCommit
  <2>11. CASE SaveCommitFails
    BY <1>2, <2>11 DEF Saving, SaveCommitFails
  <2>12. CASE SaveRollback
    BY <1>2, <2>12 DEF Saving, SaveRollback
  <2>13. CASE SaveCleanup
    BY <1>2, <2>13 DEF Saving, SaveCleanup
  <2>14. CASE \E step \in {"open", "verify", "stage", "rollback"} : SaveGivesUp(step)
    BY <1>2, <2>14 DEF Saving, SaveGivesUp
  <2>15. CASE txtOld # NoText /\ SaveGivesUp("clear")
    BY <1>2, <2>15 DEF Saving, SaveGivesUp
  <2>16. QED
    BY ONLY <1>2, <2>1, <2>2, <2>3, <2>4, <2>5, <2>6, <2>7, <2>8, <2>9, <2>10, <2>11, <2>12,
       <2>13, <2>14, <2>15
      DEF Saving, SaveStep
<1>3. CASE PowerOn
  BY <1>3 DEF PowerOn, Enter
<1>4. CASE LaunchRecovers
  BY <1>4 DEF LaunchRecovers, RecoverStarts, RecoverClobbers
<1>5. CASE LaunchRecovered
  BY <1>5 DEF LaunchRecovered, Enter, Recovered, RecoverNothing, RestoreOld
<1>6. CASE LaunchLoads
  BY <1>6 DEF LaunchLoads, LoadMisses, TextClobbered, LoadOld, LoadNoRename
<1>7. CASE LaunchLoaded
  BY <1>7 DEF LaunchLoaded, Enter, Load, Parsed
<1>8. CASE SkipMenu
  BY <1>8 DEF SkipMenu, Enter
<1>9. CASE OpenMenu
  BY <1>9 DEF OpenMenu, Enter, Saves
<1>10. CASE \E v \in Settings : Preference(v)
  BY <1>10 DEF Preference
<1>11. CASE \E p \in Profiles, b \in Balances : Accept(p, b)
  BY <1>11 DEF Accept, Saves
<1>12. CASE DoneCurrencies
  <2>1. CASE Apply(profiles, mask)
    <3>1. profiles \in Saves
      BY <1>12 DEF DoneCurrencies, MenuFits
    <3>2. Edited(profiles, mask) \in Saves
      BY <2>1, <3>1, EditedIsSave DEF Apply
    <3>3. QED BY <1>z, <1>12, <2>1, <3>2 DEF DoneCurrencies, Enter, Apply
  <2>2. CASE ApplyRefused
    BY <1>12, <2>2 DEF DoneCurrencies, Enter, ApplyRefused
  <2>3. QED BY <1>12, <2>1, <2>2 DEF DoneCurrencies
<1>13. CASE DonePreferences
  BY <1>13 DEF DonePreferences, Enter, Save, Saves
<1>14. CASE Applied
  BY <1>z, <1>14 DEF Applied, Enter, Save, SaveLocalsEnd
<1>15. CASE ApplyFailed
  BY <1>z, <1>15 DEF ApplyFailed, Enter, SaveLocalsEnd
<1>16. CASE Saved
  BY <1>16 DEF Saved, Enter
<1>17. CASE SaveFailed
  BY <1>17 DEF SaveFailed, Enter
<1>18. CASE Off
  BY <1>z, <1>18 DEF Off, SaveLocalsEnd
<1>19. CASE \E save \in Saves \cup {Damaged} : GameWrites(save)
  BY <1>19 DEF GameWrites
<1>20. CASE UNCHANGED vars
  BY <1>20 DEF vars
<1>21. QED
  BY ONLY [Next]_vars, <1>1, <1>2, <1>3, <1>4, <1>5, <1>6, <1>7, <1>8, <1>9, <1>10, <1>11,
     <1>12, <1>13, <1>14, <1>15, <1>16, <1>17, <1>18, <1>19, <1>20
    DEF Next

\* The types of the preferences.
LEMMA TextTypesKeep ==
  ASSUME IInv, [Next]_vars
  PROVE  LocaleTypeOK'
<1> USE SaveAssumption, LocaleAssumption, MenuAssumption
<1> USE
  DEF IInv, TypeOK, LocaleTypeOK, Texts, saveVars, saveFiles, saveLocals, localeVars,
      localeFiles, menuVars
<1>1. CASE Applying
  <2>1. CASE NameTaken
    BY <1>1, <2>1 DEF Applying, NameTaken
  <2>2. CASE NameFree
    BY <1>1, <2>2 DEF Applying, NameFree
  <2>3. CASE BackupOpen
    BY <1>1, <2>3 DEF Applying, BackupOpen
  <2>4. CASE BackupWrite
    BY <1>1, <2>4 DEF Applying, BackupWrite
  <2>5. CASE TempOpen
    BY <1>1, <2>5 DEF Applying, TempOpen
  <2>6. CASE TempWrite
    BY <1>1, <2>6 DEF Applying, TempWrite
  <2>7. CASE Recheck
    BY <1>1, <2>7 DEF Applying, Recheck
  <2>8. CASE ClearOld
    BY <1>1, <2>8 DEF Applying, ClearOld
  <2>9. CASE StageClobbers
    BY <1>1, <2>9 DEF Applying, StageClobbers
  <2>10. CASE Stage
    BY <1>1, <2>10 DEF Applying, Stage
  <2>11. CASE CommitTemp
    BY <1>1, <2>11 DEF Applying, CommitTemp
  <2>12. CASE CommitFails
    BY <1>1, <2>12 DEF Applying, CommitFails
  <2>13. CASE Rollback
    BY <1>1, <2>13 DEF Applying, Rollback, RestoreOld
  <2>14. CASE Cleanup
    BY <1>1, <2>14 DEF Applying, Cleanup
  <2>15. CASE \E step \in {"backup open", "backup write", "stage", "rollback"} : GiveUp(step)
    BY <1>1, <2>15 DEF Applying, GiveUp
  <2>16. CASE old # Missing /\ GiveUp("clear")
    BY <1>1, <2>16 DEF Applying, GiveUp
  <2>17. CASE \E step \in {"temp", "temp write", "recheck"} : DropTemp(step)
    BY <1>1, <2>17 DEF Applying, DropTemp
  <2>18. QED
    BY ONLY <1>1, <2>1, <2>2, <2>3, <2>4, <2>5, <2>6, <2>7, <2>8, <2>9, <2>10, <2>11, <2>12,
       <2>13, <2>14, <2>15, <2>16, <2>17
      DEF Applying, ApplyStep
<1>2. CASE Saving
  <2>1. CASE SaveOpen
    BY <1>2, <2>1 DEF Saving, SaveOpen
  <2>2. CASE SaveWrite
    BY <1>2, <2>2 DEF Saving, SaveWrite
  <2>3. CASE SaveDropsTemp
    BY <1>2, <2>3 DEF Saving, SaveDropsTemp
  <2>4. CASE SaveVerify
    BY <1>2, <2>4 DEF Saving, SaveVerify
  <2>5. CASE SaveProbe
    BY <1>2, <2>5 DEF Saving, SaveProbe
  <2>6. CASE SaveMisses
    BY <1>2, <2>6 DEF Saving, SaveMisses
  <2>7. CASE SaveClear
    BY <1>2, <2>7 DEF Saving, SaveClear
  <2>8. CASE SaveStage
    BY <1>2, <2>8 DEF Saving, SaveStage
  <2>9. CASE TextClobbered({"commit", "rollback"})
    BY <1>2, <2>9 DEF Saving, TextClobbered
  <2>10. CASE SaveCommit
    BY <1>2, <2>10 DEF Saving, SaveCommit
  <2>11. CASE SaveCommitFails
    BY <1>2, <2>11 DEF Saving, SaveCommitFails
  <2>12. CASE SaveRollback
    BY <1>2, <2>12 DEF Saving, SaveRollback
  <2>13. CASE SaveCleanup
    BY <1>2, <2>13 DEF Saving, SaveCleanup
  <2>14. CASE \E step \in {"open", "verify", "stage", "rollback"} : SaveGivesUp(step)
    BY <1>2, <2>14 DEF Saving, SaveGivesUp
  <2>15. CASE txtOld # NoText /\ SaveGivesUp("clear")
    BY <1>2, <2>15 DEF Saving, SaveGivesUp
  <2>16. QED
    BY ONLY <1>2, <2>1, <2>2, <2>3, <2>4, <2>5, <2>6, <2>7, <2>8, <2>9, <2>10, <2>11, <2>12,
       <2>13, <2>14, <2>15
      DEF Saving, SaveStep
<1>3. CASE PowerOn
  BY <1>3 DEF PowerOn, Enter
<1>4. CASE LaunchRecovers
  BY <1>4 DEF LaunchRecovers, RecoverStarts, RecoverClobbers
<1>5. CASE LaunchRecovered
  BY <1>5 DEF LaunchRecovered, Enter, Recovered, RecoverNothing, RestoreOld
<1>6. CASE LaunchLoads
  BY <1>6 DEF LaunchLoads, LoadMisses, TextClobbered, LoadOld, LoadNoRename
<1>7. CASE LaunchLoaded
  BY <1>7 DEF LaunchLoaded, Enter, Load, Parsed
<1>8. CASE SkipMenu
  BY <1>8 DEF SkipMenu, Enter
<1>9. CASE OpenMenu
  BY <1>9 DEF OpenMenu, Enter, Saves
<1>10. CASE \E v \in Settings : Preference(v)
  BY <1>10 DEF Preference
<1>11. CASE \E p \in Profiles, b \in Balances : Accept(p, b)
  BY <1>11 DEF Accept, Saves
<1>12. CASE DoneCurrencies
  BY <1>12 DEF DoneCurrencies, Enter, Apply, ApplyRefused, Edited, Saves
<1>13. CASE DonePreferences
  BY <1>13 DEF DonePreferences, Enter, Save, Saves
<1>14. CASE Applied
  BY <1>14 DEF Applied, Enter, Save, SaveLocalsEnd
<1>15. CASE ApplyFailed
  BY <1>15 DEF ApplyFailed, Enter, SaveLocalsEnd
<1>16. CASE Saved
  BY <1>16 DEF Saved, Enter
<1>17. CASE SaveFailed
  BY <1>17 DEF SaveFailed, Enter
<1>18. CASE Off
  BY <1>18 DEF Off, SaveLocalsEnd
<1>19. CASE \E save \in Saves \cup {Damaged} : GameWrites(save)
  BY <1>19 DEF GameWrites
<1>20. CASE UNCHANGED vars
  BY <1>20 DEF vars
<1>21. QED
  BY ONLY [Next]_vars, <1>1, <1>2, <1>3, <1>4, <1>5, <1>6, <1>7, <1>8, <1>9, <1>10, <1>11,
     <1>12, <1>13, <1>14, <1>15, <1>16, <1>17, <1>18, <1>19, <1>20
    DEF Next

\* The types of the screen.
LEMMA ScreenTypesKeep ==
  ASSUME IInv, [Next]_vars
  PROVE  ScreenTypes'
<1> USE SaveAssumption, LocaleAssumption, MenuAssumption
<1> USE DEF IInv, ScreenTypes, TypeOK, SaveTypeOK, Files, LocaleTypeOK,
           saveVars, saveFiles, saveLocals, localeVars, localeFiles, menuVars
<1>1. CASE Applying
  <2>1. CASE NameTaken
    BY <1>1, <2>1 DEF Applying, NameTaken
  <2>2. CASE NameFree
    BY <1>1, <2>2 DEF Applying, NameFree
  <2>3. CASE BackupOpen
    BY <1>1, <2>3 DEF Applying, BackupOpen
  <2>4. CASE BackupWrite
    BY <1>1, <2>4 DEF Applying, BackupWrite
  <2>5. CASE TempOpen
    BY <1>1, <2>5 DEF Applying, TempOpen
  <2>6. CASE TempWrite
    BY <1>1, <2>6 DEF Applying, TempWrite
  <2>7. CASE Recheck
    BY <1>1, <2>7 DEF Applying, Recheck
  <2>8. CASE ClearOld
    BY <1>1, <2>8 DEF Applying, ClearOld
  <2>9. CASE StageClobbers
    BY <1>1, <2>9 DEF Applying, StageClobbers
  <2>10. CASE Stage
    BY <1>1, <2>10 DEF Applying, Stage
  <2>11. CASE CommitTemp
    BY <1>1, <2>11 DEF Applying, CommitTemp
  <2>12. CASE CommitFails
    BY <1>1, <2>12 DEF Applying, CommitFails
  <2>13. CASE Rollback
    BY <1>1, <2>13 DEF Applying, Rollback, RestoreOld
  <2>14. CASE Cleanup
    BY <1>1, <2>14 DEF Applying, Cleanup
  <2>15. CASE \E step \in {"backup open", "backup write", "stage", "rollback"} : GiveUp(step)
    BY <1>1, <2>15 DEF Applying, GiveUp
  <2>16. CASE old # Missing /\ GiveUp("clear")
    BY <1>1, <2>16 DEF Applying, GiveUp
  <2>17. CASE \E step \in {"temp", "temp write", "recheck"} : DropTemp(step)
    BY <1>1, <2>17 DEF Applying, DropTemp
  <2>18. QED
    BY ONLY <1>1, <2>1, <2>2, <2>3, <2>4, <2>5, <2>6, <2>7, <2>8, <2>9, <2>10, <2>11, <2>12,
       <2>13, <2>14, <2>15, <2>16, <2>17
      DEF Applying, ApplyStep
<1>2. CASE Saving
  <2>1. CASE SaveOpen
    BY <1>2, <2>1 DEF Saving, SaveOpen
  <2>2. CASE SaveWrite
    BY <1>2, <2>2 DEF Saving, SaveWrite
  <2>3. CASE SaveDropsTemp
    BY <1>2, <2>3 DEF Saving, SaveDropsTemp
  <2>4. CASE SaveVerify
    BY <1>2, <2>4 DEF Saving, SaveVerify
  <2>5. CASE SaveProbe
    BY <1>2, <2>5 DEF Saving, SaveProbe
  <2>6. CASE SaveMisses
    BY <1>2, <2>6 DEF Saving, SaveMisses
  <2>7. CASE SaveClear
    BY <1>2, <2>7 DEF Saving, SaveClear
  <2>8. CASE SaveStage
    BY <1>2, <2>8 DEF Saving, SaveStage
  <2>9. CASE TextClobbered({"commit", "rollback"})
    BY <1>2, <2>9 DEF Saving, TextClobbered
  <2>10. CASE SaveCommit
    BY <1>2, <2>10 DEF Saving, SaveCommit
  <2>11. CASE SaveCommitFails
    BY <1>2, <2>11 DEF Saving, SaveCommitFails
  <2>12. CASE SaveRollback
    BY <1>2, <2>12 DEF Saving, SaveRollback
  <2>13. CASE SaveCleanup
    BY <1>2, <2>13 DEF Saving, SaveCleanup
  <2>14. CASE \E step \in {"open", "verify", "stage", "rollback"} : SaveGivesUp(step)
    BY <1>2, <2>14 DEF Saving, SaveGivesUp
  <2>15. CASE txtOld # NoText /\ SaveGivesUp("clear")
    BY <1>2, <2>15 DEF Saving, SaveGivesUp
  <2>16. QED
    BY ONLY <1>2, <2>1, <2>2, <2>3, <2>4, <2>5, <2>6, <2>7, <2>8, <2>9, <2>10, <2>11, <2>12,
       <2>13, <2>14, <2>15
      DEF Saving, SaveStep
<1>3. CASE PowerOn
  BY <1>3 DEF PowerOn, Enter
<1>4. CASE LaunchRecovers
  BY <1>4 DEF LaunchRecovers, RecoverStarts, RecoverClobbers
<1>5. CASE LaunchRecovered
  BY <1>5 DEF LaunchRecovered, Enter, Recovered, RecoverNothing, RestoreOld
<1>6. CASE LaunchLoads
  BY <1>6 DEF LaunchLoads, LoadMisses, TextClobbered, LoadOld, LoadNoRename
<1>7. CASE LaunchLoaded
  BY <1>7 DEF LaunchLoaded, Enter, Load, Parsed
<1>8. CASE SkipMenu
  BY <1>8 DEF SkipMenu, Enter
<1>9. CASE OpenMenu
  BY <1>9 DEF OpenMenu, Enter, Saves
<1>10. CASE \E v \in Settings : Preference(v)
  BY <1>10 DEF Preference
<1>11. CASE \E p \in Profiles, b \in Balances : Accept(p, b)
  <2>1. PICK p \in Profiles, b \in Balances : Accept(p, b)
    BY <1>11
  <2>2. profiles \in Saves /\ [profiles EXCEPT ![p] = b] \in Saves
    BY <2>1 DEF Accept, Saves
  <2>3. QED BY <2>1, <2>2 DEF Accept
<1>12. CASE DoneCurrencies
  <2>1. dones \in 0 .. MaxDones
    OBVIOUS
  <2>2. dones' \in 0 .. MaxDones
    BY ONLY <1>12, <2>1, MenuAssumption DEF DoneCurrencies
  <2>3. QED BY <1>12, <2>2 DEF DoneCurrencies, Enter, Apply, ApplyRefused, Edited, Saves
<1>13. CASE DonePreferences
  <2>1. dones \in 0 .. MaxDones
    OBVIOUS
  <2>2. dones' \in 0 .. MaxDones
    BY ONLY <1>13, <2>1, MenuAssumption DEF DonePreferences
  <2>3. QED BY <1>13, <2>2 DEF DonePreferences, Enter, Save, Saves
<1>14. CASE Applied
  BY <1>14 DEF Applied, Enter, Save, SaveLocalsEnd
<1>15. CASE ApplyFailed
  BY <1>15 DEF ApplyFailed, Enter, SaveLocalsEnd
<1>16. CASE Saved
  BY <1>16 DEF Saved, Enter
<1>17. CASE SaveFailed
  BY <1>17 DEF SaveFailed, Enter
<1>18. CASE Off
  BY <1>18 DEF Off, SaveLocalsEnd
<1>19. CASE \E save \in Saves \cup {Damaged} : GameWrites(save)
  BY <1>19 DEF GameWrites
<1>20. CASE UNCHANGED vars
  BY <1>20 DEF vars
<1>21. QED
  BY ONLY [Next]_vars, <1>1, <1>2, <1>3, <1>4, <1>5, <1>6, <1>7, <1>8, <1>9, <1>10, <1>11,
     <1>12, <1>13, <1>14, <1>15, <1>16, <1>17, <1>18, <1>19, <1>20
    DEF Next

\* The editor's files.
LEMMA SaveKeeps ==
  ASSUME IInv, [Next]_vars
  PROVE  SaveFits'
<1> USE SaveAssumption, LocaleAssumption, MenuAssumption
<1> USE DEF IInv, SaveFits, Changing, Running,
           saveVars, saveFiles, saveLocals, localeVars, localeFiles, menuVars
<1>1. CASE Applying
  <2>1. CASE NameTaken
    BY <1>1, <2>1 DEF Applying, NameTaken
  <2>2. CASE NameFree
    BY <1>1, <2>2 DEF Applying, NameFree
  <2>3. CASE BackupOpen
    BY <1>1, <2>3 DEF Applying, BackupOpen
  <2>4. CASE BackupWrite
    BY <1>1, <2>4 DEF Applying, BackupWrite
  <2>5. CASE TempOpen
    BY <1>1, <2>5 DEF Applying, TempOpen
  <2>6. CASE TempWrite
    BY <1>1, <2>6 DEF Applying, TempWrite
  <2>7. CASE Recheck
    BY <1>1, <2>7 DEF Applying, Recheck
  <2>8. CASE ClearOld
    BY <1>1, <2>8 DEF Applying, ClearOld
  <2>9. CASE StageClobbers
    BY <1>1, <2>9 DEF Applying, StageClobbers
  <2>10. CASE Stage
    BY <1>1, <2>10 DEF Applying, Stage
  <2>11. CASE CommitTemp
    BY <1>1, <2>11 DEF Applying, CommitTemp
  <2>12. CASE CommitFails
    BY <1>1, <2>12 DEF Applying, CommitFails
  <2>13. CASE Rollback
    BY <1>1, <2>13 DEF Applying, Rollback, RestoreOld
  <2>14. CASE Cleanup
    BY <1>1, <2>14 DEF Applying, Cleanup
  <2>15. CASE \E step \in {"backup open", "backup write", "stage", "rollback"} : GiveUp(step)
    BY <1>1, <2>15 DEF Applying, GiveUp
  <2>16. CASE old # Missing /\ GiveUp("clear")
    BY <1>1, <2>16 DEF Applying, GiveUp
  <2>17. CASE \E step \in {"temp", "temp write", "recheck"} : DropTemp(step)
    BY <1>1, <2>17 DEF Applying, DropTemp
  <2>18. QED
    BY ONLY <1>1, <2>1, <2>2, <2>3, <2>4, <2>5, <2>6, <2>7, <2>8, <2>9, <2>10, <2>11, <2>12,
       <2>13, <2>14, <2>15, <2>16, <2>17
      DEF Applying, ApplyStep
<1>2. CASE Saving
  <2>1. CASE SaveOpen
    BY <1>2, <2>1 DEF Saving, SaveOpen
  <2>2. CASE SaveWrite
    BY <1>2, <2>2 DEF Saving, SaveWrite
  <2>3. CASE SaveDropsTemp
    BY <1>2, <2>3 DEF Saving, SaveDropsTemp
  <2>4. CASE SaveVerify
    BY <1>2, <2>4 DEF Saving, SaveVerify
  <2>5. CASE SaveProbe
    BY <1>2, <2>5 DEF Saving, SaveProbe
  <2>6. CASE SaveMisses
    BY <1>2, <2>6 DEF Saving, SaveMisses
  <2>7. CASE SaveClear
    BY <1>2, <2>7 DEF Saving, SaveClear
  <2>8. CASE SaveStage
    BY <1>2, <2>8 DEF Saving, SaveStage
  <2>9. CASE TextClobbered({"commit", "rollback"})
    BY <1>2, <2>9 DEF Saving, TextClobbered
  <2>10. CASE SaveCommit
    BY <1>2, <2>10 DEF Saving, SaveCommit
  <2>11. CASE SaveCommitFails
    BY <1>2, <2>11 DEF Saving, SaveCommitFails
  <2>12. CASE SaveRollback
    BY <1>2, <2>12 DEF Saving, SaveRollback
  <2>13. CASE SaveCleanup
    BY <1>2, <2>13 DEF Saving, SaveCleanup
  <2>14. CASE \E step \in {"open", "verify", "stage", "rollback"} : SaveGivesUp(step)
    BY <1>2, <2>14 DEF Saving, SaveGivesUp
  <2>15. CASE txtOld # NoText /\ SaveGivesUp("clear")
    BY <1>2, <2>15 DEF Saving, SaveGivesUp
  <2>16. QED
    BY ONLY <1>2, <2>1, <2>2, <2>3, <2>4, <2>5, <2>6, <2>7, <2>8, <2>9, <2>10, <2>11, <2>12,
       <2>13, <2>14, <2>15
      DEF Saving, SaveStep
<1>3. CASE PowerOn
  BY <1>3 DEF PowerOn, Enter
<1>4. CASE LaunchRecovers
  BY <1>4 DEF LaunchRecovers, RecoverStarts, RecoverClobbers
<1>5. CASE LaunchRecovered
  BY <1>5 DEF LaunchRecovered, Enter, Recovered, RecoverNothing, RestoreOld
<1>6. CASE LaunchLoads
  BY <1>6 DEF LaunchLoads, LoadMisses, TextClobbered, LoadOld, LoadNoRename
<1>7. CASE LaunchLoaded
  BY <1>7 DEF LaunchLoaded, Enter, Load, Parsed
<1>8. CASE SkipMenu
  BY <1>8 DEF SkipMenu, Enter
<1>9. CASE OpenMenu
  BY <1>9 DEF OpenMenu, Enter, Saves
<1>10. CASE \E v \in Settings : Preference(v)
  BY <1>10 DEF Preference
<1>11. CASE \E p \in Profiles, b \in Balances : Accept(p, b)
  BY <1>11 DEF Accept, Saves
<1>12. CASE DoneCurrencies
  <2>1. CASE Apply(profiles, mask)
    <3>1. profiles \in Saves
      BY <1>12 DEF DoneCurrencies, TypeOK, MenuFits
    <3>2. Edited(profiles, mask) \in Saves
      BY <2>1, <3>1, EditedIsSave DEF Apply
    <3>3. QED BY <1>12, <2>1, <3>2 DEF DoneCurrencies, Enter, Apply
  <2>2. CASE ApplyRefused
    BY <1>12, <2>2 DEF DoneCurrencies, Enter, ApplyRefused
  <2>3. QED BY <1>12, <2>1, <2>2 DEF DoneCurrencies
<1>13. CASE DonePreferences
  BY <1>13 DEF DonePreferences, Enter, Save, Saves
<1>14. CASE Applied
  BY <1>14 DEF Applied, Enter, Save, SaveLocalsEnd
<1>15. CASE ApplyFailed
  BY <1>15 DEF ApplyFailed, Enter, SaveLocalsEnd
<1>16. CASE Saved
  BY <1>16 DEF Saved, Enter
<1>17. CASE SaveFailed
  BY <1>17 DEF SaveFailed, Enter
<1>18. CASE Off
  BY <1>18 DEF Off, SaveLocalsEnd
<1>19. CASE \E save \in Saves \cup {Damaged} : GameWrites(save)
  BY <1>19 DEF GameWrites
<1>20. CASE UNCHANGED vars
  BY <1>20 DEF vars
<1>21. QED
  BY ONLY [Next]_vars, <1>1, <1>2, <1>3, <1>4, <1>5, <1>6, <1>7, <1>8, <1>9, <1>10, <1>11,
     <1>12, <1>13, <1>14, <1>15, <1>16, <1>17, <1>18, <1>19, <1>20
    DEF Next

\* The backups.
LEMMA BackupKeeps ==
  ASSUME IInv, [Next]_vars
  PROVE  BackupFits'
<1> USE SaveAssumption, LocaleAssumption, MenuAssumption
<1> USE DEF IInv, TypeOK, SaveTypeOK, SaveFits, BackupFits, EditIsBackedUp,
           saveVars, saveFiles, saveLocals, localeVars, localeFiles, menuVars
<1>1. CASE Applying
  <2>1. CASE NameTaken
    BY <1>1, <2>1 DEF Applying, NameTaken
  <2>2. CASE NameFree
    BY <1>1, <2>2 DEF Applying, NameFree
  <2>3. CASE BackupOpen
    BY <1>1, <2>3 DEF Applying, BackupOpen
  <2>4. CASE BackupWrite
    BY <1>1, <2>4 DEF Applying, BackupWrite
  <2>5. CASE TempOpen
    BY <1>1, <2>5 DEF Applying, TempOpen
  <2>6. CASE TempWrite
    BY <1>1, <2>6 DEF Applying, TempWrite
  <2>7. CASE Recheck
    BY <1>1, <2>7 DEF Applying, Recheck
  <2>8. CASE ClearOld
    BY <1>1, <2>8 DEF Applying, ClearOld
  <2>9. CASE StageClobbers
    BY <1>1, <2>9 DEF Applying, StageClobbers
  <2>10. CASE Stage
    BY <1>1, <2>10 DEF Applying, Stage
  <2>11. CASE CommitTemp
    BY <1>1, <2>11 DEF Applying, CommitTemp
  <2>12. CASE CommitFails
    BY <1>1, <2>12 DEF Applying, CommitFails
  <2>13. CASE Rollback
    BY <1>1, <2>13 DEF Applying, Rollback, RestoreOld
  <2>14. CASE Cleanup
    BY <1>1, <2>14 DEF Applying, Cleanup
  <2>15. CASE \E step \in {"backup open", "backup write", "stage", "rollback"} : GiveUp(step)
    BY <1>1, <2>15 DEF Applying, GiveUp
  <2>16. CASE old # Missing /\ GiveUp("clear")
    BY <1>1, <2>16 DEF Applying, GiveUp
  <2>17. CASE \E step \in {"temp", "temp write", "recheck"} : DropTemp(step)
    BY <1>1, <2>17 DEF Applying, DropTemp
  <2>18. QED
    BY ONLY <1>1, <2>1, <2>2, <2>3, <2>4, <2>5, <2>6, <2>7, <2>8, <2>9, <2>10, <2>11, <2>12,
       <2>13, <2>14, <2>15, <2>16, <2>17
      DEF Applying, ApplyStep
<1>2. CASE Saving
  <2>1. CASE SaveOpen
    BY <1>2, <2>1 DEF Saving, SaveOpen
  <2>2. CASE SaveWrite
    BY <1>2, <2>2 DEF Saving, SaveWrite
  <2>3. CASE SaveDropsTemp
    BY <1>2, <2>3 DEF Saving, SaveDropsTemp
  <2>4. CASE SaveVerify
    BY <1>2, <2>4 DEF Saving, SaveVerify
  <2>5. CASE SaveProbe
    BY <1>2, <2>5 DEF Saving, SaveProbe
  <2>6. CASE SaveMisses
    BY <1>2, <2>6 DEF Saving, SaveMisses
  <2>7. CASE SaveClear
    BY <1>2, <2>7 DEF Saving, SaveClear
  <2>8. CASE SaveStage
    BY <1>2, <2>8 DEF Saving, SaveStage
  <2>9. CASE TextClobbered({"commit", "rollback"})
    BY <1>2, <2>9 DEF Saving, TextClobbered
  <2>10. CASE SaveCommit
    BY <1>2, <2>10 DEF Saving, SaveCommit
  <2>11. CASE SaveCommitFails
    BY <1>2, <2>11 DEF Saving, SaveCommitFails
  <2>12. CASE SaveRollback
    BY <1>2, <2>12 DEF Saving, SaveRollback
  <2>13. CASE SaveCleanup
    BY <1>2, <2>13 DEF Saving, SaveCleanup
  <2>14. CASE \E step \in {"open", "verify", "stage", "rollback"} : SaveGivesUp(step)
    BY <1>2, <2>14 DEF Saving, SaveGivesUp
  <2>15. CASE txtOld # NoText /\ SaveGivesUp("clear")
    BY <1>2, <2>15 DEF Saving, SaveGivesUp
  <2>16. QED
    BY ONLY <1>2, <2>1, <2>2, <2>3, <2>4, <2>5, <2>6, <2>7, <2>8, <2>9, <2>10, <2>11, <2>12,
       <2>13, <2>14, <2>15
      DEF Saving, SaveStep
<1>3. CASE PowerOn
  BY <1>3 DEF PowerOn, Enter
<1>4. CASE LaunchRecovers
  BY <1>4 DEF LaunchRecovers, RecoverStarts, RecoverClobbers
<1>5. CASE LaunchRecovered
  BY <1>5 DEF LaunchRecovered, Enter, Recovered, RecoverNothing, RestoreOld
<1>6. CASE LaunchLoads
  BY <1>6 DEF LaunchLoads, LoadMisses, TextClobbered, LoadOld, LoadNoRename
<1>7. CASE LaunchLoaded
  BY <1>7 DEF LaunchLoaded, Enter, Load, Parsed
<1>8. CASE SkipMenu
  BY <1>8 DEF SkipMenu, Enter
<1>9. CASE OpenMenu
  BY <1>9 DEF OpenMenu, Enter, Saves
<1>10. CASE \E v \in Settings : Preference(v)
  BY <1>10 DEF Preference
<1>11. CASE \E p \in Profiles, b \in Balances : Accept(p, b)
  BY <1>11 DEF Accept, Saves
<1>12. CASE DoneCurrencies
  BY <1>12 DEF DoneCurrencies, Enter, Apply, ApplyRefused, Edited, Saves
<1>13. CASE DonePreferences
  BY <1>13 DEF DonePreferences, Enter, Save, Saves
<1>14. CASE Applied
  BY <1>14 DEF Applied, Enter, Save, SaveLocalsEnd
<1>15. CASE ApplyFailed
  BY <1>15 DEF ApplyFailed, Enter, SaveLocalsEnd
<1>16. CASE Saved
  BY <1>16 DEF Saved, Enter
<1>17. CASE SaveFailed
  BY <1>17 DEF SaveFailed, Enter
<1>18. CASE Off
  BY <1>18 DEF Off, SaveLocalsEnd
<1>19. CASE \E save \in Saves \cup {Damaged} : GameWrites(save)
  BY <1>19 DEF GameWrites
<1>20. CASE UNCHANGED vars
  BY <1>20 DEF vars
<1>21. QED
  BY ONLY [Next]_vars, <1>1, <1>2, <1>3, <1>4, <1>5, <1>6, <1>7, <1>8, <1>9, <1>10, <1>11,
     <1>12, <1>13, <1>14, <1>15, <1>16, <1>17, <1>18, <1>19, <1>20
    DEF Next

\* The preferences.
LEMMA TextKeeps ==
  ASSUME IInv, [Next]_vars
  PROVE  TextFits'
<1> USE SaveAssumption, LocaleAssumption, MenuAssumption
<1> USE DEF IInv, TypeOK, LocaleTypeOK, SaveFits, TextFits,
           saveVars, saveFiles, saveLocals, localeVars, localeFiles, menuVars
<1>1. CASE Applying
  <2>1. CASE NameTaken
    BY <1>1, <2>1 DEF Applying, NameTaken
  <2>2. CASE NameFree
    BY <1>1, <2>2 DEF Applying, NameFree
  <2>3. CASE BackupOpen
    BY <1>1, <2>3 DEF Applying, BackupOpen
  <2>4. CASE BackupWrite
    BY <1>1, <2>4 DEF Applying, BackupWrite
  <2>5. CASE TempOpen
    BY <1>1, <2>5 DEF Applying, TempOpen
  <2>6. CASE TempWrite
    BY <1>1, <2>6 DEF Applying, TempWrite
  <2>7. CASE Recheck
    BY <1>1, <2>7 DEF Applying, Recheck
  <2>8. CASE ClearOld
    BY <1>1, <2>8 DEF Applying, ClearOld
  <2>9. CASE StageClobbers
    BY <1>1, <2>9 DEF Applying, StageClobbers
  <2>10. CASE Stage
    BY <1>1, <2>10 DEF Applying, Stage
  <2>11. CASE CommitTemp
    BY <1>1, <2>11 DEF Applying, CommitTemp
  <2>12. CASE CommitFails
    BY <1>1, <2>12 DEF Applying, CommitFails
  <2>13. CASE Rollback
    BY <1>1, <2>13 DEF Applying, Rollback, RestoreOld
  <2>14. CASE Cleanup
    BY <1>1, <2>14 DEF Applying, Cleanup
  <2>15. CASE \E step \in {"backup open", "backup write", "stage", "rollback"} : GiveUp(step)
    BY <1>1, <2>15 DEF Applying, GiveUp
  <2>16. CASE old # Missing /\ GiveUp("clear")
    BY <1>1, <2>16 DEF Applying, GiveUp
  <2>17. CASE \E step \in {"temp", "temp write", "recheck"} : DropTemp(step)
    BY <1>1, <2>17 DEF Applying, DropTemp
  <2>18. QED
    BY ONLY <1>1, <2>1, <2>2, <2>3, <2>4, <2>5, <2>6, <2>7, <2>8, <2>9, <2>10, <2>11, <2>12,
       <2>13, <2>14, <2>15, <2>16, <2>17
      DEF Applying, ApplyStep
<1>2. CASE Saving
  <2>1. CASE SaveOpen
    BY <1>2, <2>1 DEF Saving, SaveOpen
  <2>2. CASE SaveWrite
    BY <1>2, <2>2 DEF Saving, SaveWrite
  <2>3. CASE SaveDropsTemp
    BY <1>2, <2>3 DEF Saving, SaveDropsTemp
  <2>4. CASE SaveVerify
    BY <1>2, <2>4 DEF Saving, SaveVerify
  <2>5. CASE SaveProbe
    BY <1>2, <2>5 DEF Saving, SaveProbe
  <2>6. CASE SaveMisses
    BY <1>2, <2>6 DEF Saving, SaveMisses
  <2>7. CASE SaveClear
    BY <1>2, <2>7 DEF Saving, SaveClear
  <2>8. CASE SaveStage
    BY <1>2, <2>8 DEF Saving, SaveStage
  <2>9. CASE TextClobbered({"commit", "rollback"})
    BY <1>2, <2>9 DEF Saving, TextClobbered
  <2>10. CASE SaveCommit
    BY <1>2, <2>10 DEF Saving, SaveCommit
  <2>11. CASE SaveCommitFails
    BY <1>2, <2>11 DEF Saving, SaveCommitFails
  <2>12. CASE SaveRollback
    BY <1>2, <2>12 DEF Saving, SaveRollback
  <2>13. CASE SaveCleanup
    BY <1>2, <2>13 DEF Saving, SaveCleanup
  <2>14. CASE \E step \in {"open", "verify", "stage", "rollback"} : SaveGivesUp(step)
    BY <1>2, <2>14 DEF Saving, SaveGivesUp
  <2>15. CASE txtOld # NoText /\ SaveGivesUp("clear")
    BY <1>2, <2>15 DEF Saving, SaveGivesUp
  <2>16. QED
    BY ONLY <1>2, <2>1, <2>2, <2>3, <2>4, <2>5, <2>6, <2>7, <2>8, <2>9, <2>10, <2>11, <2>12,
       <2>13, <2>14, <2>15
      DEF Saving, SaveStep
<1>3. CASE PowerOn
  BY <1>3 DEF PowerOn, Enter
<1>4. CASE LaunchRecovers
  BY <1>4 DEF LaunchRecovers, RecoverStarts, RecoverClobbers
<1>5. CASE LaunchRecovered
  BY <1>5 DEF LaunchRecovered, Enter, Recovered, RecoverNothing, RestoreOld
<1>6. CASE LaunchLoads
  BY <1>6 DEF LaunchLoads, LoadMisses, TextClobbered, LoadOld, LoadNoRename
<1>7. CASE LaunchLoaded
  BY <1>7 DEF LaunchLoaded, Enter, Load, Parsed
<1>8. CASE SkipMenu
  BY <1>8 DEF SkipMenu, Enter
<1>9. CASE OpenMenu
  BY <1>9 DEF OpenMenu, Enter, Saves
<1>10. CASE \E v \in Settings : Preference(v)
  BY <1>10 DEF Preference
<1>11. CASE \E p \in Profiles, b \in Balances : Accept(p, b)
  BY <1>11 DEF Accept, Saves
<1>12. CASE DoneCurrencies
  BY <1>12 DEF DoneCurrencies, Enter, Apply, ApplyRefused, Edited, Saves
<1>13. CASE DonePreferences
  BY <1>13 DEF DonePreferences, Enter, Save, Saves
<1>14. CASE Applied
  BY <1>14 DEF Applied, Enter, Save, SaveLocalsEnd
<1>15. CASE ApplyFailed
  BY <1>15 DEF ApplyFailed, Enter, SaveLocalsEnd
<1>16. CASE Saved
  BY <1>16 DEF Saved, Enter
<1>17. CASE SaveFailed
  BY <1>17 DEF SaveFailed, Enter
<1>18. CASE Off
  BY <1>18 DEF Off, SaveLocalsEnd
<1>19. CASE \E save \in Saves \cup {Damaged} : GameWrites(save)
  BY <1>19 DEF GameWrites
<1>20. CASE UNCHANGED vars
  BY <1>20 DEF vars
<1>21. QED
  BY ONLY [Next]_vars, <1>1, <1>2, <1>3, <1>4, <1>5, <1>6, <1>7, <1>8, <1>9, <1>10, <1>11,
     <1>12, <1>13, <1>14, <1>15, <1>16, <1>17, <1>18, <1>19, <1>20
    DEF Next

\* The screen.
LEMMA MenuKeeps ==
  ASSUME IInv, [Next]_vars
  PROVE  MenuFits'
<1> USE SavesAreReal, SaveAssumption, LocaleAssumption, MenuAssumption
<1> USE
  DEF IInv, TypeOK, SaveTypeOK, SaveFits, TextFits, MenuFits, Changing, Running, StoredSave,
           StoredText, Files, Texts, saveVars, saveFiles, saveLocals, localeVars, localeFiles, menuVars
<1>1. CASE Applying
  <2>1. CASE NameTaken
    BY <1>1, <2>1 DEF Applying, NameTaken
  <2>2. CASE NameFree
    BY <1>1, <2>2 DEF Applying, NameFree
  <2>3. CASE BackupOpen
    BY <1>1, <2>3 DEF Applying, BackupOpen
  <2>4. CASE BackupWrite
    BY <1>1, <2>4 DEF Applying, BackupWrite
  <2>5. CASE TempOpen
    BY <1>1, <2>5 DEF Applying, TempOpen
  <2>6. CASE TempWrite
    BY <1>1, <2>6 DEF Applying, TempWrite
  <2>7. CASE Recheck
    BY <1>1, <2>7 DEF Applying, Recheck
  <2>8. CASE ClearOld
    BY <1>1, <2>8 DEF Applying, ClearOld
  <2>9. CASE StageClobbers
    BY <1>1, <2>9 DEF Applying, StageClobbers
  <2>10. CASE Stage
    BY <1>1, <2>10 DEF Applying, Stage
  <2>11. CASE CommitTemp
    BY <1>1, <2>11 DEF Applying, CommitTemp
  <2>12. CASE CommitFails
    BY <1>1, <2>12 DEF Applying, CommitFails
  <2>13. CASE Rollback
    BY <1>1, <2>13 DEF Applying, Rollback, RestoreOld
  <2>14. CASE Cleanup
    BY <1>1, <2>14 DEF Applying, Cleanup
  <2>15. CASE \E step \in {"backup open", "backup write", "stage", "rollback"} : GiveUp(step)
    BY <1>1, <2>15 DEF Applying, GiveUp
  <2>16. CASE old # Missing /\ GiveUp("clear")
    BY <1>1, <2>16 DEF Applying, GiveUp
  <2>17. CASE \E step \in {"temp", "temp write", "recheck"} : DropTemp(step)
    BY <1>1, <2>17 DEF Applying, DropTemp
  <2>18. QED
    BY ONLY <1>1, <2>1, <2>2, <2>3, <2>4, <2>5, <2>6, <2>7, <2>8, <2>9, <2>10, <2>11, <2>12,
       <2>13, <2>14, <2>15, <2>16, <2>17
      DEF Applying, ApplyStep
<1>2. CASE Saving
  <2>1. CASE SaveOpen
    BY <1>2, <2>1 DEF Saving, SaveOpen
  <2>2. CASE SaveWrite
    BY <1>2, <2>2 DEF Saving, SaveWrite
  <2>3. CASE SaveDropsTemp
    BY <1>2, <2>3 DEF Saving, SaveDropsTemp
  <2>4. CASE SaveVerify
    BY <1>2, <2>4 DEF Saving, SaveVerify
  <2>5. CASE SaveProbe
    BY <1>2, <2>5 DEF Saving, SaveProbe
  <2>6. CASE SaveMisses
    BY <1>2, <2>6 DEF Saving, SaveMisses
  <2>7. CASE SaveClear
    BY <1>2, <2>7 DEF Saving, SaveClear
  <2>8. CASE SaveStage
    BY <1>2, <2>8 DEF Saving, SaveStage
  <2>9. CASE TextClobbered({"commit", "rollback"})
    BY <1>2, <2>9 DEF Saving, TextClobbered
  <2>10. CASE SaveCommit
    BY <1>2, <2>10 DEF Saving, SaveCommit
  <2>11. CASE SaveCommitFails
    BY <1>2, <2>11 DEF Saving, SaveCommitFails
  <2>12. CASE SaveRollback
    BY <1>2, <2>12 DEF Saving, SaveRollback
  <2>13. CASE SaveCleanup
    BY <1>2, <2>13 DEF Saving, SaveCleanup
  <2>14. CASE \E step \in {"open", "verify", "stage", "rollback"} : SaveGivesUp(step)
    BY <1>2, <2>14 DEF Saving, SaveGivesUp
  <2>15. CASE txtOld # NoText /\ SaveGivesUp("clear")
    BY <1>2, <2>15 DEF Saving, SaveGivesUp
  <2>16. QED
    BY ONLY <1>2, <2>1, <2>2, <2>3, <2>4, <2>5, <2>6, <2>7, <2>8, <2>9, <2>10, <2>11, <2>12,
       <2>13, <2>14, <2>15
      DEF Saving, SaveStep
<1>3. CASE PowerOn
  BY <1>3 DEF PowerOn, Enter
<1>4. CASE LaunchRecovers
  BY <1>4 DEF LaunchRecovers, RecoverStarts, RecoverClobbers
<1>5. CASE LaunchRecovered
  BY <1>5 DEF LaunchRecovered, Enter, Recovered, RecoverNothing, RestoreOld
<1>6. CASE LaunchLoads
  BY <1>6 DEF LaunchLoads, LoadMisses, TextClobbered, LoadOld, LoadNoRename
<1>7. CASE LaunchLoaded
  BY <1>7 DEF LaunchLoaded, Enter, Load, Parsed
<1>8. CASE SkipMenu
  BY <1>8 DEF SkipMenu, Enter
<1>9. CASE OpenMenu
  BY <1>9 DEF OpenMenu, Enter, Saves
<1>10. CASE \E v \in Settings : Preference(v)
  BY <1>10 DEF Preference
<1>11. CASE \E p \in Profiles, b \in Balances : Accept(p, b)
  <2>1. PICK p \in Profiles, b \in Balances : Accept(p, b)
    BY <1>11
  <2>2. /\ profiles \in Saves /\ [profiles EXCEPT ![p] = b] \in Saves
        /\ shown \in Saves
        /\ \A q \in Profiles : profiles'[q] = IF q = p THEN b ELSE profiles[q]
    BY <2>1 DEF Accept, Saves
  <2>3. \A q \in Profiles : q \in mask' <=> profiles'[q] # shown'[q]
    BY <2>1, <2>2 DEF Accept
  <2>4. QED BY <2>1, <2>2, <2>3 DEF Accept
<1>12. CASE DoneCurrencies
  <2>1. CASE Apply(profiles, mask)
    <3>1. profiles \in Saves /\ pp \in Saves
      BY <1>12, <2>1 DEF DoneCurrencies, Apply
    <3>2. shown = pp
      BY <1>12, <2>1, <3>1 DEF DoneCurrencies, Enter, Apply
    <3>3. \A p \in Profiles : p \in mask \/ profiles[p] = pp[p]
      BY <1>12, <3>1, <3>2 DEF DoneCurrencies, Enter
    <3>4. Edited(profiles, mask) = profiles
      BY ONLY <3>1, <3>3 DEF Edited, Saves
    <3>5. QED BY <1>12, <2>1, <3>1, <3>2, <3>4 DEF DoneCurrencies, Enter, Apply
  <2>2. CASE ApplyRefused
    BY <1>12, <2>2 DEF DoneCurrencies, Enter, ApplyRefused
  <2>3. QED BY <1>12, <2>1, <2>2 DEF DoneCurrencies
<1>13. CASE DonePreferences
  <2>1. at = "idle"
    BY <1>13 DEF DonePreferences, Enter
  <2>2. ASSUME profiles # None PROVE shown = profiles /\ StoredSave = profiles
    <3>1. profiles \in Saves /\ shown \in Saves /\ \A p \in Profiles : profiles[p] = shown[p]
      BY <1>13, <2>2 DEF DonePreferences, Enter
    <3>2. shown = profiles
      BY ONLY <3>1 DEF Saves
    <3>3. QED BY <1>13, <2>1, <2>2, <3>2 DEF DonePreferences, Enter
  <2>3. QED BY <1>13, <2>1, <2>2 DEF DonePreferences, Enter, Save
<1>14. CASE Applied
  <2>1. changed = profiles /\ pp = profiles /\ pp \in Saves
    BY <1>14 DEF Applied
  <2>2. StoredSave' = profiles'
    BY <1>14, <2>1 DEF Applied
  <2>3. QED BY <1>14, <2>1, <2>2 DEF Applied, Enter, Save, SaveLocalsEnd
<1>15. CASE ApplyFailed
  BY <1>15 DEF ApplyFailed, Enter, SaveLocalsEnd
<1>16. CASE Saved
  BY <1>16 DEF Saved, Enter
<1>17. CASE SaveFailed
  BY <1>17 DEF SaveFailed, Enter
<1>18. CASE Off
  BY <1>18 DEF Off, SaveLocalsEnd
<1>19. CASE \E save \in Saves \cup {Damaged} : GameWrites(save)
  BY <1>19 DEF GameWrites
<1>20. CASE UNCHANGED vars
  BY <1>20 DEF vars
<1>21. QED
  BY ONLY [Next]_vars, <1>1, <1>2, <1>3, <1>4, <1>5, <1>6, <1>7, <1>8, <1>9, <1>10, <1>11,
     <1>12, <1>13, <1>14, <1>15, <1>16, <1>17, <1>18, <1>19, <1>20
    DEF Next

THEOREM InvariantHolds == Spec => []IInv
<1>1. TypeOK <=> SaveTypeOK /\ LocaleTypeOK /\ ScreenTypes
  BY DEF TypeOK, ScreenTypes
<1>2. IInv /\ [Next]_vars => IInv'
  BY <1>1, SaveTypesKeep, TextTypesKeep, ScreenTypesKeep, SaveKeeps, BackupKeeps, TextKeeps,
     MenuKeeps DEF TypeOK, ScreenTypes, IInv
<1>3. QED BY InvariantStarts, <1>2, PTL DEF Spec

-----------------------------------------------------------------------------
(* What the screen promises.                                                *)

\* The menu is true to the card, also after a Done that failed half way:
\* pvz2_port_menu and its edits.
THEOREM MarksAreExact == Spec => []MarkIsExact
<1>1. IInv => MarkIsExact
  BY DEF IInv, SaveFits, MenuFits, TypeOK, MarkIsExact
<1>2. QED BY InvariantHolds, <1>1, PTL

\* Done ends the screen only with everything on the card: it saves the currencies
\* first, then the preferences.
THEOREM DoneAppliesAll == Spec => []DoneApplies
<1>1. IInv => DoneApplies
  BY DEF IInv, MenuFits, DoneApplies
<1>2. QED BY InvariantHolds, <1>1, PTL

\* Before pp.dat is touched, and until the transaction ends, the original is in a
\* backup: pvz2_save_apply_batch.
THEOREM OriginalIsBackedUp == Spec => []EditIsBackedUp
<1>1. IInv => EditIsBackedUp
  BY DEF IInv, BackupFits
<1>2. QED BY InvariantHolds, <1>1, PTL

\* No step writes a finished backup, but the open of a name whose probe failed:
\* pvz2_save_apply_batch.
THEOREM BackupsStay == Spec => BackupsAreKept
<1>1. ASSUME IInv, [Next]_vars
      PROVE  [\A s \in 0 .. Slots - 1 :
                /\ backups[s] \in Saves /\ backups'[s] # backups[s]
                => at = "backup open" /\ s = slot /\ unseen]_backups
  <2>1. CASE UNCHANGED backups
    BY <2>1
  <2>2. CASE Applying /\ BackupOpen
    BY <1>1, <2>2, SavesAreReal DEF IInv, TypeOK, SaveTypeOK, BackupFits, BackupOpen
  <2>3. CASE Applying /\ BackupWrite
    BY <1>1, <2>3, SavesAreReal DEF IInv, TypeOK, SaveTypeOK, BackupFits, BackupWrite
  <2>4. Applying => UNCHANGED backups \/ BackupOpen \/ BackupWrite
    BY DEF Applying, ApplyStep, NameTaken, NameFree, TempOpen, TempWrite, Recheck, ClearOld,
           StageClobbers, Stage, CommitTemp, CommitFails, Rollback, RestoreOld, Cleanup, GiveUp,
           DropTemp, saveFiles
  <2>5. ~Applying => UNCHANGED backups
    BY <1>1 DEF Next, PowerOn, LaunchRecovers, RecoverStarts, RecoverClobbers, LaunchRecovered,
           Recovered, RecoverNothing, RestoreOld, LaunchLoads, LaunchLoaded, SkipMenu, OpenMenu,
           Preference, Accept, DoneCurrencies, Apply, ApplyRefused, DonePreferences, Applied,
           ApplyFailed, Saving, Saved, SaveFailed, Off, GameWrites, vars, saveVars, saveFiles
  <2>6. QED BY <2>1, <2>2, <2>3, <2>4, <2>5
<1>2. QED BY InvariantHolds, <1>1, PTL DEF Spec, BackupsAreKept

-----------------------------------------------------------------------------
(* The two transactions are atomic.                                         *)

\* Whenever the power goes off in pvz2_save_apply_batch, the next launch reads the old
\* save or the new one.
THEOREM SaveFileIsAtomic == Spec => SaveIsAtomic
<1> USE SavesAreReal, SaveAssumption, LocaleAssumption, MenuAssumption
<1>1. Init => SaveFile!Init
  BY DEF Init, SaveInit, SaveFile!Init, Running, Answer
<1>2. ASSUME IInv, [Next]_vars
      PROVE  [SaveFile!Next]_(SaveFile!fvars)
  <2> USE DEF IInv, TypeOK, SaveTypeOK, SaveFits, Files, StoredSave, Running, Answer, SaveFile!Next,
          SaveFile!Overwrite, SaveFile!Lose, SaveFile!Begin, SaveFile!Commit, SaveFile!Succeed, SaveFile!Refuse,
          SaveFile!Forget, SaveFile!fvars, Changing, saveVars, saveFiles, saveLocals, localeVars, localeFiles, menuVars
  <2>1. CASE Applying
    <3>1. CASE NameTaken
      BY <1>2, <2>1, <3>1 DEF Applying, NameTaken
    <3>2. CASE NameFree
      BY <1>2, <2>1, <3>2 DEF Applying, NameFree
    <3>3. CASE BackupOpen
      BY <1>2, <2>1, <3>3 DEF Applying, BackupOpen
    <3>4. CASE BackupWrite
      BY <1>2, <2>1, <3>4 DEF Applying, BackupWrite
    <3>5. CASE TempOpen
      BY <1>2, <2>1, <3>5 DEF Applying, TempOpen
    <3>6. CASE TempWrite
      BY <1>2, <2>1, <3>6 DEF Applying, TempWrite
    <3>7. CASE Recheck
      BY <1>2, <2>1, <3>7 DEF Applying, Recheck
    <3>8. CASE ClearOld
      BY <1>2, <2>1, <3>8 DEF Applying, ClearOld
    <3>9. CASE StageClobbers
      BY <1>2, <2>1, <3>9 DEF Applying, StageClobbers
    <3>10. CASE Stage
      BY <1>2, <2>1, <3>10 DEF Applying, Stage
    <3>11. CASE CommitTemp
      BY <1>2, <2>1, <3>11 DEF Applying, CommitTemp
    <3>12. CASE CommitFails
      BY <1>2, <2>1, <3>12 DEF Applying, CommitFails
    <3>13. CASE Rollback
      BY <1>2, <2>1, <3>13 DEF Applying, Rollback, RestoreOld
    <3>14. CASE Cleanup
      <4>1. pp \in Saves /\ pp' = pp /\ pp # Missing
        BY <1>2, <2>1, <3>14 DEF Applying, Cleanup
      <4>2. SaveFile!Succeed
        BY <1>2, <2>1, <3>14, <4>1 DEF Applying, Cleanup
      <4>3. QED BY <4>2
    <3>15. CASE \E step \in {"backup open", "backup write", "stage", "rollback"} : GiveUp(step)
      BY <1>2, <2>1, <3>15 DEF Applying, GiveUp
    <3>16. CASE old # Missing /\ GiveUp("clear")
      BY <1>2, <2>1, <3>16 DEF Applying, GiveUp
    <3>17. CASE \E step \in {"temp", "temp write", "recheck"} : DropTemp(step)
      BY <1>2, <2>1, <3>17 DEF Applying, DropTemp
    <3>18. QED
      BY ONLY <2>1, <3>1, <3>2, <3>3, <3>4, <3>5, <3>6, <3>7, <3>8, <3>9, <3>10, <3>11, <3>12,
         <3>13, <3>14, <3>15, <3>16, <3>17
        DEF Applying, ApplyStep
  <2>2. CASE Saving
    BY <1>2, <2>2 DEF Saving, saveVars, saveFiles, saveLocals
  <2>3. CASE PowerOn
    BY <1>2, <2>3 DEF PowerOn, Enter
  <2>4. CASE LaunchRecovers
    BY <1>2, <2>4 DEF LaunchRecovers, RecoverStarts, RecoverClobbers
  <2>5. CASE LaunchRecovered
    BY <1>2, <2>5 DEF LaunchRecovered, Enter, Recovered, RecoverNothing, RestoreOld
  <2>6. CASE LaunchLoads
    BY <1>2, <2>6 DEF LaunchLoads, LoadMisses, TextClobbered, LoadOld, LoadNoRename
  <2>7. CASE LaunchLoaded
    BY <1>2, <2>7 DEF LaunchLoaded, Enter, Load, Parsed
  <2>8. CASE SkipMenu
    BY <1>2, <2>8 DEF SkipMenu, Enter
  <2>9. CASE OpenMenu
    BY <1>2, <2>9 DEF OpenMenu, Enter, Saves
  <2>10. CASE \E v \in Settings : Preference(v)
    BY <1>2, <2>10 DEF Preference
  <2>11. CASE \E p \in Profiles, b \in Balances : Accept(p, b)
    BY <1>2, <2>11 DEF Accept, Saves
  <2>12. CASE DoneCurrencies
    <3>1. CASE Apply(profiles, mask)
      <4>1. profiles \in Saves /\ pp \in Saves
        BY <1>2, <2>12, <3>1 DEF DoneCurrencies, MenuFits, Apply
      <4>2. Edited(profiles, mask) \in Saves
        BY <4>1, EditedIsSave
      <4>3. SaveFile!Begin(Edited(profiles, mask))
        BY <1>2, <2>12, <3>1, <4>1, <4>2 DEF DoneCurrencies, Enter, Apply
      <4>4. QED BY <4>2, <4>3
    <3>2. CASE ApplyRefused
      <4>1. SaveFile!Refuse
        BY <1>2, <2>12, <3>2 DEF DoneCurrencies, Enter, ApplyRefused
      <4>2. QED BY <4>1
    <3>3. QED BY <1>2, <2>12, <3>1, <3>2 DEF DoneCurrencies
  <2>13. CASE DonePreferences
    BY <1>2, <2>13 DEF DonePreferences, Enter, Save, Saves
  <2>14. CASE Applied
    BY <1>2, <2>14 DEF Applied, Enter, Save, SaveLocalsEnd
  <2>15. CASE ApplyFailed
    BY <1>2, <2>15 DEF ApplyFailed, Enter, SaveLocalsEnd
  <2>16. CASE Saved
    BY <1>2, <2>16 DEF Saved, Enter
  <2>17. CASE SaveFailed
    BY <1>2, <2>17 DEF SaveFailed, Enter
  <2>18. CASE Off
    BY <1>2, <2>18 DEF Off, SaveLocalsEnd
  <2>19. CASE \E save \in Saves \cup {Damaged} : GameWrites(save)
    BY <1>2, <2>19 DEF GameWrites
  <2>20. CASE UNCHANGED vars
    BY <1>2, <2>20 DEF vars
  <2>21. QED
    BY ONLY <1>2, <2>1, <2>2, <2>3, <2>4, <2>5, <2>6, <2>7, <2>8, <2>9, <2>10, <2>11, <2>12,
       <2>13, <2>14, <2>15, <2>16, <2>17, <2>18, <2>19, <2>20
      DEF Next
<1>3. QED BY InvariantHolds, <1>1, <1>2, PTL DEF Spec, SaveIsAtomic, SaveFile!Spec

\* So do the preferences: pvz2_port_settings_save and pvz2_locale_load.
THEOREM SettingsAreWhole == Spec => SettingsAreAtomic
<1> USE SavesAreReal, SaveAssumption, LocaleAssumption, MenuAssumption
<1>1. Init => SettingsFile!Init
  BY DEF Init, LocaleInit, SettingsFile!Init, Answer
<1>2. ASSUME IInv, [Next]_vars
      PROVE  [SettingsFile!Next]_(SettingsFile!fvars)
  <2> USE DEF IInv, TypeOK, LocaleTypeOK, TextFits, Texts, StoredText, Answer, SettingsFile!Next,
          SettingsFile!Overwrite, SettingsFile!Lose, SettingsFile!Begin, SettingsFile!Commit, SettingsFile!Succeed,
          SettingsFile!Refuse, SettingsFile!Forget, SettingsFile!fvars, saveVars, saveFiles, saveLocals, localeVars, localeFiles, menuVars
  <2>1. CASE Saving
    <3>1. CASE SaveOpen
      BY <1>2, <2>1, <3>1 DEF Saving, SaveOpen
    <3>2. CASE SaveWrite
      BY <1>2, <2>1, <3>2 DEF Saving, SaveWrite
    <3>3. CASE SaveDropsTemp
      BY <1>2, <2>1, <3>3 DEF Saving, SaveDropsTemp
    <3>4. CASE SaveVerify
      BY <1>2, <2>1, <3>4 DEF Saving, SaveVerify
    <3>5. CASE SaveProbe
      BY <1>2, <2>1, <3>5 DEF Saving, SaveProbe
    <3>6. CASE SaveMisses
      BY <1>2, <2>1, <3>6 DEF Saving, SaveMisses
    <3>7. CASE SaveClear
      BY <1>2, <2>1, <3>7 DEF Saving, SaveClear
    <3>8. CASE SaveStage
      BY <1>2, <2>1, <3>8 DEF Saving, SaveStage
    <3>9. CASE TextClobbered({"commit", "rollback"})
      BY <1>2, <2>1, <3>9 DEF Saving, TextClobbered
    <3>10. CASE SaveCommit
      BY <1>2, <2>1, <3>10 DEF Saving, SaveCommit
    <3>11. CASE SaveCommitFails
      BY <1>2, <2>1, <3>11 DEF Saving, SaveCommitFails
    <3>12. CASE SaveRollback
      BY <1>2, <2>1, <3>12 DEF Saving, SaveRollback
    <3>13. CASE SaveCleanup
      BY <1>2, <2>1, <3>13 DEF Saving, SaveCleanup
    <3>14. CASE \E step \in {"open", "verify", "stage", "rollback"} : SaveGivesUp(step)
      BY <1>2, <2>1, <3>14 DEF Saving, SaveGivesUp
    <3>15. CASE txtOld # NoText /\ SaveGivesUp("clear")
      BY <1>2, <2>1, <3>15 DEF Saving, SaveGivesUp
    <3>16. QED
      BY ONLY <2>1, <3>1, <3>2, <3>3, <3>4, <3>5, <3>6, <3>7, <3>8, <3>9, <3>10, <3>11, <3>12,
         <3>13, <3>14, <3>15
        DEF Saving, SaveStep
  <2>2. CASE Applying
    BY <1>2, <2>2 DEF Applying, localeVars, localeFiles
  <2>3. CASE PowerOn
    BY <1>2, <2>3 DEF PowerOn, Enter
  <2>4. CASE LaunchRecovers
    BY <1>2, <2>4 DEF LaunchRecovers, RecoverStarts, RecoverClobbers
  <2>5. CASE LaunchRecovered
    BY <1>2, <2>5 DEF LaunchRecovered, Enter, Recovered, RecoverNothing, RestoreOld
  <2>6. CASE LaunchLoads
    BY <1>2, <2>6 DEF LaunchLoads, LoadMisses, TextClobbered, LoadOld, LoadNoRename
  <2>7. CASE LaunchLoaded
    BY <1>2, <2>7 DEF LaunchLoaded, Enter, Load, Parsed
  <2>8. CASE SkipMenu
    BY <1>2, <2>8 DEF SkipMenu, Enter
  <2>9. CASE OpenMenu
    BY <1>2, <2>9 DEF OpenMenu, Enter, Saves
  <2>10. CASE \E v \in Settings : Preference(v)
    BY <1>2, <2>10 DEF Preference
  <2>11. CASE \E p \in Profiles, b \in Balances : Accept(p, b)
    BY <1>2, <2>11 DEF Accept, Saves
  <2>12. CASE DoneCurrencies
    BY <1>2, <2>12 DEF DoneCurrencies, Enter, Apply, ApplyRefused, Edited, Saves
  <2>13. CASE DonePreferences
    BY <1>2, <2>13 DEF DonePreferences, Enter, Save, Saves
  <2>14. CASE Applied
    BY <1>2, <2>14 DEF Applied, Enter, Save, SaveLocalsEnd
  <2>15. CASE ApplyFailed
    BY <1>2, <2>15 DEF ApplyFailed, Enter, SaveLocalsEnd
  <2>16. CASE Saved
    BY <1>2, <2>16 DEF Saved, Enter
  <2>17. CASE SaveFailed
    BY <1>2, <2>17 DEF SaveFailed, Enter
  <2>18. CASE Off
    BY <1>2, <2>18 DEF Off, SaveLocalsEnd
  <2>19. CASE \E save \in Saves \cup {Damaged} : GameWrites(save)
    BY <1>2, <2>19 DEF GameWrites
  <2>20. CASE UNCHANGED vars
    BY <1>2, <2>20 DEF vars
  <2>21. QED
    BY ONLY <1>2, <2>1, <2>2, <2>3, <2>4, <2>5, <2>6, <2>7, <2>8, <2>9, <2>10, <2>11, <2>12,
       <2>13, <2>14, <2>15, <2>16, <2>17, <2>18, <2>19, <2>20
      DEF Next
<1>3. QED BY InvariantHolds, <1>1, <1>2, PTL DEF Spec, SettingsAreAtomic, SettingsFile!Spec

=============================================================================
