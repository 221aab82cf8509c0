----------------------------- MODULE PortLocale -----------------------------
(***************************************************************************)
(* The preferences of the port (utils/port_locale.c): loaded at startup and *)
(* saved by a temporary file and two renames.  Every library call that      *)
(* touches the directory is one action, and each may fail: an fopen that    *)
(* fails takes a file that is there for missing, and a rename first removes *)
(* a file at its new name, even if there is nothing to move (io.c:1035).    *)
(* The contents are a preference of version 3; anything else (an older      *)
(* version, garbage, a file being written) is BadText and read as the       *)
(* default.                                                                *)
(***************************************************************************)
EXTENDS Integers

CONSTANTS
  Settings,    \* override and language
  Default,     \* off, English
  NoText, BadText

ASSUME LocaleAssumption ==
  Default \in Settings /\ NoText # BadText /\ {NoText, BadText} \cap Settings = {}

VARIABLES
  txt, txtTmp, txtOld,   \* port_settings.txt, .tmp and .old
  locale,                \* selected and language_override
  sat,                   \* where pvz2_locale_load or pvz2_port_settings_save is
  value,                 \* the arguments of the latter
  txtUnseen              \* history: the call took existing preferences for missing

localeFiles == <<txt, txtTmp, txtOld>>
localeVars == <<localeFiles, locale, sat, value, txtUnseen>>

Texts == Settings \cup {NoText, BadText}

LocaleInit ==
  /\ txt \in Texts /\ txtTmp = NoText /\ txtOld = NoText
  /\ locale = Default /\ sat = "idle" /\ value = Default
  /\ txtUnseen = FALSE

\* The rename that is next removes preferences that were not seen.
TextClobbered(steps) ==
  /\ sat \in steps /\ txt # NoText
  /\ txt' = NoText
  /\ UNCHANGED <<txtTmp, txtOld, locale, sat, value, txtUnseen>>

-----------------------------------------------------------------------------
(* pvz2_locale_load.                                                        *)

Parsed(text) == IF text \in Settings THEN text ELSE Default

\* Read, also at the second attempt, or not.
Load ==
  /\ \/ sat = "idle" /\ txt # NoText
     \/ sat = "reopen"
  /\ locale' \in {Parsed(txt), Default}
  /\ sat' = "idle" /\ txtUnseen' = FALSE
  /\ UNCHANGED <<localeFiles, value>>

\* There are none, or the fopen fails.
LoadMisses ==
  /\ sat = "idle"
  /\ txtUnseen' = (txt # NoText)
  /\ sat' = "restore"
  /\ UNCHANGED <<localeFiles, locale, value>>

\* Mutant: the staged file is removed, not renamed.
LoadNoOld ==
  /\ sat = "restore" /\ txt = NoText /\ txtOld # NoText
  /\ txtOld' = NoText
  /\ sat' = "reopen"
  /\ UNCHANGED <<txt, txtTmp, locale, value, txtUnseen>>

LoadOld ==
  /\ sat = "restore" /\ txt = NoText /\ txtOld # NoText
  /\ txt' = txtOld /\ txtOld' = NoText
  /\ sat' = "reopen"
  /\ UNCHANGED <<txtTmp, locale, value, txtUnseen>>

\* There is nothing to rename, or the rename fails; the result is ignored.
LoadNoRename ==
  /\ sat = "restore"
  /\ sat' = "reopen"
  /\ UNCHANGED <<localeFiles, locale, value, txtUnseen>>

-----------------------------------------------------------------------------
(* pvz2_port_settings_save.                                                 *)

Save(v) ==
  /\ sat = "idle"
  /\ value' = v
  /\ sat' = "open"
  /\ UNCHANGED <<localeFiles, locale, txtUnseen>>

SaveGivesUp(step) ==
  /\ sat = step
  /\ sat' = "failed"
  /\ UNCHANGED <<localeFiles, locale, value, txtUnseen>>

SaveOpen ==
  /\ sat = "open"
  /\ txtTmp' = BadText
  /\ sat' = "write"
  /\ UNCHANGED <<txt, txtOld, locale, value, txtUnseen>>

SaveWrite ==
  /\ sat = "write"
  /\ txtTmp' = value
  /\ sat' = "verify"
  /\ UNCHANGED <<txt, txtOld, locale, value, txtUnseen>>

\* Not written or not read back: the temporary file is removed.
SaveDropsTemp ==
  /\ sat \in {"write", "verify"}
  /\ txtTmp' \in {txtTmp, NoText}
  /\ sat' = "failed"
  /\ UNCHANGED <<txt, txtOld, locale, value, txtUnseen>>

\* Read back.
SaveVerify ==
  /\ sat = "verify" /\ txtTmp = value
  /\ sat' = "probe"
  /\ UNCHANGED <<localeFiles, locale, value, txtUnseen>>

SaveProbe ==
  /\ sat = "probe" /\ txt # NoText
  /\ sat' = "clear"
  /\ UNCHANGED <<localeFiles, locale, value, txtUnseen>>

\* Without previous preferences, or with none that are seen, nothing is staged.
SaveMisses ==
  /\ sat = "probe"
  /\ txtUnseen' = (txt # NoText)
  /\ sat' = "commit"
  /\ UNCHANGED <<localeFiles, locale, value>>

SaveClear ==
  /\ sat = "clear"
  /\ txtOld' = NoText
  /\ sat' = "stage"
  /\ UNCHANGED <<txt, txtTmp, locale, value, txtUnseen>>

SaveStage ==
  /\ sat = "stage"
  /\ txtOld' = txt /\ txt' = NoText
  /\ sat' = "commit"
  /\ UNCHANGED <<txtTmp, locale, value, txtUnseen>>

SaveCommit ==
  /\ sat = "commit" /\ txt = NoText
  /\ txt' = txtTmp /\ txtTmp' = NoText
  /\ sat' = "cleanup"
  /\ UNCHANGED <<txtOld, locale, value, txtUnseen>>

SaveCommitFails ==
  /\ sat = "commit"
  /\ sat' = "rollback"
  /\ UNCHANGED <<localeFiles, locale, value, txtUnseen>>

SaveRollback ==
  /\ sat = "rollback" /\ txt = NoText /\ txtOld # NoText
  /\ txt' = txtOld /\ txtOld' = NoText
  /\ sat' = "failed"
  /\ UNCHANGED <<txtTmp, locale, value, txtUnseen>>

SaveCleanup ==
  /\ sat = "cleanup"
  /\ txtOld' \in {txtOld, NoText}
  /\ locale' = value
  /\ sat' = "done"
  /\ UNCHANGED <<txt, txtTmp, value, txtUnseen>>

SaveStep ==
  \/ SaveOpen \/ SaveWrite \/ SaveDropsTemp \/ SaveVerify \/ SaveProbe \/ SaveMisses
  \/ SaveClear \/ SaveStage \/ TextClobbered({"commit", "rollback"}) \/ SaveCommit \/ SaveCommitFails \/ SaveRollback \/ SaveCleanup
  \/ (\E step \in {"open", "verify", "stage", "rollback"} : SaveGivesUp(step))
  \/ txtOld # NoText /\ SaveGivesUp("clear")

-----------------------------------------------------------------------------

\* What the next launch reads.
StoredText == IF txt # NoText THEN txt ELSE txtOld

LocaleTypeOK ==
  /\ txt \in Texts /\ txtTmp \in Texts /\ txtOld \in Texts
  /\ locale \in Settings /\ value \in Settings
  /\ sat \in {"idle", "restore", "reopen", "open", "write", "verify", "probe", "clear", "stage",
              "commit", "rollback", "cleanup", "done", "failed"}
  /\ txtUnseen \in BOOLEAN
=============================================================================
