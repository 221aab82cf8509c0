------------------------------ MODULE PortMenu ------------------------------
(***************************************************************************)
(* The settings screen (utils/port_menu.c): what a launch does before the   *)
(* game, the edits the player stages, Done, which applies first the         *)
(* currencies and then the preferences, and the power going off between any *)
(* two accesses to the card.  Composes SaveEditor and PortLocale.           *)
(*                                                                         *)
(* A press of Cross acts on the selected row; which row that is and how the *)
(* digits were dialled is left open: the open dial is no state of its own,  *)
(* for nothing but it happens until Cross takes its number, Circle leaves   *)
(* everything as it was, or the power goes.  How a press is told from a     *)
(* launch button that is still held is left out.                            *)
(***************************************************************************)
EXTENDS SaveEditor, PortLocale

CONSTANTS
  None,
  MaxDones     \* bound: how often Done is pressed

ASSUME MenuAssumption ==
  MaxDones \in Nat /\ None \notin Profiles \cup Saves \cup Settings

VARIABLES
  phase,       \* how far the launch is
  profiles,    \* the staged balances, or None without a readable save
  shown,       \* original[]: the balances as the menu read them
  mask,        \* changed_profiles
  staged,      \* override and language as the screen shows them
  dones

menuVars == <<profiles, shown, mask, staged>>
vars == <<saveVars, localeVars, phase, menuVars, dones>>

Init ==
  /\ SaveInit /\ LocaleInit
  /\ phase = "off"
  /\ profiles = None /\ shown = None /\ mask = {}
  /\ staged = Default
  /\ dones = 0

SaveLocalsEnd == original' = Missing /\ changed' = Missing /\ slot' = 0 /\ unseen' = FALSE

Enter(from, to) == phase = from /\ phase' = to

-----------------------------------------------------------------------------
(* The launch, up to the menu.                                              *)

PowerOn ==
  /\ Enter("off", "recover")
  /\ UNCHANGED <<saveVars, localeVars, menuVars, dones>>

LaunchRecovers ==
  /\ phase = "recover"
  /\ RecoverStarts \/ RecoverClobbers
  /\ UNCHANGED <<localeVars, phase, menuVars, dones>>

\* The staged original is brought back, or there is nothing to do.
LaunchRecovered ==
  /\ Enter("recover", "load")
  /\ Recovered \/ RecoverNothing
  /\ UNCHANGED <<localeVars, menuVars, dones>>

LaunchLoads ==
  /\ phase = "load"
  /\ LoadMisses \/ TextClobbered({"restore"}) \/ LoadOld \/ LoadNoRename
  /\ UNCHANGED <<saveVars, phase, menuVars, dones>>

LaunchLoaded ==
  /\ Enter("load", "chord")
  /\ Load
  /\ UNCHANGED <<saveVars, menuVars, dones>>

\* The launch chord was not held: the game starts.
SkipMenu ==
  /\ Enter("chord", "game")
  /\ UNCHANGED <<saveVars, localeVars, menuVars, dones>>

\* pvz2_save_read; without a save, or one that does not parse, no currencies.
OpenMenu ==
  /\ Enter("chord", "menu")
  /\ \/ pp \in Saves /\ profiles' = pp
     \/ profiles' = None
  /\ shown' = profiles'
  /\ staged' = locale
  /\ UNCHANGED <<saveVars, localeVars, mask, dones>>

-----------------------------------------------------------------------------
(* The player.                                                              *)

Preference(v) ==
  /\ phase = "menu"
  /\ staged' = v
  /\ UNCHANGED <<saveVars, localeVars, phase, profiles, shown, mask, dones>>

Accept(p, balance) ==
  /\ phase = "menu" /\ profiles # None
  /\ profiles' = [profiles EXCEPT ![p] = balance]
  /\ mask' = IF balance # shown[p] THEN mask \cup {p} ELSE mask \ {p}
  /\ UNCHANGED <<saveVars, localeVars, phase, shown, staged, dones>>

-----------------------------------------------------------------------------
(* Done.                                                                    *)

DoneCurrencies ==
  /\ dones < MaxDones /\ dones' = dones + 1
  /\ mask # {}
  /\ Enter("menu", "apply")
  /\ Apply(profiles, mask) \/ ApplyRefused
  /\ UNCHANGED <<localeVars, menuVars>>

DonePreferences ==
  /\ dones < MaxDones /\ dones' = dones + 1
  /\ mask = {}
  /\ Enter("menu", "save")
  /\ Save(staged)
  /\ shown' = profiles
  /\ UNCHANGED <<saveVars, profiles, mask, staged>>

Applying ==
  /\ phase = "apply" /\ ApplyStep
  /\ UNCHANGED <<localeVars, phase, menuVars, dones>>

\* Mutant: the profiles stay marked, and a second Done applies them again.
AppliedStaysMarked ==
  /\ at = "done" /\ at' = "idle"
  /\ Enter("apply", "save")
  /\ Save(staged)
  /\ shown' = profiles
  /\ SaveLocalsEnd
  /\ UNCHANGED <<saveFiles, profiles, mask, staged, dones>>

\* Mutant: Done goes on whatever the editor answers.
AppliedOrNot ==
  /\ at \in {"done", "failed"} /\ at' = "idle"
  /\ Enter("apply", "save")
  /\ Save(staged)
  /\ mask' = {} /\ shown' = profiles
  /\ SaveLocalsEnd
  /\ UNCHANGED <<saveFiles, profiles, staged, dones>>

\* The currencies are saved, and the preferences are next.
Applied ==
  /\ at = "done" /\ at' = "idle"
  /\ Enter("apply", "save")
  /\ Save(staged)
  /\ mask' = {} /\ shown' = profiles
  /\ SaveLocalsEnd
  /\ UNCHANGED <<saveFiles, profiles, staged, dones>>

\* Back to the menu with everything still staged.
ApplyFailed ==
  /\ at = "failed" /\ at' = "idle"
  /\ Enter("apply", "menu")
  /\ SaveLocalsEnd
  /\ UNCHANGED <<saveFiles, localeVars, menuVars, dones>>

Saving ==
  /\ phase = "save" /\ SaveStep
  /\ UNCHANGED <<saveVars, phase, menuVars, dones>>

Saved ==
  /\ sat = "done" /\ sat' = "idle"
  /\ Enter("save", "finished")
  /\ value' = Default /\ txtUnseen' = FALSE
  /\ UNCHANGED <<saveVars, localeFiles, locale, menuVars, dones>>

\* The currencies may have been saved; Done may be tried again.
SaveFailed ==
  /\ sat = "failed" /\ sat' = "idle"
  /\ Enter("save", "menu")
  /\ value' = Default /\ txtUnseen' = FALSE
  /\ UNCHANGED <<saveVars, localeFiles, locale, menuVars, dones>>

-----------------------------------------------------------------------------

\* The process ends: Done, Circle, a failure screen (also a failed recovery), or the
\* power.
Off ==
  /\ phase # "off" /\ phase' = "off"
  /\ at' = "idle" /\ SaveLocalsEnd
  /\ locale' = Default /\ sat' = "idle" /\ value' = Default /\ txtUnseen' = FALSE
  /\ profiles' = None /\ shown' = None /\ mask' = {}
  /\ staged' = Default
  /\ UNCHANGED <<saveFiles, localeFiles, dones>>

\* The game (external) writes its save, or is cut off while it writes.
GameWrites(save) ==
  /\ phase = "game"
  /\ pp' = save
  /\ UNCHANGED <<tmp, old, backups, at, saveLocals, localeVars, phase, menuVars, dones>>

Next ==
  \/ PowerOn \/ LaunchRecovers \/ LaunchRecovered \/ LaunchLoads \/ LaunchLoaded
  \/ SkipMenu \/ OpenMenu
  \/ (\E v \in Settings : Preference(v))
  \/ (\E p \in Profiles, b \in Balances : Accept(p, b))
  \/ DoneCurrencies \/ DonePreferences
  \/ Applying \/ Applied \/ ApplyFailed
  \/ Saving \/ Saved \/ SaveFailed
  \/ Off
  \/ (\E save \in Saves \cup {Damaged} : GameWrites(save))

Spec == Init /\ [][Next]_vars

-----------------------------------------------------------------------------
(* Properties.                                                              *)

TypeOK ==
  /\ SaveTypeOK /\ LocaleTypeOK
  /\ phase \in {"off", "recover", "load", "chord", "menu", "apply", "save", "finished", "game"}
  /\ profiles \in Saves \cup {None} /\ shown \in Saves \cup {None}
  /\ mask \subseteq Profiles
  /\ staged \in Settings
  /\ dones \in 0 .. MaxDones

\* The menu is true to the card: a profile is marked exactly if it differs from
\* what the next launch would read, also after a Done that failed half way.
MarkIsExact ==
  /\ TypeOK
  /\ phase = "menu" /\ profiles # None =>
       /\ shown = StoredSave
       /\ mask = {p \in Profiles : profiles[p] # shown[p]}

\* The app exits through Done only when everything on the screen is on the card
\* ("Done applies your changes and exits").
DoneApplies ==
  phase = "finished" =>
    /\ StoredText = staged
    /\ profiles # None => StoredSave = profiles

Running == at \notin {"idle", "restore", "done", "failed"}
Answer(label) == CASE label = "done" -> TRUE [] label = "failed" -> FALSE [] OTHER -> None

\* The editor's transaction is atomic, whenever the power goes off.  A recovery may
\* change what is stored only if it did not see a save that is there.
SaveFile == INSTANCE AtomicFile WITH
  Contents <- Saves, Others <- Saves \cup {Damaged}, Readable <- Files,
  stored <- StoredSave, wanted <- IF Running THEN changed ELSE None,
  committed <- at = "cleanup", answer <- Answer(at),
  elsewhere <- phase = "game", mistaken <- at = "restore" /\ unseen

SaveIsAtomic == SaveFile!Spec

\* So is the one of the preferences, which nobody else writes.
SettingsFile == INSTANCE AtomicFile WITH
  Contents <- Settings, Others <- {}, Readable <- Texts,
  stored <- StoredText,
  wanted <- IF sat \in {"idle", "restore", "reopen", "done", "failed"} THEN None ELSE value,
  committed <- sat = "cleanup", answer <- Answer(sat),
  elsewhere <- FALSE, mistaken <- txtUnseen

SettingsAreAtomic == SettingsFile!Spec
=============================================================================
