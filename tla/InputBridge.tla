---------------------------- MODULE InputBridge ----------------------------
(***************************************************************************)
(* The way of an input from the Vita to the game, frame by frame:          *)
(* touch and pad polling (reimpl/controls.c), the pointer and keys made of *)
(* the pad (utils/controller.c), the system keyboard                       *)
(* (reimpl/numeric_input.c) and the event queue the game drains (java.c),   *)
(* in the order of the frame loop of main_452.c.                           *)
(*                                                                         *)
(* A frame is a tick, the two dialogs, the poll of touch and pad unless a   *)
(* dialog had the frame, the game's pump and the end of the frame.  Each is *)
(* one action, on one thread.  Another thread of the game may ask for the   *)
(* keyboard, which only numeric_poll looks at: it does so between frames.   *)
(*                                                                         *)
(* Data abstracted: positions, times and the seed tray; L1 and R1 are one   *)
(* button "shoulders", and whether the d-pad completes the settings chord    *)
(* is a choice.  An id of g_touch_ids is present or not.  Drag thresholds    *)
(* are choices.                                                            *)
(***************************************************************************)
EXTENDS Integers, Sequences, SequencesExt

CONSTANTS
  Fingers,     \* ids the touch panel reports
  Pointer,     \* POINTER_ID, the pad's pointer
  QueueCap,    \* PVZ2_INPUT_QUEUE_CAP (64)
  Missing,     \* missing samples until a finger counts as lost (8)
  KeyButtons   \* the buttons that become keys: "start", "circle" or both

Buttons    == KeyButtons \cup {"cross", "shoulders"}

ASSUME InputAssumption ==
  /\ IsFiniteSet(Fingers) /\ Pointer \notin Fingers /\ QueueCap \in Nat \ {0} /\ Missing \in Nat \ {0}
  /\ KeyButtons \subseteq {"start", "circle"}
  /\ Fingers \cap Buttons = {} /\ Pointer \notin Buttons

VARIABLES
  phase,       \* of the frame
  stale,       \* history: what was pressed when a dialog closed, and still is
  touch_old, missing_samples, dialog_release_barrier, \* controls.c
  fingers, held, game_keys, previous, barrier, visual, \* controller.c;
               \* visual: "off", "requested", "running"
  requested, running, pending_commit, \* numeric_input.c
  ids,         \* the sources with an id in g_touch_ids
  input_queue, \* g_input_queue
  lost,        \* history: an event was dropped from a full queue
  gameDown     \* the touches and keys that the game takes for pressed, followed
               \* until an event is dropped

touchVars  == <<touch_old, missing_samples>>
padVars    == <<held, game_keys, previous, barrier>>
imeVars    == <<requested, running, pending_commit>>
streamVars == <<ids, input_queue, lost>>
inputVars == <<phase, stale, touchVars, dialog_release_barrier, fingers, padVars,
          visual, imeVars, streamVars, gameDown>>

Phases == {"tick", "visual", "numeric", "touch", "pad", "pump", "after"}

-----------------------------------------------------------------------------
(* java.c: pvz2_input_push_touch, pvz2_input_push_key and input_enqueue.    *)

\* Mutant: a second DOWN does not end the first, and an UP leaves its id behind.
PushKeepsId(s, e) ==
  CASE e[1] = "down" -> [ids |-> s.ids \cup {e[2]}, out |-> Append(s.out, e)]
    [] e[1] \in {"move", "up"} /\ e[2] \notin s.ids -> s
    [] OTHER -> [s EXCEPT !.out = Append(@, e)]

\* s is the ids and the events pushed so far; e a call <<what, source>>.
Push(s, e) ==
  CASE e[1] = "down" ->
         [ids |-> s.ids \cup {e[2]},
          out |-> s.out \o (IF e[2] \in s.ids THEN <<<<"up", e[2]>>>> ELSE <<>>) \o <<e>>]
    [] e[1] \in {"move", "up"} /\ e[2] \notin s.ids -> s
    [] e[1] = "up" /\ e[2] \in s.ids ->
         [ids |-> s.ids \ {e[2]}, out |-> Append(s.out, e)]
    [] OTHER -> [s EXCEPT !.out = Append(@, e)]

\* A full queue drops its oldest event.
Emit(calls) ==
  LET s == FoldLeft(Push, [ids |-> ids, out |-> <<>>], calls)
      all == input_queue \o s.out
      over == Len(all) - QueueCap
  IN /\ ids' = s.ids
     /\ input_queue' = IF over > 0 THEN SubSeq(all, over + 1, Len(all)) ELSE all
     /\ lost' = (lost \/ over > 0)

Calls(what, sources) == LET q == SetToSeq(sources) IN [i \in 1 .. Len(q) |-> <<what, q[i]>>]
If(condition, calls) == IF condition THEN calls ELSE <<>>

\* pointer_up and keys_up.
Ups == If(held, <<<<"up", Pointer>>>>) \o Calls("keyup", game_keys)
ReleasePad(previous1) ==
  /\ held' = FALSE /\ game_keys' = {} /\ barrier' = TRUE
  /\ previous' = previous1

-----------------------------------------------------------------------------
(* controls.c: release_touches and who calls it                             *)

\* Every finger goes up, through pvz2_controller_touch and the queue.
TouchUps == If(touch_old # {}, Ups) \o Calls("up", touch_old)

release_touches ==
  /\ Emit(TouchUps)
  /\ touch_old' = {} /\ fingers' = fingers \ touch_old
  /\ IF touch_old = {} THEN UNCHANGED padVars ELSE ReleasePad(previous)

\* The user lets some things go, the game asks for the keyboard or withdraws
\* (pvz2_numeric_request, pvz2_text_request), then the frame begins.
Tick ==
  /\ phase = "tick" /\ phase' = "visual"
  /\ \E s \in SUBSET stale : stale' = s
  /\ \E wanted \in BOOLEAN : requested' = wanted
  /\ UNCHANGED <<missing_samples, dialog_release_barrier, visual, running, pending_commit,
                 gameDown>>

\* controls_tick finds the sampling stopped, or read errors since it last looked.
TickRestarts == Tick /\ release_touches
TickQuiet == Tick /\ UNCHANGED <<touch_old, fingers, padVars, streamVars>>

\* controls_release_for_dialog; the pad always belongs to the controller, so
\* no key of the fallback mapping is down.
controls_release_for_dialog ==
  /\ Emit(TouchUps \o If(touch_old = {}, Ups))
  /\ touch_old' = {} /\ fingers' = fingers \ touch_old
  /\ ReleasePad({})
  /\ dialog_release_barrier' = TRUE

NoRelease == UNCHANGED <<touch_old, fingers, padVars, streamVars, dialog_release_barrier>>

\* Whatever is pressed when a dialog closes stays so for a while; what is
\* pressed while it is open does not matter.
DialogCloses == \E s \in SUBSET (Fingers \cup Buttons) : stale' = s
DialogIsOpen == stale' = {}

-----------------------------------------------------------------------------
(* controller.c: pvz2_visual_poll                                           *)

Visual(status, next) ==
  /\ phase = "visual" /\ phase' = next
  /\ visual' = status
  /\ UNCHANGED <<missing_samples, imeVars, gameDown>>

VisualOff == visual = "off" /\ Visual("off", "numeric") /\ NoRelease /\ UNCHANGED stale
VisualOpens == visual = "requested" /\ Visual("running", "pump") /\ controls_release_for_dialog /\ DialogIsOpen
VisualFails == visual = "requested" /\ Visual("off", "pump") /\ controls_release_for_dialog /\ DialogCloses
VisualGoesOn == visual = "running" /\ Visual("running", "pump") /\ NoRelease /\ DialogIsOpen
VisualCloses == visual = "running" /\ Visual("off", "pump") /\ controls_release_for_dialog /\ DialogCloses

-----------------------------------------------------------------------------
(* numeric_input.c: pvz2_numeric_poll                                       *)

Numeric(next) ==
  /\ phase = "numeric" /\ phase' = next
  /\ UNCHANGED <<missing_samples, visual, gameDown>>

\* Mutant: a commit on its way does not keep the controls from being polled.
NumericPendingPolls ==
  /\ pending_commit # 0
  /\ Numeric("touch") /\ NoRelease /\ UNCHANGED <<imeVars, stale>>

NumericPending ==
  /\ pending_commit # 0
  /\ Numeric("pump") /\ NoRelease /\ UNCHANGED <<imeVars, stale>>

NumericIdle ==
  /\ pending_commit = 0 /\ ~running /\ ~requested
  /\ Numeric("touch") /\ NoRelease /\ UNCHANGED <<imeVars, stale>>

\* `requested` is taken to change between two frames only: DeviceHideKeyboard of
\* another engine thread (java.c:973) between the two looks at it is left out.
NumericOpens ==
  /\ pending_commit = 0 /\ ~running /\ requested
  /\ running' = TRUE
  /\ Numeric("pump") /\ controls_release_for_dialog /\ DialogIsOpen
  /\ UNCHANGED <<requested, pending_commit>>

NumericFails ==
  /\ pending_commit = 0 /\ ~running /\ requested
  /\ requested' = FALSE
  /\ Numeric("touch") /\ controls_release_for_dialog /\ DialogCloses
  /\ UNCHANGED <<running, pending_commit>>

NumericGoesOn ==
  /\ pending_commit = 0 /\ running
  /\ Numeric("pump") /\ NoRelease /\ UNCHANGED <<imeVars, stale>>

NumericCommits ==
  /\ pending_commit = 0 /\ running /\ requested
  /\ running' = FALSE /\ requested' = FALSE
  /\ pending_commit' = 1
  /\ Emit(<<<<"text", "text">>>>)
  /\ Numeric("pump") /\ DialogCloses
  /\ UNCHANGED <<touch_old, fingers, padVars, dialog_release_barrier>>

\* Cancelled, aborted because the game no longer wants it, or failed.
NumericCloses ==
  /\ pending_commit = 0 /\ running
  /\ running' = FALSE /\ requested' = FALSE
  /\ Numeric("pump") /\ NoRelease /\ DialogCloses
  /\ UNCHANGED pending_commit

-----------------------------------------------------------------------------
(* controls.c: controls_poll.  A sample has whatever is pressed, what is     *)
(* stale among it.                                                          *)

TouchSamples == {t \in SUBSET Fingers : stale \cap Fingers \subseteq t}
PadSamples   == {b \in SUBSET Buttons : stale \cap Buttons \subseteq b}

Poll(at, next) ==
  /\ phase = at /\ phase' = next
  /\ UNCHANGED <<stale, visual, imeVars, gameDown>>

\* controls_dialog_barrier: nothing is polled until all is released at once.
\* Mutant: the fingers alone decide.
BarrierForFingersOnly ==
  /\ dialog_release_barrier
  /\ Poll("touch", "pump")
  /\ {} \in TouchSamples
  /\ barrier' = FALSE /\ previous' = {}
  /\ dialog_release_barrier' = FALSE
  /\ UNCHANGED <<touchVars, fingers, held, game_keys, streamVars>>

BarrierWithoutTouch ==
  /\ dialog_release_barrier
  /\ Poll("touch", "pump")
  /\ {} \in TouchSamples
  /\ barrier' = FALSE /\ previous' = {}   \* pvz2_controller_pad without buttons
  /\ \E b \in PadSamples : dialog_release_barrier' = (b # {})
  /\ UNCHANGED <<touchVars, fingers, held, game_keys, streamVars>>

BarrierStays ==
  /\ dialog_release_barrier
  /\ Poll("touch", "pump")
  /\ UNCHANGED <<touchVars, fingers, padVars, streamVars, dialog_release_barrier>>

\* poll_touch
TouchSample ==
  /\ ~dialog_release_barrier /\ Poll("touch", "pad")
  /\ \E t \in TouchSamples : \E moved \in SUBSET (touch_old \cap t) :
       LET ended == touch_old \ t
           begun == t \ touch_old
           any == ended \cup begun \cup moved # {}
       IN /\ Emit(If(any, Ups) \o Calls("up", ended) \o Calls("down", begun) \o Calls("move", moved))
          /\ fingers' = (fingers \ ended) \cup begun \cup moved
          /\ IF any THEN ReleasePad(previous) ELSE UNCHANGED padVars
          /\ touch_old' = t
  /\ missing_samples' = 0
  /\ UNCHANGED dialog_release_barrier

TouchMissing ==
  /\ ~dialog_release_barrier /\ Poll("touch", "pad")
  /\ missing_samples < Missing - 1
  /\ missing_samples' = missing_samples + 1
  /\ UNCHANGED <<touch_old, fingers, padVars, streamVars, dialog_release_barrier>>

TouchLost ==
  /\ ~dialog_release_barrier /\ Poll("touch", "pad")
  /\ missing_samples >= Missing - 1
  /\ missing_samples' = Missing
  /\ release_touches
  /\ UNCHANGED dialog_release_barrier

TouchError ==
  /\ ~dialog_release_barrier /\ Poll("touch", "pad")
  /\ release_touches
  /\ UNCHANGED <<missing_samples, dialog_release_barrier>>

\* poll_pad and pvz2_controller_pad
Pad == Poll("pad", "pump") /\ UNCHANGED <<touchVars, fingers, dialog_release_barrier>>

PadMissing == Pad /\ UNCHANGED <<padVars, streamVars>>

PadError == Pad /\ Emit(Ups) /\ ReleasePad({})

PadUnderFingers ==
  /\ Pad /\ fingers # {}
  /\ previous' \in PadSamples
  /\ UNCHANGED <<held, game_keys, barrier, streamVars>>

PadBarrier ==
  /\ Pad /\ fingers = {} /\ barrier
  /\ \E b \in PadSamples : barrier' = (b # {})
  /\ previous' = {}
  /\ UNCHANGED <<held, game_keys, streamVars>>

PadFree == fingers = {} /\ ~barrier

PadChord ==
  /\ phase = "pad" /\ phase' = "pump" /\ PadFree
  /\ visual' = "requested"
  /\ \E b \in PadSamples : {"cross", "shoulders"} \subseteq b /\ ReleasePad(b)
  /\ Emit(Ups)
  /\ UNCHANGED <<stale, imeVars, gameDown, touchVars, fingers, dialog_release_barrier>>

PadShoulders ==
  /\ Pad /\ PadFree
  /\ \E b \in PadSamples : "shoulders" \in b /\ previous' = b
  /\ Emit(Ups)
  /\ held' = FALSE /\ game_keys' = {}
  /\ UNCHANGED barrier

\* back: Circle means Back and not leaving the seed tray.
PadButtons ==
  /\ Pad /\ PadFree
  /\ \E b \in {x \in PadSamples : "shoulders" \notin x}, back \in BOOLEAN, drag \in BOOLEAN :
       LET pressed  == b \ previous
           released == previous \ b
           keysDown == pressed \cap (IF back THEN KeyButtons ELSE KeyButtons \ {"circle"})
           keysUp   == released \cap game_keys
           pointer  == held /\ "circle" \notin pressed
       IN /\ Emit(Calls("keydown", keysDown \cap {"start"}) \o Calls("keyup", keysUp \cap {"start"})
                  \o If(held /\ ~pointer, <<<<"up", Pointer>>>>)
                  \o Calls("keydown", keysDown \cap {"circle"}) \o Calls("keyup", keysUp \cap {"circle"})
                  \o If("cross" \in pressed, <<<<"down", Pointer>>>>)
                  \o If("cross" \notin pressed /\ pointer /\ drag, <<<<"move", Pointer>>>>)
                  \o If(pointer /\ "cross" \in released, <<<<"up", Pointer>>>>))
          /\ game_keys' = (game_keys \cup keysDown) \ keysUp
          /\ held' = ("cross" \in pressed \/ (pointer /\ "cross" \notin released))
          /\ previous' = b
  /\ UNCHANGED barrier

-----------------------------------------------------------------------------
(* The game's frame: UI_ProcessEvents drains what fits its buffer.          *)

Apply(down, e) ==
  CASE e[1] \in {"down", "keydown"} /\ e[2] \notin down -> down \cup {e[2]}
    [] e[1] \in {"up", "keyup"} /\ e[2] \in down -> down \ {e[2]}
    [] e[1] = "move" /\ e[2] \in down -> down
    [] e[1] = "text" -> down
    [] OTHER -> down \cup {"nonsense"}

Drain(n) ==
  /\ phase = "pump" /\ phase' = "after"
  /\ gameDown' = IF lost THEN {} ELSE FoldLeft(Apply, gameDown, SubSeq(input_queue, 1, n))
  /\ input_queue' = SubSeq(input_queue, n + 1, Len(input_queue))
  /\ pending_commit' =
       IF pending_commit = 1 /\ \E i \in 1 .. n : input_queue[i][1] = "text" THEN 2 ELSE pending_commit
  /\ UNCHANGED <<stale, touchVars, dialog_release_barrier, fingers, padVars, visual,
                 requested, running, ids, lost>>

DrainSome == \E n \in 0 .. Len(input_queue) : Drain(n)

\* pvz2_keyboard_after_frame
AfterFrame ==
  /\ phase = "after" /\ phase' = "tick"
  /\ pending_commit' = IF pending_commit = 2 THEN 0 ELSE pending_commit
  /\ UNCHANGED <<stale, touchVars, dialog_release_barrier, fingers, padVars, visual,
                 requested, running, streamVars, gameDown>>

InputInit ==
  /\ phase = "tick" /\ stale = {}
  /\ touch_old = {} /\ missing_samples = 0 /\ dialog_release_barrier = FALSE
  /\ fingers = {} /\ held = FALSE /\ game_keys = {} /\ previous = {} /\ barrier = FALSE
  /\ visual = "off" /\ requested = FALSE /\ running = FALSE /\ pending_commit = 0
  /\ ids = {} /\ input_queue = <<>> /\ lost = FALSE /\ gameDown = {}

VisualStep  == VisualOff \/ VisualOpens \/ VisualFails \/ VisualGoesOn \/ VisualCloses
NumericStep == \/ NumericPending \/ NumericIdle \/ NumericOpens \/ NumericFails
               \/ NumericGoesOn \/ NumericCommits \/ NumericCloses
TouchStep   == \/ BarrierWithoutTouch \/ BarrierStays \/ TouchSample \/ TouchMissing
               \/ TouchLost \/ TouchError
PadStep     == \/ PadMissing \/ PadError \/ PadUnderFingers \/ PadBarrier \/ PadChord
               \/ PadShoulders \/ PadButtons
InputNext == \/ TickRestarts \/ TickQuiet \/ VisualStep \/ NumericStep \/ TouchStep
        \/ PadStep \/ DrainSome \/ AfterFrame

InputSpec == InputInit /\ [][InputNext]_inputVars

-----------------------------------------------------------------------------
InputTypeOK ==
  /\ phase \in Phases /\ visual \in {"off", "requested", "running"}
  /\ stale \subseteq Fingers \cup Buttons
  /\ touch_old \subseteq Fingers /\ fingers \subseteq Fingers
  /\ missing_samples \in 0 .. Missing
  /\ game_keys \subseteq KeyButtons /\ previous \subseteq Buttons
  /\ {held, barrier, dialog_release_barrier, requested, running, lost} \subseteq BOOLEAN
  /\ pending_commit \in 0 .. 2
  /\ ids \subseteq Fingers \cup {Pointer} /\ Len(input_queue) =< QueueCap

\* The four records of what is down agree, and unless an event was dropped
\* the game will be of the same mind once it has drained the queue: every
\* press it saw is ended exactly once, whatever samples were lost and whoever
\* took the controls over (controls.c:135-219, controller.c:22-45, java.c:232-262).
GameSeesTheSame ==
  /\ InputTypeOK
  /\ touch_old = fingers /\ fingers = ids \cap Fingers
  /\ held <=> Pointer \in ids
  /\ ~lost => FoldLeft(Apply, gameDown, input_queue) = ids \cup game_keys

\* What was pressed while a dialog was open never reaches the game before it
\* is released (controls.c:321-323).
StaleIsBlocked ==
  [][ /\ (ids' \ ids) \cap stale = {}
      /\ (game_keys' \ game_keys) \cap stale = {}
      /\ "cross" \in stale => Pointer \notin ids' \ ids ]_inputVars

\* A text on its way to the game keeps all input away from it until the frame
\* that dispatched it is over, and nothing pushes it out of the queue: with a
\* text lost the game would never be polled for again (numeric_input.c:22-35,
\* java.c:232-240, 328).
CommitIsOnItsWay ==
  /\ pending_commit = 1 <=> \E i \in 1 .. Len(input_queue) : input_queue[i][1] = "text"
  /\ pending_commit = 2 => phase = "after"
=============================================================================
