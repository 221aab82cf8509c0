---------------------------- MODULE ReportQueue ----------------------------
(***************************************************************************)
(* The queue of utils/telemetry.c between the frame loop, which reports     *)
(* and must never wait, and the observer, which writes the reports to the   *)
(* log when its lock is free.  Two unsigned counters that wrap, no lock.     *)
(*                                                                         *)
(* A load or a store of a counter is an action; a report is put in its slot *)
(* in two, its text and the line with the count of drops.  Data abstracted: *)
(* the text is the report's number; a card that fails may leave the open    *)
(* line unwritten, which telemetry_try_line does not see.                    *)
(***************************************************************************)
EXTENDS Integers

CONSTANTS
  REPORT_SLOTS,
  Modulus,      \* of the counters (2^32), a multiple of REPORT_SLOTS
  MaxReports    \* bound: reports the frame loop makes

VARIABLES
  reports,      \* slot -> the number in its text, the drops in its last line
  report_write, report_read, \* g_report_write, g_report_read
  dropped,      \* g_reports_dropped
  traced,       \* g_trace_mutex: "free", "log" or "observer"
  frame,        \* the frame loop: "away", "text", "tail", "publish"
  observer,     \* "asleep", "look", "line" or "advance"
  drained,        \* reports written to the log in this wake
  made, taken   \* history: reports made, and given up to the log

counters == <<report_write, report_read, dropped>>
vars == <<reports, counters, traced, frame, observer, drained, made, taken>>

Slot(n) == n % REPORT_SLOTS
InQueue == (report_write - report_read) % Modulus

-----------------------------------------------------------------------------
(* telemetry_report, by the frame loop.                                     *)

\* Mutant: one report more than there are slots.
ReportOneMore ==
  /\ frame = "away" /\ made < MaxReports /\ InQueue =< REPORT_SLOTS
  /\ made' = made + 1
  /\ frame' = "text"
  /\ UNCHANGED <<reports, counters, traced, observer, drained, taken>>

Report ==
  /\ frame = "away" /\ made < MaxReports /\ InQueue # REPORT_SLOTS
  /\ made' = made + 1
  /\ frame' = "text"
  /\ UNCHANGED <<reports, counters, traced, observer, drained, taken>>

ReportDropped ==
  /\ frame = "away" /\ made < MaxReports /\ InQueue = REPORT_SLOTS
  /\ made' = made + 1
  /\ dropped' = dropped + 1
  /\ UNCHANGED <<reports, report_write, report_read, traced, frame, observer, drained, taken>>

ReportText ==
  /\ frame = "text"
  /\ reports' = [reports EXCEPT ![Slot(report_write)].number = made]
  /\ frame' = "tail"
  /\ UNCHANGED <<counters, traced, observer, drained, made, taken>>

ReportTail ==
  /\ frame = "tail"
  /\ reports' = [reports EXCEPT ![Slot(report_write)].drops = dropped]
  /\ frame' = "publish"
  /\ UNCHANGED <<counters, traced, observer, drained, made, taken>>

Publish ==
  /\ frame = "publish"
  /\ report_write' = (report_write + 1) % Modulus
  /\ frame' = "away"
  /\ UNCHANGED <<reports, report_read, dropped, traced, observer, drained, made, taken>>

-----------------------------------------------------------------------------
(* telemetry_reports_drain, by watch_main every second; telemetry_try_line. *)

Wake ==
  /\ observer = "asleep"
  /\ observer' = "look" /\ drained' = 0
  /\ UNCHANGED <<reports, counters, traced, frame, made, taken>>

DrainEnds ==
  /\ observer = "look"
  /\ report_read = report_write \/ drained = REPORT_SLOTS \/ traced # "free"
  /\ observer' = "asleep" /\ drained' = 0
  /\ UNCHANGED <<reports, counters, traced, frame, made, taken>>

DrainLine ==
  /\ observer = "look" /\ report_read # report_write /\ drained < REPORT_SLOTS
  /\ traced = "free" /\ traced' = "observer"
  /\ observer' = "line"
  /\ UNCHANGED <<reports, counters, frame, drained, made, taken>>

\* The log cannot be opened: the report stays where it is.
LineFails ==
  /\ observer = "line"
  /\ traced' = "free"
  /\ observer' = "asleep" /\ drained' = 0
  /\ UNCHANGED <<reports, counters, frame, made, taken>>

LineWritten ==
  /\ observer = "line"
  /\ traced' = "free"
  /\ observer' = "advance"
  /\ UNCHANGED <<reports, counters, frame, drained, made, taken>>

Advance ==
  /\ observer = "advance"
  /\ report_read' = (report_read + 1) % Modulus
  /\ observer' = "look" /\ drained' = drained + 1
  /\ taken' = taken + 1
  /\ UNCHANGED <<reports, report_write, dropped, traced, frame, made>>

\* telemetry_log, by any thread
LogLocks ==
  /\ traced = "free" /\ traced' = "log"
  /\ UNCHANGED <<reports, counters, frame, observer, drained, made, taken>>
LogUnlocks ==
  /\ traced = "log" /\ traced' = "free"
  /\ UNCHANGED <<reports, counters, frame, observer, drained, made, taken>>

-----------------------------------------------------------------------------
Init ==
  /\ reports = [s \in 0 .. REPORT_SLOTS - 1 |-> [number |-> 0, drops |-> 0]]
  /\ report_write = 0 /\ report_read = 0 /\ dropped = 0
  /\ traced = "free" /\ frame = "away"
  /\ observer = "asleep" /\ drained = 0
  /\ made = 0 /\ taken = 0

Next ==
  \/ Report \/ ReportDropped \/ ReportText \/ ReportTail \/ Publish
  \/ Wake \/ DrainEnds \/ DrainLine \/ LineFails \/ LineWritten \/ Advance
  \/ LogLocks \/ LogUnlocks

Spec == Init /\ [][Next]_vars

-----------------------------------------------------------------------------
TypeOK ==
  /\ report_write \in 0 .. Modulus - 1 /\ report_read \in 0 .. Modulus - 1
  /\ dropped \in 0 .. MaxReports /\ made \in 0 .. MaxReports /\ taken \in 0 .. MaxReports
  /\ traced \in {"free", "log", "observer"}
  /\ frame \in {"away", "text", "tail", "publish"}
  /\ observer \in {"asleep", "look", "line", "advance"}
  /\ drained \in 0 .. REPORT_SLOTS

\* While the observer writes a line, what is in the slot is whole and the next
\* report in turn: its number is that of the reports taken before it, itself,
\* and the drops its last line counts.  So none is lost, repeated, torn or
\* unaccounted for, also over a wrap of the counters (telemetry.c:30-38, 46-73).
ReportsAreWhole ==
  /\ TypeOK /\ InQueue =< REPORT_SLOTS
  /\ observer = "line" =>
       LET r == reports[Slot(report_read)] IN r.number = taken + 1 + r.drops
=============================================================================
