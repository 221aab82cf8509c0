------------------------------ MODULE Services ------------------------------
(* What the program keeps for the threads of the game in small tables of its  *)
(* own: the configuration store (UserData), large blocks of memory            *)
(* (HeapFallback), the waits of each thread (WaitSlots) and reports to the    *)
(* log (ReportQueue).  They share no state, so a behaviour uses one of them   *)
(* and leaves the others alone.                                               *)
EXTENDS UserData

CONSTANTS
  PageCount, Sizes, FALLBACK_MIN, FALLBACK_BUDGET, FALLBACK_SLOTS,
  Watched, WATCH_SLOTS, Kinds, Vacant, Claimed,
  REPORT_SLOTS, Modulus, MaxReports

ASSUME HeapAssumption ==
  /\ PageCount \in Nat /\ Sizes \subseteq 1 .. 2 * PageCount
  /\ FALLBACK_MIN \in Nat /\ FALLBACK_BUDGET \in Nat /\ FALLBACK_SLOTS \in Nat
  /\ Absent \notin [ptr : Nat, requested : Nat, bytes : Nat]

ASSUME WaitSlotsAssumption ==
  /\ WATCH_SLOTS \in Nat \ {0}
  /\ "native" \in Kinds /\ Kinds \subseteq {"bridge", "sync", "native"}
  /\ Vacant # Claimed /\ {Absent, Vacant, Claimed} \cap Watched = {}

ASSUME ReportAssumption ==
  /\ REPORT_SLOTS \in Nat \ {0} /\ Modulus \in Nat /\ MaxReports \in Nat
  /\ Modulus > REPORT_SLOTS /\ Modulus % REPORT_SLOTS = 0

VARIABLES
  blocks, reserved_bytes, low_address, high_address, extent, maker, asked, heapCall,
  tid, note, own_slot, stage, search, waits,
  reports, report_write, report_read, dropped, traced, frame, observer, drained, made, taken,
  used

Heap == INSTANCE HeapFallback WITH Users <- Threads, NoBlock <- Absent
Slots == INSTANCE WaitSlots WITH Nobody <- Absent
Reports == INSTANCE ReportQueue

heapVars == <<blocks, reserved_bytes, low_address, high_address, extent, maker, asked, heapCall>>
slotVars == <<tid, note, own_slot, stage, search, waits>>
reportVars == <<reports, report_write, report_read, dropped, traced, frame, observer, drained,
                made, taken>>
allVars == <<vars, heapVars, slotVars, reportVars, used>>

AllInit ==
  /\ Init /\ Heap!Init /\ Slots!Init /\ Reports!Init
  /\ used \in {"data", "heap", "slots", "reports"}
  /\ used # "data" => \A f \in Files : Copies(f) = {}

UseData == used = "data" /\ Next /\ UNCHANGED <<heapVars, slotVars, reportVars, used>>
UseHeap == used = "heap" /\ Heap!Next /\ UNCHANGED <<vars, slotVars, reportVars, used>>
UseSlots == used = "slots" /\ Slots!Next /\ UNCHANGED <<vars, heapVars, reportVars, used>>
UseReports == used = "reports" /\ Reports!Next /\ UNCHANGED <<vars, heapVars, slotVars, used>>

AllSpec == AllInit /\ [][UseData \/ UseHeap \/ UseSlots \/ UseReports]_allVars

\* HeapFallback!PointersGoHome, where it is explained: free and realloc of
\* heap_fallback.c know whose a pointer is, and a moved object is whole.
PointersGoHome == Heap!PointersGoHome

\* WaitSlots!SlotsAreOwned, where it is explained: native_slot and reserve_slot of
\* stall_watch.c give a thread one slot, its own until it ends.
SlotsAreOwned == Slots!SlotsAreOwned

\* ReportQueue!ReportsAreWhole, where it is explained: telemetry_reports_drain
\* writes each report once, whole and in order, with the drops before it counted.
ReportsAreWhole == Reports!ReportsAreWhole
=============================================================================
