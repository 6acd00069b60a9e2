-------------------------------- MODULE Clib --------------------------------
(***************************************************************************)
(* The firmware's C library as a program uses it.  Heap, calendar and      *)
(* streams share no variable, so one program uses one of them: whatever it *)
(* did with the others would not change what it sees.  One program more    *)
(* scans one file with one format, for many more files and formats.        *)
(***************************************************************************)
EXTENDS Heap, Calendar, Scanf

CONSTANTS
  Inputs,       \* the texts of that file
  Probes        \* and the formats

VARIABLE use    \* what the program uses: "heap", "time", "stream", "scan"

clibVars == <<heapVars, timeVars, scanVars, use>>

ClibInit ==
  /\ HeapInit /\ CalendarInit /\ ScanInit
  /\ use \in {"heap", "time", "stream", "scan"}

UsesHeap == use = "heap" /\ HeapNext /\ UNCHANGED <<timeVars, scanVars, use>>

UsesTime == use = "time" /\ CalendarNext /\ UNCHANGED <<heapVars, scanVars, use>>

UsesStream == use = "stream" /\ ScanNext /\ UNCHANGED <<heapVars, timeVars, use>>

\* The file may turn out unreadable after its first character.
OpensInput ==
  /\ use = "scan"
  /\ \E input \in Inputs : \E b \in {0, 2} : b <= Len(input) /\ fopen(input, b)
  /\ scan' = NoScan
  /\ UNCHANGED <<heapVars, timeVars, use>>

ScansInput ==
  /\ use = "scan" /\ stream.open /\ scan = NoScan
  /\ \E format \in Probes : fscanf(format)
  /\ UNCHANGED <<heapVars, timeVars, use>>

ClibNext == UsesHeap \/ UsesTime \/ UsesStream \/ OpensInput \/ ScansInput

ClibSpec == ClibInit /\ [][ClibNext]_clibVars
=============================================================================
