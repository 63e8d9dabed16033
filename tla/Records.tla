------------------------------- MODULE Records -------------------------------
(***************************************************************************)
(* What the application records of its reads: the coverage trace and its   *)
(* report (SessionTrace) and the MRZ history (MrzHistory).  They meet in   *)
(* the Tk thread, which does one thing at a time, export or save, in the   *)
(* display of a passport, which remembers its MRZ, and in a crash, which   *)
(* leaves the files as they are and nothing else.                          *)
(***************************************************************************)
EXTENDS SessionTrace, Functions

CONSTANTS Mrz, Garbled, Cap  \* as in MrzHistory

VARIABLES
  running, history, disk, saving, log, unsaved,  \* as in MrzHistory
  starts     \* times the application has been started

ASSUME HistoryAssumption == Garbled \notin Mrz /\ Cap \in Nat \ {0}

H == INSTANCE MrzHistory

\* Bounds has two more fields: the MRZs passports show and how often the
\* application is started.
ASSUME RecordsAssumption ==
  \A b \in Bounds : b.mrzs \subseteq Mrz \cup {Garbled} /\ b.starts \in Nat

mrzs == <<running, history, disk, saving, log, unsaved>>
vars == <<trace, mrzs, starts>>

RecordsInit ==
  /\ Init /\ H!Init /\ Range(disk) \subseteq bounds.mrzs
  /\ starts = 0

-----------------------------------------------------------------------------
TkFree == running /\ saving = "idle"

\* The application starts, or starts again, with no trace and no reader.
StartUp == H!Start /\ starts < bounds.starts /\ starts' = starts + 1 /\ UNCHANGED trace

\* It is closed, killed, or loses power, at any moment; sessions go on being counted.
Crash ==
  /\ H!Stop
  /\ status' = Blank /\ outcome' = NoOutcome /\ evidence' = {}
  /\ reader' = 0 /\ known' = {} /\ passed' = {}
  /\ rd' = NoRead /\ acts' = [a \in Slots |-> NoAction] /\ displays' = 0
  /\ export' = NoExport
  /\ UNCHANGED <<bounds, session, done, report, starts>>

Threads ==
  /\ running /\ (ReadThread \/ \E a \in Slots : ActThread(a))
  /\ UNCHANGED <<mrzs, starts>>

\* Buttons, callbacks and the steps of an export, between saves.
Tk == TkFree /\ TkThread /\ UNCHANGED <<mrzs, starts>>

\* _display, of a passport whose DG1 was read or was not.  A passport shown again
\* after Terminal Authentication or Read DG3 is as good as one with the same MRZ.
Display ==
  /\ TkFree /\ export.pc = "idle" /\ displays > 0
  /\ displays' = displays - 1
  /\ (\E mrz \in bounds.mrzs : H!Remember(mrz)) \/ UNCHANGED mrzs
  /\ UNCHANGED <<bounds, session, status, evidence, known, reader, passed, rd, acts, done, export,
                 report, outcome, starts>>

\* Clear read history.
ClearHistory == TkFree /\ export.pc = "idle" /\ H!Clear /\ UNCHANGED <<trace, starts>>

Save == (H!Truncate \/ H!Write) /\ UNCHANGED <<trace, starts>>

Next == StartUp \/ Crash \/ Threads \/ Tk \/ Display \/ ClearHistory \/ Save

Spec == RecordsInit /\ [][Next]_vars

-----------------------------------------------------------------------------
HistoryKept == H!HistoryKept
=============================================================================
