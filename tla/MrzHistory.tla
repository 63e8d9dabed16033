------------------------------ MODULE MrzHistory ------------------------------
(***************************************************************************)
(* The history of MRZs read, in memory and in a file of the user's home    *)
(* directory: loaded when the application starts, saved as a whole after   *)
(* each change, on the Tk thread.  A save truncates the file and then      *)
(* writes it; the system may refuse either, and the read at the start (an  *)
(* OSError, which the code drops), and the application may be killed in    *)
(* between.                                                                *)
(*                                                                         *)
(* An entry is its MRZ: the other fields are derived from it or are of the *)
(* read.  The actions change only the variables of this module; Records    *)
(* composes them with the rest of the Tk thread.                           *)
(***************************************************************************)
EXTENDS Lists, SequencesExt

CONSTANTS
  Mrz,      \* machine readable zones of which the fields can be told
  Garbled,  \* a zone of which they cannot
  Cap       \* entries kept (30)

VARIABLES
  running,  \* the application is running
  history,  \* _mrz_history, newest first
  disk,     \* the file: the list in it, or Broken
  saving,   \* where a save is: "idle", "truncating" or "writing"
  log,      \* (history variable) every MRZ the list stands for, oldest first
  unsaved   \* (history variable) the file does not have the list: the last save was
            \* refused, or the file could not be read

mrzs == <<running, history, disk, saving, log, unsaved>>

\* A file that does not parse.
Broken == <<Garbled>>

Without(h, mrz) == Picked(h, {i \in DOMAIN h : h[i] # mrz})
Capped(h) == SubSeq(h, 1, IF Len(h) < Cap THEN Len(h) ELSE Cap)

Init ==
  /\ running = FALSE /\ history = <<>> /\ saving = "idle" /\ unsaved = FALSE
  /\ disk \in {h \in BoundedSeq(Mrz, Cap) : IsInjective(h)}
  /\ log = Reverse(disk)

-----------------------------------------------------------------------------
\* _load_mrz_history_from_disk, of a file that can be read.
Loaded == IF disk = Broken THEN <<>> ELSE disk

\* The application starts.  If what the file should hold was spoiled, by a crash
\* in the middle of a save or before a refused one was made good, the list stands
\* for what was found; and for nothing if the system refuses the read, though the
\* file is intact and may be read at the next start.
Start ==
  /\ ~running /\ running' = TRUE
  /\ \/ /\ history' = Loaded
        /\ log' = IF unsaved THEN Reverse(history') ELSE log
        /\ unsaved' = FALSE
     \/ history' = <<>> /\ log' = <<>> /\ unsaved' = TRUE
  /\ UNCHANGED <<disk, saving>>

\* Mutant of Remembered: the list is capped before the new entry is put in front.
RememberedUncapped(mrz) == <<mrz>> \o Without(Capped(history), mrz)

\* The new entry in front, in place of an older one of the same MRZ.
Remembered(mrz) == Capped(<<mrz>> \o Without(history, mrz))

\* _remember_mrz: nothing is kept of a zone whose fields cannot be told.
Remember(mrz) ==
  /\ running /\ saving = "idle"
  /\ IF mrz = Garbled THEN UNCHANGED mrzs
     ELSE /\ history' = Remembered(mrz)
          /\ log' = Append(log, mrz)
          /\ saving' = "truncating"
          /\ UNCHANGED <<running, disk, unsaved>>

\* _clear_mrz_history.
Clear ==
  /\ running /\ saving = "idle"
  /\ history' = <<>> /\ log' = <<>>
  /\ saving' = "truncating"
  /\ UNCHANGED <<running, disk, unsaved>>

\* write_text opens the file, which truncates it; an empty file does not parse.
Truncate ==
  /\ saving = "truncating"
  /\ \/ disk' = Broken /\ saving' = "writing" /\ UNCHANGED unsaved
     \/ saving' = "idle" /\ unsaved' = TRUE /\ UNCHANGED disk
  /\ UNCHANGED <<running, history, log>>

\* ... and writes the list, all of it or, on a full disk, some.
Write ==
  /\ saving = "writing" /\ saving' = "idle"
  /\ \/ disk' = history /\ unsaved' = FALSE
     \/ unsaved' = TRUE /\ UNCHANGED disk
  /\ UNCHANGED <<running, history, log>>

\* The application is closed or killed: what was in memory is gone, and a save cut
\* short counts as refused.
Stop ==
  /\ running /\ running' = FALSE
  /\ history' = <<>>
  /\ unsaved' = (unsaved \/ saving # "idle")
  /\ saving' = "idle"
  /\ UNCHANGED <<disk, log>>

-----------------------------------------------------------------------------
(* Properties.                                                             *)

\* By the log, a was read after b was read last.
Newer(a, b, mrzLog) ==
  \E i \in DOMAIN mrzLog : mrzLog[i] = a /\ \A j \in DOMAIN mrzLog : mrzLog[j] = b => j < i

\* The list has what is in the log, newest first (and so each once), and nothing is
\* left out but for want of room and of what is older than all in the list.
IsLatest(list, mrzLog) ==
  /\ Len(list) <= Cap /\ ToSet(list) \subseteq ToSet(mrzLog)
  /\ \A i, j \in DOMAIN list : i < j => Newer(list[i], list[j], mrzLog)
  /\ \A mrz \in ToSet(mrzLog) \ ToSet(list) :
       Len(list) = Cap /\ \A i \in DOMAIN list : Newer(list[i], mrz, mrzLog)

\* Across restarts the history is the latest distinct MRZs read since it was last
\* cleared.  Two things alone lose some: a save that was refused or cut short, and
\* not made good by a later one before the application ended; and a start at which
\* the file could not be read, which hides its list and lets the next save put
\* another in its place.
HistoryKept == running => IsLatest(history, log)
=============================================================================
