------------------------- MODULE EpassportGui_proofs -------------------------
(***************************************************************************)
(* However many reads and actions there are: whatever the user presses,    *)
(* reads do not overlap, no stage of the trace stays running and no        *)
(* connection outlives its read; and as long as the user is orderly,       *)
(* channel, flags, trace and report all speak of the session at hand.      *)
(***************************************************************************)
EXTENDS EpassportGui, SequenceTheorems, FiniteSetTheorems, TLAPS

ReadStates == {"unborn", "connecting", "authenticating", "reading", "failing", "marking", "finally",
               "posting", "done"}

\* A read under way has _reading set and is the last begun.
Guarded ==
  /\ session \in Nat /\ bounds \in Bounds
  /\ rpc \in [Reads -> ReadStates]
  /\ \A s \in Reads : Reading(s) => reading = TRUE /\ s = session

-----------------------------------------------------------------------------
LEMMA ReadsBounded ==
  /\ MaxReads \in Nat /\ MaxActions \in Nat
  /\ \A b \in Bounds : b.reads \in 0 .. MaxReads /\ b.actions \in 0 .. MaxActions
  BY UserAssumption

LEMMA GuardedInit == Init => Guarded
  BY UserAssumption DEF Init, Guarded, Reading, ReadStates, Reads

\* A press of Read passport finds no read under way.
LEMMA GuardedPress == Guarded /\ ReadPassport => Guarded'
<1> SUFFICES ASSUME Guarded, ReadPassport PROVE Guarded'
  OBVIOUS
<1>1. session' = session + 1 /\ session' \in Reads /\ reading' = TRUE /\ bounds' = bounds
  BY ReadsBounded DEF Guarded, ReadPassport, Reads
<1>2. rpc' = [rpc EXCEPT ![session'] = "connecting"]
  BY DEF ReadPassport
<1>3. \A s \in Reads : ~Reading(s)
  BY DEF Guarded, ReadPassport
<1>4. \A s \in Reads : Reading(s)' => s = session'
  BY <1>1, <1>2, <1>3 DEF Guarded, Reading
<1>5. rpc' \in [Reads -> ReadStates]
  BY <1>1, <1>2 DEF Guarded, ReadStates
<1> QED
  BY <1>1, <1>4, <1>5 DEF Guarded

\* The thread of a read stays the only one: it clears the flag before it ends.
LEMMA GuardedRead == ASSUME Guarded, NEW s \in Reads, ReadThread(s) PROVE Guarded'
<1>1. PICK to \in ReadStates :
        /\ rpc' = [rpc EXCEPT ![s] = to]
        /\ session' = session /\ bounds' = bounds
        /\ \/ Reading(s) /\ to # "posting" /\ reading' = reading
           \/ Reading(s) /\ to = "posting"
           \/ to = "done" /\ reading' = reading
  <2>1. CASE FindRunning(s)
    <3>1. rpc[s] = "failing" /\ UNCHANGED <<session, reading, bounds>>
      BY <2>1 DEF FindRunning, conduct
    <3>2. rpc' = [rpc EXCEPT ![s] = "failing"] \/ rpc' = [rpc EXCEPT ![s] = "marking"]
      BY <2>1, <3>1 DEF FindRunning, Guarded
    <3> QED BY <3>1, <3>2 DEF Reading, ReadStates
  <2>2. CASE FailRunning(s) \/ ReadFails(s) \/ ReadingOff(s) \/ ReadEnds(s)
    BY <2>2 DEF FailRunning, ReadFails, ReadingOff, ReadEnds, Reading, ReadStates, conduct
  <2>3. CASE Connect(s) \/ Authenticate(s) \/ ReadAll(s)
    BY <2>3 DEF Connect, Authenticate, ReadAll, Reading, ReadStates, conduct
  <2> QED
    BY <2>1, <2>2, <2>3 DEF ReadThread
<1>2. rpc' \in [Reads -> ReadStates]
  BY <1>1 DEF Guarded
<1>3. \A t \in Reads : rpc'[t] = IF t = s THEN to ELSE rpc[t]
  BY <1>1 DEF Guarded
<1>4. ASSUME NEW t \in Reads, Reading(t)' PROVE reading' = TRUE /\ t = session'
  <2>1. t = s \/ Reading(t)
    BY <1>3, <1>4 DEF Reading
  <2>2. CASE to = "posting"
    BY <2>1, <2>2, <1>1, <1>3, <1>4 DEF Guarded, Reading
  <2>3. CASE to # "posting"
    <3>1. reading' = reading /\ (t = s => Reading(s))
      BY <2>3, <1>1, <1>3, <1>4 DEF Reading
    <3> QED
      BY <3>1, <2>1, <1>1 DEF Guarded
  <2> QED
    BY <2>2, <2>3
<1> QED
  BY <1>1, <1>2, <1>4 DEF Guarded

\* All else leaves the reads as they are.
LEMMA GuardedElse == ASSUME Guarded, UNCHANGED <<session, reading, rpc, bounds>> PROVE Guarded'
  BY DEF Guarded, Reading

LEMMA ActionsElse ==
  ASSUME NEW a \in Actions, ActThread(a) PROVE UNCHANGED <<session, reading, rpc, bounds>>
  BY DEF ActThread, ActBegins, ActExchange, ActDone, ReadDg3Done, TerminalAuthDone, Reread, ActFails, ActEnds,
         conduct

LEMMA TkElse == TkThread => UNCHANGED <<session, reading, rpc, bounds>>
  BY DEF TkThread, KeepReader, Display, EnableRead, ShowFailure, SetButtonsIdle, ExportEfsDone, conduct

LEMMA UserElse == User => ReadPassport \/ UNCHANGED <<session, reading, rpc, bounds>>
  BY DEF User, RefreshReaders, ExportEfs, Press, conduct

LEMMA GuardedStep == Guarded /\ [Next]_vars => Guarded'
<1> SUFFICES ASSUME Guarded, [Next]_vars PROVE Guarded'
  OBVIOUS
<1>1. CASE \E s \in Reads : ReadThread(s)
  BY <1>1, GuardedRead
<1>2. CASE \E a \in Actions : ActThread(a)
  BY <1>2, ActionsElse, GuardedElse
<1>3. CASE TkThread
  BY <1>3, TkElse, GuardedElse
<1>4. CASE User
  BY <1>4, UserElse, GuardedPress, GuardedElse
<1>5. CASE UNCHANGED vars
  BY <1>5, GuardedElse DEF vars, conduct
<1> QED
  BY <1>1, <1>2, <1>3, <1>4, <1>5 DEF Next, Program

\* The invariant behind ReadsApart: read_passport sets _reading before it starts the
\* thread, and the thread clears it as its last step but one.
THEOREM GuardedAlways == Spec => []Guarded
  BY GuardedInit, GuardedStep, PTL DEF Spec

\* Reads never overlap, whatever button Refresh or the end of an action enables
\* and however many reads there are: _reading alone keeps them apart.
THEOREM ReadsApart == Spec => []OneRead
<1>1. Guarded => OneRead
  BY DEF Guarded, OneRead
<1> QED
  BY <1>1, GuardedAlways, PTL

-----------------------------------------------------------------------------
(* The loop of _trace_fail_running.                                        *)

\* The loop begins with the stage of the authentication, and marks a stage there is.
Scanning ==
  /\ scan \in [Reads -> 1 .. 7]
  /\ \A s \in Reads : rpc[s] \in {"unborn", "connecting", "authenticating"} => scan[s] = 1
  /\ \A s \in Reads : s > session => scan[s] = 1
  /\ \A s \in Reads : rpc[s] = "marking" => scan[s] # 7

LEMMA StageList ==
  /\ Len(StageOrder) = 6 /\ StageOrder[1] = "authentication"
  /\ \A i \in 1 .. 6 : StageOrder[i] \in Stages /\ (StageOrder[i] = "authentication" => i = 1)
  BY DEF StageOrder, Stages

LEMMA ScanningInit == Init => Scanning
  BY DEF Init, Scanning

LEMMA ScanningStep == ASSUME Guarded, Scanning, [Next]_vars PROVE Scanning'
<1>0. rpc \in [Reads -> ReadStates] /\ scan \in [Reads -> 1 .. 7]
  BY DEF Guarded, Scanning
<1>1. ASSUME UNCHANGED <<session, rpc, scan>> PROVE Scanning'
  BY <1>1 DEF Scanning
<1>2. ASSUME NEW s \in Reads, FindRunning(s) PROVE Scanning'
  <2>1. rpc[s] = "failing" /\ scan[s] \in 1 .. 6 /\ session' = session /\ ~(s > session)
    BY <1>0, <1>2, StageList DEF FindRunning, Guarded, Reading
  <2>2. CASE rpc' = [rpc EXCEPT ![s] = "marking"] /\ scan' = scan
    BY <1>0, <2>1, <2>2 DEF Scanning
  <2>3. CASE scan' = [scan EXCEPT ![s] = @ + 1] /\ rpc' = rpc
    BY <1>0, <2>1, <2>3 DEF Scanning
  <2> QED BY <1>2, <2>2, <2>3 DEF FindRunning
<1>3. ASSUME NEW s \in Reads, FailRunning(s) PROVE Scanning'
  <2>1. scan[s] \in 1 .. 6 /\ session' = session /\ ~(s > session)
    BY <1>0, <1>3 DEF FailRunning, Scanning, Guarded, Reading
  <2>2. scan' = [scan EXCEPT ![s] = @ + 1] /\ rpc' = [rpc EXCEPT ![s] = "failing"]
    BY <1>3 DEF FailRunning
  <2> QED BY <1>0, <2>1, <2>2 DEF Scanning
<1>4. ASSUME NEW s \in Reads, ReadThread(s), ~FindRunning(s), ~FailRunning(s) PROVE Scanning'
  <2>1. PICK to \in ReadStates :
          /\ scan' = scan /\ session' = session /\ rpc' = [rpc EXCEPT ![s] = to] /\ to # "marking"
          /\ to = "authenticating" => rpc[s] = "connecting"
          /\ to \notin {"unborn", "connecting"}
    BY <1>4 DEF ReadThread, Connect, Authenticate, ReadAll, ReadFails, ReadingOff, ReadEnds, ReadStates
  <2> QED BY <1>0, <2>1 DEF Scanning
<1>5. ASSUME NEW a \in Actions, ActThread(a) PROVE UNCHANGED <<session, rpc, scan>>
  BY <1>5 DEF ActThread, ActBegins, ActExchange, ActDone, ReadDg3Done, TerminalAuthDone, Reread, ActFails, ActEnds
<1>6. CASE TkThread
  BY <1>1, <1>6 DEF TkThread, KeepReader, Display, EnableRead, ShowFailure, SetButtonsIdle, ExportEfsDone
<1>7. CASE ReadPassport
  <2>1. /\ session' = session + 1 /\ session' \in Reads /\ scan' = scan
        /\ rpc' = [rpc EXCEPT ![session'] = "connecting"]
    BY <1>7, ReadsBounded DEF Guarded, ReadPassport, Reads
  <2>2. session \in Nat /\ scan[session'] = 1
    BY <2>1 DEF Guarded, Scanning, Reads
  <2>3. \A s \in Reads : s > session' => s > session
    BY <2>1, <2>2 DEF Reads
  <2> QED BY <1>0, <2>1, <2>2, <2>3 DEF Scanning
<1>8. User => ReadPassport \/ UNCHANGED <<session, rpc, scan>>
  BY DEF User, RefreshReaders, ExportEfs, Press
<1> QED BY <1>1, <1>2, <1>3, <1>4, <1>5, <1>6, <1>7, <1>8 DEF Next, Program, vars

-----------------------------------------------------------------------------
(* The stages of the trace.                                                *)

Numbers == 0 .. MaxReads
Callbacks == [do: {"keep", "display", "enable", "failed", "idle"}, arg: SUBSET Numbers]
ActionStates ==
  [op: {"none", "CA", "TA", "AA", "DG3", "export"}, rd: Numbers,
   pc: {"unborn", "begun", "using", "succeeded", "rereading", "failing", "posting", "done"}]
StageStates == [status: {"not_run", "running", "ok", "failed"}, of: Numbers]

Typed ==
  /\ reader \in Numbers /\ lastPd \subseteq Numbers
  /\ queue \in Seq(Callbacks)
  /\ acts \in [Actions -> ActionStates]
  /\ stages \in [Stages -> StageStates]

LEMMA TypedInit == Init => Typed
  BY UserAssumption DEF Init, Typed, Numbers, Callbacks, ActionStates, StageStates, Idle, NotRun, NoPd

\* A callback posted is one of the kinds there are.
LEMMA Posting ==
  ASSUME Typed, NEW do \in {"keep", "display", "enable", "failed", "idle"}, NEW arg \in SUBSET Numbers, Post(do, arg)
  PROVE  queue' \in Seq(Callbacks)
  BY DEF Typed, Post, Callbacks

LEMMA Serving ==
  ASSUME Typed, NEW do, Serve(do)
  PROVE  queue' \in Seq(Callbacks) /\ Head(queue) \in Callbacks
  BY DEF Typed, Serve

\* A mark leaves the trace well formed.
LEMMA Marking ==
  ASSUME Typed, NEW st \in Stages, NEW status \in {"not_run", "running", "ok", "failed"}, NEW s \in Numbers,
         Mark(st, status, s)
  PROVE  stages' \in [Stages -> StageStates]
  BY DEF Typed, Mark, StageStates

LEMMA TypedRead == ASSUME Typed, Scanning, NEW s \in Reads, ReadThread(s) PROVE Typed'
<1>0. s \in Numbers /\ {} \in SUBSET Numbers /\ {s} \in SUBSET Numbers
  BY DEF Reads, Numbers
<1>1. CASE Connect(s)
  <2>1. queue' \in Seq(Callbacks)
    BY <1>0, <1>1, Posting DEF Connect, Typed
  <2>2. stages' \in [Stages -> StageStates]
    BY <1>0, <1>1, Marking DEF Connect, Typed, Stages
  <2> QED
    BY <1>1, <2>1, <2>2 DEF Connect, Typed
<1>2. CASE Authenticate(s)
  <2>1. queue' \in Seq(Callbacks)
    BY <1>0, <1>2, Posting DEF Authenticate, Typed
  <2>2. stages' \in [Stages -> StageStates]
    BY <1>0, <1>2, Marking DEF Authenticate, Typed, Stages
  <2> QED
    BY <1>2, <2>1, <2>2 DEF Authenticate, Typed
<1>3. CASE ReadAll(s)
  <2>1. queue' \in Seq(Callbacks)
    BY <1>0, <1>3, Posting DEF ReadAll, Data
  <2>2. stages' \in [Stages -> StageStates]
    BY <1>0, <1>3, Marking DEF ReadAll, Stages
  <2> QED
    BY <1>3, <2>1, <2>2 DEF ReadAll, Typed
<1>4. CASE ReadFails(s)
  <2>1. queue' \in Seq(Callbacks)
    BY <1>0, <1>4, Posting DEF ReadFails
  <2> QED
    BY <1>4, <2>1 DEF ReadFails, Typed
<1>7. CASE FindRunning(s)
  BY <1>7 DEF FindRunning, Typed
<1>8. CASE FailRunning(s)
  <2>1. StageOrder[scan[s]] \in Stages
    BY <1>8, StageList DEF FailRunning, Scanning
  <2>2. stages' \in [Stages -> StageStates]
    BY <1>0, <1>8, <2>1, Marking DEF FailRunning
  <2> QED
    BY <1>8, <2>2 DEF FailRunning, Typed
<1>5. CASE ReadingOff(s)
  BY <1>5 DEF ReadingOff, Typed
<1>6. CASE ReadEnds(s)
  <2>1. queue' \in Seq(Callbacks)
    BY <1>0, <1>6, Posting DEF ReadEnds
  <2> QED
    BY <1>6, <2>1 DEF ReadEnds, Typed
<1> QED
  BY <1>1, <1>2, <1>3, <1>4, <1>5, <1>6, <1>7, <1>8 DEF ReadThread

LEMMA TypedAct == ASSUME Typed, NEW a \in Actions, ActThread(a) PROVE Typed'
<1>0. /\ acts[a] \in ActionStates /\ reader \in Numbers
      /\ {} \in SUBSET Numbers /\ acts[a].rd \in Numbers /\ 0 \in Numbers
  BY UserAssumption DEF Typed, Numbers, ActionStates
<1>1. CASE ActBegins(a)
  <2>1. Stage(acts[a].op) \in Stages \/ stages' = stages
    BY <1>0, <1>1 DEF ActBegins, Stage, Stages, ActionStates, Mark, Typed
  <2>2. stages' \in [Stages -> StageStates]
    BY <1>0, <1>1, <2>1, Marking DEF ActBegins, Typed
  <2>3. acts' \in [Actions -> ActionStates]
    BY <1>0, <1>1 DEF ActBegins, Typed, ActionStates
  <2> QED
    BY <1>1, <2>2, <2>3 DEF ActBegins, Typed
<1>2. CASE ActExchange(a)
  <2>1. acts' \in [Actions -> ActionStates]
    BY <1>0, <1>2 DEF ActExchange, Typed, ActionStates
  <2> QED
    BY <1>2, <2>1 DEF ActExchange, Typed
<1>3. CASE ActDone(a)
  <2>1. acts' \in [Actions -> ActionStates]
    BY <1>0, <1>3 DEF ActDone, Typed, ActionStates
  <2>2. stages' \in [Stages -> StageStates]
    BY <1>0, <1>3, Marking DEF ActDone, Stages
  <2> QED
    BY <1>3, <2>1, <2>2 DEF ActDone, Typed
<1>4. CASE ReadDg3Done(a)
  <2>1. acts' \in [Actions -> ActionStates]
    BY <1>0, <1>4 DEF ReadDg3Done, Typed, ActionStates
  <2>2. stages' \in [Stages -> StageStates]
    BY <1>0, <1>4, Marking DEF ReadDg3Done, Stages
  <2>3. lastPd' \in SUBSET Numbers
    BY <1>0, <1>4 DEF ReadDg3Done, Typed
  <2>4. queue' \in Seq(Callbacks)
    BY <1>4, <2>3, Posting DEF ReadDg3Done
  <2> QED
    BY <1>4, <2>1, <2>2, <2>3, <2>4 DEF ReadDg3Done, Typed
<1>5. CASE TerminalAuthDone(a)
  <2>1. acts' \in [Actions -> ActionStates]
    BY <1>0, <1>5 DEF TerminalAuthDone, Typed, ActionStates
  <2>2. stages' \in [Stages -> StageStates]
    BY <1>0, <1>5 DEF TerminalAuthDone, Typed, StageStates, Stages
  <2> QED
    BY <1>5, <2>1, <2>2 DEF TerminalAuthDone, Typed
<1>6. CASE Reread(a)
  <2>1. acts' \in [Actions -> ActionStates]
    BY <1>0, <1>6 DEF Reread, Typed, ActionStates
  <2>2. stages' \in [Stages -> StageStates]
    BY <1>0, <1>6, Marking DEF Reread, Stages
  <2>3. queue' \in Seq(Callbacks)
    BY <1>0, <1>6, Posting DEF Reread, Data
  <2> QED
    BY <1>6, <2>1, <2>2, <2>3 DEF Reread, Typed
<1>7. CASE ActFails(a)
  <2>1. acts' \in [Actions -> ActionStates]
    BY <1>0, <1>7 DEF ActFails, Typed, ActionStates
  <2>2. Stage(acts[a].op) \in Stages \/ stages' = stages
    BY <1>0, <1>7 DEF ActFails, Stage, Stages, ActionStates, Mark, Typed
  <2>3. stages' \in [Stages -> StageStates]
    BY <1>0, <1>7, <2>2, Marking DEF ActFails, Typed
  <2> QED
    BY <1>7, <2>1, <2>3 DEF ActFails, Typed
<1>8. CASE ActEnds(a)
  <2>1. acts' \in [Actions -> ActionStates]
    BY <1>0, <1>8 DEF ActEnds, Typed, ActionStates
  <2>2. queue' \in Seq(Callbacks)
    BY <1>0, <1>8, Posting DEF ActEnds
  <2> QED
    BY <1>8, <2>1, <2>2 DEF ActEnds, Typed
<1> QED
  BY <1>1, <1>2, <1>3, <1>4, <1>5, <1>6, <1>7, <1>8 DEF ActThread

LEMMA TypedTk == Typed /\ TkThread => Typed'
<1> SUFFICES ASSUME Typed, TkThread PROVE Typed'
  OBVIOUS
<1>1. CASE KeepReader
  <2>1. queue' \in Seq(Callbacks) /\ Head(queue) \in Callbacks
    BY <1>1, Serving DEF KeepReader
  <2> QED
    BY <1>1, <2>1 DEF KeepReader, Typed, Callbacks
<1>2. CASE Display
  <2>1. queue' \in Seq(Callbacks) /\ Head(queue) \in Callbacks
    BY <1>2, Serving DEF Display
  <2> QED
    BY <1>2, <2>1 DEF Display, Typed, Callbacks
<1>3. CASE EnableRead \/ ShowFailure \/ SetButtonsIdle
  <2>1. queue' \in Seq(Callbacks)
    BY <1>3, Serving DEF EnableRead, ShowFailure, SetButtonsIdle
  <2> QED
    BY <1>3, <2>1 DEF EnableRead, ShowFailure, SetButtonsIdle, Typed
<1>4. ASSUME NEW a \in Actions, ExportEfsDone(a) PROVE Typed'
  <2>1. acts' \in [Actions -> ActionStates]
    BY <1>4 DEF ExportEfsDone, Typed, ActionStates
  <2> QED
    BY <1>4, <2>1 DEF ExportEfsDone, Typed
<1> QED
  BY <1>1, <1>2, <1>3, <1>4 DEF TkThread

LEMMA TypedUser == Typed /\ User => Typed'
<1> SUFFICES ASSUME Typed, User PROVE Typed'
  OBVIOUS
<1>0. 0 \in Numbers
  BY UserAssumption DEF Numbers
<1>1. CASE ReadPassport
  <2>1. stages' \in [Stages -> StageStates]
    BY <1>0, <1>1 DEF ReadPassport, BeginTrace, NotRun, StageStates
  <2> QED
    BY <1>0, <1>1, <2>1 DEF ReadPassport, ClosePreviousReader, Typed
<1>2. CASE RefreshReaders
  BY <1>2 DEF RefreshReaders, Typed
<1>3. CASE ExportEfs
  <2>1. acts' \in [Actions -> ActionStates]
    BY <1>3 DEF ExportEfs, Typed, ActionStates
  <2> QED
    BY <1>3, <2>1 DEF ExportEfs, Typed
<1>4. ASSUME NEW op \in {"CA", "TA", "AA", "DG3"}, Press(op) PROVE Typed'
  <2>1. acts' \in [Actions -> ActionStates]
    BY <1>0, <1>4 DEF Press, NextAction, Typed, ActionStates
  <2> QED
    BY <1>4, <2>1 DEF Press, Typed
<1> QED
  BY <1>1, <1>2, <1>3, <1>4 DEF User

LEMMA TypedStep == Typed /\ Scanning /\ [Next]_vars => Typed'
<1>1. Typed /\ UNCHANGED vars => Typed'
  BY DEF Typed, vars
<1> QED
  BY <1>1, TypedRead, TypedAct, TypedTk, TypedUser DEF Next, Program

LEMMA ScanningAlways == Spec => []Scanning
  BY ScanningInit, ScanningStep, GuardedAlways, PTL DEF Spec

\* What the threads and the Tk queue share keeps its type, in every order of their steps.
THEOREM TypedAlways == Spec => []Typed
  BY TypedInit, TypedStep, ScanningAlways, PTL DEF Spec

\* The states in which an action has its own stage running, and its re-reading.
Working(a, op) == acts[a].op = op /\ acts[a].pc \in {"using", "succeeded", "failing"}
Rereading(a) == acts[a].op = "TA" /\ acts[a].pc = "rereading"

\* The thread of a read that will yet mark, or at least look at, the authentication.
Attends(s) == rpc[s] = "authenticating" \/ (rpc[s] \in {"failing", "marking"} /\ scan[s] = 1)

\* A stage that shows "running" has a thread that will yet mark it.
Attended ==
  /\ stages["authentication"].status = "running" => \E s \in Reads : Attends(s)
  /\ stages["dg_read"].status # "running"
  /\ \A op \in {"CA", "TA", "AA"} : stages[op].status = "running" => \E a \in Actions : Working(a, op)
  /\ stages["eac_dg_read"].status = "running" => \E a \in Actions : Working(a, "DG3") \/ Rereading(a)

LEMMA AttendedInit == Init => Attended
  BY DEF Init, Attended, NotRun, Stages

\* A step that keeps the stages and takes no thread from its work.
LEMMA AttendedKept ==
  ASSUME Attended, UNCHANGED stages,
         \A s \in Reads : Attends(s) => Attends(s)',
         \A b \in Actions : \A op \in {"CA", "TA", "AA", "DG3"} : Working(b, op) => Working(b, op)',
         \A b \in Actions : Rereading(b) => Rereading(b)'
  PROVE  Attended'
  BY DEF Attended

LEMMA AttendedRead ==
  ASSUME Attended, Typed, Guarded, Scanning, NEW s \in Reads, ReadThread(s)
  PROVE  Attended'
<1>0. /\ stages \in [Stages -> StageStates] /\ rpc \in [Reads -> ReadStates]
      /\ scan \in [Reads -> 1 .. 7] /\ acts' = acts
  BY DEF Typed, Guarded, Scanning, ReadThread, Connect, Authenticate, ReadAll, FindRunning, FailRunning, ReadFails,
         ReadingOff, ReadEnds
<1>1. CASE Connect(s)
  <2>1. (\A t \in Reads : t # s => rpc'[t] = rpc[t]) /\ scan' = scan
    BY <1>0, <1>1 DEF Connect
  <2>2. rpc[s] = "connecting"
    BY <1>1 DEF Connect
  <2>3. CASE stages' = stages
    BY <1>0, <2>1, <2>2, <2>3, AttendedKept DEF Working, Rereading, Attends
  <2>4. CASE Mark("authentication", "running", s) /\ rpc' = [rpc EXCEPT ![s] = "authenticating"]
    BY <1>0, <2>1, <2>4 DEF Mark, Attended, Stages, Working, Rereading, Attends
  <2> QED
    BY <1>1, <2>3, <2>4 DEF Connect
<1>2. CASE Authenticate(s)
  <2>1. (\A t \in Reads : t # s => rpc'[t] = rpc[t]) /\ scan' = scan /\ scan[s] = 1
    BY <1>0, <1>2 DEF Authenticate, Scanning
  <2>2. CASE stages' = stages /\ rpc' = [rpc EXCEPT ![s] = "failing"]
    BY <1>0, <2>1, <2>2, AttendedKept DEF Working, Rereading, Attends
  <2>3. CASE Mark("authentication", "ok", s)
    BY <1>0, <2>1, <2>3 DEF Mark, Attended, Stages, Working, Rereading
  <2> QED
    BY <1>2, <2>2, <2>3 DEF Authenticate
<1>3. CASE ReadAll(s)
  <2>1. (\A t \in Reads : t # s => rpc'[t] = rpc[t]) /\ scan' = scan
    BY <1>0, <1>3 DEF ReadAll
  <2>2. rpc[s] = "reading" /\ Mark("dg_read", "ok", s)
    BY <1>3 DEF ReadAll
  <2> QED
    BY <1>0, <2>1, <2>2 DEF Mark, Attended, Stages, Working, Rereading, Attends
<1>4. CASE FindRunning(s)
  <2>1. stages' = stages /\ rpc[s] = "failing"
    BY <1>4 DEF FindRunning
  <2>2. CASE rpc' = [rpc EXCEPT ![s] = "marking"] /\ scan' = scan
    BY <1>0, <2>1, <2>2, AttendedKept DEF Working, Rereading, Attends
  <2>3. CASE /\ stages[StageOrder[scan[s]]].status # "running"
             /\ scan' = [scan EXCEPT ![s] = @ + 1] /\ rpc' = rpc
    <3>1. \A t \in Reads : t # s => scan'[t] = scan[t]
      BY <1>0, <2>3
    <3>2. CASE scan[s] = 1
      <4>1. stages["authentication"].status # "running"
        BY <2>3, <3>2, StageList
      <4> QED BY <1>0, <2>1, <4>1 DEF Attended, Working, Rereading
    <3>3. CASE scan[s] # 1
      BY <1>0, <2>1, <2>3, <3>1, <3>3, AttendedKept DEF Working, Rereading, Attends
    <3> QED BY <3>2, <3>3
  <2> QED
    BY <1>4, <2>2, <2>3 DEF FindRunning
<1>5. CASE FailRunning(s)
  <2>1. /\ scan[s] \in 1 .. 6 /\ rpc[s] = "marking"
        /\ \A t \in Reads : t # s => rpc'[t] = rpc[t] /\ scan'[t] = scan[t]
        /\ Mark(StageOrder[scan[s]], "failed", s)
    BY <1>0, <1>5 DEF FailRunning, Scanning
  <2>2. PICK st \in Stages : st = StageOrder[scan[s]] /\ (st = "authentication" <=> scan[s] = 1)
    BY <2>1, StageList
  <2>3. stages'[st].status = "failed" /\ \A o \in Stages : o # st => stages'[o] = stages[o]
    BY <1>0, <2>1, <2>2 DEF Mark
  <2>4. stages'["authentication"].status = "running" => \E t \in Reads : Attends(t)'
    <3>1. SUFFICES ASSUME stages'["authentication"].status = "running" PROVE \E t \in Reads : Attends(t)'
      OBVIOUS
    <3>2. scan[s] # 1 /\ stages["authentication"].status = "running"
      BY <2>2, <2>3, <3>1 DEF Stages
    <3>3. PICK t \in Reads : Attends(t)
      BY <3>2 DEF Attended
    <3>4. t # s
      BY <2>1, <3>2, <3>3 DEF Attends
    <3> QED BY <2>1, <3>3, <3>4 DEF Attends
  <2> QED
    BY <1>0, <2>3, <2>4 DEF Attended, Stages, Working, Rereading
<1>6. CASE ReadFails(s)
  <2>1. (\A t \in Reads : t # s => rpc'[t] = rpc[t]) /\ scan' = scan /\ stages' = stages
    BY <1>0, <1>6 DEF ReadFails
  <2>2. scan[s] # 1
    BY <1>6, StageList DEF ReadFails
  <2>3. rpc[s] = "failing"
    BY <1>6 DEF ReadFails
  <2> QED
    BY <1>0, <2>1, <2>2, <2>3, AttendedKept DEF Working, Rereading, Attends
<1>7. CASE ReadingOff(s) \/ ReadEnds(s)
  <2>1. stages' = stages /\ scan' = scan /\ \A t \in Reads : t # s => rpc'[t] = rpc[t]
    BY <1>0, <1>7 DEF ReadingOff, ReadEnds
  <2>2. rpc[s] \in {"finally", "posting"}
    BY <1>7 DEF ReadingOff, ReadEnds
  <2> QED
    BY <1>0, <2>1, <2>2, AttendedKept DEF Working, Rereading, Attends
<1> QED
  BY <1>1, <1>2, <1>3, <1>4, <1>5, <1>6, <1>7 DEF ReadThread

LEMMA AttendedAct == ASSUME Attended, Typed, NEW a \in Actions, ActThread(a) PROVE Attended'
<1>0. /\ stages \in [Stages -> StageStates] /\ acts \in [Actions -> ActionStates]
      /\ acts[a] \in ActionStates
  BY DEF Typed
<1>1. CASE ActBegins(a)
  <2>1. scan' = scan /\ rpc' = rpc /\ \A b \in Actions : b # a => acts'[b] = acts[b]
    BY <1>0, <1>1 DEF ActBegins
  <2>2. acts'[a].op = acts[a].op /\ acts'[a].pc \in {"using", "failing"} /\ acts[a].pc = "begun"
    BY <1>0, <1>1 DEF ActBegins, ActionStates
  <2>3. Mark(Stage(acts[a].op), "running", reader)
    BY <1>1 DEF ActBegins
  <2>4. acts[a].op \in {"none", "CA", "TA", "AA", "DG3"}
    BY <1>0, <1>1 DEF ActBegins, ActionStates
  <2>5. CASE acts[a].op = "none"
    BY <1>0, <2>1, <2>2, <2>3, <2>5 DEF Mark, Stage, Attended, Stages, Working, Rereading, Attends
  <2>6. CASE acts[a].op \in {"CA", "TA", "AA"}
    BY <1>0, <2>1, <2>2, <2>3, <2>6 DEF Mark, Stage, Attended, Stages, Working, Rereading, Attends
  <2>7. CASE acts[a].op = "DG3"
    BY <1>0, <2>1, <2>2, <2>3, <2>7 DEF Mark, Stage, Attended, Stages, Working, Rereading, Attends
  <2> QED
    BY <2>4, <2>5, <2>6, <2>7
<1>2. CASE ActExchange(a)
  <2>1. scan' = scan /\ rpc' = rpc /\ stages' = stages /\ \A b \in Actions : b # a => acts'[b] = acts[b]
    BY <1>0, <1>2 DEF ActExchange
  <2>2. acts'[a].op = acts[a].op /\ acts'[a].pc \in {"succeeded", "failing"} /\ acts[a].pc = "using"
    BY <1>0, <1>2 DEF ActExchange, ActionStates
  <2> QED
    BY <2>1, <2>2, AttendedKept DEF Working, Rereading, Attends
<1>3. CASE ActDone(a)
  <2>1. scan' = scan /\ rpc' = rpc /\ \A b \in Actions : b # a => acts'[b] = acts[b]
    BY <1>0, <1>3 DEF ActDone
  <2>2. acts[a].pc = "succeeded" /\ acts[a].op \in {"CA", "AA"} /\ Mark(acts[a].op, "ok", acts[a].rd)
    BY <1>3 DEF ActDone
  <2> QED
    BY <1>0, <2>1, <2>2 DEF Mark, Attended, Stages, Working, Rereading, Attends
<1>4. CASE ReadDg3Done(a)
  <2>1. scan' = scan /\ rpc' = rpc /\ \A b \in Actions : b # a => acts'[b] = acts[b]
    BY <1>0, <1>4 DEF ReadDg3Done
  <2>2. acts[a].pc = "succeeded" /\ acts[a].op = "DG3" /\ Mark("eac_dg_read", "ok", acts[a].rd)
    BY <1>4 DEF ReadDg3Done
  <2> QED
    BY <1>0, <2>1, <2>2 DEF Mark, Attended, Stages, Working, Rereading, Attends
<1>5. CASE TerminalAuthDone(a)
  <2>1. scan' = scan /\ rpc' = rpc /\ \A b \in Actions : b # a => acts'[b] = acts[b]
    BY <1>0, <1>5 DEF TerminalAuthDone
  <2>2. acts[a].pc = "succeeded" /\ acts[a].op = "TA" /\ acts'[a].op = "TA"
    BY <1>0, <1>5 DEF TerminalAuthDone, ActionStates
  <2>3. stages'["TA"].status = "ok" /\ (stages'["eac_dg_read"].status = "running" => acts'[a].pc = "rereading")
    BY <1>0, <1>5 DEF TerminalAuthDone, Stages, ActionStates
  <2>4. \A st \in Stages \ {"TA", "eac_dg_read"} : stages'[st] = stages[st]
    BY <1>0, <1>5 DEF TerminalAuthDone, Stages
  <2> QED
    BY <2>1, <2>2, <2>3, <2>4 DEF Attended, Stages, Working, Rereading, Attends
<1>6. CASE Reread(a)
  <2>1. scan' = scan /\ rpc' = rpc /\ \A b \in Actions : b # a => acts'[b] = acts[b]
    BY <1>0, <1>6 DEF Reread
  <2>2. acts[a].pc = "rereading" /\ Mark("eac_dg_read", "ok", acts[a].rd)
    BY <1>6 DEF Reread
  <2> QED
    BY <1>0, <2>1, <2>2 DEF Mark, Attended, Stages, Working, Rereading, Attends
<1>7. CASE ActFails(a)
  <2>1. scan' = scan /\ rpc' = rpc /\ \A b \in Actions : b # a => acts'[b] = acts[b]
    BY <1>0, <1>7 DEF ActFails
  <2>2. acts[a].pc = "failing" /\ Mark(Stage(acts[a].op), "failed", acts[a].rd)
    BY <1>7 DEF ActFails
  <2>3. CASE acts[a].op \in {"CA", "TA", "AA"}
    BY <1>0, <2>1, <2>2, <2>3 DEF Mark, Stage, Attended, Stages, Working, Rereading, Attends
  <2>4. CASE acts[a].op = "DG3"
    BY <1>0, <2>1, <2>2, <2>4 DEF Mark, Stage, Attended, Stages, Working, Rereading, Attends
  <2>5. CASE acts[a].op \in {"none", "export"}
    BY <1>0, <2>1, <2>2, <2>5 DEF Mark, Stage, Attended, Stages, Working, Rereading, Attends
  <2> QED
    BY <1>0, <2>3, <2>4, <2>5 DEF ActionStates
<1>8. CASE ActEnds(a)
  <2>1. scan' = scan /\ rpc' = rpc /\ stages' = stages /\ \A b \in Actions : b # a => acts'[b] = acts[b]
    BY <1>0, <1>8 DEF ActEnds
  <2>2. acts[a].pc = "posting"
    BY <1>8 DEF ActEnds
  <2> QED
    BY <2>1, <2>2, AttendedKept DEF Working, Rereading, Attends
<1> QED
  BY <1>1, <1>2, <1>3, <1>4, <1>5, <1>6, <1>7, <1>8 DEF ActThread

LEMMA AttendedTk == Attended /\ Typed /\ TkThread => Attended'
<1> SUFFICES ASSUME Attended, Typed, TkThread PROVE Attended'
  OBVIOUS
<1>1. scan' = scan /\ rpc' = rpc /\ stages' = stages
  BY DEF TkThread, KeepReader, Display, EnableRead, ShowFailure, SetButtonsIdle, ExportEfsDone
<1>2. CASE acts' = acts
  BY <1>1, <1>2, AttendedKept DEF Working, Rereading, Attends
<1>3. ASSUME NEW a \in Actions, ExportEfsDone(a) PROVE Attended'
  <2>1. acts[a].op = "export" /\ \A b \in Actions : b # a => acts'[b] = acts[b]
    BY <1>3 DEF ExportEfsDone, Typed
  <2> QED
    BY <1>1, <2>1, AttendedKept DEF Working, Rereading, Attends
<1> QED
  BY <1>2, <1>3 DEF TkThread, KeepReader, Display, EnableRead, ShowFailure, SetButtonsIdle

LEMMA AttendedUser == Attended /\ Typed /\ Guarded /\ User => Attended'
<1> SUFFICES ASSUME Attended, Typed, Guarded, User PROVE Attended'
  OBVIOUS
<1>1. CASE ReadPassport
  <2>1. \A st \in Stages : stages'[st].status # "running"
    BY <1>1 DEF ReadPassport, BeginTrace, NotRun
  <2> QED
    BY <2>1 DEF Attended, Stages
<1>2. CASE RefreshReaders
  BY <1>2, AttendedKept DEF RefreshReaders, Working, Rereading, Attends
<1>3. ASSUME UNCHANGED <<stages, rpc, scan>>,
             NEW a \in Actions, NEW r, acts[a].pc = "unborn", acts' = [acts EXCEPT ![a] = r]
      PROVE  Attended'
  <2>1. \A b \in Actions : b # a => acts'[b] = acts[b]
    BY <1>3 DEF Typed
  <2> QED
    BY <1>3, <2>1, AttendedKept DEF Working, Rereading, Attends
<1>4. CASE ExportEfs
  BY <1>3, <1>4 DEF ExportEfs, NextAction
<1>5. ASSUME NEW op \in {"CA", "TA", "AA", "DG3"}, Press(op) PROVE Attended'
  BY <1>3, <1>5 DEF Press, NextAction
<1> QED
  BY <1>1, <1>2, <1>4, <1>5 DEF User

LEMMA AttendedStep == Attended /\ Typed /\ Guarded /\ Scanning /\ [Next]_vars => Attended'
<1>1. Attended /\ UNCHANGED vars => Attended'
  BY AttendedKept DEF vars, Working, Rereading, Attends
<1> QED
  BY <1>1, AttendedRead, AttendedAct, AttendedTk, AttendedUser DEF Next, Program

\* When every thread is at its end no stage of the trace is left "running": however
\* many reads and actions overlap, whatever fails, and whatever the user presses.
THEOREM NoStageStays == Spec => []NoStageLeftRunning
<1>1. Attended => NoStageLeftRunning
  BY DEF Attended, NoStageLeftRunning, Stages, Working, Rereading, Attends
<1> QED
  BY <1>1, AttendedInit, AttendedStep, TypedAlways, GuardedAlways, ScanningAlways, PTL DEF Spec

-----------------------------------------------------------------------------
(* Connections, and the session an orderly user sees.                      *)

Entries == 1 .. Len(queue)
Under(s)  == rpc[s] \notin {"unborn", "done"}
Active(a) == acts[a].pc \notin {"unborn", "done"}
Disabled  == readBtn = FALSE /\ eacBtns = FALSE /\ dg3Btn = FALSE

\* A reader is kept once, by the read in progress, which until then has none.
Keeping ==
  /\ reader \in {0, session}
  /\ \A s \in Reads : rpc[s] \in {"connecting", "authenticating", "failing", "marking"} => reader = 0
  /\ \A i \in Entries : queue[i].do = "keep" =>
       /\ session \in Reads /\ rpc[session] = "reading" /\ reader = 0
       /\ queue[i].arg = {session}
       /\ \A j \in Entries : queue[j].do = "keep" => j = i

\* A connection that is open has a read under way, is the reader at hand or is
\* about to be let go with the failure message.
Connected ==
  /\ open \subseteq Reads
  /\ \A s \in open : Under(s) \/ (rpc[s] = "done" /\ (s = reader \/ Posted("failed", s)))

\* An action at work, or whose buttons are still to be enabled, is alone: no read is
\* under way, and until it posts something no callback is waiting.
Alone ==
  /\ \A a \in Actions : Active(a) =>
       /\ acts[a].op # "export" /\ Disabled /\ ReadOver
       /\ \A i \in Entries : queue[i].do # "idle"
       /\ \A b \in Actions : Active(b) => b = a
       /\ acts[a].pc # "posting" => queue = <<>>
       /\ acts[a].pc \notin {"begun", "posting"} => acts[a].rd = reader
  /\ \A i \in Entries : queue[i].do = "idle" =>
       /\ Disabled /\ ReadOver
       /\ \A a \in Actions : ~Active(a)
       /\ \A j \in Entries : queue[j].do = "idle" => j = i

\* What is to be shown comes before the button is enabled ...
Followed ==
  \A i \in Entries : queue[i].do \in {"display", "failed"} =>
    \/ \E s \in Reads : Under(s)
    \/ \E a \in Actions : acts[a].pc = "posting"
    \/ \E j \in Entries : j > i /\ queue[j].do \in {"enable", "idle"}

\* ... and before the next reader is kept; while there is one it is of its session ...
Ordered ==
  /\ \A i, j \in Entries : queue[i].do = "keep" /\ queue[j].do = "display" => j < i
  /\ reader # 0 => \A i \in Entries : queue[i].do = "display" => queue[i].arg \subseteq {0, session}

\* ... and so is the passport at hand, once the read is over.
Shown ==
  reader # 0 =>
    \/ lastPd \subseteq {0, session}
    \/ rpc[session] = "reading"
    \/ \E i \in Entries : /\ queue[i].do = "display"
                         /\ \/ Under(session)
                            \/ \E j \in Entries : j > i /\ queue[j].do = "enable"

\* The reader is in hand, or on its way, when a read reads; and a trace that shows
\* the groups read is that of the reader in hand.
Fetched ==
  /\ \A s \in Reads : rpc[s] = "reading" => reader = s \/ Posted("keep", s)
  /\ stages["dg_read"].status = "ok" =>
       session \in Reads /\ reader = session /\ rpc[session] \in {"finally", "posting", "done"}

\* The data of one passport, whichever, but none of a read still to come.
OfOne(pd) == \E s \in 0 .. session : pd \subseteq {0, s}
Single == OfOne(lastPd) /\ \A i \in Entries : queue[i].do = "display" => OfOne(queue[i].arg)

\* What an action that succeeded was granted.
Rewarded ==
  /\ level \in [Reads -> {"none", "basic", "ca", "ta"}]
  /\ \A a \in Actions : acts[a].pc = "succeeded" =>
       /\ acts[a].rd # 0
       /\ acts[a].op = "CA" => level[acts[a].rd] \in {"ca", "ta"}
       /\ acts[a].op = "TA" => level[acts[a].rd] = "ta"

-----------------------------------------------------------------------------
(* The queue.                                                              *)

Kinds == {"keep", "display", "enable", "failed", "idle"}

LEMMA Posts ==
  ASSUME Typed, NEW do \in Kinds, NEW arg \in SUBSET Numbers, Post(do, arg)
  PROVE  /\ Len(queue) \in Nat /\ Len(queue') = Len(queue) + 1
         /\ \A i \in Entries : i \in Entries' /\ queue'[i] = queue[i]
         /\ \A i \in Entries' : \/ i \in Entries /\ queue'[i] = queue[i]
                                \/ i = Len(queue) + 1 /\ queue'[i].do = do /\ queue'[i].arg = arg
         /\ Len(queue) + 1 \in Entries' /\ \A i \in Entries : i < Len(queue) + 1
<1>1. [do |-> do, arg |-> arg] \in Callbacks /\ queue \in Seq(Callbacks)
  BY DEF Typed, Callbacks, Kinds
<1>2. /\ Len(queue) \in Nat /\ Len(queue') = Len(queue) + 1
      /\ \A i \in 1 .. Len(queue) : queue'[i] = queue[i]
      /\ queue'[Len(queue) + 1] = [do |-> do, arg |-> arg]
  BY <1>1, AppendProperties, LenProperties DEF Post
<1> QED BY <1>2 DEF Entries

LEMMA Serves ==
  ASSUME Typed, NEW do, Serve(do)
  PROVE  /\ Len(queue) \in Nat /\ Len(queue') = Len(queue) - 1
         /\ 1 \in Entries /\ Head(queue) = queue[1] /\ queue[1].do = do /\ queue[1] \in Callbacks
         /\ \A i \in Entries' : i \in Nat /\ i + 1 \in Entries /\ i + 1 # 1 /\ queue'[i] = queue[i + 1]
         /\ \A i \in Entries : i # 1 => i - 1 \in Entries' /\ queue'[i - 1] = queue[i]
<1>1. queue \in Seq(Callbacks) /\ queue # <<>> /\ queue' = Tail(queue) /\ Head(queue).do = do
  BY DEF Typed, Serve
<1>2. /\ Len(queue) \in Nat \ {0} /\ Len(queue') = Len(queue) - 1
      /\ \A i \in 1 .. Len(queue) - 1 : queue'[i] = queue[i + 1]
      /\ Head(queue) = queue[1] /\ queue[1] \in Callbacks
  BY <1>1, HeadTailProperties, EmptySeq, LenProperties, ElementOfSeq
<1> QED BY <1>1, <1>2 DEF Entries

-----------------------------------------------------------------------------
(* Connections, whatever the user presses.                                 *)

NoKeep == \A i \in Entries : queue[i].do # "keep"

\* Nothing but a reader to be kept is posted, or served, and the reads are as they were.
LEMMA KeepingKept ==
  ASSUME Typed, Keeping, UNCHANGED <<session, reader, rpc>>,
         \/ queue' = queue
         \/ \E do \in Kinds \ {"keep"} : \E arg \in SUBSET Numbers : Post(do, arg)
         \/ \E do \in Kinds \ {"keep"} : Serve(do)
  PROVE  Keeping'
<1>1. CASE queue' = queue
  BY <1>1 DEF Keeping, Entries
<1>2. ASSUME NEW do \in Kinds \ {"keep"}, NEW arg \in SUBSET Numbers, Post(do, arg) PROVE Keeping'
  <2>1. \A i \in Entries' : queue'[i].do = "keep" => i \in Entries /\ queue'[i] = queue[i]
    BY <1>2, Posts
  <2> QED BY <2>1 DEF Keeping
<1>3. ASSUME NEW do \in Kinds \ {"keep"}, Serve(do) PROVE Keeping'
  <2>1. \A i \in Entries' : i \in Nat /\ i + 1 \in Entries /\ queue'[i] = queue[i + 1]
    BY <1>3, Serves
  <2>2. \A i, j \in Entries' : queue'[i].do = "keep" /\ queue'[j].do = "keep" => i + 1 = j + 1
    BY <2>1 DEF Keeping
  <2>3. \A i, j \in Entries' : i + 1 = j + 1 => j = i
    BY <2>1
  <2>4. \A i \in Entries' : queue'[i].do = "keep" =>
          session \in Reads /\ rpc[session] = "reading" /\ reader = 0 /\ queue'[i].arg = {session}
    BY <2>1 DEF Keeping
  <2> QED BY <2>2, <2>3, <2>4 DEF Keeping
<1> QED BY <1>1, <1>2, <1>3

LEMMA KeepingRead == ASSUME Typed, Guarded, Keeping, NEW s \in Reads, ReadThread(s) PROVE Keeping'
<1>0. /\ rpc \in [Reads -> ReadStates] /\ UNCHANGED <<session, reader>>
      /\ {} \in SUBSET Numbers /\ {s} \in SUBSET Numbers
  BY DEF Guarded, ReadThread, Connect, Authenticate, ReadAll, FindRunning, FailRunning, ReadFails, ReadingOff,
         ReadEnds, Reads, Numbers
<1>1. Reading(s) => s = session
  BY DEF Guarded
<1>2. rpc[s] \in {"connecting", "authenticating", "failing", "marking", "finally"} => NoKeep
  BY <1>1 DEF Reading, Keeping, NoKeep
<1>3. CASE Connect(s)
  <2>1. reader = 0 /\ NoKeep
    BY <1>2, <1>3 DEF Connect, Keeping
  <2>2. NoKeep'
    <3>1. CASE queue' = queue
      BY <2>1, <3>1 DEF NoKeep, Entries
    <3>2. CASE Post("enable", {})
      BY <1>0, <2>1, <3>2, Posts DEF NoKeep, Kinds
    <3> QED BY <1>3, <3>1, <3>2 DEF Connect
  <2> QED BY <1>0, <2>1, <2>2 DEF Keeping, NoKeep
<1>4. CASE Authenticate(s)
  <2>1. reader = 0 /\ NoKeep /\ s = session
    BY <1>1, <1>2, <1>4 DEF Authenticate, Keeping, Reading
  <2>2. CASE queue' = queue
    <3>1. NoKeep'
      BY <2>1, <2>2 DEF NoKeep, Entries
    <3> QED BY <1>0, <2>1, <3>1 DEF Keeping, NoKeep
  <2>3. CASE Post("keep", {s}) /\ rpc' = [rpc EXCEPT ![s] = "reading"]
    <3>1. \A i \in Entries' : queue'[i].do = "keep" => i = Len(queue) + 1 /\ queue'[i].arg = {session}
      BY <1>0, <2>1, <2>3, Posts DEF NoKeep, Kinds
    <3> QED BY <1>0, <2>1, <2>3, <3>1 DEF Keeping
  <2> QED BY <1>4, <2>2, <2>3 DEF Authenticate
<1>5. CASE ReadAll(s)
  <2>1. NoKeep /\ s = session
    BY <1>1, <1>5 DEF ReadAll, Keeping, Reading, Posted, NoKeep, Entries
  <2>2. PICK pd \in SUBSET Numbers : Post("display", pd)
    BY <1>0, <1>5 DEF ReadAll, Data
  <2>3. NoKeep'
    BY <2>1, <2>2, Posts DEF NoKeep, Kinds
  <2> QED BY <1>0, <1>5, <2>3 DEF Keeping, NoKeep, ReadAll
<1>6. CASE ReadFails(s)
  <2>1. NoKeep'
    BY <1>0, <1>2, <1>6, Posts DEF ReadFails, NoKeep, Kinds
  <2> QED BY <1>0, <1>6, <2>1 DEF Keeping, NoKeep, ReadFails
<1>7. CASE ReadingOff(s)
  <2>1. NoKeep'
    BY <1>2, <1>7 DEF ReadingOff, NoKeep, Entries
  <2> QED BY <1>0, <1>7, <2>1 DEF Keeping, NoKeep, ReadingOff
<1>8. CASE ReadEnds(s)
  <2>1. \A i \in Entries' : queue'[i].do = "keep" => i \in Entries /\ queue'[i] = queue[i]
    BY <1>0, <1>8, Posts DEF ReadEnds, Kinds
  <2>2. rpc[session] = "reading" /\ session \in Reads => rpc'[session] = "reading"
    BY <1>0, <1>8 DEF ReadEnds
  <2> QED BY <1>0, <1>8, <2>1, <2>2 DEF Keeping, ReadEnds
<1>9. CASE FindRunning(s) \/ FailRunning(s)
  <2>1. NoKeep' /\ reader = 0
    BY <1>2, <1>9 DEF FindRunning, FailRunning, NoKeep, Entries, Keeping
  <2> QED BY <1>0, <1>9, <2>1 DEF Keeping, NoKeep
<1> QED BY <1>3, <1>4, <1>5, <1>6, <1>7, <1>8, <1>9 DEF ReadThread

\* A step of an action's thread posts its display or the end of its work.
LEMMA ActPosts ==
  ASSUME Typed, NEW a \in Actions, ActThread(a)
  PROVE  /\ UNCHANGED <<session, reader, rpc, open, ui>>
         /\ \/ queue' = queue
            \/ \E do \in Kinds \ {"keep"} : \E arg \in SUBSET Numbers : Post(do, arg)
<1>0. /\ acts[a] \in ActionStates /\ {} \in SUBSET Numbers
      /\ {acts[a].rd} \in SUBSET Numbers /\ lastPd \cup {acts[a].rd} \in SUBSET Numbers
  BY DEF Typed, ActionStates
<1>1. CASE ReadDg3Done(a)
  BY <1>0, <1>1 DEF ReadDg3Done, Kinds, ui
<1>2. CASE Reread(a)
  BY <1>0, <1>2 DEF Reread, Data, Kinds, ui
<1>3. CASE ActEnds(a)
  BY <1>0, <1>3 DEF ActEnds, Kinds, ui
<1>4. CASE ActBegins(a) \/ ActExchange(a) \/ ActDone(a) \/ TerminalAuthDone(a) \/ ActFails(a)
  BY <1>4 DEF ActBegins, ActExchange, ActDone, TerminalAuthDone, ActFails, ui
<1> QED BY <1>1, <1>2, <1>3, <1>4 DEF ActThread

LEMMA KeepingTk == ASSUME Typed, Guarded, Keeping, TkThread PROVE Keeping'
<1>1. CASE KeepReader
  <2>1. queue[1].do = "keep" /\ 1 \in Entries /\ reader' \in queue[1].arg /\ Serve("keep")
    BY <1>1, Serves DEF KeepReader
  <2>2. reader' = session /\ rpc[session] = "reading" /\ session \in Reads
    BY <2>1 DEF Keeping
  <2>3. \A i \in Entries' : queue'[i].do # "keep"
    <3>1. \A i \in Entries' : i + 1 \in Entries /\ i + 1 # 1 /\ queue'[i] = queue[i + 1]
      BY <2>1, Serves
    <3> QED BY <2>1, <3>1 DEF Keeping
  <2>4. \A s \in Reads : rpc[s] \in {"connecting", "authenticating", "failing", "marking"} => s = session
    BY DEF Guarded, Reading
  <2> QED BY <1>1, <2>2, <2>3, <2>4 DEF Keeping, KeepReader
<1>2. CASE Display \/ EnableRead \/ ShowFailure \/ SetButtonsIdle
  <2>1. UNCHANGED <<session, reader, rpc>> /\ \E do \in Kinds \ {"keep"} : Serve(do)
    BY <1>2 DEF Display, EnableRead, ShowFailure, SetButtonsIdle, Kinds
  <2> QED BY <2>1, KeepingKept
<1>3. CASE \E a \in Actions : ExportEfsDone(a)
  BY <1>3, KeepingKept DEF ExportEfsDone
<1> QED BY <1>1, <1>2, <1>3 DEF TkThread

LEMMA KeepingUser == ASSUME Typed, Guarded, Keeping, User PROVE Keeping'
<1>1. CASE ReadPassport
  <2>1. \A s \in Reads : ~Reading(s)
    BY <1>1 DEF ReadPassport, Guarded
  <2>2. NoKeep'
    BY <1>1, <2>1 DEF ReadPassport, Keeping, NoKeep, Entries, Reading
  <2>3. reader' = 0
    BY <1>1 DEF ReadPassport, ClosePreviousReader
  <2> QED BY <2>2, <2>3 DEF Keeping, NoKeep
<1>2. CASE RefreshReaders \/ ExportEfs \/ (\E op \in {"CA", "TA", "AA", "DG3"} : Press(op))
  BY <1>2, KeepingKept DEF RefreshReaders, ExportEfs, Press
<1> QED BY <1>1, <1>2 DEF User

LEMMA KeepingStep == ASSUME Typed, Guarded, Keeping, [Next]_vars PROVE Keeping'
<1>1. CASE \E a \in Actions : ActThread(a)
  BY <1>1, ActPosts, KeepingKept
<1>2. CASE UNCHANGED vars
  BY <1>2, KeepingKept DEF vars
<1> QED BY <1>1, <1>2, KeepingRead, KeepingTk, KeepingUser DEF Next, Program

LEMMA KeepingInit == Init => Keeping
BY UserAssumption DEF Init, Keeping, Entries, Reads

\* A callback for a read stays in the queue until one of its kind is run.
LEMMA PostedKept ==
  ASSUME Typed, NEW s, NEW kind, Posted(kind, s),
         \/ queue' = queue
         \/ \E do \in Kinds : \E arg \in SUBSET Numbers : Post(do, arg)
         \/ \E do \in Kinds \ {kind} : Serve(do)
  PROVE  Posted(kind, s)'
<1>1. PICK i \in Entries : queue[i].do = kind /\ s \in queue[i].arg
  BY DEF Posted, Entries
<1>2. SUFFICES \E k \in Entries' : queue'[k] = queue[i]
  BY <1>1 DEF Posted, Entries
<1>3. CASE queue' = queue
  BY <1>3 DEF Entries
<1>4. ASSUME NEW do \in Kinds, NEW arg \in SUBSET Numbers, Post(do, arg) PROVE \E k \in Entries' : queue'[k] = queue[i]
  BY <1>4, Posts
<1>5. ASSUME NEW do \in Kinds \ {kind}, Serve(do) PROVE \E k \in Entries' : queue'[k] = queue[i]
  <2>1. i # 1
    BY <1>1, <1>5, Serves
  <2> QED BY <1>5, <2>1, Serves
<1> QED BY <1>3, <1>4, <1>5

LEMMA ConnectedRead == ASSUME Typed, Guarded, Connected, NEW s \in Reads, ReadThread(s) PROVE Connected'
<1>0. /\ rpc \in [Reads -> ReadStates] /\ UNCHANGED reader /\ open \subseteq Reads
      /\ {} \in SUBSET Numbers /\ {s} \in SUBSET Numbers
  BY DEF Guarded, Connected, ReadThread, Connect, Authenticate, ReadAll, FindRunning, FailRunning, ReadFails,
         ReadingOff, ReadEnds, Reads, Numbers
<1>1. \/ queue' = queue
      \/ \E do \in Kinds : \E arg \in SUBSET Numbers : Post(do, arg)
  BY <1>0 DEF ReadThread, Connect, Authenticate, ReadAll, FindRunning, FailRunning, ReadFails, ReadingOff,
              ReadEnds, Data, Kinds
<1>2. \A t \in Reads \ {s} : rpc'[t] = rpc[t]
  BY <1>0 DEF ReadThread, Connect, Authenticate, ReadAll, FindRunning, FailRunning, ReadFails, ReadingOff, ReadEnds
<1>3. \A t \in open \ {s} : Under(t)' \/ (rpc'[t] = "done" /\ (t = reader' \/ Posted("failed", t)'))
  BY <1>0, <1>1, <1>2, PostedKept DEF Connected, Under
<1>4. CASE \/ Connect(s) \/ Authenticate(s) \/ ReadAll(s) \/ FindRunning(s) \/ FailRunning(s) \/ ReadFails(s)
           \/ ReadingOff(s)
  <2>1. Under(s)' /\ open' \subseteq open \cup {s}
    BY <1>0, <1>4 DEF Connect, Authenticate, ReadAll, FindRunning, FailRunning, ReadFails, ReadingOff, Under
  <2> QED BY <1>0, <1>3, <2>1 DEF Connected
<1>5. CASE ReadEnds(s)
  <2>1. rpc'[s] = "done" /\ open' = IF reader = s \/ Posted("failed", s) THEN open ELSE open \ {s}
    BY <1>0, <1>5 DEF ReadEnds
  <2>2. open' \subseteq open /\ (s \in open' => reader' = s \/ Posted("failed", s)')
    BY <1>0, <1>1, <2>1, PostedKept
  <2> QED BY <1>0, <1>3, <2>1, <2>2 DEF Connected
<1> QED BY <1>4, <1>5 DEF ReadThread

LEMMA ConnectedTk == ASSUME Typed, Keeping, Connected, TkThread PROVE Connected'
<1>0. UNCHANGED rpc /\ open' \subseteq open
  BY DEF TkThread, KeepReader, Display, EnableRead, ShowFailure, SetButtonsIdle, ExportEfsDone
<1>1. CASE KeepReader
  <2>1. queue[1].do = "keep" /\ 1 \in Entries /\ Serve("keep")
    BY <1>1, Serves DEF KeepReader
  <2>2. reader = 0 /\ 0 \notin Reads /\ \E do \in Kinds \ {"failed"} : Serve(do)
    BY <2>1 DEF Keeping, Reads, Kinds
  <2> QED BY <1>0, <2>2, PostedKept DEF Connected, Under
<1>2. CASE Display \/ EnableRead \/ SetButtonsIdle
  <2>1. UNCHANGED reader /\ \E do \in Kinds \ {"failed"} : Serve(do)
    BY <1>2 DEF Display, EnableRead, SetButtonsIdle, Kinds
  <2> QED BY <1>0, <2>1, PostedKept DEF Connected, Under
<1>3. CASE ShowFailure
  <2>1. /\ UNCHANGED reader /\ Serve("failed") /\ Head(queue) = queue[1]
        /\ open' = open \ {s \in Head(queue).arg : rpc[s] = "done"}
    BY <1>3, Serves DEF ShowFailure
  <2>2. ASSUME NEW s \in open', Posted("failed", s), rpc[s] = "done" PROVE Posted("failed", s)'
    <3>1. PICK i \in Entries : queue[i].do = "failed" /\ s \in queue[i].arg
      BY <2>2 DEF Posted, Entries
    <3>2. i # 1
      BY <2>1, <2>2, <3>1
    <3>3. i - 1 \in Entries' /\ queue'[i - 1] = queue[i]
      BY <2>1, <3>2, Serves
    <3> QED BY <3>1, <3>3 DEF Posted, Entries
  <2> QED BY <1>0, <2>1, <2>2 DEF Connected, Under
<1>4. CASE \E a \in Actions : ExportEfsDone(a)
  <2>1. UNCHANGED <<reader, queue>>
    BY <1>4 DEF ExportEfsDone
  <2> QED BY <1>0, <2>1 DEF Connected, Under, Posted
<1> QED BY <1>1, <1>2, <1>3, <1>4 DEF TkThread

LEMMA ConnectedUser == ASSUME Typed, Guarded, Connected, User PROVE Connected'
<1>1. CASE ReadPassport
  <2>1. rpc' = [rpc EXCEPT ![session'] = "connecting"] /\ open' = open \ {reader} /\ queue' = queue
    BY <1>1 DEF ReadPassport, ClosePreviousReader
  <2>2. \A s \in Reads : rpc'[s] = rpc[s] \/ rpc'[s] = "connecting"
    BY <2>1 DEF Guarded
  <2> QED BY <2>1, <2>2 DEF Connected, Under, Posted
<1>2. CASE RefreshReaders \/ ExportEfs \/ (\E op \in {"CA", "TA", "AA", "DG3"} : Press(op))
  <2>1. UNCHANGED <<reader, queue, rpc, open>>
    BY <1>2 DEF RefreshReaders, ExportEfs, Press
  <2> QED BY <2>1 DEF Connected, Under, Posted
<1> QED BY <1>1, <1>2 DEF User

LEMMA ConnectedStep == ASSUME Typed, Guarded, Keeping, Connected, [Next]_vars PROVE Connected'
<1>1. ASSUME NEW a \in Actions, ActThread(a) PROVE Connected'
  BY <1>1, ActPosts, PostedKept DEF Connected, Under
<1>2. CASE UNCHANGED vars
  BY <1>2 DEF vars, Connected, Under, Posted
<1> QED BY <1>1, <1>2, ConnectedRead, ConnectedTk, ConnectedUser DEF Next, Program

\* The invariant behind NoneLeft: a reader is kept by the read in progress alone, and
\* whatever is open has somebody who will close it (_keep_reader, _read_worker).
THEOREM ConnectedAlways == Spec => [](Keeping /\ Connected)
<1>1. Init => Keeping /\ Connected
  BY KeepingInit DEF Init, Connected
<1>2. Typed /\ Guarded /\ Keeping /\ Connected /\ [Next]_vars => (Keeping /\ Connected)'
  BY KeepingStep, ConnectedStep
<1> QED BY <1>1, <1>2, TypedAlways, GuardedAlways, PTL DEF Spec

\* However many reads and actions there are, and whatever the user presses: at rest
\* no connection is open but that of the reader at hand (_close_previous_reader, the
\* references of a thread and of its failure message).
THEOREM NoneLeft == Spec => []NoConnectionLeft
<1>1. Connected => NoConnectionLeft
  <2> SUFFICES ASSUME Connected, AtRest, NEW s \in open PROVE s = reader
    BY DEF NoConnectionLeft
  <2>1. ~Under(s)
    BY DEF Connected, AtRest, ReadOver, Under
  <2>2. ~Posted("failed", s)
    BY DEF AtRest, Posted
  <2> QED BY <2>1, <2>2 DEF Connected
<1> QED BY <1>1, ConnectedAlways, PTL

-----------------------------------------------------------------------------
(* Actions, of an orderly user.                                            *)

\* While a read is under way no action is, and none has just ended.
LEMMA ReadsAlone ==
  ASSUME Alone,
         (\E s \in Reads : Under(s)) \/ (\E i \in Entries : queue[i].do \in {"keep", "enable"})
  PROVE  (\A a \in Actions : ~Active(a)) /\ (\A i \in Entries : queue[i].do # "idle")
<1>1. ~ReadOver
  BY DEF ReadOver, Under, Entries
<1> QED BY <1>1 DEF Alone

LEMMA ReadPosts ==
  ASSUME Typed, Guarded, NEW s \in Reads, ReadThread(s)
  PROVE  /\ Under(s) /\ UNCHANGED <<session, reader, acts, lastPd, ui, caDone, taDone>>
         /\ \A t \in Reads \ {s} : rpc'[t] = rpc[t]
         /\ \/ queue' = queue
            \/ \E do \in Kinds \ {"idle"} : \E arg \in SUBSET Numbers : Post(do, arg)
<1>1. {} \in SUBSET Numbers /\ {s} \in SUBSET Numbers /\ rpc \in [Reads -> ReadStates]
  BY DEF Guarded, Reads, Numbers
<1>2. CASE \/ Connect(s) \/ Authenticate(s) \/ FindRunning(s) \/ FailRunning(s) \/ ReadFails(s)
           \/ ReadingOff(s) \/ ReadEnds(s)
  BY <1>1, <1>2 DEF Connect, Authenticate, FindRunning, FailRunning, ReadFails, ReadingOff, ReadEnds, Kinds, ui, Under
<1>3. CASE ReadAll(s)
  BY <1>1, <1>3 DEF ReadAll, Data, Kinds, ui, Under
<1> QED BY <1>2, <1>3 DEF ReadThread

\* No entry of a kind appears by a step that posts, or serves, others.
LEMMA NoneAppears ==
  ASSUME Typed, NEW kind, \A i \in Entries : queue[i].do # kind,
         \/ queue' = queue
         \/ \E do \in Kinds \ {kind} : \E arg \in SUBSET Numbers : Post(do, arg)
         \/ \E do : Serve(do)
  PROVE  \A i \in Entries' : queue'[i].do # kind
<1>1. CASE queue' = queue
  BY <1>1 DEF Entries
<1>2. ASSUME NEW do \in Kinds \ {kind}, NEW arg \in SUBSET Numbers, Post(do, arg)
      PROVE  \A i \in Entries' : queue'[i].do # kind
  BY <1>2, Posts
<1>3. ASSUME NEW do, Serve(do) PROVE \A i \in Entries' : queue'[i].do # kind
  <2>1. \A i \in Entries' : i + 1 \in Entries /\ queue'[i] = queue[i + 1]
    BY <1>3, Serves
  <2> QED BY <2>1
<1> QED BY <1>1, <1>2, <1>3

LEMMA AloneRead == ASSUME Typed, Guarded, Alone, NEW s \in Reads, ReadThread(s) PROVE Alone'
<1>1. (\A a \in Actions : ~Active(a)) /\ (\A i \in Entries : queue[i].do # "idle")
  BY ReadPosts, ReadsAlone
<1>2. \A i \in Entries' : queue'[i].do # "idle"
  BY <1>1, ReadPosts, NoneAppears
<1>3. \A a \in Actions : ~Active(a)'
  BY <1>1, ReadPosts DEF Active
<1> QED BY <1>2, <1>3 DEF Alone

\* A step of an action: it goes on, with what it has to show posted last, or it ends.
LEMMA ActMoves ==
  ASSUME Typed, Alone, NEW a \in Actions, ActThread(a)
  PROVE  /\ Active(a) /\ Disabled /\ ReadOver
         /\ \A b \in Actions \ {a} : acts'[b] = acts[b] /\ ~Active(b)
         /\ \A i \in Entries : queue[i].do # "idle"
         /\ \/ /\ acts[a].pc # "posting" /\ queue = <<>> /\ acts'[a].op = acts[a].op
               /\ acts'[a].pc \in {"using", "succeeded", "rereading", "failing", "posting"}
               /\ \/ acts'[a].pc = "posting"
                  \/ acts'[a].rd = reader /\ queue' = queue
               /\ queue' = queue \/ \E arg \in SUBSET Numbers : Post("display", arg)
            \/ /\ acts[a].pc = "posting" /\ acts'[a].pc = "done" /\ acts'[a].op = acts[a].op
               /\ Post("idle", {})
<1>0. /\ acts \in [Actions -> ActionStates] /\ acts[a] \in ActionStates
      /\ {acts[a].rd} \in SUBSET Numbers /\ lastPd \cup {acts[a].rd} \in SUBSET Numbers
      /\ {} \in SUBSET Numbers
  BY DEF Typed, ActionStates
<1>1. Active(a)
  BY DEF ActThread, ActBegins, ActExchange, ActDone, ReadDg3Done, TerminalAuthDone, Reread, ActFails, ActEnds,
         Active
<1>2. /\ Disabled /\ ReadOver /\ (\A b \in Actions \ {a} : ~Active(b))
      /\ \A i \in Entries : queue[i].do # "idle"
      /\ (acts[a].pc # "posting" => queue = <<>>)
      /\ (acts[a].pc \notin {"begun", "posting"} => acts[a].rd = reader)
  BY <1>1 DEF Alone
<1>3. \A b \in Actions \ {a} : acts'[b] = acts[b]
  BY <1>0 DEF ActThread, ActBegins, ActExchange, ActDone, ReadDg3Done, TerminalAuthDone, Reread, ActFails, ActEnds
<1>4. CASE ActBegins(a)
  BY <1>0, <1>1, <1>2, <1>3, <1>4 DEF ActBegins, ActionStates
<1>5. CASE ActExchange(a)
  BY <1>0, <1>1, <1>2, <1>3, <1>5 DEF ActExchange, ActionStates
<1>6. CASE ActDone(a) \/ ActFails(a)
  BY <1>0, <1>1, <1>2, <1>3, <1>6 DEF ActDone, ActFails, ActionStates
<1>7. CASE ReadDg3Done(a)
  BY <1>0, <1>1, <1>2, <1>3, <1>7 DEF ReadDg3Done, ActionStates
<1>8. CASE TerminalAuthDone(a)
  BY <1>0, <1>1, <1>2, <1>3, <1>8 DEF TerminalAuthDone, ActionStates
<1>9. CASE Reread(a)
  BY <1>0, <1>1, <1>2, <1>3, <1>9 DEF Reread, ActionStates, Data
<1>10. CASE ActEnds(a)
  BY <1>0, <1>1, <1>2, <1>3, <1>10 DEF ActEnds, ActionStates
<1> QED BY <1>4, <1>5, <1>6, <1>7, <1>8, <1>9, <1>10 DEF ActThread

LEMMA AloneAct == ASSUME Typed, Alone, NEW a \in Actions, ActThread(a) PROVE Alone'
<1>0. /\ acts[a].op # "export" /\ Disabled' /\ UNCHANGED <<rpc, reader>>
      /\ Active(a) /\ ReadOver /\ (\A i \in Entries : queue[i].do # "idle")
      /\ \A b \in Actions \ {a} : ~Active(b) /\ ~Active(b)'
      /\ {} \in SUBSET Numbers
  BY ActMoves, ActPosts DEF Alone, Disabled, Active, ui
<1>1. \A i \in Entries : queue[i].do \notin {"keep", "enable", "idle"}
  BY <1>0 DEF ReadOver, Entries
<1>2. CASE /\ acts'[a].op = acts[a].op
           /\ acts'[a].pc \in {"using", "succeeded", "rereading", "failing", "posting"}
           /\ (acts'[a].pc = "posting" \/ (queue' = <<>> /\ acts'[a].rd = reader))
           /\ (queue' = queue \/ \E arg \in SUBSET Numbers : Post("display", arg))
  <2>1. \A i \in Entries' : queue'[i].do # "keep" /\ queue'[i].do # "enable" /\ queue'[i].do # "idle"
    BY <1>1, <1>2, NoneAppears DEF Kinds
  <2>2. ReadOver'
    BY <1>0, <2>1 DEF ReadOver, Entries
  <2> QED BY <1>0, <1>2, <2>1, <2>2 DEF Alone
<1>3. CASE acts[a].pc = "posting" /\ acts'[a].pc = "done" /\ Post("idle", {})
  <2>1. \A i \in Entries' : queue'[i].do # "keep" /\ queue'[i].do # "enable"
    BY <1>0, <1>1, <1>3, NoneAppears DEF Kinds
  <2>2. \A i \in Entries' : queue'[i].do = "idle" => i = Len(queue) + 1
    BY <1>0, <1>1, <1>3, Posts DEF Kinds
  <2>3. ReadOver'
    BY <1>0, <2>1 DEF ReadOver, Entries
  <2>4. \A b \in Actions : ~Active(b)'
    BY <1>0, <1>3 DEF Active
  <2> QED BY <1>0, <2>2, <2>3, <2>4 DEF Alone
<1> QED BY <1>2, <1>3, ActMoves

LEMMA AloneTk == ASSUME Typed, Alone, TkThread PROVE Alone'
<1>1. CASE KeepReader \/ EnableRead
  <2>1. UNCHANGED acts /\ \E do \in {"keep", "enable"} : Serve(do)
    BY <1>1 DEF KeepReader, EnableRead
  <2>2. (\A a \in Actions : ~Active(a)) /\ (\A i \in Entries : queue[i].do # "idle")
    BY <2>1, Serves, ReadsAlone
  <2>3. \A i \in Entries' : queue'[i].do # "idle"
    BY <2>1, <2>2, NoneAppears
  <2> QED BY <2>1, <2>2, <2>3 DEF Alone, Active
<1>2. CASE Display \/ ShowFailure
  <2>1. UNCHANGED <<acts, rpc, ui, reader>> /\ \E do : Serve(do)
    BY <1>2 DEF Display, ShowFailure, ui
  <2>2. queue # <<>> /\ \A i \in Entries' : i \in Nat /\ i + 1 \in Entries /\ queue'[i] = queue[i + 1]
    BY <2>1, Serves DEF Serve
  <2>3. ReadOver => ReadOver'
    BY <2>1, <2>2 DEF ReadOver, Entries
  <2>4. ASSUME NEW a \in Actions, Active(a)'
        PROVE  /\ acts[a].op # "export" /\ Disabled /\ ReadOver /\ acts[a].pc = "posting"
               /\ \A i \in Entries' : queue'[i].do # "idle"
               /\ \A b \in Actions : Active(b)' => b = a
    BY <2>1, <2>2, <2>4 DEF Alone, Active
  <2>5. ASSUME NEW i \in Entries', queue'[i].do = "idle"
        PROVE  /\ Disabled /\ ReadOver /\ (\A a \in Actions : ~Active(a))
               /\ \A j \in Entries' : queue'[j].do = "idle" => j + 1 = i + 1
    BY <2>2, <2>5 DEF Alone
  <2>6. \A i, j \in Entries' : j + 1 = i + 1 => j = i
    BY <2>2
  <2> QED BY <2>1, <2>3, <2>4, <2>5, <2>6 DEF Alone, Active, Disabled, ui
<1>3. CASE SetButtonsIdle
  <2>1. UNCHANGED acts /\ Serve("idle")
    BY <1>3 DEF SetButtonsIdle
  <2>2. /\ 1 \in Entries /\ queue[1].do = "idle"
        /\ \A i \in Entries' : i + 1 \in Entries /\ i + 1 # 1 /\ queue'[i] = queue[i + 1]
    BY <2>1, Serves
  <2>3. (\A a \in Actions : ~Active(a)) /\ \A i \in Entries' : queue'[i].do # "idle"
    BY <2>2 DEF Alone
  <2> QED BY <2>1, <2>3 DEF Alone, Active
<1>4. CASE \E a \in Actions : ExportEfsDone(a)
  BY <1>4 DEF ExportEfsDone, Alone, Active
<1> QED BY <1>1, <1>2, <1>3, <1>4 DEF TkThread

\* A button is pressed when nothing is at work and nothing is waiting.
LEMMA PressAtRest ==
  ASSUME orderly', Typed, Alone, Followed, NEW op, Press(op)
  PROVE  /\ ReadOver /\ queue = <<>> /\ (\A a \in Actions : ~Active(a))
<1>1. ReadOver
  BY DEF Press
<1>2. ~Disabled
  BY DEF Press, Disabled
<1>3. (\A a \in Actions : ~Active(a)) /\ (\A i \in Entries : queue[i].do # "idle")
  BY <1>2 DEF Alone
<1>4. \A i \in Entries : queue[i].do \notin {"keep", "enable"}
  BY <1>1 DEF ReadOver, Entries
<1>5. \A i \in Entries : queue[i].do \notin {"display", "failed"}
  BY <1>1, <1>3, <1>4 DEF Followed, ReadOver, Under, Active
<1>6. queue \in Seq(Callbacks) /\ \A i \in Entries : queue[i] \in Callbacks
  BY ElementOfSeq DEF Typed, Entries
<1>7. Entries = {}
  BY <1>3, <1>4, <1>5, <1>6 DEF Callbacks
<1>8. Len(queue) = 0
  BY <1>6, <1>7, LenProperties DEF Entries
<1> QED BY <1>1, <1>3, <1>6, <1>8, EmptySeq

LEMMA AloneUser == ASSUME orderly', Typed, Alone, Followed, User PROVE Alone'
<1>1. CASE ReadPassport
  <2>1. ~Disabled /\ UNCHANGED <<acts, queue>>
    BY <1>1 DEF ReadPassport, Disabled
  <2> QED BY <2>1 DEF Alone, Active, Entries
<1>2. CASE RefreshReaders
  <2>1. AtRest /\ UNCHANGED <<acts, queue>>
    BY <1>2 DEF RefreshReaders
  <2> QED BY <2>1 DEF AtRest, Alone, Active, Entries
<1>3. CASE ExportEfs
  BY <1>3 DEF ExportEfs
<1>4. ASSUME NEW op \in {"CA", "TA", "AA", "DG3"}, Press(op) PROVE Alone'
  <2>1. /\ ReadOver /\ queue = <<>> /\ \A a \in Actions : ~Active(a)
    BY <1>4, PressAtRest
  <2>2. PICK a \in Actions : acts' = [acts EXCEPT ![a] = [op |-> op, pc |-> "begun", rd |-> 0]]
    BY <1>4 DEF Press
  <2>3. /\ \A b \in Actions : Active(b)' => b = a
        /\ acts'[a].op # "export" /\ acts'[a].pc = "begun"
    BY <2>1, <2>2 DEF Active, Typed
  <2>4. UNCHANGED <<queue, rpc>> /\ Disabled' /\ Entries' = {} /\ ReadOver'
    BY <1>4, <2>1 DEF Press, SetButtonsBusy, Disabled, Entries, ReadOver
  <2> QED BY <2>1, <2>3, <2>4 DEF Alone
<1> QED BY <1>1, <1>2, <1>3, <1>4 DEF User

LEMMA AloneStep == ASSUME orderly', Typed, Guarded, Alone, Followed, [Next]_vars PROVE Alone'
<1>1. CASE UNCHANGED vars
  BY <1>1 DEF vars, Alone, Active, Entries, Disabled, ReadOver, ui
<1> QED BY <1>1, AloneRead, AloneAct, AloneTk, AloneUser DEF Next, Program

-----------------------------------------------------------------------------
(* Callbacks, of an orderly user.                                          *)

LEMMA FollowedRead == ASSUME Typed, Guarded, Followed, NEW s \in Reads, ReadThread(s) PROVE Followed'
<1>0. rpc \in [Reads -> ReadStates] /\ {} \in SUBSET Numbers
  BY DEF Guarded
<1>1. CASE \/ Connect(s) \/ Authenticate(s) \/ ReadAll(s) \/ FindRunning(s) \/ FailRunning(s) \/ ReadFails(s)
           \/ ReadingOff(s)
  <2>1. Under(s)'
    BY <1>0, <1>1 DEF Connect, Authenticate, ReadAll, FindRunning, FailRunning, ReadFails, ReadingOff, Under
  <2> QED BY <2>1 DEF Followed
<1>2. CASE ReadEnds(s)
  <2>1. Post("enable", {})
    BY <1>2 DEF ReadEnds
  <2>2. PICK n \in Entries' : queue'[n].do = "enable" /\ \A i \in Entries' : i # n => i < n
    BY <1>0, <2>1, Posts DEF Kinds
  <2>3. \A i \in Entries' : queue'[i].do \in {"display", "failed"} => n > i
    BY <2>2 DEF Entries
  <2> QED BY <2>2, <2>3 DEF Followed
<1> QED BY <1>1, <1>2 DEF ReadThread

LEMMA FollowedAct == ASSUME Typed, Alone, Followed, NEW a \in Actions, ActThread(a) PROVE Followed'
<1>1. CASE acts'[a].pc = "posting"
  BY <1>1 DEF Followed
<1>2. CASE queue' = <<>>
  <2>1. Entries' = {}
    BY <1>2 DEF Entries
  <2> QED BY <2>1 DEF Followed
<1>3. CASE Post("idle", {})
  <2>1. PICK n \in Entries' : queue'[n].do = "idle" /\ \A i \in Entries' : i # n => i < n
    BY <1>3, Posts DEF Kinds
  <2>2. \A i \in Entries' : queue'[i].do \in {"display", "failed"} => n > i
    BY <2>1 DEF Entries
  <2> QED BY <2>1, <2>2 DEF Followed
<1> QED BY <1>1, <1>2, <1>3, ActMoves

LEMMA FollowedTk == ASSUME Typed, Alone, Followed, TkThread PROVE Followed'
<1>1. CASE \E a \in Actions : ExportEfsDone(a)
  BY <1>1 DEF ExportEfsDone, Alone, Active
<1>2. CASE KeepReader \/ Display \/ EnableRead \/ ShowFailure \/ SetButtonsIdle
  <2>1. UNCHANGED <<rpc, acts>> /\ \E do : Serve(do)
    BY <1>2 DEF KeepReader, Display, EnableRead, ShowFailure, SetButtonsIdle
  <2>2. SUFFICES ASSUME NEW i \in Entries', queue'[i].do \in {"display", "failed"},
                        \A s \in Reads : ~Under(s), \A a \in Actions : acts[a].pc # "posting"
                 PROVE  \E j \in Entries' : j > i /\ queue'[j].do \in {"enable", "idle"}
    BY <2>1 DEF Followed, Under
  <2>3. i \in Nat /\ i + 1 \in Entries /\ queue'[i] = queue[i + 1]
    BY <2>1, Serves
  <2>4. PICK j \in Entries : j > i + 1 /\ queue[j].do \in {"enable", "idle"}
    BY <2>2, <2>3 DEF Followed
  <2>5. j # 1 /\ j - 1 > i
    BY <2>3, <2>4 DEF Entries
  <2>6. j - 1 \in Entries' /\ queue'[j - 1] = queue[j]
    BY <2>1, <2>5, Serves
  <2> QED BY <2>4, <2>5, <2>6
<1> QED BY <1>1, <1>2 DEF TkThread

LEMMA FollowedStep == ASSUME orderly', Typed, Guarded, Alone, Followed, [Next]_vars PROVE Followed'
<1>1. CASE ReadPassport
  <2>1. session + 1 \in Reads /\ rpc' = [rpc EXCEPT ![session + 1] = "connecting"]
    BY <1>1, ReadsBounded DEF ReadPassport, Guarded, Reads
  <2>2. PICK s \in Reads : rpc' = [rpc EXCEPT ![s] = "connecting"]
    BY <2>1
  <2>3. Under(s)'
    BY <2>2 DEF Guarded, Under
  <2> QED BY <2>3 DEF Followed, Reads
<1>2. CASE \E op \in {"CA", "TA", "AA", "DG3"} : Press(op)
  <2>1. queue' = <<>>
    BY <1>2, PressAtRest DEF Press
  <2>2. Entries' = {}
    BY <2>1 DEF Entries
  <2> QED BY <2>2 DEF Followed
<1>3. CASE RefreshReaders \/ UNCHANGED vars
  BY <1>3 DEF RefreshReaders, vars, Followed, Under, Entries
<1>4. CASE ExportEfs
  BY <1>4 DEF ExportEfs
<1> QED BY <1>1, <1>2, <1>3, <1>4, FollowedRead, FollowedAct, FollowedTk DEF Next, Program, User

LEMMA OrderedRead ==
  ASSUME Typed, Guarded, Keeping, Ordered, NEW s \in Reads, ReadThread(s)
  PROVE  Ordered'
<1>0. /\ {} \in SUBSET Numbers /\ {s} \in SUBSET Numbers /\ UNCHANGED <<session, reader>>
      /\ (Reading(s) => s = session)
  <2>1. {} \in SUBSET Numbers /\ {s} \in SUBSET Numbers /\ (Reading(s) => s = session)
    BY DEF Guarded, Reads, Numbers
  <2> QED BY <2>1, ReadPosts
<1>1. ASSUME \/ queue' = queue
             \/ \E do \in Kinds \ {"keep", "display"} : \E arg \in SUBSET Numbers : Post(do, arg)
      PROVE  Ordered'
  <2>1. CASE queue' = queue
    BY <1>0, <2>1 DEF Ordered, Entries
  <2>2. ASSUME NEW do \in Kinds \ {"keep", "display"}, NEW arg \in SUBSET Numbers, Post(do, arg) PROVE Ordered'
    <3>1. \A i \in Entries' : queue'[i].do \in {"keep", "display"} => i \in Entries /\ queue'[i] = queue[i]
      BY <2>2, Posts
    <3> QED BY <1>0, <3>1 DEF Ordered
  <2> QED BY <1>1, <2>1, <2>2
<1>2. CASE Connect(s) \/ FindRunning(s) \/ FailRunning(s) \/ ReadFails(s) \/ ReadingOff(s) \/ ReadEnds(s)
  BY <1>0, <1>1, <1>2 DEF Connect, FindRunning, FailRunning, ReadFails, ReadingOff, ReadEnds, Kinds
<1>3. CASE Authenticate(s)
  <2>1. CASE Post("keep", {s})
    <3>1. reader = 0 /\ NoKeep
      BY <1>0, <1>3 DEF Authenticate, Keeping, NoKeep, Reading
    <3>2. \A i \in Entries' : queue'[i].do = "keep" => i = Len(queue) + 1
      BY <1>0, <2>1, <3>1, Posts DEF NoKeep, Kinds
    <3>3. \A j \in Entries' : queue'[j].do = "display" => j < Len(queue) + 1
      BY <1>0, <2>1, Posts DEF Kinds
    <3> QED BY <1>0, <3>1, <3>2, <3>3 DEF Ordered
  <2> QED BY <1>1, <1>3, <2>1 DEF Authenticate
<1>4. CASE ReadAll(s)
  <2>1. PICK pd \in {{}, {s}} : Post("display", pd)
    BY <1>4 DEF ReadAll, Data
  <2>2. s = session /\ NoKeep
    BY <1>0, <1>4 DEF ReadAll, Keeping, NoKeep, Posted, Entries, Reading
  <2>3. \A i \in Entries' : queue'[i].do # "keep"
    BY <1>0, <2>1, <2>2, NoneAppears DEF NoKeep, Kinds
  <2>4. pd \in SUBSET Numbers /\ pd \subseteq {0, session}
    BY <1>0, <2>1, <2>2
  <2>5. \A i \in Entries' : \/ i \in Entries /\ queue'[i] = queue[i]
                           \/ queue'[i].arg = pd
    BY <2>1, <2>4, Posts DEF Kinds
  <2>6. reader # 0 => \A i \in Entries' : queue'[i].do = "display" => queue'[i].arg \subseteq {0, session}
    BY <2>4, <2>5 DEF Ordered
  <2> QED BY <1>0, <2>3, <2>6 DEF Ordered
<1> QED BY <1>2, <1>3, <1>4 DEF ReadThread

\* At work over the reader of a session, an action finds its passport on display.
LEMMA ActShown ==
  ASSUME Typed, Keeping, Alone, Shown, NEW a \in Actions, Active(a), reader # 0
  PROVE  lastPd \subseteq {0, session} /\ session = reader
<1>1. ReadOver /\ reader = session /\ session \in Reads
  BY DEF Alone, Keeping, Typed, Numbers, Reads
<1>2. ~Under(session) /\ rpc[session] # "reading" /\ \A j \in Entries : queue[j].do # "enable"
  BY <1>1 DEF ReadOver, Under, Entries
<1> QED BY <1>1, <1>2 DEF Shown

LEMMA OrderedAct ==
  ASSUME Typed, Keeping, Alone, Shown, Ordered, NEW a \in Actions, ActThread(a)
  PROVE  Ordered'
<1>0. /\ Active(a) /\ ReadOver /\ UNCHANGED <<session, reader>>
      /\ \A i \in Entries : queue[i].do # "keep"
  BY ActMoves, ActPosts DEF ReadOver, Entries
<1>1. \A i \in Entries' : queue'[i].do # "keep"
  BY <1>0, ActPosts, NoneAppears
<1>2. SUFFICES ASSUME reader # 0
               PROVE  \A i \in Entries' : queue'[i].do = "display" => queue'[i].arg \subseteq {0, session}
  BY <1>0, <1>1 DEF Ordered
<1>3. /\ lastPd \subseteq {0, session} /\ session = reader
      /\ lastPd \cup {acts[a].rd} \in SUBSET Numbers /\ {acts[a].rd} \in SUBSET Numbers /\ {} \in SUBSET Numbers
  BY <1>0, <1>2, ActShown DEF Typed, ActionStates
<1>4. acts[a].pc \notin {"begun", "posting"} => acts[a].rd = session
  BY <1>0, <1>3 DEF Alone
<1>5. ASSUME NEW arg \in SUBSET Numbers, Post("display", arg), arg \subseteq {0, session}
      PROVE  \A i \in Entries' : queue'[i].do = "display" => queue'[i].arg \subseteq {0, session}
  <2>1. \A i \in Entries' : (i \in Entries /\ queue'[i] = queue[i]) \/ queue'[i].arg = arg
    BY <1>5, Posts DEF Kinds
  <2> QED BY <1>2, <1>5, <2>1 DEF Ordered
<1>6. CASE ReadDg3Done(a)
  BY <1>3, <1>4, <1>5, <1>6 DEF ReadDg3Done
<1>7. CASE Reread(a)
  BY <1>3, <1>4, <1>5, <1>7 DEF Reread, Data
<1>8. CASE ActEnds(a)
  <2>1. \A i \in Entries' : queue'[i].do = "display" => i \in Entries /\ queue'[i] = queue[i]
    BY <1>3, <1>8, Posts DEF ActEnds, Kinds
  <2> QED BY <1>2, <2>1 DEF Ordered
<1>9. CASE ActBegins(a) \/ ActExchange(a) \/ ActDone(a) \/ TerminalAuthDone(a) \/ ActFails(a)
  BY <1>2, <1>9 DEF ActBegins, ActExchange, ActDone, TerminalAuthDone, ActFails, Ordered, Entries
<1> QED BY <1>6, <1>7, <1>8, <1>9 DEF ActThread

LEMMA OrderedTk == ASSUME Typed, Alone, Ordered, TkThread PROVE Ordered'
<1>1. CASE \E a \in Actions : ExportEfsDone(a)
  BY <1>1 DEF ExportEfsDone, Alone, Active
<1>2. ASSUME \E do : Serve(do)
      PROVE  /\ \A i \in Entries' : i \in Nat /\ i + 1 \in Entries /\ i + 1 # 1 /\ queue'[i] = queue[i + 1]
             /\ \A i, j \in Entries' : queue'[i].do = "keep" /\ queue'[j].do = "display" => j < i
  <2>1. \A i \in Entries' : i \in Nat /\ i + 1 \in Entries /\ i + 1 # 1 /\ queue'[i] = queue[i + 1]
    BY <1>2, Serves
  <2>2. \A i, j \in Entries' : queue'[i].do = "keep" /\ queue'[j].do = "display" => j + 1 < i + 1
    BY <2>1 DEF Ordered
  <2> QED BY <2>1, <2>2
<1>3. CASE KeepReader
  <2>1. Serve("keep") /\ 1 \in Entries /\ queue[1].do = "keep"
    BY <1>3, Serves DEF KeepReader
  <2>2. \A i \in Entries' : queue'[i].do # "display"
    <3>1. SUFFICES ASSUME NEW i \in Entries', queue'[i].do = "display" PROVE FALSE
      OBVIOUS
    <3>2. i \in Nat /\ i + 1 \in Entries /\ queue[i + 1].do = "display"
      BY <1>2, <2>1, <3>1
    <3>3. i + 1 < 1
      BY <2>1, <3>2 DEF Ordered
    <3> QED BY <3>2, <3>3
  <2> QED BY <1>2, <2>1, <2>2 DEF Ordered
<1>4. CASE Display \/ EnableRead \/ ShowFailure \/ SetButtonsIdle
  <2>1. UNCHANGED <<session, reader>> /\ \E do : Serve(do)
    BY <1>4 DEF Display, EnableRead, ShowFailure, SetButtonsIdle
  <2> QED BY <1>2, <2>1 DEF Ordered
<1> QED BY <1>1, <1>3, <1>4 DEF TkThread

LEMMA OrderedStep ==
  ASSUME Typed, Guarded, Keeping, Alone, Shown, Ordered, [Next]_vars
  PROVE  Ordered'
<1>1. CASE ReadPassport
  BY <1>1 DEF ReadPassport, ClosePreviousReader, Ordered, Entries
<1>2. CASE \/ RefreshReaders \/ ExportEfs \/ UNCHANGED vars
           \/ \E op \in {"CA", "TA", "AA", "DG3"} : Press(op)
  BY <1>2 DEF RefreshReaders, ExportEfs, Press, vars, Ordered, Entries
<1> QED BY <1>1, <1>2, OrderedRead, OrderedAct, OrderedTk DEF Next, Program, User

LEMMA ShownRead ==
  ASSUME Typed, Guarded, Keeping, Shown, NEW s \in Reads, ReadThread(s)
  PROVE  Shown'
<1> SUFFICES ASSUME reader # 0
             PROVE  \/ lastPd \subseteq {0, session}
                    \/ rpc'[session] = "reading"
                    \/ \E i \in Entries' : /\ queue'[i].do = "display"
                                          /\ \/ Under(session)'
                                             \/ \E j \in Entries' : j > i /\ queue'[j].do = "enable"
  BY ReadPosts DEF Shown, Under
<1>0. /\ rpc \in [Reads -> ReadStates] /\ {} \in SUBSET Numbers /\ {s} \in SUBSET Numbers
      /\ (Reading(s) => s = session) /\ session = reader /\ session \in Reads
  BY DEF Guarded, Keeping, Typed, Reads, Numbers
<1>1. CASE Connect(s) \/ Authenticate(s) \/ FindRunning(s) \/ FailRunning(s) \/ ReadFails(s)
  BY <1>1 DEF Connect, Authenticate, FindRunning, FailRunning, ReadFails, Keeping
<1>2. CASE ReadAll(s)
  <2>1. PICK pd \in SUBSET Numbers : Post("display", pd)
    BY <1>0, <1>2 DEF ReadAll, Data
  <2>2. \E i \in Entries' : queue'[i].do = "display"
    BY <2>1, Posts DEF Kinds
  <2>3. Under(session)'
    BY <1>0, <1>2 DEF ReadAll, Under, Reading
  <2> QED BY <2>2, <2>3
<1>3. CASE ReadingOff(s)
  <2>1. queue' = queue /\ rpc[session] # "reading" /\ Under(session)' /\ Under(session)
    BY <1>0, <1>3 DEF ReadingOff, Under, Reading
  <2> QED BY <2>1 DEF Shown, Entries
<1>4. CASE ReadEnds(s)
  <2>1. PICK n \in Entries' : queue'[n].do = "enable" /\ \A i \in Entries : i \in Entries' /\ queue'[i] = queue[i] /\ i < n
    BY <1>0, <1>4, Posts DEF ReadEnds, Kinds
  <2>2. \A i \in Entries : n > i
    BY <2>1 DEF Entries
  <2>3. rpc[session] = "reading" => rpc'[session] = "reading"
    BY <1>0, <1>4 DEF ReadEnds
  <2> QED BY <2>1, <2>2, <2>3 DEF Shown
<1> QED BY <1>1, <1>2, <1>3, <1>4 DEF ReadThread

LEMMA ShownAct ==
  ASSUME Typed, Keeping, Alone, Shown, NEW a \in Actions, ActThread(a)
  PROVE  Shown'
<1>1. Active(a) /\ UNCHANGED <<session, reader>>
  BY ActMoves, ActPosts
<1>2. SUFFICES ASSUME reader # 0 PROVE lastPd' \subseteq {0, session}
  BY <1>1 DEF Shown
<1>3. lastPd \subseteq {0, session} /\ session = reader
  BY <1>1, <1>2, ActShown
<1>4. CASE ReadDg3Done(a)
  BY <1>1, <1>3, <1>4 DEF ReadDg3Done, Alone
<1>5. CASE lastPd' = lastPd
  BY <1>3, <1>5
<1> QED
  BY <1>4, <1>5 DEF ActThread, ActBegins, ActExchange, ActDone, TerminalAuthDone, Reread, ActFails, ActEnds

LEMMA ShownTk == ASSUME Typed, Keeping, Alone, Ordered, Shown, TkThread PROVE Shown'
<1>1. CASE \E a \in Actions : ExportEfsDone(a)
  BY <1>1 DEF ExportEfsDone, Alone, Active
<1>2. CASE KeepReader
  <2>1. queue[1].do = "keep" /\ 1 \in Entries /\ rpc' = rpc /\ session' = session
    BY <1>2, Serves DEF KeepReader
  <2> QED BY <2>1 DEF Keeping, Shown
<1>3. CASE Display
  <2>1. /\ queue[1].do = "display" /\ 1 \in Entries /\ lastPd' = queue[1].arg
        /\ UNCHANGED <<reader, session>>
    BY <1>3, Serves DEF Display
  <2> QED BY <2>1 DEF Ordered, Shown
<1>4. CASE EnableRead \/ ShowFailure \/ SetButtonsIdle
  <2>1. /\ UNCHANGED <<reader, session, rpc, lastPd>>
        /\ \E do \in Kinds \ {"display"} : Serve(do)
    BY <1>4 DEF EnableRead, ShowFailure, SetButtonsIdle, Kinds
  <2>2. /\ \A i \in Entries : i # 1 => i - 1 \in Entries' /\ queue'[i - 1] = queue[i]
        /\ 1 \in Entries /\ queue[1].do # "display"
    BY <2>1, Serves
  <2>3. ASSUME NEW i \in Entries, queue[i].do = "display",
               Under(session) \/ \E j \in Entries : j > i /\ queue[j].do = "enable"
        PROVE  /\ i - 1 \in Entries' /\ queue'[i - 1].do = "display"
               /\ Under(session) \/ \E k \in Entries' : k > i - 1 /\ queue'[k].do = "enable"
    <3>1. i # 1 /\ i \in Nat /\ i >= 1
      BY <2>2, <2>3 DEF Entries
    <3>2. ASSUME NEW j \in Entries, j > i, queue[j].do = "enable"
          PROVE  j - 1 \in Entries' /\ j - 1 > i - 1 /\ queue'[j - 1].do = "enable"
      <4>1. j # 1 /\ j - 1 > i - 1
        BY <3>1, <3>2 DEF Entries
      <4> QED BY <2>2, <3>2, <4>1
    <3> QED BY <2>2, <2>3, <3>1, <3>2
  <2> QED BY <2>1, <2>3 DEF Shown, Under
<1> QED BY <1>1, <1>2, <1>3, <1>4 DEF TkThread

LEMMA ShownStep ==
  ASSUME Typed, Guarded, Keeping, Alone, Ordered, Shown, [Next]_vars
  PROVE  Shown'
<1>1. CASE ReadPassport
  BY <1>1 DEF ReadPassport, ClosePreviousReader, Shown
<1>2. CASE \/ RefreshReaders \/ ExportEfs \/ UNCHANGED vars
           \/ \E op \in {"CA", "TA", "AA", "DG3"} : Press(op)
  BY <1>2 DEF RefreshReaders, ExportEfs, Press, vars, Shown, Entries, Under
<1> QED BY <1>1, <1>2, ShownRead, ShownAct, ShownTk DEF Next, Program, User

-----------------------------------------------------------------------------
(* Flags and grants, of an orderly user.                                   *)

\* What the chip grants, and the flags that speak of it.
Earned == Rewarded /\ FlagsOfChip

LEMMA EarnedRead == ASSUME Typed, Guarded, Keeping, Alone, Earned, NEW s \in Reads, ReadThread(s) PROVE Earned'
<1>1. /\ UNCHANGED <<reader, acts, caDone, taDone>> /\ \A a \in Actions : ~Active(a)
  BY ReadPosts, ReadsAlone
<1>2. CASE level' = level
  BY <1>1, <1>2 DEF Earned, Rewarded, FlagsOfChip
<1>3. CASE reader = 0 /\ level' = [level EXCEPT ![s] = "basic"]
  <2>1. level' \in [Reads -> {"none", "basic", "ca", "ta"}]
    BY <1>3 DEF Earned, Rewarded
  <2>2. ~caDone /\ ~taDone
    BY <1>3 DEF Earned, FlagsOfChip
  <2>3. FlagsOfChip'
    BY <1>1, <2>2 DEF FlagsOfChip
  <2>4. \A a \in Actions : acts'[a].pc # "succeeded"
    BY <1>1 DEF Active
  <2> QED BY <2>1, <2>3, <2>4 DEF Earned, Rewarded
<1> QED
  BY <1>2, <1>3 DEF ReadThread, Connect, Authenticate, ReadAll, FindRunning, FailRunning, ReadFails, ReadingOff,
                    ReadEnds, Keeping

LEMMA EarnedAct == ASSUME Typed, Connected, Alone, Earned, NEW a \in Actions, ActThread(a) PROVE Earned'
<1>0. /\ UNCHANGED reader /\ Active(a)
      /\ \A b \in Actions \ {a} : acts'[b] = acts[b] /\ acts[b].pc # "succeeded"
      /\ acts \in [Actions -> ActionStates] /\ acts[a] \in ActionStates
      /\ level \in [Reads -> {"none", "basic", "ca", "ta"}]
  BY ActMoves, ActPosts DEF Active, Typed, Earned, Rewarded
<1>1. CASE ActExchange(a)
  <2>1. acts[a].rd = reader /\ acts[a].pc = "using"
    BY <1>0, <1>1 DEF ActExchange, Alone
  <2>2. CASE /\ Possible(acts[a].op, reader)
             /\ level' = [level EXCEPT ![reader] = Granted(acts[a].op, @)]
             /\ acts' = [acts EXCEPT ![a].pc = "succeeded"]
    <3>1. reader \in Reads /\ reader # 0 /\ level[reader] \in {"basic", "ca", "ta"}
      BY <1>0, <2>2 DEF Possible, Connected, Reads
    <3>2. acts[a].op = "TA" => level[reader] \in {"ca", "ta"}
      BY <2>2 DEF Possible
    <3>3. /\ level'[reader] = Granted(acts[a].op, level[reader])
          /\ acts'[a].op = acts[a].op /\ acts'[a].rd = reader
      BY <1>0, <2>1, <2>2, <3>1 DEF ActionStates
    <3>4. /\ Granted(acts[a].op, level[reader]) \in {"basic", "ca", "ta"}
          /\ (acts[a].op = "CA" => Granted(acts[a].op, level[reader]) \in {"ca", "ta"})
          /\ (acts[a].op = "TA" => Granted(acts[a].op, level[reader]) = "ta")
          /\ (level[reader] \in {"ca", "ta"} => Granted(acts[a].op, level[reader]) \in {"ca", "ta"})
          /\ (level[reader] = "ta" => Granted(acts[a].op, level[reader]) = "ta")
      <4>1. CASE acts[a].op = "CA" /\ level[reader] = "basic"
        BY <4>1 DEF Granted
      <4>2. CASE acts[a].op = "TA"
        BY <4>2 DEF Granted
      <4>3. CASE ~(acts[a].op = "CA" /\ level[reader] = "basic") /\ acts[a].op # "TA"
        <5>1. Granted(acts[a].op, level[reader]) = level[reader]
          BY <4>3 DEF Granted
        <5> QED BY <3>1, <4>3, <5>1
      <4> QED BY <4>1, <4>2, <4>3
    <3>5. level' \in [Reads -> {"none", "basic", "ca", "ta"}]
      BY <1>0, <2>2, <3>1, <3>3, <3>4
    <3>6. Rewarded'
      BY <1>0, <3>1, <3>3, <3>4, <3>5 DEF Rewarded
    <3>7. UNCHANGED <<caDone, taDone>>
      BY <1>1 DEF ActExchange
    <3>8. FlagsOfChip'
      BY <1>0, <3>1, <3>3, <3>4, <3>7 DEF Earned, FlagsOfChip
    <3> QED BY <3>6, <3>8 DEF Earned
  <2>3. CASE acts' = [acts EXCEPT ![a].pc = "failing"] /\ level' = level
    <3>1. acts'[a].pc = "failing" /\ UNCHANGED <<caDone, taDone>>
      BY <1>0, <1>1, <2>3 DEF ActExchange, ActionStates
    <3> QED BY <1>0, <2>3, <3>1 DEF Earned, Rewarded, FlagsOfChip
  <2> QED BY <1>1, <2>1, <2>2, <2>3 DEF ActExchange
<1>2. CASE ActDone(a)
  <2>1. /\ acts[a].pc = "succeeded" /\ acts[a].rd = reader /\ reader # 0 /\ acts'[a].pc = "posting"
        /\ UNCHANGED <<level, taDone>>
        /\ (acts[a].op = "CA" => level[reader] \in {"ca", "ta"})
    BY <1>0, <1>2 DEF ActDone, Alone, Earned, Rewarded, ActionStates
  <2>2. caDone' => caDone \/ acts[a].op = "CA"
    BY <1>2 DEF ActDone
  <2>3. FlagsOfChip'
    BY <1>0, <2>1, <2>2 DEF Earned, FlagsOfChip
  <2> QED BY <1>0, <2>1, <2>3 DEF Earned, Rewarded
<1>3. CASE TerminalAuthDone(a)
  <2>1. /\ acts[a].pc = "succeeded" /\ acts[a].rd = reader /\ reader # 0 /\ acts'[a].pc # "succeeded"
        /\ UNCHANGED <<level, caDone>> /\ level[reader] = "ta"
    BY <1>0, <1>3 DEF TerminalAuthDone, Alone, Earned, Rewarded, ActionStates
  <2>2. FlagsOfChip'
    BY <1>0, <2>1 DEF Earned, FlagsOfChip
  <2> QED BY <1>0, <2>1, <2>2 DEF Earned, Rewarded
<1>4. CASE ActBegins(a) \/ ReadDg3Done(a) \/ Reread(a) \/ ActFails(a) \/ ActEnds(a)
  <2>1. acts'[a].pc # "succeeded" /\ UNCHANGED <<level, caDone, taDone>>
    BY <1>0, <1>4 DEF ActBegins, ReadDg3Done, Reread, ActFails, ActEnds, ActionStates
  <2> QED BY <1>0, <2>1 DEF Earned, Rewarded, FlagsOfChip
<1> QED BY <1>1, <1>2, <1>3, <1>4 DEF ActThread

LEMMA EarnedTk == ASSUME Alone, Earned, TkThread PROVE Earned'
<1>1. CASE KeepReader
  BY <1>1 DEF KeepReader, Earned, Rewarded, FlagsOfChip
<1>2. CASE Display \/ EnableRead \/ ShowFailure \/ SetButtonsIdle
  BY <1>2 DEF Display, EnableRead, ShowFailure, SetButtonsIdle, Earned, Rewarded, FlagsOfChip
<1>3. CASE \E a \in Actions : ExportEfsDone(a)
  BY <1>3 DEF ExportEfsDone, Alone, Active
<1> QED BY <1>1, <1>2, <1>3 DEF TkThread

LEMMA EarnedStep ==
  ASSUME orderly', Typed, Guarded, Keeping, Connected, Alone, Earned, [Next]_vars
  PROVE  Earned'
<1>1. CASE ReadPassport
  <2>1. ~Disabled
    BY <1>1 DEF ReadPassport, Disabled
  <2>2. \A a \in Actions : acts'[a].pc # "succeeded"
    BY <1>1, <2>1 DEF ReadPassport, Alone, Active
  <2>3. level' \in [Reads -> {"none", "basic", "ca", "ta"}]
    BY <1>1 DEF ReadPassport, ClosePreviousReader, Earned, Rewarded
  <2>4. caDone' = FALSE /\ taDone' = FALSE
    BY <1>1 DEF ReadPassport, ClosePreviousReader
  <2> QED BY <2>2, <2>3, <2>4 DEF Earned, Rewarded, FlagsOfChip
<1>2. ASSUME NEW op \in {"CA", "TA", "AA", "DG3"}, Press(op) PROVE Earned'
  <2>1. PICK a \in Actions : acts' = [acts EXCEPT ![a] = [op |-> op, pc |-> "begun", rd |-> 0]]
    BY <1>2 DEF Press
  <2>2. acts'[a].pc = "begun" /\ \A b \in Actions \ {a} : acts'[b] = acts[b]
    BY <2>1 DEF Typed
  <2>3. UNCHANGED <<level, reader, caDone, taDone>>
    BY <1>2 DEF Press
  <2> QED BY <2>2, <2>3 DEF Earned, Rewarded, FlagsOfChip
<1>3. CASE RefreshReaders \/ UNCHANGED vars
  <2>1. UNCHANGED <<reader, caDone, taDone, level, acts>>
    BY <1>3 DEF RefreshReaders, vars
  <2> QED BY <2>1 DEF Earned, Rewarded, FlagsOfChip
<1>4. CASE ExportEfs
  BY <1>4 DEF ExportEfs
<1> QED BY <1>1, <1>2, <1>3, <1>4, EarnedRead, EarnedAct, EarnedTk DEF Next, Program, User

-----------------------------------------------------------------------------
(* Trace and report, of an orderly user.                                   *)

LEMMA MarkOfSession ==
  ASSUME Typed, StagesOfSession, UNCHANGED session, NEW st \in Stages, NEW status, NEW s \in {session, 0},
         Mark(st, status, s)
  PROVE  StagesOfSession'
BY DEF Typed, StagesOfSession, Mark

LEMMA TraceRead ==
  ASSUME Typed, Guarded, Scanning, StagesOfSession, NEW s \in Reads, ReadThread(s)
  PROVE  StagesOfSession'
<1>0. UNCHANGED session /\ (Reading(s) => s = session) /\ {"authentication", "dg_read"} \subseteq Stages
  BY ReadPosts DEF Guarded, Stages
<1>1. CASE stages' = stages
  BY <1>0, <1>1 DEF StagesOfSession
<1>2. CASE Connect(s) \/ Authenticate(s) \/ ReadAll(s)
  BY <1>0, <1>1, <1>2, MarkOfSession DEF Connect, Authenticate, ReadAll, Reading
<1>3. CASE FailRunning(s)
  <2>1. s = session /\ StageOrder[scan[s]] \in Stages
    BY <1>0, <1>3, StageList DEF FailRunning, Reading, Scanning
  <2> QED BY <1>0, <1>3, <2>1, MarkOfSession DEF FailRunning
<1>4. CASE FindRunning(s) \/ ReadFails(s) \/ ReadingOff(s) \/ ReadEnds(s)
  BY <1>1, <1>4 DEF FindRunning, ReadFails, ReadingOff, ReadEnds
<1> QED BY <1>2, <1>3, <1>4 DEF ReadThread

LEMMA TraceAct ==
  ASSUME Typed, Keeping, Alone, StagesOfSession, NEW a \in Actions, ActThread(a)
  PROVE  StagesOfSession'
<1>0. /\ UNCHANGED session /\ reader \in {session, 0} /\ acts[a] \in ActionStates
      /\ (acts[a].pc \notin {"begun", "posting"} => acts[a].rd = reader)
      /\ acts[a].op # "export" /\ {"CA", "TA", "AA", "eac_dg_read"} \subseteq Stages
  BY ActMoves, ActPosts DEF Keeping, Typed, Alone, Stages
<1>1. CASE stages' = stages
  BY <1>0, <1>1 DEF StagesOfSession
<1>2. Stage(acts[a].op) \in Stages \/ acts[a].op = "none"
  BY <1>0 DEF ActionStates, Stage, Stages
<1>3. acts[a].op = "none" /\ (ActBegins(a) \/ ActFails(a)) => stages' = stages
  BY DEF ActBegins, ActFails, Mark, Stage, Stages, Typed
<1>4. CASE ActBegins(a)
  BY <1>0, <1>1, <1>2, <1>3, <1>4, MarkOfSession DEF ActBegins
<1>5. CASE ActFails(a)
  BY <1>0, <1>1, <1>2, <1>3, <1>5, MarkOfSession DEF ActFails
<1>6. CASE ActDone(a) \/ ReadDg3Done(a) \/ Reread(a)
  BY <1>0, <1>6, MarkOfSession DEF ActDone, ReadDg3Done, Reread
<1>7. CASE TerminalAuthDone(a)
  BY <1>0, <1>7 DEF TerminalAuthDone, StagesOfSession, Typed
<1>8. CASE ActExchange(a) \/ ActEnds(a)
  BY <1>1, <1>8 DEF ActExchange, ActEnds
<1> QED BY <1>4, <1>5, <1>6, <1>7, <1>8 DEF ActThread

LEMMA TraceStep ==
  ASSUME Typed, Guarded, Scanning, Keeping, Alone, StagesOfSession, [Next]_vars
  PROVE  StagesOfSession'
<1>1. CASE ReadPassport
  BY <1>1 DEF ReadPassport, BeginTrace, NotRun, StagesOfSession
<1>2. CASE \/ TkThread \/ RefreshReaders \/ ExportEfs \/ UNCHANGED vars
           \/ \E op \in {"CA", "TA", "AA", "DG3"} : Press(op)
  <2>1. UNCHANGED <<stages, session>>
    BY <1>2 DEF TkThread, KeepReader, Display, EnableRead, ShowFailure, SetButtonsIdle, ExportEfsDone,
                RefreshReaders, ExportEfs, Press, vars
  <2> QED BY <2>1 DEF StagesOfSession
<1> QED BY <1>1, <1>2, TraceRead, TraceAct DEF Next, Program, User

LEMMA OfSession == ASSUME session \in Nat, NEW pd, pd \subseteq {0, session} PROVE OfOne(pd)
  BY session \in 0 .. session DEF OfOne

LEMMA SingleAct ==
  ASSUME Typed, Guarded, Keeping, Alone, Shown, Rewarded, Single, NEW a \in Actions, ActThread(a)
  PROVE  Single'
<1>0. /\ Active(a) /\ UNCHANGED session /\ session \in Nat /\ {} \in SUBSET Numbers
      /\ lastPd \cup {acts[a].rd} \in SUBSET Numbers /\ {acts[a].rd} \in SUBSET Numbers
  <2>1. Active(a) /\ UNCHANGED session
    BY ActMoves, ActPosts
  <2> QED BY <2>1 DEF Typed, ActionStates, Guarded
<1>1. ASSUME NEW arg \in SUBSET Numbers, Post("display", arg), OfOne(arg), OfOne(lastPd') PROVE Single'
  <2>1. \A i \in Entries' : (i \in Entries /\ queue'[i] = queue[i]) \/ queue'[i].arg = arg
    BY <1>1, Posts DEF Kinds
  <2> QED BY <1>0, <1>1, <2>1 DEF Single, OfOne
<1>2. acts[a].pc \notin {"begun", "posting"} => acts[a].rd = reader /\ reader \in {0, session}
  BY <1>0 DEF Alone, Keeping
<1>3. CASE ReadDg3Done(a)
  <2>1. acts[a].rd = session /\ lastPd \subseteq {0, session}
    BY <1>0, <1>2, <1>3, ActShown DEF ReadDg3Done, Rewarded
  <2>2. lastPd' \subseteq {0, session} /\ Post("display", lastPd') /\ lastPd' = lastPd \cup {acts[a].rd}
    BY <1>3, <2>1 DEF ReadDg3Done
  <2> QED BY <1>0, <1>1, <2>2 DEF OfOne
<1>4. CASE Reread(a)
  <2>1. PICK pd \in {{acts[a].rd}, {}} : Post("display", pd) /\ lastPd' = lastPd
    BY <1>4 DEF Reread, Data
  <2>2. pd \subseteq {0, session}
    BY <1>2, <1>4, <2>1 DEF Reread
  <2>3. OfOne(pd) /\ OfOne(lastPd) /\ pd \in SUBSET Numbers
    BY <1>0, <2>2, OfSession DEF Single
  <2>4. OfOne(lastPd')
    BY <1>0, <2>1, <2>3 DEF OfOne
  <2> QED BY <1>1, <2>1, <2>3, <2>4
<1>5. CASE ActEnds(a)
  <2>1. \A i \in Entries' : queue'[i].do = "display" => i \in Entries /\ queue'[i] = queue[i]
    BY <1>0, <1>5, Posts DEF ActEnds, Kinds
  <2> QED BY <1>0, <1>5, <2>1 DEF ActEnds, Single, OfOne
<1>6. CASE ActBegins(a) \/ ActExchange(a) \/ ActDone(a) \/ TerminalAuthDone(a) \/ ActFails(a)
  BY <1>0, <1>6 DEF ActBegins, ActExchange, ActDone, TerminalAuthDone, ActFails, Single, OfOne, Entries
<1> QED BY <1>3, <1>4, <1>5, <1>6 DEF ActThread

LEMMA SingleRead ==
  ASSUME Typed, Guarded, Single, NEW s \in Reads, ReadThread(s)
  PROVE  Single'
<1>0. /\ UNCHANGED <<session, lastPd>> /\ session \in Nat /\ (Reading(s) => s = session)
      /\ {} \in SUBSET Numbers /\ {s} \in SUBSET Numbers
  <2>1. UNCHANGED <<session, lastPd>>
    BY ReadPosts
  <2> QED BY <2>1 DEF Guarded, Reads, Numbers
<1>1. ASSUME NEW pd \in {{s}, {}}, s = session, Post("display", pd) PROVE Single'
  <2>0. pd \in SUBSET Numbers /\ "display" \in Kinds
    BY <1>0, <1>1 DEF Kinds
  <2>1. \A i \in Entries' : (i \in Entries /\ queue'[i] = queue[i]) \/ queue'[i].arg = pd
    BY <1>1, <2>0, Posts
  <2>2. OfOne(pd)
    BY <1>0, <1>1, OfSession
  <2>3. \A i \in Entries' : queue'[i].do = "display" => OfOne(queue'[i].arg)
    BY <2>1, <2>2 DEF Single
  <2> QED BY <1>0, <2>3 DEF Single, OfOne
<1>2. ASSUME \/ queue' = queue
             \/ \E do \in Kinds \ {"display"} : \E arg \in SUBSET Numbers : Post(do, arg)
      PROVE  Single'
  <2>1. \A i \in Entries' : queue'[i].do = "display" => i \in Entries /\ queue'[i] = queue[i]
    BY <1>2, Posts DEF Entries
  <2> QED BY <1>0, <2>1 DEF Single, OfOne
<1>3. CASE ReadAll(s)
  BY <1>0, <1>1, <1>3 DEF ReadAll, Data, Reading
<1>4. CASE ~ReadAll(s)
  BY <1>0, <1>2, <1>4 DEF ReadThread, Connect, Authenticate, FindRunning, FailRunning, ReadFails, ReadingOff,
                          ReadEnds, Kinds
<1> QED BY <1>3, <1>4

LEMMA SingleTk == ASSUME Typed, Guarded, Single, TkThread PROVE Single'
<1>0. UNCHANGED session
  BY TkElse
<1>1. CASE \E a \in Actions : ExportEfsDone(a)
  BY <1>0, <1>1 DEF ExportEfsDone, Single, OfOne, Entries
<1>2. ASSUME NEW do, Serve(do), OfOne(lastPd') PROVE Single'
  <2>1. \A i \in Entries' : i + 1 \in Entries /\ queue'[i] = queue[i + 1]
    BY <1>2, Serves
  <2> QED BY <1>0, <1>2, <2>1 DEF Single, OfOne
<1>3. CASE Display
  <2>1. queue[1].do = "display" /\ 1 \in Entries /\ lastPd' = queue[1].arg /\ Serve("display")
    BY <1>3, Serves DEF Display
  <2> QED BY <1>2, <2>1 DEF Single, OfOne
<1>4. CASE KeepReader \/ EnableRead \/ ShowFailure \/ SetButtonsIdle
  <2>1. UNCHANGED lastPd /\ \E do : Serve(do)
    BY <1>4 DEF KeepReader, EnableRead, ShowFailure, SetButtonsIdle
  <2> QED BY <1>2, <2>1 DEF Single, OfOne
<1> QED BY <1>1, <1>3, <1>4 DEF TkThread

LEMMA SingleStep ==
  ASSUME Typed, Guarded, Keeping, Alone, Shown, Rewarded, Single, [Next]_vars
  PROVE  Single'
<1>1. ASSUME UNCHANGED <<lastPd, queue>>, session' \in {session, session + 1} PROVE Single'
  <2>1. 0 .. session \subseteq 0 .. session'
    BY <1>1 DEF Guarded
  <2>2. \A pd : OfOne(pd) => \E s \in 0 .. session' : pd \subseteq {0, s}
    BY <2>1 DEF OfOne
  <2>3. /\ \E s \in 0 .. session' : lastPd \subseteq {0, s}
        /\ \A i \in Entries : queue[i].do = "display" => \E s \in 0 .. session' : queue[i].arg \subseteq {0, s}
    BY <2>2 DEF Single
  <2> QED BY <1>1, <2>3 DEF Single, Entries, OfOne
<1>2. CASE \/ RefreshReaders \/ ExportEfs \/ UNCHANGED vars \/ ReadPassport
           \/ \E op \in {"CA", "TA", "AA", "DG3"} : Press(op)
  BY <1>1, <1>2 DEF RefreshReaders, ExportEfs, Press, vars, ReadPassport
<1> QED BY <1>1, <1>2, SingleRead, SingleAct, SingleTk DEF Next, Program, User

LEMMA FetchedRead ==
  ASSUME Typed, Guarded, Scanning, Fetched, NEW s \in Reads, ReadThread(s)
  PROVE  Fetched'
<1>0. /\ UNCHANGED <<session, reader>> /\ rpc \in [Reads -> ReadStates] /\ (Reading(s) => s = session)
      /\ \A t \in Reads \ {s} : rpc'[t] = rpc[t]
      /\ {} \in SUBSET Numbers /\ {s} \in SUBSET Numbers /\ stages \in [Stages -> StageStates]
      /\ \/ queue' = queue
         \/ \E do \in Kinds : \E arg \in SUBSET Numbers : Post(do, arg)
  <2>1. /\ UNCHANGED <<session, reader>> /\ \A t \in Reads \ {s} : rpc'[t] = rpc[t]
        /\ \/ queue' = queue
           \/ \E do \in Kinds : \E arg \in SUBSET Numbers : Post(do, arg)
    BY ReadPosts
  <2> QED BY <2>1 DEF Guarded, Reads, Numbers, Typed
<1>1. \A t \in Reads : Posted("keep", t) => Posted("keep", t)'
  BY <1>0, PostedKept
<1>2. ASSUME rpc'[s] # "reading",
             \/ stages'["dg_read"].status # "ok"
             \/ stages["dg_read"].status = "ok" /\ rpc'[s] \in {"posting", "done"}
      PROVE  Fetched'
  BY <1>0, <1>1, <1>2 DEF Fetched
<1>3. Reading(s) => rpc[s] = "finally" \/ stages["dg_read"].status # "ok"
  BY <1>0 DEF Fetched, Reading
<1>4. CASE Connect(s)
  <2>1. rpc'[s] # "reading" /\ stages'["dg_read"].status # "ok"
    BY <1>0, <1>3, <1>4 DEF Connect, Reading, Mark, Stages
  <2> QED BY <1>2, <2>1
<1>5. CASE Authenticate(s)
  <2>1. stages'["dg_read"].status # "ok"
    BY <1>0, <1>3, <1>5 DEF Authenticate, Reading, Mark, Stages
  <2>2. CASE rpc'[s] # "reading"
    BY <1>2, <2>1, <2>2
  <2>3. CASE Post("keep", {s})
    <3>1. Posted("keep", s)'
      BY <1>0, <2>3, Posts DEF Posted, Entries, Kinds
    <3> QED BY <1>0, <1>1, <2>1, <3>1 DEF Fetched
  <2> QED BY <1>0, <1>5, <2>2, <2>3 DEF Authenticate
<1>6. CASE ReadAll(s)
  <2>1. reader = s /\ s = session /\ rpc'[s] = "finally"
    BY <1>0, <1>6 DEF ReadAll, Fetched, Reading
  <2> QED BY <1>0, <1>1, <2>1 DEF Fetched
<1>7. CASE FindRunning(s) \/ ReadFails(s)
  <2>1. rpc'[s] # "reading" /\ stages'["dg_read"].status # "ok"
    BY <1>0, <1>3, <1>7 DEF FindRunning, ReadFails, Reading
  <2> QED BY <1>2, <2>1
<1>8. CASE FailRunning(s)
  <2>1. StageOrder[scan[s]] \in Stages /\ rpc'[s] = "failing" /\ stages["dg_read"].status # "ok"
    BY <1>0, <1>3, <1>8, StageList DEF FailRunning, Scanning, Reading
  <2>2. stages'["dg_read"].status # "ok"
    BY <1>0, <1>8, <2>1 DEF FailRunning, Mark
  <2> QED BY <1>2, <2>1, <2>2
<1>9. CASE ReadingOff(s) \/ ReadEnds(s)
  <2>1. rpc'[s] \in {"posting", "done"} /\ stages' = stages
    BY <1>0, <1>9 DEF ReadingOff, ReadEnds
  <2> QED BY <1>2, <2>1
<1> QED BY <1>4, <1>5, <1>6, <1>7, <1>8, <1>9 DEF ReadThread

LEMMA FetchedAct == ASSUME Typed, Fetched, NEW a \in Actions, ActThread(a) PROVE Fetched'
<1>1. /\ UNCHANGED <<session, reader, rpc>>
      /\ \A t : Posted("keep", t) => Posted("keep", t)'
  <2>1. \/ queue' = queue
        \/ \E do \in Kinds : \E arg \in SUBSET Numbers : Post(do, arg)
    BY ActPosts
  <2> QED BY <2>1, ActPosts, PostedKept
<1>2. stages'["dg_read"] = stages["dg_read"]
  <2>1. \A op : Stage(op) = "dg_read" => op = "dg_read"
    BY DEF Stage
  <2>2. acts[a].op # "dg_read"
    BY DEF Typed, ActionStates
  <2> QED
    BY <2>1, <2>2 DEF ActThread, ActBegins, ActExchange, ActDone, ReadDg3Done, TerminalAuthDone, Reread, ActFails,
                      ActEnds, Mark, Typed, Stages
<1> QED BY <1>1, <1>2 DEF Fetched

LEMMA FetchedTk == ASSUME Typed, Guarded, Keeping, Fetched, TkThread PROVE Fetched'
<1>0. UNCHANGED <<session, rpc, stages>>
  BY DEF TkThread, KeepReader, Display, EnableRead, ShowFailure, SetButtonsIdle, ExportEfsDone
<1>1. CASE KeepReader
  <2>1. queue[1].do = "keep" /\ 1 \in Entries /\ reader' \in queue[1].arg
    BY <1>1, Serves DEF KeepReader
  <2>2. reader' = session /\ rpc[session] = "reading" /\ session \in Reads
    BY <2>1 DEF Keeping
  <2>3. \A s \in Reads : rpc[s] = "reading" => s = session
    BY DEF Guarded, Reading
  <2> QED BY <1>0, <2>2, <2>3 DEF Fetched
<1>2. CASE Display \/ EnableRead \/ ShowFailure \/ SetButtonsIdle
  <2>1. UNCHANGED reader /\ \E do \in Kinds \ {"keep"} : Serve(do)
    BY <1>2 DEF Display, EnableRead, ShowFailure, SetButtonsIdle, Kinds
  <2>2. \A s : Posted("keep", s) => Posted("keep", s)'
    BY <2>1, PostedKept
  <2> QED BY <1>0, <2>1, <2>2 DEF Fetched
<1>3. CASE \E a \in Actions : ExportEfsDone(a)
  <2>1. UNCHANGED <<reader, queue>>
    BY <1>3 DEF ExportEfsDone
  <2> QED BY <1>0, <2>1 DEF Fetched, Posted
<1> QED BY <1>1, <1>2, <1>3 DEF TkThread

LEMMA FetchedStep ==
  ASSUME Typed, Guarded, Scanning, Keeping, Fetched, [Next]_vars
  PROVE  Fetched'
<1>1. CASE ReadPassport
  <2>1. stages'["dg_read"].status # "ok"
    BY <1>1 DEF ReadPassport, BeginTrace, NotRun, Stages
  <2>2. rpc' = [rpc EXCEPT ![session'] = "connecting"] /\ \A s \in Reads : rpc[s] # "reading"
    BY <1>1 DEF ReadPassport, Guarded, Reading
  <2>3. \A s \in Reads : rpc'[s] # "reading"
    BY <2>2 DEF Guarded
  <2> QED BY <2>1, <2>3 DEF Fetched
<1>2. CASE \/ RefreshReaders \/ ExportEfs \/ UNCHANGED vars
           \/ \E op \in {"CA", "TA", "AA", "DG3"} : Press(op)
  BY <1>2 DEF RefreshReaders, ExportEfs, Press, vars, Fetched, Posted
<1> QED BY <1>1, <1>2, FetchedRead, FetchedAct, FetchedTk DEF Next, Program, User

-----------------------------------------------------------------------------
(* The theorems.                                                           *)

Session == Alone /\ Followed /\ Ordered /\ Shown /\ Earned /\ StagesOfSession /\ Single

LEMMA SessionInit == Init => Session /\ Fetched
<1> SUFFICES ASSUME Init PROVE Session /\ Fetched
  OBVIOUS
<1> USE DEF Init
<1>1. Entries = {} /\ (\A a \in Actions : ~Active(a) /\ acts[a].pc # "succeeded") /\ reader = 0
  BY DEF Entries, Active, Idle
<1>2. Alone /\ Followed /\ Ordered /\ Shown
  BY <1>1 DEF Alone, Followed, Ordered, Shown
<1>3. Earned
  BY <1>1 DEF Earned, Rewarded, FlagsOfChip
<1>4. StagesOfSession /\ Fetched
  BY DEF StagesOfSession, NotRun, Fetched, Stages
<1>5. Single
  BY <1>1 DEF Single, OfOne, NoPd
<1> QED BY <1>2, <1>3, <1>4, <1>5 DEF Session

\* Only an orderly user is still orderly a step later.
LEMMA OrderlyStep == ASSUME [Next]_vars, orderly' PROVE orderly
<1>1. ASSUME NEW s \in Reads, ReadThread(s) PROVE UNCHANGED orderly
  BY <1>1 DEF ReadThread, Connect, Authenticate, ReadAll, FindRunning, FailRunning, ReadFails, ReadingOff, ReadEnds,
              conduct
<1>2. ASSUME NEW a \in Actions, ActThread(a) PROVE UNCHANGED orderly
  BY <1>2 DEF ActThread, ActBegins, ActExchange, ActDone, ReadDg3Done, TerminalAuthDone, Reread, ActFails, ActEnds,
              conduct
<1>3. TkThread => UNCHANGED orderly
  BY DEF TkThread, KeepReader, Display, EnableRead, ShowFailure, SetButtonsIdle, ExportEfsDone, conduct
<1>4. User => orderly
  BY DEF User, ReadPassport, RefreshReaders, ExportEfs, Press
<1> QED BY <1>1, <1>2, <1>3, <1>4 DEF Next, Program, vars, conduct

\* A trace that shows the groups read is that of the reader in hand, whatever the
\* user presses (_read_worker, _begin_trace).
LEMMA FetchedAlways == Spec => []Fetched
<1>1. Init => Fetched
  BY SessionInit
<1> QED BY <1>1, FetchedStep, TypedAlways, GuardedAlways, ScanningAlways, ConnectedAlways, PTL DEF Spec

\* As long as the user is orderly, for any number of reads and actions: the invariant
\* behind the four theorems that follow.
THEOREM SessionAlways == Spec => [](orderly => Session)
<1>1. Init => (orderly => Session)
  BY SessionInit
<1>2. /\ Typed /\ Guarded /\ Scanning /\ Keeping /\ Connected /\ (orderly => Session) /\ [Next]_vars
      => (orderly => Session)'
  <2> SUFFICES ASSUME Typed, Guarded, Scanning, Keeping, Connected, orderly => Session, [Next]_vars, orderly'
               PROVE  Session'
    OBVIOUS
  <2>0. Session
    BY OrderlyStep
  <2>1. Alone' /\ Followed'
    BY <2>0, AloneStep, FollowedStep DEF Session
  <2>2. Ordered' /\ Shown'
    BY <2>0, OrderedStep, ShownStep DEF Session
  <2>3. Earned' /\ StagesOfSession'
    BY <2>0, EarnedStep, TraceStep DEF Session
  <2>4. Single'
    BY <2>0, SingleStep DEF Session, Earned
  <2> QED BY <2>1, <2>2, <2>3, <2>4 DEF Session
<1> QED BY <1>1, <1>2, ConnectedAlways, TypedAlways, GuardedAlways, ScanningAlways, PTL DEF Spec

\* An orderly user never has two threads on one pair of send sequence counters:
\* buttons are enabled again by the last callback of whatever was at work.
THEOREM OneThread == Spec => []ChannelOfOneThread
<1>1. Connected /\ (orderly => Session) => ChannelOfOneThread
  <2> SUFFICES ASSUME Connected, Session, NEW s \in open PROVE Cardinality(UsersOf(s)) <= 1
    BY DEF ChannelOfOneThread, OneThreadPerChannel
  <2>1. UsersOf(s) = {} \/ \E u : UsersOf(s) = {u}
    <3>1. CASE \E a \in Actions : Active(a)
      <4>1. PICK a \in Actions : Active(a) /\ ReadOver /\ \A b \in Actions : Active(b) => b = a
        BY <3>1 DEF Session, Alone
      <4>2. rpc[s] \notin {"authenticating", "reading"}
        BY <4>1 DEF ReadOver, Connected
      <4>3. \A u \in UsersOf(s) : u = a
        BY <4>1, <4>2 DEF UsersOf, Active
      <4> QED BY <4>3
    <3>2. CASE \A a \in Actions : ~Active(a)
      <4>1. \A u \in UsersOf(s) : u = 0
        BY <3>2 DEF UsersOf, Active
      <4> QED BY <4>1
    <3> QED BY <3>1, <3>2
  <2>2. Cardinality({}) = 0 /\ \A u : Cardinality({u}) = 1
    BY FS_EmptySet, FS_Singleton
  <2>3. Cardinality(UsersOf(s)) = 0 \/ Cardinality(UsersOf(s)) = 1
    BY <2>1, <2>2
  <2> QED BY <2>3
<1> QED BY <1>1, SessionAlways, ConnectedAlways, PTL

\* As long as the user is orderly, the flags that let Terminal Authentication and Read
\* DG3 through are true of the chip behind the reader at hand.
THEOREM FlagsTrue == Spec => []FlagsMatchChip
<1>1. (orderly => Session) => FlagsMatchChip
  BY DEF Session, Earned, FlagsMatchChip
<1> QED BY <1>1, SessionAlways, PTL

\* As long as the user is orderly, the trace shows no outcome of another session's
\* steps.
THEOREM TraceTrue == Spec => []TraceOfOneSession
<1>1. (orderly => Session) => TraceOfOneSession
  BY DEF Session, TraceOfOneSession
<1> QED BY <1>1, SessionAlways, PTL

\* An orderly user's coverage report is of one passport, and of its own session's once
\* the read of that session has been displayed: the reader in hand is then that of
\* the trace, and what is displayed is of that reader.
THEOREM ReportTrue == Spec => []ReportOfLiveSession
<1>1. Typed /\ Guarded /\ Fetched /\ (orderly => Session) => ReportOfLiveSession
  <2> SUFFICES ASSUME Typed, Guarded, Fetched, Session, session > 0
               PROVE  \E s \in 1 .. session : lastPd \ {0} \subseteq {s} /\ (Displayed => s = session)
    BY DEF ReportOfLiveSession, Report, NoPd
  <2>1. session \in Nat /\ session \in 1 .. session
    BY DEF Guarded
  <2>2. CASE Displayed
    <3>1. /\ session \in Reads /\ reader = session /\ rpc[session] # "reading"
          /\ \A i \in Entries : queue[i].do # "display"
      BY <2>2 DEF Displayed, Fetched, Entries
    <3>2. lastPd \subseteq {0, session}
      BY <3>1 DEF Session, Shown, Reads
    <3> QED BY <2>1, <3>2
  <2>3. CASE ~Displayed
    <3>1. PICK s \in 0 .. session : lastPd \subseteq {0, s}
      BY DEF Session, Single, OfOne
    <3>2. CASE s = 0
      BY <2>1, <2>3, <3>1, <3>2
    <3>3. CASE s # 0
      BY <2>1, <2>3, <3>1, <3>3
    <3> QED BY <3>2, <3>3
  <2> QED BY <2>2, <2>3
<1> QED BY <1>1, SessionAlways, FetchedAlways, TypedAlways, GuardedAlways, PTL

=============================================================================
