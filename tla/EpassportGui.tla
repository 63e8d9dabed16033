---------------------------- MODULE EpassportGui ----------------------------
(***************************************************************************)
(* The application of epassport_gui.py: the Tk thread, which runs the      *)
(* button handlers and, in order, the callbacks posted with root.after;    *)
(* a daemon thread for each press of Read passport; and a daemon thread    *)
(* for each press of Chip Auth, Terminal Auth, Active Auth and Read DG3.   *)
(* They share _reader, _ca_done, _ta_done, _reading, _last_pd and _trace   *)
(* without a lock.                                                         *)
(*                                                                         *)
(* The n-th read is number n, and so are its reader (connection), its      *)
(* chip session, its trace session and its passport.  What goes on inside  *)
(* an operation of the reader is the subject of the other modules: here it *)
(* takes a while and ends well or badly.  Card I/O returns and the card    *)
(* stays on the reader.  A handler is reached by its button, by the Card   *)
(* menu or by the Return key, and checks what its code checks; the file    *)
(* dialogs are modal.  The stages connect, card_access and passive_auth,   *)
(* marked by the thread of the read alone, are left out of the trace.      *)
(***************************************************************************)
EXTENDS Naturals, Sequences, FiniteSets

CONSTANTS
  MaxReads,    \* bound: presses of Read passport that start a read
  MaxActions,  \* bound: presses of the other buttons and of Export EF files
  Bounds       \* the bounds runs may have, within these: reads, actions, and their kinds

Ops == {"CA", "TA", "AA", "DG3", "export"}

ASSUME UserAssumption ==
  /\ MaxReads \in Nat /\ MaxActions \in Nat
  /\ Bounds \subseteq [reads: 0 .. MaxReads, actions: 0 .. MaxActions, ops: SUBSET Ops]

VARIABLES
  session,   \* reads begun; the trace is of this one
  reading,   \* _reading
  readBtn, eacBtns, dg3Btn,  \* enabled: Read passport; CA, TA and AA together; Read DG3
  reader,    \* _reader: number of the read that connected it, or 0
  caDone, taDone,            \* _ca_done, _ta_done
  lastPd,    \* _last_pd: passports its data comes from, or NoPd
  queue,     \* callbacks posted and not yet run
  open,      \* connections to the card not disconnected
  rpc,       \* where each read's thread is
  scan,      \* the stage each read's thread looks at next, once it has failed
  acts,      \* each action: operation, where its thread is, the reader it uses
  stages,    \* the trace: status of each stage and the session that it tells of
  level,     \* access the chip has granted in each chip session
  bounds,    \* the bounds of this run
  orderly    \* (history) the user has so far pressed enabled buttons only, Refresh and
             \* the buttons of the actions only with nothing at work, no debug export

ui == <<readBtn, eacBtns, dg3Btn>>
conduct == <<bounds, orderly>>
vars == <<session, reading, ui, reader, caDone, taDone, lastPd, queue, open, rpc, scan,
          acts, stages, level, conduct>>

Reads   == 1 .. MaxReads
Actions == 1 .. MaxActions
NoPd    == {0}
Stages  == {"authentication", "dg_read", "CA", "TA", "AA", "eac_dg_read"}

\* Mutant of StageOrder: the stage of the read itself is not in the list.
StageOrderShort == <<"CA", "TA", "AA", "dg_read", "eac_dg_read">>

\* The order in which _trace_fail_running looks at the stages.
StageOrder == <<"authentication", "CA", "TA", "AA", "dg_read", "eac_dg_read">>

NotRun == [st \in Stages |-> [status |-> "not_run", of |-> 0]]
Idle   == [op |-> "none", pc |-> "unborn", rd |-> 0]

Init ==
  /\ session = 0 /\ reading = FALSE
  /\ readBtn = TRUE /\ eacBtns = FALSE /\ dg3Btn = FALSE
  /\ reader = 0 /\ caDone = FALSE /\ taDone = FALSE
  /\ lastPd = NoPd /\ queue = <<>> /\ open = {}
  /\ rpc = [s \in Reads |-> "unborn"] /\ scan = [s \in Reads |-> 1]
  /\ acts = [a \in Actions |-> Idle]
  /\ stages = NotRun
  /\ level = [s \in Reads |-> "none"]
  /\ bounds \in Bounds /\ orderly = TRUE

\* SessionTrace.mark, under its lock.
Mark(st, status, s) == stages' = [stages EXCEPT ![st] = [status |-> status, of |-> s]]
Post(do, arg) == queue' = Append(queue, [do |-> do, arg |-> arg])
Posted(do, s) == \E i \in 1 .. Len(queue) : queue[i].do = do /\ s \in queue[i].arg

Exporting == \E a \in Actions : acts[a].op = "export" /\ acts[a].pc = "using"
ReadOver ==
  /\ \A s \in Reads : rpc[s] \in {"unborn", "done"}
  /\ \A i \in 1 .. Len(queue) : queue[i].do \notin {"keep", "enable"}
AtRest == ReadOver /\ queue = <<>> /\ \A a \in Actions : acts[a].pc \in {"unborn", "done"}

-----------------------------------------------------------------------------
(* The read's thread, _read_worker.                                        *)

\* probe.connect, EF.CardAccess, the choice of the protocol; credentials may be
\* missing, in which case the thread enables the button and returns.
Connect(s) ==
  /\ rpc[s] = "connecting"
  /\ \/ /\ rpc' = [rpc EXCEPT ![s] = "failing"]
        /\ open' \in {open, open \cup {s}}
        /\ UNCHANGED <<queue, stages>>
     \/ /\ rpc' = [rpc EXCEPT ![s] = "finally"]
        /\ open' = open \cup {s}
        /\ Post("enable", {})
        /\ UNCHANGED stages
     \/ /\ rpc' = [rpc EXCEPT ![s] = "authenticating"]
        /\ open' = open \cup {s}
        /\ Mark("authentication", "running", s)
        /\ UNCHANGED queue
  /\ UNCHANGED <<session, reading, ui, reader, caDone, taDone, lastPd, scan, acts, level, conduct>>

\* BAC, PACE or both; the reader is handed over before anything is read.
Authenticate(s) ==
  /\ rpc[s] = "authenticating"
  /\ \/ /\ rpc' = [rpc EXCEPT ![s] = "failing"]
        /\ UNCHANGED <<queue, stages, level>>
     \/ /\ rpc' = [rpc EXCEPT ![s] = "reading"]
        /\ level' = [level EXCEPT ![s] = "basic"]
        /\ Mark("authentication", "ok", s)
        /\ Post("keep", {s})
  /\ UNCHANGED <<session, reading, ui, reader, caDone, taDone, lastPd, open, scan, acts, conduct>>

\* What read_all brings back over a reader: the passport's data, or errors only.
Data(s) == IF s \in open /\ level[s] # "none" THEN {{s}, {}} ELSE {{}}

\* Mutant of ReadAll: nothing is displayed when only errors came back.
ReadAllQuiet(s) ==
  /\ rpc[s] = "reading" /\ ~Posted("keep", s)
  /\ rpc' = [rpc EXCEPT ![s] = "finally"]
  /\ Mark("dg_read", "ok", s)
  /\ \E pd \in Data(s) : IF pd = {} THEN UNCHANGED queue ELSE Post("display", pd)
  /\ UNCHANGED <<session, reading, ui, reader, caDone, taDone, lastPd, open, scan, acts, level,
                 conduct>>

\* read_all collects the errors of the files and returns in any case.  It takes
\* far longer than the Tk thread takes to run the callback posted before it.
ReadAll(s) ==
  /\ rpc[s] = "reading" /\ ~Posted("keep", s)
  /\ rpc' = [rpc EXCEPT ![s] = "finally"]
  /\ Mark("dg_read", "ok", s)
  /\ \E pd \in Data(s) : Post("display", pd)
  /\ UNCHANGED <<session, reading, ui, reader, caDone, taDone, lastPd, open, scan, acts, level,
                 conduct>>

\* The except clause: _trace_fail_running reads the status of a stage without
\* the lock ...
FindRunning(s) ==
  /\ rpc[s] = "failing" /\ scan[s] <= Len(StageOrder)
  /\ IF stages[StageOrder[scan[s]]].status = "running"
     THEN rpc' = [rpc EXCEPT ![s] = "marking"] /\ UNCHANGED scan
     ELSE scan' = [scan EXCEPT ![s] = @ + 1] /\ UNCHANGED rpc
  /\ UNCHANGED <<session, reading, ui, reader, caDone, taDone, lastPd, queue, open, acts,
                 stages, level,
                 conduct>>

\* ... and marks it, whatever it shows by then.
FailRunning(s) ==
  /\ rpc[s] = "marking"
  /\ Mark(StageOrder[scan[s]], "failed", s)
  /\ rpc' = [rpc EXCEPT ![s] = "failing"]
  /\ scan' = [scan EXCEPT ![s] = @ + 1]
  /\ UNCHANGED <<session, reading, ui, reader, caDone, taDone, lastPd, queue, open, acts, level,
                 conduct>>

\* The message, whose callback keeps the exception, hence the frame and the
\* connection in it, until it has run.
ReadFails(s) ==
  /\ rpc[s] = "failing" /\ scan[s] > Len(StageOrder)
  /\ rpc' = [rpc EXCEPT ![s] = "finally"]
  /\ Post("failed", {s})
  /\ UNCHANGED <<session, reading, ui, reader, caDone, taDone, lastPd, open, scan, acts, stages,
                 level,
                 conduct>>

\* The finally clause, in its two steps.
ReadingOff(s) ==
  /\ rpc[s] = "finally"
  /\ rpc' = [rpc EXCEPT ![s] = "posting"]
  /\ reading' = FALSE
  /\ UNCHANGED <<session, ui, reader, caDone, taDone, lastPd, queue, open, scan, acts, stages,
                 level, conduct>>

\* Mutant of ReadEnds: a thread that ends without a reader leaves the button alone.
ReadEndsDisabled(s) ==
  /\ rpc[s] = "posting"
  /\ rpc' = [rpc EXCEPT ![s] = "done"]
  /\ IF reader = s THEN Post("enable", {}) ELSE UNCHANGED queue
  /\ open' = IF reader = s \/ Posted("failed", s) THEN open ELSE open \ {s}
  /\ UNCHANGED <<session, reading, ui, reader, caDone, taDone, lastPd, scan, acts, stages,
                 level, conduct>>

\* ... and a connection nobody refers to any more is closed by the library.
ReadEnds(s) ==
  /\ rpc[s] = "posting"
  /\ rpc' = [rpc EXCEPT ![s] = "done"]
  /\ Post("enable", {})
  /\ open' = IF reader = s \/ Posted("failed", s) THEN open ELSE open \ {s}
  /\ UNCHANGED <<session, reading, ui, reader, caDone, taDone, lastPd, scan, acts, stages,
                 level, conduct>>

-----------------------------------------------------------------------------
(* The actions' threads: _chip_auth_worker, _terminal_auth_worker,         *)
(* _active_auth_worker, _read_dg3_worker.  Each reads self._reader when it *)
(* gets to use it.                                                         *)

Stage(op) == IF op = "DG3" THEN "eac_dg_read" ELSE op

ActBegins(a) ==
  /\ acts[a].pc = "begun" /\ acts[a].op # "export"
  /\ Mark(Stage(acts[a].op), "running", reader)
  /\ acts' = [acts EXCEPT ![a].rd = reader, ![a].pc = IF reader = 0 THEN "failing" ELSE "using"]
  /\ UNCHANGED <<session, reading, ui, reader, caDone, taDone, lastPd, queue, open, rpc, scan,
                 level, conduct>>

\* Can the operation succeed?  Its connection must be open, the chip's access far
\* enough, and Read DG3 wants a data page to add to.
Possible(op, rd) ==
  /\ rd \in open /\ level[rd] # "none"
  /\ op = "TA" => level[rd] \in {"ca", "ta"}
  /\ op = "DG3" => level[rd] = "ta" /\ lastPd # NoPd

Granted(op, old) ==
  CASE op = "CA" /\ old = "basic" -> "ca"
    [] op = "TA" -> "ta"
    [] OTHER -> old

\* The operation itself, over the card.
ActExchange(a) ==
  LET op == acts[a].op  rd == acts[a].rd
  IN  /\ acts[a].pc = "using" /\ op # "export"
      /\ \/ /\ Possible(op, rd)
            /\ level' = [level EXCEPT ![rd] = Granted(op, @)]
            /\ acts' = [acts EXCEPT ![a].pc = "succeeded"]
         \/ /\ acts' = [acts EXCEPT ![a].pc = "failing"]
            /\ UNCHANGED level
      /\ UNCHANGED <<session, reading, ui, reader, caDone, taDone, lastPd, queue, open, rpc,
                     scan, stages, conduct>>

\* Chip Auth and Active Auth report success.
ActDone(a) ==
  LET op == acts[a].op
  IN  /\ acts[a].pc = "succeeded" /\ op \in {"CA", "AA"}
      /\ caDone' = (caDone \/ op = "CA")
      /\ Mark(op, "ok", acts[a].rd)
      /\ acts' = [acts EXCEPT ![a].pc = "posting"]
      /\ UNCHANGED <<session, reading, ui, reader, taDone, lastPd, queue, open, rpc, scan,
                     level, conduct>>

\* Read DG3 puts the group into the data page of the latest read.
ReadDg3Done(a) ==
  /\ acts[a].pc = "succeeded" /\ acts[a].op = "DG3"
  /\ lastPd' = lastPd \cup {acts[a].rd}
  /\ Post("display", lastPd')
  /\ Mark("eac_dg_read", "ok", acts[a].rd)
  /\ acts' = [acts EXCEPT ![a].pc = "posting"]
  /\ UNCHANGED <<session, reading, ui, reader, caDone, taDone, open, rpc, scan, level, conduct>>

\* Terminal Auth reports success and goes on to read everything again.
TerminalAuthDone(a) ==
  /\ acts[a].pc = "succeeded" /\ acts[a].op = "TA"
  /\ taDone' = TRUE
  /\ stages' = [stages EXCEPT
       !["TA"] = [status |-> "ok", of |-> acts[a].rd],
       !["eac_dg_read"] = [status |-> IF reader = 0 THEN "failed" ELSE "running", of |-> reader]]
  /\ acts' = [acts EXCEPT ![a].rd = reader, ![a].pc = IF reader = 0 THEN "posting" ELSE "rereading"]
  /\ UNCHANGED <<session, reading, ui, reader, caDone, lastPd, queue, open, rpc, scan, level,
                 conduct>>

\* read_all, then DG3 and DG4, whose failures are only logged.
Reread(a) ==
  /\ acts[a].pc = "rereading"
  /\ \E pd \in Data(acts[a].rd) : Post("display", pd)
  /\ Mark("eac_dg_read", "ok", acts[a].rd)
  /\ acts' = [acts EXCEPT ![a].pc = "posting"]
  /\ UNCHANGED <<session, reading, ui, reader, caDone, taDone, lastPd, open, rpc, scan, level,
                 conduct>>

\* The except clause.
ActFails(a) ==
  /\ acts[a].pc = "failing"
  /\ Mark(Stage(acts[a].op), "failed", acts[a].rd)
  /\ acts' = [acts EXCEPT ![a].pc = "posting"]
  /\ UNCHANGED <<session, reading, ui, reader, caDone, taDone, lastPd, queue, open, rpc, scan,
                 level, conduct>>

\* The finally clause.
ActEnds(a) ==
  /\ acts[a].pc = "posting"
  /\ Post("idle", {})
  /\ acts' = [acts EXCEPT ![a].pc = "done"]
  /\ UNCHANGED <<session, reading, ui, reader, caDone, taDone, lastPd, open, rpc, scan, stages,
                 level, conduct>>

-----------------------------------------------------------------------------
(* The Tk thread: callbacks.                                               *)

Serve(do) == ~Exporting /\ queue # <<>> /\ Head(queue).do = do /\ queue' = Tail(queue)

\* _keep_reader.
KeepReader ==
  /\ Serve("keep")
  /\ reader' \in Head(queue).arg
  /\ caDone' = FALSE /\ taDone' = FALSE
  /\ eacBtns' = TRUE /\ dg3Btn' = FALSE
  /\ UNCHANGED <<session, reading, readBtn, lastPd, open, rpc, scan, acts, stages, level, conduct>>

\* _display.
Display ==
  /\ Serve("display")
  /\ lastPd' = Head(queue).arg
  /\ UNCHANGED <<session, reading, ui, reader, caDone, taDone, open, rpc, scan, acts, stages,
                 level, conduct>>

EnableRead ==
  /\ Serve("enable")
  /\ readBtn' = TRUE
  /\ UNCHANGED <<session, reading, eacBtns, dg3Btn, reader, caDone, taDone, lastPd, open, rpc,
                 scan, acts, stages, level, conduct>>

\* The failure message; with it goes the last reference to a dead read's connection.
ShowFailure ==
  /\ Serve("failed")
  /\ open' = open \ {s \in Head(queue).arg : rpc[s] = "done"}
  /\ UNCHANGED <<session, reading, ui, reader, caDone, taDone, lastPd, rpc, scan, acts, stages,
                 level, conduct>>

\* _set_buttons_busy(False).
SetButtonsIdle ==
  /\ Serve("idle")
  /\ eacBtns' = (reader # 0)
  /\ dg3Btn' = (reader # 0 /\ taDone)
  /\ readBtn' = TRUE
  /\ UNCHANGED <<session, reading, reader, caDone, taDone, lastPd, open, rpc, scan, acts,
                 stages, level, conduct>>

-----------------------------------------------------------------------------
(* The Tk thread: handlers of what the user does.                          *)

\* Mutant of ClosePreviousReader: the connection is left to the next read.
ClosePreviousReaderLeaks ==
  /\ reader' = 0
  /\ caDone' = FALSE /\ taDone' = FALSE
  /\ UNCHANGED <<open, level>>

\* Mutant of ClosePreviousReader: the flags are left to _keep_reader.
ClosePreviousReaderFlags ==
  /\ open' = open \ {reader}
  /\ level' = [s \in Reads |-> IF s = reader THEN "none" ELSE level[s]]
  /\ reader' = 0
  /\ UNCHANGED <<caDone, taDone>>

\* _close_previous_reader.
ClosePreviousReader ==
  /\ open' = open \ {reader}
  /\ level' = [s \in Reads |-> IF s = reader THEN "none" ELSE level[s]]
  /\ reader' = 0
  /\ caDone' = FALSE /\ taDone' = FALSE

\* Mutant of BeginTrace: only a first session starts from scratch.
BeginTraceOnce == IF session = 0 THEN stages' = NotRun ELSE UNCHANGED stages

\* _begin_trace.
BeginTrace == stages' = NotRun

\* Mutant of ReadPassport: the disabled button is trusted to keep reads apart.
ReadPassportUnguarded ==
  /\ ~Exporting /\ session < bounds.reads
  /\ session' = session + 1
  /\ ClosePreviousReader /\ BeginTrace
  /\ reading' = TRUE /\ readBtn' = FALSE
  /\ rpc' = [rpc EXCEPT ![session'] = "connecting"]
  /\ orderly' = (orderly /\ readBtn)
  /\ UNCHANGED <<eacBtns, dg3Btn, lastPd, queue, scan, acts, bounds>>

\* read_passport, from its button, from the menu or by the Return key; while a
\* read is in progress it is ignored.
ReadPassport ==
  /\ ~Exporting /\ session < bounds.reads
  /\ ~reading
  /\ session' = session + 1
  /\ ClosePreviousReader /\ BeginTrace
  /\ reading' = TRUE /\ readBtn' = FALSE
  /\ rpc' = [rpc EXCEPT ![session'] = "connecting"]
  /\ orderly' = (orderly /\ readBtn)
  /\ UNCHANGED <<eacBtns, dg3Btn, lastPd, queue, scan, acts, bounds>>

\* Mutant of SetButtonsBusy: the button pressed stays enabled.
SetButtonsBusyRead ==
  /\ readBtn' = FALSE /\ UNCHANGED <<eacBtns, dg3Btn>>

\* _set_buttons_busy(True).
SetButtonsBusy ==
  /\ eacBtns' = FALSE /\ dg3Btn' = FALSE /\ readBtn' = FALSE

\* The next action to start, if the bounds of the run leave one of this kind.
NextAction(a, op) ==
  /\ op \in bounds.ops /\ a <= bounds.actions /\ acts[a].pc = "unborn"
  /\ \A b \in 1 .. a - 1 : acts[b].pc # "unborn"

\* do_chip_auth, do_terminal_auth, do_active_auth and do_read_dg3 start a thread.
\* The first three are in the Card menu too, which is always enabled.
Press(op) ==
  /\ ~Exporting
  /\ reader # 0
  /\ op = "TA" => caDone
  /\ op = "DG3" => taDone /\ dg3Btn
  /\ \E a \in Actions :
       /\ NextAction(a, op)
       /\ acts' = [acts EXCEPT ![a] = [op |-> op, pc |-> "begun", rd |-> 0]]
  /\ SetButtonsBusy
  /\ orderly' = (orderly /\ ReadOver /\ (op # "DG3" => eacBtns))
  /\ UNCHANGED <<session, reading, reader, caDone, taDone, lastPd, queue, open, rpc, scan,
                 stages, level, bounds>>

\* refresh_readers, the reader still plugged in.
RefreshReaders ==
  /\ ~Exporting
  /\ readBtn' = TRUE
  /\ orderly' = (orderly /\ AtRest)
  /\ UNCHANGED <<session, reading, eacBtns, dg3Btn, reader, caDone, taDone, lastPd, queue, open,
                 rpc, scan,
                 acts, stages, level, bounds>>

\* _debug_export_all_efs reads EF.CardAccess in the clear, on the Tk thread, ...
ExportEfs ==
  /\ ~Exporting /\ lastPd # NoPd /\ reader # 0
  /\ \E a \in Actions :
       /\ NextAction(a, "export")
       /\ acts' = [acts EXCEPT ![a] = [op |-> "export", pc |-> "using", rd |-> reader]]
  /\ orderly' = FALSE
  /\ UNCHANGED <<session, reading, ui, reader, caDone, taDone, lastPd, queue, open, rpc, scan,
                 stages, level, bounds>>

\* ... and selects the application in the clear, which ends the chip's session.
ExportEfsDone(a) ==
  /\ acts[a].op = "export" /\ acts[a].pc = "using"
  /\ acts' = [acts EXCEPT ![a].pc = "done"]
  /\ level' = [level EXCEPT ![acts[a].rd] = "none"]
  /\ UNCHANGED <<session, reading, ui, reader, caDone, taDone, lastPd, queue, open, rpc, scan,
                 stages,
                 conduct>>

\* What _export_coverage_report writes if it is chosen now, which it may be as soon
\* as there is a trace: the data groups' rows and EF.CVCA are from _last_pd.
Report == [session |-> session, data |-> lastPd \ NoPd]

-----------------------------------------------------------------------------
ReadThread(s) ==
  \/ Connect(s) \/ Authenticate(s) \/ ReadAll(s)
  \/ FindRunning(s) \/ FailRunning(s) \/ ReadFails(s)
  \/ ReadingOff(s) \/ ReadEnds(s)
ActThread(a) ==
  \/ ActBegins(a) \/ ActExchange(a) \/ ActDone(a) \/ ReadDg3Done(a) \/ TerminalAuthDone(a)
  \/ Reread(a) \/ ActFails(a) \/ ActEnds(a)
TkThread ==
  \/ KeepReader \/ Display \/ EnableRead \/ ShowFailure \/ SetButtonsIdle
  \/ \E a \in Actions : ExportEfsDone(a)
User ==
  \/ ReadPassport \/ RefreshReaders \/ ExportEfs
  \/ \E op \in {"CA", "TA", "AA", "DG3"} : Press(op)

Program ==
  \/ \E s \in Reads : ReadThread(s)
  \/ \E a \in Actions : ActThread(a)
  \/ TkThread

Next == Program \/ User

\* Of the threads that have something to do, one gets on with it (they all end, so
\* that each does); nobody has to press anything.
Fairness == WF_vars(Program)

Spec == Init /\ [][Next]_vars /\ Fairness

-----------------------------------------------------------------------------
(* Properties.                                                             *)

\* The values the variables range over.
TypeOK ==
  /\ session \in 0 .. MaxReads /\ reader \in 0 .. MaxReads
  /\ {reading, readBtn, eacBtns, dg3Btn, caDone, taDone} \subseteq BOOLEAN
  /\ lastPd \subseteq 0 .. MaxReads /\ open \subseteq Reads
  /\ queue \in Seq([do: {"keep", "display", "enable", "failed", "idle"}, arg: SUBSET (0 .. MaxReads)])
  /\ rpc \in [Reads -> {"unborn", "connecting", "authenticating", "reading", "failing", "marking",
                        "finally", "posting", "done"}]
  /\ scan \in [Reads -> 1 .. Len(StageOrder) + 1]
  /\ acts \in [Actions -> [op: Ops \cup {"none"}, rd: 0 .. MaxReads,
                           pc: {"unborn", "begun", "using", "succeeded", "rereading", "failing",
                                "posting", "done"}]]
  /\ stages \in [Stages -> [status: {"not_run", "running", "ok", "failed"}, of: 0 .. MaxReads]]
  /\ level \in [Reads -> {"none", "basic", "ca", "ta"}]
  /\ bounds \in Bounds /\ orderly \in BOOLEAN

\* One read at a time, although Refresh and the end of an action enable the
\* button while a read is running.
Reading(s) ==
  rpc[s] \in {"connecting", "authenticating", "reading", "failing", "marking", "finally"}
OneRead == \A s, t \in Reads : Reading(s) /\ Reading(t) => s = t

\* When all is at rest no connection is open but that of the reader at hand: those
\* of failed reads, and of readers replaced, are gone.
NoConnectionLeft == AtRest => open \subseteq {reader}

\* The threads in the middle of an operation over a connection: wrapping,
\* sending and unwrapping on its one pair of counters.
UsersOf(s) ==
  (IF rpc[s] \in {"authenticating", "reading"} THEN {0} ELSE {})
    \cup {a \in Actions : acts[a].rd = s /\ acts[a].pc \in {"using", "rereading"}}
OneThreadPerChannel == \A s \in open : Cardinality(UsersOf(s)) <= 1

\* Two threads share a channel only if the user has pressed an action during a
\* read or another action, through the menu (_set_buttons_busy disables the buttons
\* only), or has enabled Read passport by Refresh in between.
ChannelOfOneThread == orderly => OneThreadPerChannel

FlagsOfChip ==
  /\ caDone => reader # 0 /\ level[reader] \in {"ca", "ta"}
  /\ taDone => reader # 0 /\ level[reader] = "ta"

\* A flag that lets a button through speaks of the reader at hand and of what its
\* chip has granted, for an orderly user: it was not set by a thread of the passport
\* before, and the chip's state has not been reset since.
FlagsMatchChip == orderly => FlagsOfChip

StagesOfSession == \A st \in Stages : stages[st].status # "not_run" => stages[st].of \in {session, 0}

\* The coverage trace of a session shows the outcome of no other session's steps,
\* for an orderly user: no thread outlives the session it was started in.
TraceOfOneSession == orderly => StagesOfSession

\* Has what the session's own read brought back been displayed?
Displayed ==
  /\ stages["dg_read"].status = "ok"
  /\ \A i \in 1 .. Len(queue) : queue[i].do # "display"

\* The coverage report an orderly user gets shows data groups and trust points of
\* one passport only; and once the read of its session has been displayed, of that
\* session's.  Before that, and for good if that read fails, it shows the passport
\* read before under the metadata of the new session, as _last_pd is kept.
ReportOfLiveSession ==
  orderly /\ session > 0 =>
    \E s \in 1 .. Report.session : Report.data \subseteq {s} /\ (Displayed => s = Report.session)

\* No stage is left "running" when no thread is: whatever fails, and however the
\* threads of two reads overlap, the report never shows a step in progress.
NoStageLeftRunning ==
  (\A s \in Reads : rpc[s] \in {"unborn", "done"}) /\ (\A a \in Actions : acts[a].pc \in {"unborn", "done"})
    => \A st \in Stages : stages[st].status # "running"

\* However operations overlap and fail, once the user stops pressing buttons the
\* application comes to rest, ready to read.
ReadyAgain == <>[](AtRest /\ readBtn /\ ~reading)
=============================================================================
