----------------------------- MODULE SessionTrace -----------------------------
(***************************************************************************)
(* The coverage trace of trace.py between the threads that write it and    *)
(* the export that reads it.  The thread of the read and the threads of    *)
(* actions mark stages, each mark under the lock; the Tk thread begins     *)
(* sessions and exports: it copies evidence from the reader, copies the    *)
(* trace under the lock, lets the lock go and only then computes the       *)
(* scores, functional first, security after, from the live trace.          *)
(*                                                                         *)
(* A test of the functional matrix has the status of its stage (mark keeps *)
(* the two in step), so one status stands for both.  An action may be      *)
(* pressed during the read or another action, and a read begun while       *)
(* actions are at work, which then mark the trace of the session after     *)
(* theirs (the buttons are in EpassportGui, the Card menu is always        *)
(* enabled).  Details, the transcript and the negative matrix are left     *)
(* out.                                                                    *)
(***************************************************************************)
EXTENDS Naturals, Sequences, FiniteSets

CONSTANT
  Bounds  \* the bounds runs may have: sessions begun, actions pressed and at work at
          \* once, reports exported

ASSUME TraceAssumption == \A b \in Bounds : {b.reads, b.actions, b.atOnce, b.exports} \subseteq Nat

VARIABLES
  bounds,    \* the bounds of this run
  session,   \* sessions begun; the trace is of this one, of none if 0
  status,    \* status of each stage
  evidence,  \* evidence recorded: of which stage, from which session's reader
  known,     \* evidence the reader holds: pace_, ca_ and ta_evidence
  reader,    \* _reader: the session that connected it, or 0
  passed,    \* _ca_done and _ta_done: the operations whose flag is set
  rd,        \* where the thread of the read is, and the place in StageOrder it looks at
  acts,      \* threads of actions: operation, where it is, the session it was pressed in
             \* and the session whose reader it uses
  displays,  \* _display callbacks posted and not yet run
  done,      \* actions pressed, reports begun
  export,    \* the export under way
  report,    \* the report written, until the next is begun
  outcome    \* (history) how the last operation on each stage ended, and the session
             \* it was begun in

trace == <<bounds, session, status, evidence, known, reader, passed, rd, acts, displays, done,
           export, report, outcome>>

Stages == {"connect", "card_access", "authentication", "passive_auth", "chip_auth",
           "terminal_auth", "active_auth", "dg_read", "eac_dg_read"}
SecurityStages == {"chip_auth", "terminal_auth", "active_auth"}
NeedEvidence   == {"chip_auth", "terminal_auth"}

\* The order in which _trace_fail_running looks at the stages.
StageOrder == <<"connect", "card_access", "authentication", "chip_auth", "terminal_auth",
                "active_auth", "dg_read", "eac_dg_read">>

Ops      == {"CA", "TA", "AA", "DG3"}
Slots    == 1 .. bounds.atOnce
Blank    == [st \in Stages |-> "not_run"]
NoOutcome == [st \in Stages |-> [result |-> "not_run", of |-> 0]]
NoRead   == [pc |-> "idle", scan |-> 1]
NoAction == [op |-> "none", pc |-> "idle", of |-> 0, rd |-> 0]
NoExport == [pc |-> "idle", evidence |-> {}, functional |-> 0, deserved |-> FALSE]
NoReport == [session |-> 0, readiness |-> "none", evidence |-> {}, counted |-> {},
             deserved |-> FALSE]

Init ==
  /\ bounds \in Bounds
  /\ session = 0 /\ status = Blank /\ evidence = {}
  /\ known = {} /\ reader = 0 /\ passed = {}
  /\ rd = NoRead /\ acts = [a \in Slots |-> NoAction]
  /\ displays = 0
  /\ done = [actions |-> 0, exports |-> 0] /\ export = NoExport /\ report = NoReport
  /\ outcome = NoOutcome

-----------------------------------------------------------------------------
(* Scores.                                                                 *)

Ok(sts) == {st \in Stages : sts[st] = "ok"}

\* The functional score, in ninths.
Functional(sts) == Cardinality(Ok(sts))

\* Mutant of Counted: an "ok" is enough.
CountedOnWord(sts, ev) == Ok(sts) \cap SecurityStages

\* The security stages that count: those of Chip and Terminal Authentication need
\* evidence beside the "ok".
Counted(sts, ev) ==
  {st \in Ok(sts) \cap SecurityStages : st \in NeedEvidence => \E e \in ev : e.stage = st}

\* _readiness, with thresholds of 0.3 and 0.8 of nine and of three.
Readiness(func, sec) ==
  IF 10 * func < 27 THEN "setup-only"
  ELSE IF 10 * func >= 72 /\ 10 * sec >= 24 THEN "advanced" ELSE "partial"

\* The session as it is at one moment deserves the best label.
Advanced(sts, ev) == Readiness(Functional(sts), Cardinality(Counted(sts, ev))) = "advanced"

-----------------------------------------------------------------------------
(* SessionTrace.mark.                                                      *)

\* One mark under the lock; an export under way notes whether the label was ever
\* deserved while it was scoring.
Mark(st, s) ==
  /\ status' = [status EXCEPT ![st] = s]
  /\ export' = [export EXCEPT !.deserved =
       @ \/ (export.pc = "scoring" /\ Advanced(status', evidence))]

\* A mark that ends an operation begun in session n.
Concludes(st, s, n) ==
  Mark(st, s) /\ outcome' = [outcome EXCEPT ![st] = [result |-> s, of |-> n]]

-----------------------------------------------------------------------------
(* The thread of the read, _read_worker.                                   *)

ReadGoes(from, to) == rd.pc = from /\ rd' = [rd EXCEPT !.pc = to]
ReadsOnly(v) == UNCHANGED <<bounds, session, evidence, reader, passed, acts, done, report>> /\ UNCHANGED v

\* probe.connect; a failure finds no stage of its own running.
Connect ==
  \/ ReadGoes("connecting", "detecting") /\ Concludes("connect", "ok", session)
       /\ ReadsOnly(<<known, displays>>)
  \/ ReadGoes("connecting", "failing") /\ ReadsOnly(<<known, displays, status, export, outcome>>)

\* EF.CardAccess, unless the protocol was given; credentials may be missing.
DetectProtocol ==
  \/ /\ ReadGoes("detecting", "choosing")
     /\ \/ \E s \in {"ok", "failed"} : Concludes("card_access", s, session)
        \/ UNCHANGED <<status, export, outcome>>
     /\ ReadsOnly(<<known, displays>>)
  \/ ReadGoes("choosing", "idle") /\ ReadsOnly(<<known, displays, status, export, outcome>>)
  \/ ReadGoes("choosing", "authenticating") /\ Mark("authentication", "running")
       /\ ReadsOnly(<<known, displays, outcome>>)

\* BAC, PACE or both; PACE alone leaves evidence.  _keep_reader is posted.
Authenticate ==
  \/ /\ ReadGoes("authenticating", "keeping")
     /\ known' \in {{}, {"authentication"}}
     /\ Concludes("authentication", "ok", session)
     /\ ReadsOnly(displays)
  \/ /\ ReadGoes("authenticating", "failing")
     /\ outcome' = [outcome EXCEPT !["authentication"] = [result |-> "failed", of |-> session]]
     /\ ReadsOnly(<<known, displays, status, export>>)

\* Mutant of ReadAll: an error of one file is not caught in read_all.
ReadAllRaises ==
  /\ ReadGoes("reading", "failing")
  /\ ReadsOnly(<<known, displays, status, export, outcome>>)

\* read_all returns in any case, with data or with errors only.
ReadAll ==
  /\ ReadGoes("reading", "verifying")
  /\ Concludes("dg_read", "ok", session)
  /\ ReadsOnly(<<known, displays>>)

\* The verdict of passive authentication, if there is one, and the display.
MarkPassiveAuth ==
  /\ ReadGoes("verifying", "idle")
  /\ \/ \E s \in {"ok", "failed"} : Concludes("passive_auth", s, session)
     \/ UNCHANGED <<status, export, outcome>>
  /\ displays' = displays + 1
  /\ ReadsOnly(known)

\* _trace_fail_running goes through the stages and reads of each whether it is
\* running, without the lock ...
FindRunning ==
  /\ rd.pc = "failing"
  /\ rd' = IF rd.scan > Len(StageOrder) THEN NoRead
           ELSE IF status[StageOrder[rd.scan]] = "running" THEN [rd EXCEPT !.pc = "aborting"]
           ELSE [rd EXCEPT !.scan = @ + 1]
  /\ ReadsOnly(<<known, displays, status, export, outcome>>)

\* ... and marks it, whatever it shows by then.
FailRunning ==
  /\ rd.pc = "aborting"
  /\ Mark(StageOrder[rd.scan], "failed")
  /\ rd' = [pc |-> "failing", scan |-> rd.scan + 1]
  /\ ReadsOnly(<<known, displays, outcome>>)

-----------------------------------------------------------------------------
(* The threads of actions, _chip_auth_worker and its like.  Each reads     *)
(* self._reader when it gets to use it.                                    *)

StageOf(op) ==
  CASE op = "CA" -> "chip_auth" [] op = "TA" -> "terminal_auth" [] op = "AA" -> "active_auth"
    [] op = "DG3" -> "eac_dg_read"

ActIs(a, pc) == acts[a].pc = pc
ActGoes(a, to) == acts' = [acts EXCEPT ![a].pc = to]
ActEnds(a) == acts' = [acts EXCEPT ![a] = NoAction]
ActsOnly(v) == UNCHANGED <<bounds, session, evidence, reader, rd, done, report>> /\ UNCHANGED v

ActBegins(a) ==
  /\ ActIs(a, "begun")
  /\ acts' = [acts EXCEPT ![a].rd = reader, ![a].pc = IF reader = 0 THEN "failed" ELSE "using"]
  /\ Mark(StageOf(acts[a].op), "running")
  /\ ActsOnly(<<known, passed, displays, outcome>>)

\* The operation over the card: CA and TA leave their evidence in the reader, which
\* may have been replaced by then.
ActExchange(a) ==
  /\ ActIs(a, "using")
  /\ \/ /\ ActGoes(a, "succeeded")
        /\ known' = IF acts[a].op \in {"CA", "TA"} /\ acts[a].rd = reader
                    THEN known \cup {StageOf(acts[a].op)} ELSE known
     \/ ActGoes(a, "failed") /\ UNCHANGED known
  /\ ActsOnly(<<passed, displays, status, export, outcome>>)

\* ... and only afterwards set the flag and mark the stage.  Terminal Authentication
\* goes on to read the groups that needed it, Read DG3 shows its group.
ActMarks(a) ==
  \/ /\ ActIs(a, "succeeded")
     /\ Concludes(StageOf(acts[a].op), "ok", acts[a].of)
     /\ passed' = passed \cup ({acts[a].op} \cap {"CA", "TA"})
     /\ IF acts[a].op = "TA" THEN ActGoes(a, "rereading") ELSE ActEnds(a)
     /\ displays' = IF acts[a].op = "DG3" THEN displays + 1 ELSE displays
     /\ ActsOnly(known)
  \/ /\ ActIs(a, "failed")
     /\ Concludes(StageOf(acts[a].op), "failed", acts[a].of)
     /\ ActEnds(a)
     /\ ActsOnly(<<known, passed, displays>>)

RereadBegins(a) ==
  /\ ActIs(a, "rereading")
  /\ acts' = [acts EXCEPT ![a].rd = reader, ![a].pc = "rereads"]
  /\ Mark("eac_dg_read", "running")
  /\ ActsOnly(<<known, passed, displays, outcome>>)

\* Without a reader it fails.
Reread(a) ==
  /\ ActIs(a, "rereads")
  /\ ActEnds(a)
  /\ \/ /\ acts[a].rd # 0
        /\ Concludes("eac_dg_read", "ok", acts[a].of) /\ displays' = displays + 1
     \/ Concludes("eac_dg_read", "failed", acts[a].of) /\ UNCHANGED displays
  /\ ActsOnly(<<known, passed>>)

-----------------------------------------------------------------------------
(* The Tk thread.                                                          *)

TkOnly(v) == UNCHANGED <<bounds, displays>> /\ UNCHANGED v

\* SessionTrace.begin_session, under the lock.
BeginSession ==
  /\ session' = session + 1
  /\ status' = Blank /\ outcome' = NoOutcome
  /\ evidence' = {}

\* read_passport, unless a read is in progress: the reader before is closed, the
\* trace begun, the thread started.
ReadPassport ==
  /\ session < bounds.reads
  /\ rd.pc = "idle" /\ export.pc = "idle"
  /\ reader' = 0 /\ known' = {} /\ passed' = {}
  /\ BeginSession
  /\ rd' = [NoRead EXCEPT !.pc = "connecting"]
  /\ TkOnly(<<acts, done, export, report>>)

\* _keep_reader.
KeepReader ==
  /\ export.pc = "idle"
  /\ ReadGoes("keeping", "reading")
  /\ reader' = session /\ passed' = {}
  /\ TkOnly(<<known, session, status, evidence, acts, done, export, report, outcome>>)

\* do_chip_auth and the other handlers: Read DG3 wants the flag of a Terminal
\* Authentication, that the flag of a Chip Authentication.
Press(op) ==
  /\ export.pc = "idle" /\ reader # 0
  /\ op = "TA" => "CA" \in passed
  /\ op = "DG3" => "TA" \in passed
  /\ done.actions < bounds.actions /\ done' = [done EXCEPT !.actions = @ + 1]
  /\ \E a \in Slots :
       /\ ActIs(a, "idle") /\ \A b \in 1 .. a - 1 : ~ActIs(b, "idle")
       /\ acts' = [acts EXCEPT ![a] = [op |-> op, pc |-> "begun", of |-> session, rd |-> 0]]
  /\ TkOnly(<<known, session, status, evidence, reader, passed, rd, export, report, outcome>>)

\* _populate_report: evidence from the reader at hand.
PopulateReport ==
  /\ session > 0 /\ export.pc = "idle"
  /\ done.exports < bounds.exports /\ done' = [done EXCEPT !.exports = @ + 1]
  /\ evidence' = IF reader = 0 THEN evidence
                 ELSE {e \in evidence : e.stage \notin known}
                        \cup {[stage |-> st, of |-> reader] : st \in known}
  /\ export' = [NoExport EXCEPT !.pc = "populated"] /\ report' = NoReport
  /\ TkOnly(<<known, session, status, reader, passed, rd, acts, outcome>>)

\* finalize, and to_dict under the lock.
CopyTrace ==
  /\ export.pc = "populated"
  /\ export' = [export EXCEPT !.pc = "copied", !.evidence = evidence]
  /\ TkOnly(<<known, session, status, evidence, reader, passed, rd, acts, done, report, outcome>>)

\* Mutant of ScoreFunctional: every stage that was attempted counts.
ScoreFunctionalAttempted ==
  /\ export.pc = "copied"
  /\ export' = [export EXCEPT !.pc = "scoring", !.deserved = Advanced(status, evidence),
                              !.functional = Cardinality({st \in Stages : status[st] # "not_run"})]
  /\ TkOnly(<<known, session, status, evidence, reader, passed, rd, acts, done, report, outcome>>)

\* _scores, without the lock: first the functional score ...
ScoreFunctional ==
  /\ export.pc = "copied"
  /\ export' = [export EXCEPT !.pc = "scoring", !.functional = Functional(status),
                              !.deserved = Advanced(status, evidence)]
  /\ TkOnly(<<known, session, status, evidence, reader, passed, rd, acts, done, report, outcome>>)

\* ... then security, and the label for the two; the report is written.
ScoreSecurity ==
  /\ export.pc = "scoring"
  /\ LET counted == Counted(status, evidence)
     IN  report' = [session |-> session, evidence |-> export.evidence, counted |-> counted,
                    readiness |-> Readiness(export.functional, Cardinality(counted)),
                    deserved |-> export.deserved]
  /\ export' = NoExport
  /\ TkOnly(<<known, session, status, evidence, reader, passed, rd, acts, done, outcome>>)

-----------------------------------------------------------------------------
ReadThread ==
  Connect \/ DetectProtocol \/ Authenticate \/ ReadAll \/ MarkPassiveAuth \/ FindRunning \/ FailRunning
ActThread(a) ==
  ActBegins(a) \/ ActExchange(a) \/ ActMarks(a) \/ RereadBegins(a) \/ Reread(a)
TkThread ==
  \/ ReadPassport \/ KeepReader \/ (\E op \in Ops : Press(op))
  \/ PopulateReport \/ CopyTrace \/ ScoreFunctional \/ ScoreSecurity

-----------------------------------------------------------------------------
(* Properties.                                                             *)

\* Although the two scores are taken one after the other while threads go on
\* marking, a report never calls a session "advanced" that did not deserve it at
\* some moment of the scoring.
ReadinessEarned == report.readiness = "advanced" => report.deserved

\* A success that counts towards the security score has its evidence in the same
\* report, and all evidence there is of the session the report is about.
SecurityBacked ==
  /\ \A st \in report.counted \cap NeedEvidence : \E e \in report.evidence : e.stage = st
  /\ \A e \in report.evidence : e.of = report.session

\* Once no thread is at work each stage shows how the last operation on it ended:
\* the failure of one thread is not marked on the stages of another.  Only of an
\* action that outlived its session may the outcome be overwritten, by the failure
\* of the read that began the next one (which found the stage running).
OutcomeKept ==
  rd.pc = "idle" /\ (\A a \in Slots : ActIs(a, "idle")) =>
    \A st \in Stages :
      \/ status[st] = outcome[st].result
      \/ status[st] = "failed" /\ outcome[st].of \in 1 .. session - 1
=============================================================================
