--------------------------- MODULE Records_proofs ---------------------------
(***************************************************************************)
(* However threads, exports, saves and crashes interleave, over any number *)
(* of sessions: a report counts no success without its evidence and holds  *)
(* no evidence of another session, and a stage no thread is at work on     *)
(* shows how the last operation on it ended, unless that is an action      *)
(* which outlived its session.  The history shown is the latest MRZs read, *)
(* however often the application is started.                               *)
(***************************************************************************)
EXTENDS Records, FiniteSetTheorems, SequenceTheorems, TLAPS

\* The thread of the read before it hands over its reader, or gives up.
Starting == {"connecting", "detecting", "choosing", "authenticating", "keeping", "failing", "aborting"}
Failing  == {"failing", "aborting"}
ReadPcs  == Starting \cup {"idle", "reading", "verifying"}
ActPcs   == {"idle", "begun", "using", "succeeded", "failed", "rereading", "rereads"}

Threading ==
  /\ rd \in [pc: ReadPcs, scan: 1 .. 9]
  /\ rd.pc \notin Failing => rd.scan = 1
  /\ rd.pc = "aborting" => rd.scan \in 1 .. 8
  /\ acts \in [Slots -> [op: Ops \cup {"none"}, pc: ActPcs, of: Nat, rd: Nat]]
  /\ \A a \in Slots : acts[a].pc # "idle" => acts[a].op \in Ops /\ acts[a].of \in 1 .. session
  /\ session \in Nat /\ known \subseteq Stages

Marking ==
  /\ status \in [Stages -> {"not_run", "running", "ok", "failed"}]
  /\ outcome \in [Stages -> [result: {"not_run", "ok", "failed"}, of: Nat]]
  /\ export = [pc |-> export.pc, evidence |-> export.evidence,
               functional |-> export.functional, deserved |-> export.deserved]

\* Evidence, in the trace and in the copy an export works on, is of the session.
OfSession ==
  /\ reader \in {0, session}
  /\ \A e \in evidence : e.of = session
  /\ export.pc \in {"copied", "scoring"} => export.evidence = evidence

\* The action is about to mark the stage.
WorksOn(a, st) ==
  \/ acts[a].pc \in {"using", "succeeded", "failed"} /\ st = StageOf(acts[a].op)
  \/ acts[a].pc = "rereads" /\ st = "eac_dg_read"

\* The read is, in its own course or because it failed.
ReadOn(st) ==
  /\ st = "authentication"
  /\ rd.pc = "authenticating" \/ (rd.pc \in Failing /\ rd.scan <= 3)

\* An action of an earlier session is about to mark the stage, or was the last to.
Outlived(st) ==
  \/ outcome[st].of \in 1 .. session - 1
  \/ \E a \in Slots : WorksOn(a, st) /\ acts[a].of < session

\* A stage that does not show its outcome shows that a thread works on it, or that
\* of an action that outlived its session the failing read has marked it.
Attended(st) ==
  \/ status[st] = outcome[st].result
  \/ status[st] = "running" /\ (ReadOn(st) \/ \E a \in Slots : WorksOn(a, st))
  \/ status[st] = "failed" /\ Outlived(st)

\* While a read starts, actions at work are of earlier sessions; what it finds
\* running, if it fails, is its own authentication or the stage of one of these.
Attending ==
  /\ rd.pc \in Starting =>
       reader = 0 /\ \A a \in Slots : acts[a].pc # "idle" => acts[a].of < session
  /\ \A st \in Stages : Attended(st)
  /\ rd.pc = "authenticating" => status["authentication"] = "running"
  /\ rd.pc \in Failing /\ status["authentication"] = "running" =>
       outcome["authentication"].result = "failed"
  /\ rd.pc = "aborting" =>
       LET st == StageOrder[rd.scan]
       IN  IF st = "authentication" THEN outcome[st].result = "failed" ELSE Outlived(st)

Inv == Threading /\ Marking /\ OfSession /\ Attending /\ SecurityBacked

-----------------------------------------------------------------------------
LEMMA OrderOfStages ==
  /\ Len(StageOrder) = 8 /\ StageOrder[3] = "authentication"
  /\ \A i \in 1 .. 8 : StageOrder[i] \in Stages /\ (StageOrder[i] = "authentication" => i = 3)
<1> DEFINE p(i) == StageOrder[i] \in Stages /\ (StageOrder[i] = "authentication" => i = 3)
<1>1. p(1) /\ p(2) /\ p(3) /\ p(4) /\ p(5) /\ p(6) /\ p(7) /\ p(8)
  BY DEF StageOrder, Stages
<1>2. \A i \in 1 .. 8 : i = 1 \/ i = 2 \/ i = 3 \/ i = 4 \/ i = 5 \/ i = 6 \/ i = 7 \/ i = 8
  OBVIOUS
<1>3. \A i \in 1 .. 8 : p(i)
  <2> HIDE DEF p
  <2> QED BY <1>1, <1>2
<1>4. Len(StageOrder) = 8 /\ StageOrder[3] = "authentication"
  BY DEF StageOrder
<1> QED BY <1>3, <1>4

LEMMA InvInit == RecordsInit => Inv
<1> SUFFICES ASSUME RecordsInit PROVE Inv
  OBVIOUS
<1> USE DEF RecordsInit, Init, Blank, NoOutcome, NoRead, NoAction, NoExport, NoReport
<1>1. Threading
  BY DEF Threading, Failing, Starting, ReadPcs, ActPcs
<1>2. Marking
  BY DEF Marking
<1>3. OfSession
  BY DEF OfSession
<1>4. Attending
  BY DEF Attending, Attended, Starting, Failing
<1>5. SecurityBacked
  BY DEF SecurityBacked
<1> QED BY <1>1, <1>2, <1>3, <1>4, <1>5 DEF Inv

\* A mark changes one stage, and of an export only what was deserved.
LEMMA Marked ==
  ASSUME Marking, NEW st \in Stages, NEW s \in {"running", "ok", "failed"}, Mark(st, s)
  PROVE  /\ status' \in [Stages -> {"not_run", "running", "ok", "failed"}]
         /\ status'[st] = s
         /\ \A other \in Stages \ {st} : status'[other] = status[other]
         /\ export' = [pc |-> export.pc, evidence |-> export.evidence,
                       functional |-> export.functional, deserved |-> export'.deserved]
         /\ export'.pc = export.pc /\ export'.evidence = export.evidence
         /\ export'.functional = export.functional
<1>1. status \in [Stages -> {"not_run", "running", "ok", "failed"}] /\ status' = [status EXCEPT ![st] = s]
  BY DEF Marking, Mark
<1>2. status'[st] = s /\ \A other \in Stages \ {st} : status'[other] = status[other]
  BY <1>1
<1>3. status' \in [Stages -> {"not_run", "running", "ok", "failed"}]
  BY <1>1
<1>4. /\ export = [pc |-> export.pc, evidence |-> export.evidence,
                   functional |-> export.functional, deserved |-> export.deserved]
      /\ \E d : export' = [export EXCEPT !.deserved = d]
  BY DEF Marking, Mark
<1>5. PICK d : export' = [export EXCEPT !.deserved = d]
  BY <1>4
<1>6. export' = [pc |-> export.pc, evidence |-> export.evidence,
                 functional |-> export.functional, deserved |-> d]
  BY <1>4, <1>5
<1> QED BY <1>2, <1>3, <1>6

\* A conclusion sets the outcome with it.
LEMMA Concluded ==
  ASSUME Marking, NEW st \in Stages, NEW s \in {"ok", "failed"}, NEW n \in Nat, Concludes(st, s, n)
  PROVE  /\ Mark(st, s)
         /\ outcome' \in [Stages -> [result: {"not_run", "ok", "failed"}, of: Nat]]
         /\ outcome'[st] = [result |-> s, of |-> n]
         /\ \A other \in Stages \ {st} : outcome'[other] = outcome[other]
<1>1. outcome' = [outcome EXCEPT ![st] = [result |-> s, of |-> n]] /\ Mark(st, s)
  BY DEF Concludes
<1>2. outcome \in [Stages -> [result: {"not_run", "ok", "failed"}, of: Nat]]
  BY DEF Marking
<1> QED BY <1>1, <1>2

LEMMA Settled ==
  ASSUME Marking, NEW st \in Stages, NEW s \in {"ok", "failed"}, NEW n \in Nat, Concludes(st, s, n)
  PROVE  /\ status'[st] = s /\ outcome'[st].result = s /\ outcome'[st].of = n
         /\ \A other \in Stages \ {st} : status'[other] = status[other] /\ outcome'[other] = outcome[other]
<1>1. Mark(st, s) /\ outcome'[st] = [result |-> s, of |-> n]
      /\ \A other \in Stages \ {st} : outcome'[other] = outcome[other]
  BY Concluded
<1>2. status'[st] = s /\ \A other \in Stages \ {st} : status'[other] = status[other]
  BY <1>1, Marked
<1> QED BY <1>1, <1>2

\* What a step does to the stages: nothing, mark one as running or failed, or
\* conclude the operation on one.
Nothing == UNCHANGED <<status, outcome, export>>
Marks(st, s) == Mark(st, s) /\ UNCHANGED outcome

LEMMA MarkingStep ==
  ASSUME Marking,
         \/ Nothing
         \/ \E st \in Stages, s \in {"running", "failed"} : Marks(st, s)
         \/ \E st \in Stages, s \in {"ok", "failed"}, n \in Nat : Concludes(st, s, n)
  PROVE  Marking' /\ export'.pc = export.pc /\ export'.evidence = export.evidence
<1>1. CASE Nothing
  BY <1>1 DEF Marking, Nothing
<1>2. CASE \E st \in Stages, s \in {"running", "failed"} : Marks(st, s)
  <2>1. PICK st \in Stages, s \in {"running", "failed"} : Mark(st, s) /\ UNCHANGED outcome
    BY <1>2 DEF Marks
  <2> QED BY <2>1, Marked DEF Marking
<1>3. CASE \E st \in Stages, s \in {"ok", "failed"}, n \in Nat : Concludes(st, s, n)
  <2>1. PICK st \in Stages, s \in {"ok", "failed"}, n \in Nat : Concludes(st, s, n)
    BY <1>3
  <2>2. Mark(st, s) /\ outcome' \in [Stages -> [result: {"not_run", "ok", "failed"}, of: Nat]]
    BY <2>1, Concluded
  <2> QED BY <2>2, Marked DEF Marking
<1> QED BY <1>1, <1>2, <1>3

\* What the threads and most of the Tk thread leave as it is.
Same ==
  /\ UNCHANGED <<session, evidence, reader, report>>
  /\ export'.pc = export.pc /\ export'.evidence = export.evidence

LEMMA SameBacked == OfSession /\ SecurityBacked /\ Same => OfSession' /\ SecurityBacked'
BY DEF OfSession, SecurityBacked, Same

LEMMA StageOfOp == ASSUME NEW op \in Ops PROVE StageOf(op) \in Stages \ {"authentication"}
BY DEF StageOf, Ops, Stages

\* No action works on the authentication.
LEMMA NotOnRead == ASSUME Threading, NEW a \in Slots PROVE ~WorksOn(a, "authentication")
<1>1. acts[a].pc # "idle" => StageOf(acts[a].op) # "authentication"
  BY StageOfOp DEF Threading
<1> QED BY <1>1 DEF WorksOn

-----------------------------------------------------------------------------
(* The thread of the read.                                                 *)

\* Actions, session and bounds are as before.
SameActs == UNCHANGED <<bounds, session, acts>>

\* A step of the read that keeps its own stages: nothing works on less than before.
LEMMA AttendedRead ==
  ASSUME Inv, SameActs, NEW st \in Stages, ReadOn(st) => ReadOn(st)',
         status'[st] = status[st], outcome'[st] = outcome[st]
  PROVE  Attended(st)'
<1>1. Attended(st)
  BY DEF Inv, Attending
<1>2. \A a \in Slots : WorksOn(a, st)' = WorksOn(a, st)
  BY DEF SameActs, WorksOn
<1>3. Slots' = Slots
  BY DEF SameActs, Slots
<1>4. Outlived(st) => Outlived(st)'
  BY <1>2, <1>3 DEF Outlived, SameActs
<1>5. (\E a \in Slots : WorksOn(a, st)) => \E a \in Slots' : WorksOn(a, st)'
  BY <1>2, <1>3
<1>6. status'[st] = "running" /\ ReadOn(st) => Attended(st)'
  BY DEF Attended
<1>7. status'[st] = "running" /\ (\E a \in Slots : WorksOn(a, st)) => Attended(st)'
  BY <1>5 DEF Attended
<1>8. status'[st] = "failed" /\ Outlived(st) => Attended(st)'
  BY <1>4 DEF Attended
<1>9. status'[st] = outcome'[st].result => Attended(st)'
  BY DEF Attended
<1> QED BY <1>1, <1>6, <1>7, <1>8, <1>9 DEF Attended


\* A step of the read that touches one stage at most.
LEMMA AttendingRead ==
  ASSUME Inv, SameActs, NEW st \in Stages,
         \A other \in Stages \ {st} : status'[other] = status[other] /\ outcome'[other] = outcome[other],
         ReadOn("authentication") => st = "authentication" \/ ReadOn("authentication")',
         Attended(st)',
         rd'.pc \in Starting => rd.pc \in Starting /\ reader' = reader,
         rd'.pc = "authenticating" => status'["authentication"] = "running",
         rd'.pc \in Failing /\ status'["authentication"] = "running" =>
           outcome'["authentication"].result = "failed",
         rd'.pc # "aborting"
  PROVE  Attending'
<1>1. Slots' = Slots
  BY DEF SameActs, Slots
<1>2. rd'.pc \in Starting => reader' = 0 /\ \A a \in Slots' : acts'[a].pc # "idle" => acts'[a].of < session'
  BY <1>1 DEF Inv, Attending, SameActs
<1>3. ASSUME NEW other \in Stages \ {st} PROVE Attended(other)'
  <2>1. ReadOn(other) => ReadOn(other)'
    BY DEF ReadOn
  <2> QED BY <2>1, AttendedRead
<1> QED BY <1>2, <1>3 DEF Attending

LEMMA InvRead ==
  ASSUME Inv, ReadThread
  PROVE  Inv'
<1>0. /\ rd \in [pc: ReadPcs, scan: 1 .. 9] /\ session \in Nat
      /\ {"authentication", "connect", "card_access", "dg_read", "passive_auth"} \subseteq Stages
  BY DEF Inv, Threading, Stages
<1>a. /\ SameActs /\ UNCHANGED <<evidence, reader, report>> /\ Slots' = Slots
  BY DEF ReadThread, Connect, DetectProtocol, Authenticate, ReadAll, MarkPassiveAuth, FindRunning,
         FailRunning, ReadsOnly, SameActs, Slots
<1>b. ASSUME rd' \in [pc: ReadPcs, scan: 1 .. 9], rd'.pc \notin Failing => rd'.scan = 1,
             rd'.pc = "aborting" => rd'.scan \in 1 .. 8, known' \subseteq Stages,
             Marking', export'.pc = export.pc, export'.evidence = export.evidence, Attending'
      PROVE  Inv'
  <2>1. Threading'
    BY <1>a, <1>b DEF Inv, Threading, SameActs
  <2>2. Same
    BY <1>a, <1>b DEF Same, SameActs
  <2> QED BY <1>b, <2>1, <2>2, SameBacked DEF Inv
<1>c. status["authentication"] = "running" => ReadOn("authentication")
  <2>1. Attended("authentication") /\ outcome["authentication"].result # "running"
    BY <1>0 DEF Inv, Attending, Marking
  <2> QED BY <2>1, NotOnRead DEF Attended, Inv
<1>d. known \subseteq Stages /\ Marking /\ session \in Nat
  BY DEF Inv, Threading
<1>1. CASE ReadGoes("connecting", "detecting") /\ Concludes("connect", "ok", session) /\ UNCHANGED known
  <2>1. rd.pc = "connecting" /\ rd'.pc = "detecting" /\ rd'.scan = rd.scan /\ rd' \in [pc: ReadPcs, scan: 1 .. 9]
        /\ rd'.scan = 1
    BY <1>0, <1>1 DEF ReadGoes, ReadPcs, Starting, Failing, Inv, Threading
  <2>2. /\ status'["connect"] = "ok" /\ outcome'["connect"].result = "ok"
        /\ \A other \in Stages \ {"connect"} : status'[other] = status[other] /\ outcome'[other] = outcome[other]
    BY <1>0, <1>1, <1>d, Settled
  <2>3. Attending'
    <3>1. Attended("connect")' /\ ~ReadOn("authentication")
      BY <2>1, <2>2 DEF Attended, ReadOn, Failing
    <3> QED BY <1>0, <1>a, <2>1, <2>2, <3>1, AttendingRead DEF Starting, Failing
  <2>4. Marking' /\ export'.pc = export.pc /\ export'.evidence = export.evidence
    BY <1>0, <1>1, <1>d, MarkingStep
  <2> QED BY <1>1, <1>b, <1>d, <2>1, <2>3, <2>4 DEF Failing
<1>2. CASE ReadGoes("connecting", "failing") /\ Nothing /\ UNCHANGED known
  <2>1. rd.pc = "connecting" /\ rd'.pc = "failing" /\ rd'.scan = rd.scan /\ rd' \in [pc: ReadPcs, scan: 1 .. 9]
    BY <1>0, <1>2 DEF ReadGoes, ReadPcs, Starting
  <2>2. ~ReadOn("authentication") /\ status["authentication"] # "running"
    BY <1>c, <2>1 DEF ReadOn, Failing
  <2>3. Attending'
    <3>1. Attended("connect")'
      <4>1. ReadOn("connect") => ReadOn("connect")'
        BY DEF ReadOn
      <4> QED BY <1>0, <1>2, <1>a, <4>1, AttendedRead DEF Nothing
    <3> QED BY <1>0, <1>2, <1>a, <2>1, <2>2, <3>1, AttendingRead DEF Starting, Failing, Nothing
  <2>4. Marking' /\ export'.pc = export.pc /\ export'.evidence = export.evidence
    BY <1>2, <1>d, MarkingStep
  <2> QED BY <1>2, <1>b, <1>d, <2>1, <2>3, <2>4 DEF Failing
<1>3. ASSUME NEW s \in {"ok", "failed"}, ReadGoes("detecting", "choosing"),
             Concludes("card_access", s, session), UNCHANGED known
      PROVE  Inv'
  <2>1. rd.pc = "detecting" /\ rd'.pc = "choosing" /\ rd'.scan = rd.scan /\ rd' \in [pc: ReadPcs, scan: 1 .. 9]
        /\ rd'.scan = 1
    BY <1>0, <1>3 DEF ReadGoes, ReadPcs, Starting, Failing, Inv, Threading
  <2>2. /\ status'["card_access"] = s /\ outcome'["card_access"].result = s
        /\ \A other \in Stages \ {"card_access"} : status'[other] = status[other] /\ outcome'[other] = outcome[other]
    BY <1>0, <1>3, <1>d, Settled
  <2>3. Attending'
    <3>1. Attended("card_access")' /\ ~ReadOn("authentication")
      BY <2>1, <2>2 DEF Attended, ReadOn, Failing
    <3> QED BY <1>0, <1>a, <2>1, <2>2, <3>1, AttendingRead DEF Starting, Failing
  <2>4. Marking' /\ export'.pc = export.pc /\ export'.evidence = export.evidence
    BY <1>0, <1>3, <1>d, MarkingStep
  <2> QED BY <1>3, <1>b, <1>d, <2>1, <2>3, <2>4 DEF Failing
<1>4. ASSUME NEW to \in {"choosing", "idle"}, rd.pc \in {"detecting", "choosing", "verifying"},
             rd' = [rd EXCEPT !.pc = to], to = "choosing" => rd.pc = "detecting",
             Nothing, UNCHANGED known
      PROVE  Inv'
  <2>1. rd'.pc = to /\ rd'.scan = rd.scan /\ rd' \in [pc: ReadPcs, scan: 1 .. 9] /\ rd'.scan = 1
    BY <1>0, <1>4 DEF ReadPcs, Starting, Failing, Inv, Threading
  <2>2. ~ReadOn("authentication")
    BY <1>4 DEF ReadOn, Failing
  <2>3. Attending'
    <3>1. Attended("connect")'
      <4>1. ReadOn("connect") => ReadOn("connect")'
        BY DEF ReadOn
      <4> QED BY <1>0, <1>4, <1>a, <4>1, AttendedRead DEF Nothing
    <3> QED BY <1>0, <1>4, <1>a, <2>1, <2>2, <3>1, AttendingRead DEF Starting, Failing, Nothing
  <2>4. Marking' /\ export'.pc = export.pc /\ export'.evidence = export.evidence
    BY <1>4, <1>d, MarkingStep
  <2> QED BY <1>4, <1>b, <1>d, <2>1, <2>3, <2>4 DEF Failing
<1>5. CASE ReadGoes("choosing", "authenticating") /\ Marks("authentication", "running") /\ UNCHANGED known
  <2>1. rd.pc = "choosing" /\ rd'.pc = "authenticating" /\ rd'.scan = rd.scan
        /\ rd' \in [pc: ReadPcs, scan: 1 .. 9] /\ rd'.scan = 1
    BY <1>0, <1>5 DEF ReadGoes, ReadPcs, Starting, Failing, Inv, Threading
  <2>2. /\ status'["authentication"] = "running"
        /\ \A other \in Stages \ {"authentication"} : status'[other] = status[other] /\ outcome'[other] = outcome[other]
    BY <1>0, <1>5, <1>d, Marked DEF Marks
  <2>3. Attending'
    <3>1. Attended("authentication")'
      BY <2>1, <2>2 DEF Attended, ReadOn
    <3> QED BY <1>0, <1>a, <2>1, <2>2, <3>1, AttendingRead DEF Starting, Failing
  <2>4. Marking' /\ export'.pc = export.pc /\ export'.evidence = export.evidence
    BY <1>0, <1>5, <1>d, MarkingStep
  <2> QED BY <1>5, <1>b, <1>d, <2>1, <2>3, <2>4 DEF Failing
<1>6. CASE ReadGoes("authenticating", "keeping") /\ Concludes("authentication", "ok", session)
           /\ known' \in {{}, {"authentication"}}
  <2>1. rd.pc = "authenticating" /\ rd'.pc = "keeping" /\ rd'.scan = rd.scan
        /\ rd' \in [pc: ReadPcs, scan: 1 .. 9] /\ rd'.scan = 1
    BY <1>0, <1>6 DEF ReadGoes, ReadPcs, Starting, Failing, Inv, Threading
  <2>2. /\ status'["authentication"] = "ok" /\ outcome'["authentication"].result = "ok"
        /\ \A other \in Stages \ {"authentication"} : status'[other] = status[other] /\ outcome'[other] = outcome[other]
    BY <1>0, <1>6, <1>d, Settled
  <2>3. Attending'
    <3>1. Attended("authentication")'
      BY <2>2 DEF Attended
    <3> QED BY <1>0, <1>a, <2>1, <2>2, <3>1, AttendingRead DEF Starting, Failing
  <2>4. Marking' /\ export'.pc = export.pc /\ export'.evidence = export.evidence
    BY <1>0, <1>6, <1>d, MarkingStep
  <2>5. known' \subseteq Stages
    BY <1>0, <1>6
  <2> QED BY <1>b, <2>1, <2>3, <2>4, <2>5 DEF Failing
<1>7. CASE /\ ReadGoes("authenticating", "failing") /\ UNCHANGED <<known, status, export>>
           /\ outcome' = [outcome EXCEPT !["authentication"] = [result |-> "failed", of |-> session]]
  <2>1. rd.pc = "authenticating" /\ rd'.pc = "failing" /\ rd'.scan = rd.scan
        /\ rd' \in [pc: ReadPcs, scan: 1 .. 9] /\ rd'.scan = 1
    BY <1>0, <1>7 DEF ReadGoes, ReadPcs, Starting, Failing, Inv, Threading
  <2>2. /\ status'["authentication"] = "running" /\ outcome'["authentication"].result = "failed"
        /\ \A other \in Stages \ {"authentication"} : status'[other] = status[other] /\ outcome'[other] = outcome[other]
    BY <1>0, <1>7, <1>d, <2>1 DEF Marking, Inv, Attending
  <2>3. Attending'
    <3>1. Attended("authentication")'
      BY <2>1, <2>2 DEF Attended, ReadOn, Failing
    <3> QED BY <1>0, <1>a, <2>1, <2>2, <3>1, AttendingRead DEF Starting, Failing
  <2>4. Marking' /\ export'.pc = export.pc /\ export'.evidence = export.evidence
    BY <1>0, <1>7, <1>d DEF Marking
  <2> QED BY <1>7, <1>b, <1>d, <2>1, <2>3, <2>4 DEF Failing
<1>8. CASE ReadGoes("reading", "verifying") /\ Concludes("dg_read", "ok", session) /\ UNCHANGED known
  <2>1. rd.pc = "reading" /\ rd'.pc = "verifying" /\ rd'.scan = rd.scan
        /\ rd' \in [pc: ReadPcs, scan: 1 .. 9] /\ rd'.scan = 1
    BY <1>0, <1>8 DEF ReadGoes, ReadPcs, Starting, Failing, Inv, Threading
  <2>2. /\ status'["dg_read"] = "ok" /\ outcome'["dg_read"].result = "ok"
        /\ \A other \in Stages \ {"dg_read"} : status'[other] = status[other] /\ outcome'[other] = outcome[other]
    BY <1>0, <1>8, <1>d, Settled
  <2>3. Attending'
    <3>1. Attended("dg_read")' /\ ~ReadOn("authentication")
      BY <2>1, <2>2 DEF Attended, ReadOn, Failing
    <3> QED BY <1>0, <1>a, <2>1, <2>2, <3>1, AttendingRead DEF Starting, Failing
  <2>4. Marking' /\ export'.pc = export.pc /\ export'.evidence = export.evidence
    BY <1>0, <1>8, <1>d, MarkingStep
  <2> QED BY <1>8, <1>b, <1>d, <2>1, <2>3, <2>4 DEF Failing
<1>9. ASSUME NEW s \in {"ok", "failed"}, ReadGoes("verifying", "idle"),
             Concludes("passive_auth", s, session), UNCHANGED known
      PROVE  Inv'
  <2>1. rd.pc = "verifying" /\ rd'.pc = "idle" /\ rd'.scan = rd.scan /\ rd' \in [pc: ReadPcs, scan: 1 .. 9]
        /\ rd'.scan = 1
    BY <1>0, <1>9 DEF ReadGoes, ReadPcs, Starting, Failing, Inv, Threading
  <2>2. /\ status'["passive_auth"] = s /\ outcome'["passive_auth"].result = s
        /\ \A other \in Stages \ {"passive_auth"} : status'[other] = status[other] /\ outcome'[other] = outcome[other]
    BY <1>0, <1>9, <1>d, Settled
  <2>3. Attending'
    <3>1. Attended("passive_auth")' /\ ~ReadOn("authentication")
      BY <2>1, <2>2 DEF Attended, ReadOn, Failing
    <3> QED BY <1>0, <1>a, <2>1, <2>2, <3>1, AttendingRead DEF Starting, Failing
  <2>4. Marking' /\ export'.pc = export.pc /\ export'.evidence = export.evidence
    BY <1>0, <1>9, <1>d, MarkingStep
  <2> QED BY <1>9, <1>b, <1>d, <2>1, <2>3, <2>4 DEF Failing
<1>10. CASE FindRunning
  <2>0. /\ rd.pc = "failing" /\ Nothing /\ UNCHANGED known
        /\ rd' = IF rd.scan > Len(StageOrder) THEN NoRead
                 ELSE IF status[StageOrder[rd.scan]] = "running" THEN [rd EXCEPT !.pc = "aborting"]
                 ELSE [rd EXCEPT !.scan = @ + 1]
    BY <1>10 DEF FindRunning, ReadsOnly, Nothing
  <2>1. rd.scan \in 1 .. 9 /\ Len(StageOrder) = 8
    BY <1>0, OrderOfStages
  <2>2. Marking' /\ export'.pc = export.pc /\ export'.evidence = export.evidence
    BY <1>d, <2>0, MarkingStep
  <2>3. ASSUME NEW st \in Stages, st = "authentication" => status[st] # "running" \/ ReadOn(st)'
        PROVE  Attended(st)'
    <3>1. CASE ReadOn(st) => ReadOn(st)'
      BY <1>a, <2>0, <3>1, AttendedRead DEF Nothing
    <3>2. CASE status[st] # "running"
      <4>1. status'[st] = status[st] /\ outcome'[st] = outcome[st]
        BY <2>0 DEF Nothing
      <4>2. Outlived(st) => Outlived(st)'
        BY <1>a, <2>0 DEF Outlived, WorksOn, SameActs, Nothing
      <4>3. Attended(st)
        BY DEF Inv, Attending
      <4> QED BY <3>2, <4>1, <4>2, <4>3 DEF Attended
    <3> QED BY <2>3, <3>1, <3>2 DEF ReadOn
  <2>4. rd'.pc \in Starting => reader' = 0 /\ \A a \in Slots' : acts'[a].pc # "idle" => acts'[a].of < session'
    BY <1>a, <2>0 DEF Inv, Attending, SameActs, Starting
  <2>5. CASE rd.scan > Len(StageOrder)
    <3>1. rd' = [pc |-> "idle", scan |-> 1] /\ ~ReadOn("authentication")
      BY <2>0, <2>1, <2>5 DEF NoRead, ReadOn
    <3>2. status["authentication"] # "running"
      BY <1>c, <3>1
    <3>3. Attending'
      <4>1. \A st \in Stages : Attended(st)'
        BY <2>3, <3>2
      <4> QED BY <2>4, <3>1, <4>1 DEF Attending, Starting, Failing
    <3> QED BY <1>b, <1>d, <2>0, <2>2, <3>1, <3>3 DEF ReadPcs, Failing
  <2>6. CASE rd.scan <= Len(StageOrder) /\ status[StageOrder[rd.scan]] = "running"
    <3>0. PICK st \in Stages : st = StageOrder[rd.scan]
      BY <2>1, <2>6, OrderOfStages
    <3>1. rd' = [rd EXCEPT !.pc = "aborting"] /\ rd.scan \in 1 .. 8
      BY <2>0, <2>1, <2>6
    <3>2. rd' \in [pc: ReadPcs, scan: 1 .. 9] /\ rd'.pc = "aborting" /\ rd'.scan = rd.scan
      BY <1>0, <3>1 DEF ReadPcs, Starting
    <3>3. ReadOn("authentication") => ReadOn("authentication")'
      BY <2>0, <3>2 DEF ReadOn, Failing
    <3>4. IF st = "authentication" THEN outcome[st].result = "failed" ELSE Outlived(st)
      <4>1. CASE st = "authentication"
        BY <2>0, <2>6, <3>0, <4>1 DEF Inv, Attending, Failing
      <4>2. CASE st # "authentication"
        <5>1. outcome[st].result # "running" /\ Attended(st) /\ ~ReadOn(st)
          BY <1>d, <3>1, <4>2 DEF Marking, Inv, Attending, ReadOn
        <5>2. PICK a \in Slots : WorksOn(a, st)
          BY <2>6, <3>0, <5>1 DEF Attended
        <5>3. acts[a].pc # "idle"
          BY <5>2 DEF WorksOn
        <5>4. acts[a].of < session
          BY <2>0, <5>3 DEF Inv, Attending, Starting
        <5> QED BY <4>2, <5>2, <5>4 DEF Outlived
      <4> QED BY <4>1, <4>2
    <3>5. IF st = "authentication" THEN outcome'[st].result = "failed" ELSE Outlived(st)'
      <4>1. outcome' = outcome /\ acts' = acts /\ session' = session
        BY <1>a, <2>0 DEF Nothing, SameActs
      <4>2. Outlived(st) => outcome'[st].of \in 1 .. session' - 1 \/ \E a \in Slots' : WorksOn(a, st)' /\ acts'[a].of < session'
        BY <1>a, <4>1 DEF Outlived, WorksOn
      <4> QED BY <3>4, <4>1, <4>2 DEF Outlived
    <3>6. Attending'
      <4>1. \A x \in Stages : Attended(x)'
        BY <1>c, <2>3, <3>3
      <4>2. status'["authentication"] = "running" => outcome'["authentication"].result = "failed"
        BY <2>0 DEF Inv, Attending, Failing, Nothing
      <4>3. st = StageOrder[rd'.scan]
        BY <3>0, <3>2
      <4> QED BY <2>4, <3>2, <3>5, <4>1, <4>2, <4>3 DEF Attending, Failing
    <3> QED BY <1>b, <1>d, <2>0, <2>2, <3>1, <3>2, <3>6 DEF Failing
  <2>7. CASE rd.scan <= Len(StageOrder) /\ status[StageOrder[rd.scan]] # "running"
    <3>1. rd' = [rd EXCEPT !.scan = @ + 1] /\ rd.scan \in 1 .. 8
      BY <2>0, <2>1, <2>7
    <3>2. rd' \in [pc: ReadPcs, scan: 1 .. 9] /\ rd'.pc = "failing" /\ rd'.scan = rd.scan + 1
      BY <1>0, <2>0, <3>1
    <3>3. status["authentication"] # "running" \/ ReadOn("authentication")'
      <4>1. CASE rd.scan = 3
        BY <2>7, <4>1, OrderOfStages
      <4>2. CASE rd.scan # 3
        BY <1>c, <3>1, <3>2, <4>2 DEF ReadOn, Failing
      <4> QED BY <4>1, <4>2
    <3>4. Attending'
      <4>1. \A x \in Stages : Attended(x)'
        BY <2>3, <3>3
      <4>2. status'["authentication"] = "running" => outcome'["authentication"].result = "failed"
        BY <2>0 DEF Inv, Attending, Failing, Nothing
      <4> QED BY <2>4, <3>2, <4>1, <4>2 DEF Attending, Failing
    <3> QED BY <1>b, <1>d, <2>0, <2>2, <3>2, <3>4 DEF Failing
  <2> QED BY <2>1, <2>5, <2>6, <2>7
<1>11. CASE FailRunning
  <2>a. PICK st \in Stages : st = StageOrder[rd.scan] /\ (st = "authentication" <=> rd.scan = 3)
    BY <1>11, OrderOfStages DEF FailRunning, Inv, Threading
  <2>0. /\ rd.pc = "aborting" /\ Marks(st, "failed") /\ UNCHANGED known
        /\ rd' = [pc |-> "failing", scan |-> rd.scan + 1]
    BY <1>11, <2>a DEF FailRunning, ReadsOnly, Marks
  <2>1. rd.scan \in 1 .. 8 /\ (st = "authentication" <=> rd.scan = 3)
    BY <2>0, <2>a DEF Inv, Threading
  <2>2. IF st = "authentication" THEN outcome[st].result = "failed" ELSE Outlived(st)
    BY <2>0, <2>a DEF Inv, Attending
  <2>3. rd' \in [pc: ReadPcs, scan: 1 .. 9] /\ rd'.pc = "failing" /\ rd'.scan = rd.scan + 1
    BY <2>0, <2>1 DEF ReadPcs, Starting
  <2>4. /\ status'[st] = "failed" /\ outcome' = outcome
        /\ \A other \in Stages \ {st} : status'[other] = status[other]
    BY <1>d, <2>0, <2>1, Marked DEF Marks
  <2>5. Attended(st)'
    <3>1. CASE st = "authentication"
      <4>1. status'["authentication"] = outcome'["authentication"].result
        BY <2>2, <2>4, <3>1
      <4>2. Attended("authentication")'
        BY <4>1 DEF Attended
      <4> QED BY <3>1, <4>2
    <3>2. CASE st # "authentication"
      <4>1. Outlived(st)
        BY <2>2, <3>2
      <4>2. Outlived(st)'
        BY <1>a, <2>4, <4>1 DEF Outlived, WorksOn, SameActs
      <4> QED BY <2>4, <4>2 DEF Attended
    <3> QED BY <3>1, <3>2
  <2>6. Attending'
    <3>1. ReadOn("authentication") => st = "authentication" \/ ReadOn("authentication")'
      BY <2>0, <2>1, <2>3 DEF ReadOn, Failing
    <3>2. status'["authentication"] = "running" => outcome'["authentication"].result = "failed"
      BY <1>0, <2>0, <2>1, <2>4 DEF Inv, Attending, Failing
    <3> QED BY <1>0, <1>a, <2>0, <2>1, <2>3, <2>4, <2>5, <3>1, <3>2, AttendingRead DEF Starting, Failing
  <2>7. Marking' /\ export'.pc = export.pc /\ export'.evidence = export.evidence
    BY <1>d, <2>0, <2>1, MarkingStep
  <2> QED BY <1>b, <1>d, <2>0, <2>3, <2>6, <2>7 DEF Failing
<1>12. Connect => Inv'
  BY <1>1, <1>2 DEF Connect, ReadsOnly, Nothing
<1>13. DetectProtocol => Inv'
  BY <1>3, <1>4, <1>5 DEF DetectProtocol, ReadsOnly, ReadGoes, Nothing, Marks
<1>14. Authenticate => Inv'
  BY <1>6, <1>7 DEF Authenticate, ReadsOnly
<1>15. ReadAll => Inv'
  BY <1>8 DEF ReadAll, ReadsOnly
<1>16. MarkPassiveAuth => Inv'
  BY <1>4, <1>9 DEF MarkPassiveAuth, ReadsOnly, ReadGoes, Nothing
<1> QED BY <1>10, <1>11, <1>12, <1>13, <1>14, <1>15, <1>16 DEF ReadThread

-----------------------------------------------------------------------------
(* The thread of an action, which changes its own record and the stage it  *)
(* works on.                                                               *)

\* The action's record is the next one, of the same operation and session unless it
\* is done.
Moves(a, n) ==
  /\ acts' = [acts EXCEPT ![a] = n]
  /\ n \in [op: Ops \cup {"none"}, pc: ActPcs, of: Nat, rd: Nat]
  /\ n.pc # "idle" => n.op = acts[a].op /\ n.of = acts[a].of
  /\ UNCHANGED <<bounds, session, reader, rd>>

\* The threads at their stages, when an action moves: what it does not leave stays
\* attended.
LEMMA AttendedAct ==
  ASSUME Inv, NEW a \in Slots, acts[a].pc # "idle", NEW n, Moves(a, n), NEW st \in Stages,
         WorksOn(a, st) => WorksOn(a, st)', outcome'[st] = outcome[st]
  PROVE  /\ status'[st] = status[st] => Attended(st)'
         /\ Outlived(st) => Outlived(st)'
<1>1. Slots' = Slots /\ session' = session /\ rd' = rd
  BY DEF Moves, Slots
<1>2. \A b \in Slots : WorksOn(b, st) => WorksOn(b, st)' /\ acts'[b].of = acts[b].of
  <2> SUFFICES ASSUME NEW b \in Slots, WorksOn(b, st) PROVE WorksOn(b, st)' /\ acts'[b].of = acts[b].of
    OBVIOUS
  <2>1. CASE b = a
    <3>1. acts'[a] = n /\ acts'[a].pc # "idle"
      BY <2>1 DEF Moves, Inv, Threading, WorksOn
    <3> QED BY <2>1, <3>1 DEF Moves
  <2>2. CASE b # a
    <3>1. acts'[b] = acts[b]
      BY <2>2 DEF Moves, Inv, Threading
    <3> QED BY <3>1 DEF WorksOn
  <2> QED BY <2>1, <2>2
<1>3. Outlived(st) => Outlived(st)'
  BY <1>1, <1>2 DEF Outlived
<1>4. Attended(st)
  BY DEF Inv, Attending
<1>5. ReadOn(st)' = ReadOn(st)
  BY <1>1 DEF ReadOn
<1>6. ASSUME status'[st] = status[st] PROVE Attended(st)'
  <2>1. CASE status[st] = "running" /\ \E b \in Slots : WorksOn(b, st)
    BY <1>1, <1>2, <1>6, <2>1 DEF Attended
  <2>2. CASE status[st] = "running" /\ ReadOn(st)
    BY <1>5, <1>6, <2>2 DEF Attended
  <2>3. CASE status[st] = "failed" /\ Outlived(st)
    BY <1>3, <1>6, <2>3 DEF Attended
  <2>4. CASE status[st] = outcome[st].result
    BY <1>6, <2>4 DEF Attended
  <2> QED BY <1>4, <2>1, <2>2, <2>3, <2>4 DEF Attended
<1> QED BY <1>3, <1>6

\* A step of an action that touches the stage st at most.
LEMMA AttendingAct ==
  ASSUME Inv, NEW a \in Slots, acts[a].pc # "idle", NEW n, Moves(a, n), NEW st \in Stages \ {"authentication"},
         \A other \in Stages \ {st} :
           /\ status'[other] = status[other] /\ outcome'[other] = outcome[other]
           /\ WorksOn(a, other) => WorksOn(a, other)',
         Attended(st)',
         rd.pc = "aborting" => Outlived(st)'
  PROVE  Attending'
<1>1. Slots' = Slots /\ UNCHANGED <<session, rd, reader>> /\ "authentication" \in Stages \ {st}
  BY DEF Moves, Slots, Stages
<1>2. \A x \in Stages : Attended(x)' /\ (rd.pc = "aborting" => (Outlived(x) => Outlived(x)'))
  <2> SUFFICES ASSUME NEW x \in Stages PROVE Attended(x)' /\ (rd.pc = "aborting" => (Outlived(x) => Outlived(x)'))
    OBVIOUS
  <2>1. CASE x = st
    BY <2>1
  <2>2. CASE x # st
    BY <2>2, AttendedAct
  <2> QED BY <2>1, <2>2
<1>3. rd'.pc \in Starting => reader' = 0 /\ \A b \in Slots' : acts'[b].pc # "idle" => acts'[b].of < session'
  <2> SUFFICES ASSUME rd.pc \in Starting, NEW b \in Slots, acts'[b].pc # "idle" PROVE reader = 0 /\ acts'[b].of < session
    <3>1. rd.pc \in Starting => reader = 0
      BY DEF Inv, Attending
    <3> QED BY <1>1, <3>1
  <2>1. \A c \in Slots : acts[c].pc # "idle" => acts[c].of < session
    BY DEF Inv, Attending
  <2>2. reader = 0
    BY DEF Inv, Attending
  <2>3. CASE b = a
    <3>1. acts'[a] = n
      BY DEF Moves, Inv, Threading
    <3>2. n.of = acts[a].of
      BY <2>3, <3>1 DEF Moves
    <3> QED BY <2>1, <2>2, <2>3, <3>1, <3>2
  <2>4. CASE b # a
    <3>1. acts'[b] = acts[b]
      BY <2>4 DEF Moves, Inv, Threading
    <3> QED BY <2>1, <2>2, <3>1
  <2> QED BY <2>3, <2>4
<1>4. /\ rd'.pc = "authenticating" => status'["authentication"] = "running"
      /\ rd'.pc \in Failing /\ status'["authentication"] = "running" =>
           outcome'["authentication"].result = "failed"
  BY <1>1 DEF Inv, Attending
<1>5. ASSUME rd.pc = "aborting"
      PROVE  IF StageOrder[rd'.scan] = "authentication" THEN outcome'[StageOrder[rd'.scan]].result = "failed"
             ELSE Outlived(StageOrder[rd.scan])'
  <2>1. PICK x \in Stages : x = StageOrder[rd.scan]
    BY <1>5, OrderOfStages DEF Inv, Threading
  <2>2. IF x = "authentication" THEN outcome[x].result = "failed" ELSE Outlived(x)
    BY <1>5, <2>1 DEF Inv, Attending
  <2>3. IF x = "authentication" THEN outcome'[x].result = "failed" ELSE Outlived(x)'
    BY <1>1, <1>2, <1>5, <2>2
  <2>4. x = StageOrder[rd'.scan]
    BY <1>1, <2>1
  <2>5. Outlived(x)' => Outlived(StageOrder[rd.scan])'
    BY <2>4 DEF Outlived, WorksOn
  <2> QED BY <1>1, <2>3, <2>4, <2>5
<1> QED BY <1>1, <1>2, <1>3, <1>4, <1>5 DEF Attending

\* The actions leave everything else of the invariant.
LEMMA InvMoves ==
  ASSUME Inv, NEW a \in Slots, NEW n, Moves(a, n), n.pc # "idle" => n.op \in Ops /\ n.of \in 1 .. session,
         Marking', export'.pc = export.pc, export'.evidence = export.evidence, Attending',
         UNCHANGED <<evidence, report>>, known' \subseteq Stages
  PROVE  Inv'
<1>1. Slots' = Slots /\ acts' \in [Slots -> [op: Ops \cup {"none"}, pc: ActPcs, of: Nat, rd: Nat]]
  BY DEF Moves, Inv, Threading, Slots
<1>2. \A b \in Slots : acts'[b].pc # "idle" => acts'[b].op \in Ops /\ acts'[b].of \in 1 .. session
  <2> SUFFICES ASSUME NEW b \in Slots, acts'[b].pc # "idle" PROVE acts'[b].op \in Ops /\ acts'[b].of \in 1 .. session
    OBVIOUS
  <2>1. acts'[b] = IF b = a THEN n ELSE acts[b]
    BY DEF Moves, Inv, Threading
  <2> QED BY <2>1 DEF Inv, Threading
<1>3. Threading'
  BY <1>1, <1>2 DEF Threading, Moves, Inv
<1>4. Same
  BY DEF Same, Moves
<1> QED BY <1>3, <1>4, SameBacked DEF Inv

LEMMA InvAct ==
  ASSUME Inv, NEW a \in Slots, ActThread(a)
  PROVE  Inv'
<1>0. /\ acts[a] \in [op: Ops \cup {"none"}, pc: ActPcs, of: Nat, rd: Nat] /\ acts[a].pc # "idle"
      /\ acts[a].op \in Ops /\ acts[a].of \in 1 .. session /\ session \in Nat /\ reader \in Nat
      /\ StageOf(acts[a].op) \in Stages \ {"authentication"} /\ "eac_dg_read" \in Stages \ {"authentication"}
      /\ Marking /\ known \subseteq Stages /\ acts \in [Slots -> [op: Ops \cup {"none"}, pc: ActPcs, of: Nat, rd: Nat]]
  <2>1. acts[a].pc # "idle"
    BY DEF ActThread, ActBegins, ActExchange, ActMarks, RereadBegins, Reread, ActIs
  <2>2. acts[a].op \in Ops /\ acts[a].of \in 1 .. session /\ session \in Nat /\ reader \in Nat
    BY <2>1 DEF Inv, Threading, OfSession
  <2>3. Marking /\ known \subseteq Stages /\ acts \in [Slots -> [op: Ops \cup {"none"}, pc: ActPcs, of: Nat, rd: Nat]]
    BY DEF Inv, Threading
  <2> QED BY <2>1, <2>2, <2>3, StageOfOp DEF Stages
<1>a. UNCHANGED <<evidence, report, bounds, session, reader, rd>> /\ Slots' = Slots
  BY DEF ActThread, ActBegins, ActExchange, ActMarks, RereadBegins, Reread, ActsOnly, Slots
<1>b. rd.pc = "aborting" => acts[a].of < session
  BY <1>0 DEF Inv, Attending, Starting
<1>1. ASSUME NEW st \in Stages \ {"authentication"}, Marks(st, "running"), UNCHANGED known, NEW n, Moves(a, n),
             n.pc # "idle", WorksOn(a, st)', \A x \in Stages : ~WorksOn(a, x)
      PROVE  Inv'
  <2>1. /\ status'[st] = "running" /\ outcome' = outcome
        /\ \A other \in Stages \ {st} : status'[other] = status[other]
    BY <1>0, <1>1, Marked DEF Marks
  <2>2. Attended(st)'
    BY <1>1, <1>a, <2>1 DEF Attended
  <2>3. acts'[a] = n /\ n.of = acts[a].of
    BY <1>0, <1>1 DEF Moves
  <2>4. rd.pc = "aborting" => Outlived(st)'
    BY <1>1, <1>a, <1>b, <2>3 DEF Outlived
  <2>6. Attending'
    BY <1>0, <1>1, <2>1, <2>2, <2>4, AttendingAct
  <2>7. Marking' /\ export'.pc = export.pc /\ export'.evidence = export.evidence
    BY <1>0, <1>1, MarkingStep
  <2>8. n.op \in Ops /\ n.of \in 1 .. session
    BY <1>0, <1>1 DEF Moves
  <2> QED BY <1>0, <1>1, <1>a, <2>6, <2>7, <2>8, InvMoves
<1>2. ASSUME NEW st \in Stages \ {"authentication"}, NEW s \in {"ok", "failed"}, Concludes(st, s, acts[a].of),
             UNCHANGED known, NEW n, Moves(a, n), \A x \in Stages \ {st} : ~WorksOn(a, x)
      PROVE  Inv'
  <2>1. /\ status'[st] = s /\ outcome'[st].result = s /\ outcome'[st].of = acts[a].of
        /\ \A other \in Stages \ {st} : status'[other] = status[other] /\ outcome'[other] = outcome[other]
    BY <1>0, <1>2, Settled
  <2>2. Attended(st)'
    BY <2>1 DEF Attended
  <2>3. rd.pc = "aborting" => Outlived(st)'
    BY <1>0, <1>a, <1>b, <2>1 DEF Outlived
  <2>5. Attending'
    BY <1>0, <1>2, <2>1, <2>2, <2>3, AttendingAct
  <2>6. Marking' /\ export'.pc = export.pc /\ export'.evidence = export.evidence
    BY <1>0, <1>2, MarkingStep
  <2>7. n.pc # "idle" => n.op \in Ops /\ n.of \in 1 .. session
    BY <1>0, <1>2 DEF Moves
  <2> QED BY <1>0, <1>2, <1>a, <2>5, <2>6, <2>7, InvMoves
<1>3. CASE ActBegins(a)
  <2> DEFINE n == [acts[a] EXCEPT !.rd = reader, !.pc = IF reader = 0 THEN "failed" ELSE "using"]
  <2>1. /\ acts[a].pc = "begun" /\ acts' = [acts EXCEPT ![a] = n]
        /\ Marks(StageOf(acts[a].op), "running") /\ UNCHANGED known
    BY <1>3 DEF ActBegins, ActIs, ActsOnly, Marks
  <2>2. /\ n \in [op: Ops \cup {"none"}, pc: ActPcs, of: Nat, rd: Nat] /\ n.pc \in {"using", "failed"}
        /\ n.op = acts[a].op /\ n.of = acts[a].of
    BY <1>0 DEF ActPcs
  <2> HIDE DEF n
  <2>3. Moves(a, n) /\ acts'[a] = n
    BY <1>0, <1>a, <2>1, <2>2 DEF Moves
  <2>4. ASSUME NEW st, st = StageOf(acts[a].op) PROVE WorksOn(a, st)'
    BY <2>2, <2>3, <2>4 DEF WorksOn
  <2>5. \A x \in Stages : ~WorksOn(a, x)
    BY <2>1 DEF WorksOn
  <2>6. PICK st \in Stages \ {"authentication"} : st = StageOf(acts[a].op)
    BY <1>0
  <2> QED BY <1>1, <2>1, <2>2, <2>3, <2>4, <2>5, <2>6
<1>4. CASE ActExchange(a)
  <2>1. PICK pc \in {"succeeded", "failed"} : acts' = [acts EXCEPT ![a].pc = pc]
    BY <1>4 DEF ActExchange, ActGoes
  <2>2. acts[a].pc = "using" /\ Nothing /\ known' \subseteq Stages
    BY <1>0, <1>4 DEF ActExchange, ActIs, ActsOnly, Nothing
  <2> DEFINE n == [acts[a] EXCEPT !.pc = pc]
  <2>3. /\ n \in [op: Ops \cup {"none"}, pc: ActPcs, of: Nat, rd: Nat] /\ n.pc = pc
        /\ n.op = acts[a].op /\ n.of = acts[a].of /\ acts' = [acts EXCEPT ![a] = n]
    BY <1>0, <2>1 DEF ActPcs
  <2> HIDE DEF n
  <2>4. Moves(a, n) /\ acts'[a] = n
    BY <1>0, <1>a, <2>3 DEF Moves
  <2>5. ASSUME NEW x \in Stages PROVE WorksOn(a, x) => WorksOn(a, x)'
    BY <2>2, <2>3, <2>4 DEF WorksOn
  <2>6. ASSUME NEW x \in Stages PROVE Attended(x)' /\ (Outlived(x) => Outlived(x)')
    BY <1>0, <2>2, <2>4, <2>5, AttendedAct DEF Nothing
  <2>7. PICK st \in Stages \ {"authentication"} : st = StageOf(acts[a].op)
    BY <1>0
  <2>8. rd.pc = "aborting" => Outlived(st)'
    <3>1. WorksOn(a, st)
      BY <2>2, <2>7 DEF WorksOn
    <3>2. acts[a].of < session => Outlived(st)
      BY <3>1 DEF Outlived
    <3> QED BY <1>b, <2>6, <3>2
  <2>9. Attending'
    BY <1>0, <2>2, <2>4, <2>5, <2>6, <2>8, AttendingAct DEF Nothing
  <2>10. Marking' /\ export'.pc = export.pc /\ export'.evidence = export.evidence
    BY <1>0, <2>2, MarkingStep
  <2> QED BY <1>0, <1>a, <2>2, <2>3, <2>4, <2>9, <2>10, InvMoves
<1>5. CASE ActMarks(a)
  <2>1. /\ acts[a].pc \in {"succeeded", "failed"} /\ UNCHANGED known
        /\ \E s \in {"ok", "failed"} : Concludes(StageOf(acts[a].op), s, acts[a].of)
        /\ \/ acts' = [acts EXCEPT ![a] = NoAction]
           \/ acts' = [acts EXCEPT ![a].pc = "rereading"]
    BY <1>5 DEF ActMarks, ActIs, ActsOnly, ActGoes, ActEnds
  <2>2. PICK s \in {"ok", "failed"} : Concludes(StageOf(acts[a].op), s, acts[a].of)
    BY <2>1
  <2>3. PICK st \in Stages \ {"authentication"} : st = StageOf(acts[a].op)
    BY <1>0
  <2>4. \A x \in Stages \ {st} : ~WorksOn(a, x)
    BY <2>1, <2>3 DEF WorksOn
  <2>5. Moves(a, NoAction) \/ Moves(a, [acts[a] EXCEPT !.pc = "rereading"])
    <3>1. CASE acts' = [acts EXCEPT ![a] = NoAction]
      BY <1>0, <1>a, <3>1 DEF Moves, NoAction, ActPcs
    <3>2. CASE acts' = [acts EXCEPT ![a].pc = "rereading"]
      BY <1>0, <1>a, <3>2 DEF Moves, ActPcs
    <3> QED BY <2>1, <3>1, <3>2
  <2> QED BY <1>2, <2>1, <2>2, <2>3, <2>4, <2>5
<1>6. CASE RereadBegins(a)
  <2> DEFINE n == [acts[a] EXCEPT !.rd = reader, !.pc = "rereads"]
  <2>1. /\ acts[a].pc = "rereading" /\ acts' = [acts EXCEPT ![a] = n]
        /\ Marks("eac_dg_read", "running") /\ UNCHANGED known
    BY <1>6 DEF RereadBegins, ActIs, ActsOnly, Marks
  <2>2. /\ n \in [op: Ops \cup {"none"}, pc: ActPcs, of: Nat, rd: Nat] /\ n.pc = "rereads"
        /\ n.op = acts[a].op /\ n.of = acts[a].of
    BY <1>0 DEF ActPcs
  <2> HIDE DEF n
  <2>3. Moves(a, n) /\ acts'[a] = n
    BY <1>0, <1>a, <2>1, <2>2 DEF Moves
  <2>4. WorksOn(a, "eac_dg_read")'
    BY <2>2, <2>3 DEF WorksOn
  <2>5. \A x \in Stages : ~WorksOn(a, x)
    BY <2>1 DEF WorksOn
  <2> QED BY <1>0, <1>1, <2>1, <2>2, <2>3, <2>4, <2>5
<1>7. CASE Reread(a)
  <2>1. /\ acts[a].pc = "rereads" /\ acts' = [acts EXCEPT ![a] = NoAction] /\ UNCHANGED known
        /\ \E s \in {"ok", "failed"} : Concludes("eac_dg_read", s, acts[a].of)
    BY <1>7 DEF Reread, ActIs, ActEnds, ActsOnly
  <2>2. PICK s \in {"ok", "failed"} : Concludes("eac_dg_read", s, acts[a].of)
    BY <2>1
  <2>3. \A x \in Stages \ {"eac_dg_read"} : ~WorksOn(a, x)
    BY <2>1 DEF WorksOn
  <2>4. Moves(a, NoAction)
    BY <1>0, <1>a, <2>1 DEF Moves, NoAction, ActPcs
  <2> QED BY <1>0, <1>2, <2>1, <2>2, <2>3, <2>4
<1> QED BY <1>3, <1>4, <1>5, <1>6, <1>7 DEF ActThread

-----------------------------------------------------------------------------
(* The Tk thread.                                                          *)

\* What leaves threads, stages and the reader as they are.
Idle == UNCHANGED <<session, status, reader, rd, outcome>>

\* ... keeps threads and stages in step.
LEMMA IdleKept == ASSUME Inv, Idle, UNCHANGED <<bounds, known, acts>> PROVE Threading' /\ Attending'
<1>1. Slots' = Slots
  BY DEF Slots
<1>2. Threading'
  BY <1>1 DEF Inv, Threading, Idle
<1>3. ASSUME NEW st \in Stages PROVE Attended(st)'
  <2>1. Attended(st)
    BY DEF Inv, Attending
  <2> QED BY <1>1, <2>1 DEF Attended, ReadOn, Outlived, WorksOn, Idle
<1>4. rd.pc = "aborting" =>
        IF StageOrder[rd.scan] = "authentication" THEN outcome'[StageOrder[rd.scan]].result = "failed"
        ELSE Outlived(StageOrder[rd.scan])'
  BY <1>1 DEF Inv, Attending, Outlived, WorksOn, Idle
<1>5. Attending'
  <2>1. rd'.pc \in Starting =>
          reader' = 0 /\ \A a \in Slots' : acts'[a].pc # "idle" => acts'[a].of < session'
    BY <1>1 DEF Inv, Attending, Idle
  <2>2. /\ rd'.pc = "authenticating" => status'["authentication"] = "running"
        /\ rd'.pc \in Failing /\ status'["authentication"] = "running" =>
             outcome'["authentication"].result = "failed"
    BY DEF Inv, Attending, Idle
  <2>3. rd' = rd
    BY DEF Idle
  <2> QED BY <1>3, <1>4, <2>1, <2>2, <2>3 DEF Attending
<1> QED BY <1>2, <1>5

LEMMA InvTk ==
  ASSUME Inv, TkThread
  PROVE  Inv'
<1> USE DEF Inv
<1>0. Slots' = Slots /\ bounds' = bounds
  BY DEF TkThread, ReadPassport, KeepReader, Press, PopulateReport, CopyTrace, ScoreFunctional,
         ScoreSecurity, TkOnly, Slots
<1>1. CASE ReadPassport
  <2>1. /\ rd' = [pc |-> "connecting", scan |-> 1] /\ export.pc = "idle" /\ session' = session + 1
        /\ reader' = 0 /\ known' = {} /\ evidence' = {} /\ status' = Blank /\ outcome' = NoOutcome
        /\ UNCHANGED <<acts, export, report>>
    BY <1>1 DEF ReadPassport, BeginSession, TkOnly, NoRead
  <2>2. session \in Nat
    BY DEF Threading
  <2>3. \A a \in Slots : acts[a].pc # "idle" => acts[a].of \in 1 .. session + 1 /\ acts[a].of < session + 1
    BY <2>2 DEF Threading
  <2>4. Threading'
    BY <1>0, <2>1, <2>2, <2>3 DEF Threading, ReadPcs, Starting, Failing
  <2>5. Marking'
    BY <2>1 DEF Marking, Blank, NoOutcome
  <2>6. OfSession'
    BY <2>1 DEF OfSession
  <2>7. \A st \in Stages : status'[st] = outcome'[st].result
    BY <2>1 DEF Blank, NoOutcome
  <2>8. Attending'
    BY <1>0, <2>1, <2>3, <2>7 DEF Attending, Attended, Failing
  <2>9. SecurityBacked'
    BY <2>1 DEF SecurityBacked
  <2> QED BY <2>4, <2>5, <2>6, <2>8, <2>9
<1>2. CASE KeepReader
  <2>1. /\ rd.pc = "keeping" /\ rd' = [rd EXCEPT !.pc = "reading"] /\ reader' = session
        /\ UNCHANGED <<known, session, status, evidence, acts, export, report, outcome>>
    BY <1>2 DEF KeepReader, ReadGoes, TkOnly
  <2>2. rd' \in [pc: ReadPcs, scan: 1 .. 9] /\ rd'.pc = "reading" /\ rd'.scan = 1
    BY <2>1 DEF Threading, ReadPcs, Starting, Failing
  <2>3. Threading' /\ Marking' /\ OfSession'
    BY <1>0, <2>1, <2>2 DEF Threading, Marking, OfSession, Failing
  <2>4. ASSUME NEW st \in Stages PROVE Attended(st)'
    <3>1. ReadOn(st) => ReadOn(st)'
      BY <2>1 DEF ReadOn, Failing
    <3> QED BY <1>0, <2>1, <3>1, AttendedRead DEF SameActs
  <2>5. Attending'
    BY <2>2, <2>4 DEF Attending, Starting, Failing
  <2>6. SecurityBacked'
    BY <2>1 DEF SecurityBacked
  <2> QED BY <2>3, <2>5, <2>6
<1>3. CASE \E op \in Ops : Press(op)
  <2>1. PICK op \in Ops : Press(op)
    BY <1>3
  <2>2. PICK a \in Slots :
          /\ acts[a].pc = "idle"
          /\ acts' = [acts EXCEPT ![a] = [op |-> op, pc |-> "begun", of |-> session, rd |-> 0]]
    BY <2>1 DEF Press, ActIs
  <2>3. reader # 0 /\ session \in Nat /\ session >= 1 /\ UNCHANGED <<known, export, evidence, report>> /\ Idle
    BY <2>1 DEF Press, TkOnly, Idle, OfSession, Threading
  <2>4. \A b \in Slots : acts'[b] = IF b = a THEN [op |-> op, pc |-> "begun", of |-> session, rd |-> 0] ELSE acts[b]
    BY <2>2 DEF Threading
  <2>5. Threading'
    <3>1. acts' \in [Slots -> [op: Ops \cup {"none"}, pc: ActPcs, of: Nat, rd: Nat]]
      BY <2>2, <2>3 DEF Threading, ActPcs
    <3>2. \A b \in Slots : acts'[b].pc # "idle" => acts'[b].op \in Ops /\ acts'[b].of \in 1 .. session
      BY <2>3, <2>4 DEF Threading
    <3> QED BY <1>0, <2>3, <3>1, <3>2 DEF Threading, Idle
  <2>6. Marking' /\ Same
    BY <2>3 DEF Marking, Same, Idle
  <2>7. rd.pc \notin Starting
    BY <2>3 DEF Attending
  <2>8. ASSUME NEW st \in Stages PROVE Attended(st)'
    <3>1. Attended(st)
      BY DEF Attending
    <3>2. \A b \in Slots : WorksOn(b, st) => WorksOn(b, st)' /\ acts'[b].of = acts[b].of
      BY <2>2, <2>4 DEF WorksOn
    <3>3. Outlived(st) => Outlived(st)'
      BY <1>0, <2>3, <3>2 DEF Outlived, Idle
    <3>4. (\E b \in Slots : WorksOn(b, st)) => \E b \in Slots' : WorksOn(b, st)'
      BY <1>0, <3>2
    <3>5. ReadOn(st)' = ReadOn(st)
      BY <2>3 DEF ReadOn, Idle
    <3> QED BY <2>3, <3>1, <3>3, <3>4, <3>5 DEF Attended, Idle
  <2>9. Attending'
    BY <2>3, <2>7, <2>8 DEF Attending, Idle, Starting, Failing
  <2> QED BY <2>5, <2>6, <2>9, SameBacked
<1>4. CASE PopulateReport
  <2>1. /\ export' = [NoExport EXCEPT !.pc = "populated"] /\ report' = NoReport
        /\ UNCHANGED <<known, acts>> /\ Idle
        /\ evidence' = IF reader = 0 THEN evidence
                       ELSE {e \in evidence : e.stage \notin known}
                              \cup {[stage |-> st, of |-> reader] : st \in known}
    BY <1>4 DEF PopulateReport, TkOnly, Idle
  <2>2. Threading' /\ Attending' /\ Marking'
    BY <1>0, <2>1, IdleKept DEF Marking, Idle, NoExport
  <2>3. OfSession'
    BY <2>1 DEF OfSession, Idle, NoExport
  <2>5. SecurityBacked'
    BY <2>1 DEF SecurityBacked, NoReport
  <2> QED BY <2>2, <2>3, <2>5
<1>5. CASE CopyTrace
  <2>1. /\ export' = [export EXCEPT !.pc = "copied", !.evidence = evidence]
        /\ UNCHANGED <<known, acts, evidence, report>> /\ Idle
    BY <1>5 DEF CopyTrace, TkOnly, Idle
  <2>2. export' = [pc |-> "copied", evidence |-> evidence, functional |-> export.functional,
                   deserved |-> export.deserved]
    BY <2>1 DEF Marking
  <2>3. Threading' /\ Attending' /\ Marking'
    BY <1>0, <2>1, <2>2, IdleKept DEF Marking, Idle
  <2>4. OfSession'
    BY <2>1, <2>2 DEF OfSession, Idle
  <2>6. SecurityBacked'
    BY <2>1 DEF SecurityBacked
  <2> QED BY <2>3, <2>4, <2>6
<1>6. CASE ScoreFunctional
  <2>1. /\ export.pc = "copied"
        /\ \E f, d : export' = [export EXCEPT !.pc = "scoring", !.functional = f, !.deserved = d]
        /\ UNCHANGED <<known, acts, evidence, report>> /\ Idle
    BY <1>6 DEF ScoreFunctional, TkOnly, Idle
  <2>2. PICK f, d : export' = [export EXCEPT !.pc = "scoring", !.functional = f, !.deserved = d]
    BY <2>1
  <2>3. export' = [pc |-> "scoring", evidence |-> export.evidence, functional |-> f, deserved |-> d]
    BY <2>2 DEF Marking
  <2>4. Threading' /\ Attending' /\ Marking'
    BY <1>0, <2>1, <2>3, IdleKept DEF Marking, Idle
  <2>5. OfSession'
    BY <2>1, <2>3 DEF OfSession, Idle
  <2>7. SecurityBacked'
    BY <2>1 DEF SecurityBacked
  <2> QED BY <2>4, <2>5, <2>7
<1>7. CASE ScoreSecurity
  <2>1. /\ export.pc = "scoring" /\ export' = NoExport
        /\ UNCHANGED <<known, acts, evidence>> /\ Idle
        /\ report'.session = session /\ report'.evidence = export.evidence
        /\ report'.counted = Counted(status, evidence)
    BY <1>7 DEF ScoreSecurity, TkOnly, Idle
  <2>2. Threading' /\ Attending' /\ Marking'
    BY <1>0, <2>1, IdleKept DEF Marking, Idle, NoExport
  <2>3. OfSession'
    BY <2>1 DEF OfSession, Idle, NoExport
  <2>5. export.evidence = evidence /\ \A e \in evidence : e.of = session
    BY <2>1 DEF OfSession
  <2>6. \A st \in report'.counted \cap NeedEvidence : \E e \in report'.evidence : e.stage = st
    BY <2>1, <2>5 DEF Counted
  <2>7. SecurityBacked'
    BY <2>1, <2>5, <2>6 DEF SecurityBacked
  <2> QED BY <2>2, <2>3, <2>7
<1> QED BY <1>1, <1>2, <1>3, <1>4, <1>5, <1>6, <1>7 DEF TkThread

-----------------------------------------------------------------------------
(* The rest: displays, the history and its file, crashes.                  *)

\* What neither a thread nor an export does.
Quiet == UNCHANGED <<bounds, session, status, evidence, known, reader, rd, acts, export, report, outcome>>

LEMMA InvQuiet == ASSUME Inv, Quiet PROVE Inv'
<1> USE DEF Inv
<1>1. Threading' /\ Attending'
  BY IdleKept DEF Quiet, Idle
<1>2. Marking' /\ Same
  BY DEF Quiet, Marking, Same
<1> QED BY <1>1, <1>2, SameBacked

LEMMA InvCrash == ASSUME Inv, Crash PROVE Inv'
<1> USE DEF Inv
<1>1. /\ rd' = [pc |-> "idle", scan |-> 1] /\ acts' = [a \in Slots |-> NoAction] /\ export' = NoExport
      /\ reader' = 0 /\ known' = {} /\ evidence' = {} /\ status' = Blank /\ outcome' = NoOutcome
      /\ UNCHANGED <<report, bounds, session>> /\ Slots' = Slots
  BY DEF Crash, NoRead, Slots
<1>2. Threading'
  BY <1>1 DEF Threading, NoAction, ReadPcs, ActPcs, Failing
<1>3. Marking' /\ OfSession'
  BY <1>1 DEF Marking, Blank, NoOutcome, OfSession, NoExport
<1>4. \A st \in Stages : status'[st] = outcome'[st].result
  BY <1>1 DEF Blank, NoOutcome
<1>5. Attending'
  BY <1>1, <1>4 DEF Attending, Attended, Starting, Failing
<1>6. SecurityBacked'
  BY <1>1 DEF SecurityBacked
<1> QED BY <1>2, <1>3, <1>5, <1>6

LEMMA InvNext == ASSUME Inv, [Next]_vars PROVE Inv'
<1>1. CASE Threads
  BY <1>1, InvRead, InvAct DEF Threads
<1>2. CASE Tk
  BY <1>2, InvTk DEF Tk
<1>3. CASE Crash
  BY <1>3, InvCrash
<1>4. CASE StartUp \/ Display \/ ClearHistory \/ Save \/ UNCHANGED vars
  <2>1. Quiet
    BY <1>4 DEF StartUp, Display, ClearHistory, Save, vars, trace, Quiet
  <2> QED BY <2>1, InvQuiet
<1> QED BY <1>1, <1>2, <1>3, <1>4 DEF Next

\* The inductive invariant, whatever the user presses: what each thread is at, which
\* stages may be at something else than their outcome and who will mark them or,
\* outliving its session, has; and whose evidence there is.
THEOREM InvHolds == Spec => []Inv
BY InvInit, InvNext, PTL DEF Spec

-----------------------------------------------------------------------------
(* The theorems.                                                           *)

\* However exports and threads interleave, a report counts no success of Chip or
\* Terminal Authentication without its evidence, and its evidence is all of the
\* session it is about (_populate_report, to_dict and _scores).
THEOREM ReportsBacked == Spec => []SecurityBacked
<1>1. Inv => SecurityBacked
  BY DEF Inv
<1> QED BY <1>1, InvHolds, PTL

\* Once no thread is at work every stage shows how the last operation on it ended,
\* or the failure of the read that began its session if that operation is of an
\* action pressed in an earlier one (_trace_fail_running).
THEOREM OutcomesKept == Spec => []OutcomeKept
<1>1. Inv => OutcomeKept
  <2> SUFFICES ASSUME Inv, rd.pc = "idle", \A a \in Slots : ActIs(a, "idle"), NEW st \in Stages
               PROVE  \/ status[st] = outcome[st].result
                      \/ status[st] = "failed" /\ outcome[st].of \in 1 .. session - 1
    BY DEF OutcomeKept
  <2>1. Attended(st) /\ ~ReadOn(st) /\ \A a \in Slots : ~WorksOn(a, st)
    BY DEF Inv, Attending, ReadOn, WorksOn, Failing, ActIs
  <2> QED BY <2>1 DEF Attended, Outlived
<1> QED BY <1>1, InvHolds, PTL

-----------------------------------------------------------------------------
(* The label of a report.                                                  *)

Missing(x) == x \in NeedEvidence /\ \A e \in evidence : e.stage # x

\* The stages no action marks.
Steady == Stages \ (SecurityStages \cup {"eac_dg_read"})

\* Between the two scores, of a session that would be "advanced" by the first and has
\* not deserved it yet: a security stage is short of its evidence, or one has not
\* succeeded, and all that actions cannot undo is done.
Scoring ==
  /\ export.functional \in Nat
  /\ status["passive_auth"] = "ok" => rd.pc = "idle"
  /\ export.pc = "scoring" /\ 10 * export.functional >= 72 /\ ~export.deserved =>
       \/ \E x \in SecurityStages : Missing(x)
       \/ /\ rd.pc = "idle" /\ \A st \in Steady : status[st] = "ok"
          /\ \E x \in SecurityStages : status[x] # "ok"

LEMMA NineStages ==
  /\ IsFiniteSet(Stages) /\ Cardinality(Stages) = 9
  /\ IsFiniteSet(SecurityStages) /\ Cardinality(SecurityStages) = 3
<1> DEFINE S1 == {"connect"}                   S2 == S1 \cup {"card_access"}
           S3 == S2 \cup {"authentication"}   S4 == S3 \cup {"passive_auth"}
           S5 == S4 \cup {"dg_read"}          S6 == S5 \cup {"eac_dg_read"}
           S7 == S6 \cup {"chip_auth"}        S8 == S7 \cup {"terminal_auth"}
           S9 == S8 \cup {"active_auth"}
           T1 == {"chip_auth"}                 T2 == T1 \cup {"terminal_auth"}
           T3 == T2 \cup {"active_auth"}
<1>0. \A S, x : IsFiniteSet(S) /\ x \notin S =>
        IsFiniteSet(S \cup {x}) /\ Cardinality(S \cup {x}) = Cardinality(S) + 1
  BY FS_AddElement
<1>1. /\ "card_access" \notin S1 /\ "authentication" \notin S2 /\ "passive_auth" \notin S3
      /\ "dg_read" \notin S4 /\ "eac_dg_read" \notin S5
      /\ "chip_auth" \notin S6 /\ "terminal_auth" \notin S7 /\ "active_auth" \notin S8
      /\ "terminal_auth" \notin T1 /\ "active_auth" \notin T2
  OBVIOUS
<1>2. Stages = S9 /\ SecurityStages = T3
  BY DEF Stages, SecurityStages
<1> HIDE DEF S1, S2, S3, S4, S5, S6, S7, S8, S9, T1, T2, T3
<1>4. IsFiniteSet(S1) /\ Cardinality(S1) = 1 /\ IsFiniteSet(T1) /\ Cardinality(T1) = 1
  BY FS_Singleton DEF S1, T1
<1>5. IsFiniteSet(S2) /\ Cardinality(S2) = 2 /\ IsFiniteSet(T2) /\ Cardinality(T2) = 2
  BY <1>0, <1>1, <1>4 DEF S2, T2
<1>6. IsFiniteSet(S3) /\ Cardinality(S3) = 3 /\ IsFiniteSet(T3) /\ Cardinality(T3) = 3
  BY <1>0, <1>1, <1>5 DEF S3, T3
<1>7. IsFiniteSet(S4) /\ Cardinality(S4) = 4
  BY <1>0, <1>1, <1>6 DEF S4
<1>8. IsFiniteSet(S5) /\ Cardinality(S5) = 5
  BY <1>0, <1>1, <1>7 DEF S5
<1>9. IsFiniteSet(S6) /\ Cardinality(S6) = 6
  BY <1>0, <1>1, <1>8 DEF S6
<1>10. IsFiniteSet(S7) /\ Cardinality(S7) = 7
  BY <1>0, <1>1, <1>9 DEF S7
<1>11. IsFiniteSet(S8) /\ Cardinality(S8) = 8
  BY <1>0, <1>1, <1>10, SMTT(20) DEF S8
<1>12. IsFiniteSet(S9) /\ Cardinality(S9) = 9
  BY <1>0, <1>1, <1>11 DEF S9
<1> QED BY <1>2, <1>6, <1>12

LEMMA EightStages ==
  ASSUME NEW S \in SUBSET Stages, \A st \in Stages \ {"eac_dg_read"} : st \in S
  PROVE  Cardinality(S) \in Nat /\ Cardinality(S) >= 8
<1> DEFINE T == Stages \ {"eac_dg_read"}
<1>1. IsFiniteSet(S) /\ Cardinality(S) \in Nat
  BY NineStages, FS_Subset, FS_CardinalityType
<1>2. "eac_dg_read" \in Stages
  BY DEF Stages
<1>3. Cardinality(T) = 8
  <2>1. IsFiniteSet(Stages) /\ Cardinality(Stages) = 9
    BY NineStages
  <2>2. Cardinality(T) = Cardinality(Stages) - 1
    <3>1. \A U, x : IsFiniteSet(U) /\ x \in U => Cardinality(U \ {x}) = Cardinality(U) - 1
      BY FS_RemoveElement
    <3> QED BY <1>2, <2>1, <3>1
  <2> QED BY <2>1, <2>2
<1>4. T \in SUBSET S
  OBVIOUS
<1> HIDE DEF T
<1>5. Cardinality(T) <= Cardinality(S)
  BY <1>1, <1>4, FS_Subset
<1> QED BY <1>1, <1>3, <1>5

\* A functional score of eight ninths leaves one stage at most.
LEMMA FunctionalScore ==
  ASSUME NEW sts
  PROVE  /\ Functional(sts) \in Nat
         /\ 10 * Functional(sts) >= 72 =>
              \A x, y \in Stages : sts[x] # "ok" /\ sts[y] # "ok" => x = y
<1>1. Ok(sts) \subseteq Stages /\ IsFiniteSet(Ok(sts)) /\ Functional(sts) = Cardinality(Ok(sts))
  BY NineStages, FS_Subset DEF Ok, Functional
<1>2. Functional(sts) \in Nat
  BY <1>1, FS_CardinalityType
<1>3. SUFFICES ASSUME 10 * Functional(sts) >= 72,
                      NEW x \in Stages, NEW y \in Stages, sts[x] # "ok", sts[y] # "ok", x # y
               PROVE  FALSE
  BY <1>2
<1>4. x \notin Ok(sts) /\ y \notin Ok(sts) \cup {x}
  BY <1>3 DEF Ok
<1>5. IsFiniteSet(Ok(sts) \cup {x}) /\ Cardinality(Ok(sts) \cup {x}) = Functional(sts) + 1
  BY <1>1, <1>4, FS_AddElement
<1>6. Cardinality((Ok(sts) \cup {x}) \cup {y}) = Functional(sts) + 2
  <2>1. Cardinality((Ok(sts) \cup {x}) \cup {y}) = Cardinality(Ok(sts) \cup {x}) + 1
    BY <1>4, <1>5, FS_AddElement
  <2> QED BY <1>2, <1>5, <2>1
<1>7. Cardinality((Ok(sts) \cup {x}) \cup {y}) <= 9
  <2>1. (Ok(sts) \cup {x}) \cup {y} \in SUBSET Stages
    BY <1>1
  <2> QED BY <2>1, NineStages, FS_Subset
<1> QED BY <1>2, <1>3, <1>6, <1>7

\* A security score of 0.8 or more is all of it.
LEMMA SecurityScore ==
  ASSUME NEW sts, NEW ev
  PROVE  /\ Cardinality(Counted(sts, ev)) \in Nat
         /\ 10 * Cardinality(Counted(sts, ev)) >= 24 <=> Counted(sts, ev) = SecurityStages
<1>1. Counted(sts, ev) \in SUBSET SecurityStages
  BY DEF Counted
<1>2. /\ IsFiniteSet(Counted(sts, ev)) /\ Cardinality(Counted(sts, ev)) <= 3
      /\ (Cardinality(Counted(sts, ev)) = 3 => Counted(sts, ev) = SecurityStages)
      /\ (Counted(sts, ev) = SecurityStages => Cardinality(Counted(sts, ev)) = 3)
  BY <1>1, NineStages, FS_Subset
<1>3. Cardinality(Counted(sts, ev)) \in Nat
  BY <1>2, FS_CardinalityType
<1>4. 10 * Cardinality(Counted(sts, ev)) >= 24 <=> Cardinality(Counted(sts, ev)) = 3
  BY <1>2, <1>3
<1> QED BY <1>2, <1>3, <1>4

\* With all stages done but one no security counts, and no evidence missing, the
\* label is deserved.
LEMMA AllDone ==
  ASSUME NEW sts, NEW ev, \A st \in Stages \ {"eac_dg_read"} : sts[st] = "ok",
         \A x \in NeedEvidence : \E e \in ev : e.stage = x
  PROVE  Advanced(sts, ev)
<1>1. /\ Ok(sts) \in SUBSET Stages /\ \A st \in Stages \ {"eac_dg_read"} : st \in Ok(sts)
      /\ Counted(sts, ev) = SecurityStages
  <2>1. Ok(sts) \in SUBSET Stages /\ \A st \in Stages \ {"eac_dg_read"} : st \in Ok(sts)
    BY DEF Ok
  <2>2. SecurityStages \subseteq Stages \ {"eac_dg_read"}
    BY DEF SecurityStages, Stages
  <2> QED BY <2>1, <2>2 DEF Counted
<1>2. Functional(sts) \in Nat /\ Functional(sts) >= 8 /\ Cardinality(Counted(sts, ev)) = 3
  BY <1>1, EightStages, NineStages DEF Functional
<1> QED BY <1>2 DEF Advanced, Readiness

\* A mark latches that the label was deserved.
LEMMA Latched ==
  ASSUME Marking, NEW st, NEW s, Mark(st, s), ~export'.deserved
  PROVE  ~export.deserved /\ (export.pc = "scoring" => ~Advanced(status', evidence))
<1>1. export'.deserved = (export.deserved \/ (export.pc = "scoring" /\ Advanced(status', evidence)))
  BY DEF Marking, Mark
<1> QED BY <1>1

LEMMA ScoringRead == ASSUME Inv, Scoring, ReadThread PROVE Scoring'
<1> USE DEF Inv
<1>1. /\ rd.pc # "idle" /\ status["passive_auth"] # "ok" /\ UNCHANGED evidence
      /\ status \in [Stages -> {"not_run", "running", "ok", "failed"}]
      /\ {"authentication", "connect", "card_access", "dg_read", "passive_auth"} \subseteq Stages
  BY DEF ReadThread, Connect, DetectProtocol, Authenticate, ReadAll, MarkPassiveAuth, FindRunning, FailRunning,
         ReadGoes, ReadsOnly, Scoring, Marking, Stages
<1>2. (UNCHANGED <<status, export>>) \/ \E st \in Stages, s \in {"running", "ok", "failed"} : Mark(st, s)
  <2>1. CASE FailRunning
    BY <2>1, OrderOfStages DEF FailRunning, Threading
  <2>2. CASE Connect \/ DetectProtocol
    <3>1. \/ UNCHANGED <<status, export>>
          \/ \E s \in {"ok", "failed"} : Mark("connect", s) \/ Mark("card_access", s)
          \/ Mark("authentication", "running")
      <4>1. CASE Connect
        BY <4>1 DEF Connect, Concludes, ReadsOnly
      <4>2. CASE DetectProtocol
        BY <4>2 DEF DetectProtocol, Concludes, ReadsOnly
      <4> QED BY <2>2, <4>1, <4>2
    <3> QED BY <1>1, <3>1
  <2>3. CASE Authenticate \/ ReadAll \/ MarkPassiveAuth \/ FindRunning
    BY <1>1, <2>3 DEF Authenticate, ReadAll, MarkPassiveAuth, FindRunning, Concludes, ReadsOnly
  <2> QED BY <2>1, <2>2, <2>3 DEF ReadThread
<1>3. /\ export'.pc = export.pc /\ export'.functional = export.functional
      /\ (~export'.deserved => ~export.deserved)
  BY <1>2, Marked, Latched
<1>4. status'["passive_auth"] = "ok" => rd'.pc = "idle"
  <2>1. CASE MarkPassiveAuth
    BY <2>1 DEF MarkPassiveAuth, ReadGoes, Threading
  <2>2. CASE Connect \/ DetectProtocol \/ Authenticate \/ ReadAll
    BY <1>1, <2>2 DEF Connect, DetectProtocol, Authenticate, ReadAll, Concludes, Mark, ReadsOnly
  <2>3. CASE FindRunning \/ FailRunning
    BY <1>1, <2>3 DEF FindRunning, FailRunning, Mark, ReadsOnly
  <2> QED BY <2>1, <2>2, <2>3 DEF ReadThread
<1> QED BY <1>1, <1>3, <1>4 DEF Scoring, Missing

LEMMA ScoringAct == ASSUME Inv, Scoring, NEW a \in Slots, ActThread(a) PROVE Scoring'
<1> USE DEF Inv
<1>1. /\ UNCHANGED <<rd, evidence>>
      /\ \/ UNCHANGED <<status, export>>
         \/ \E st \in Stages, s \in {"running", "ok", "failed"} : Mark(st, s) /\ st \notin Steady
  <2>1. acts[a].pc # "idle" /\ UNCHANGED <<rd, evidence>>
    BY DEF ActThread, ActBegins, ActExchange, ActMarks, RereadBegins, Reread, ActIs, ActsOnly
  <2>2. StageOf(acts[a].op) \in Stages \ Steady /\ "eac_dg_read" \in Stages \ Steady
    BY <2>1 DEF Threading, Ops, StageOf, Stages, SecurityStages, Steady
  <2>3. \/ UNCHANGED <<status, export>>
        \/ \E s \in {"running", "ok", "failed"} : Mark(StageOf(acts[a].op), s) \/ Mark("eac_dg_read", s)
    BY DEF ActThread, ActBegins, ActExchange, ActMarks, RereadBegins, Reread, ActsOnly, Concludes
  <2> QED BY <2>1, <2>2, <2>3
<1>2. CASE UNCHANGED <<status, export>>
  BY <1>1, <1>2 DEF Scoring, Missing
<1>3. ASSUME NEW st \in Stages, NEW s \in {"running", "ok", "failed"}, Mark(st, s), st \notin Steady
      PROVE  Scoring'
  <2>1. /\ export'.pc = export.pc /\ export'.functional = export.functional
        /\ (~export'.deserved => ~export.deserved)
        /\ \A other \in Steady : status'[other] = status[other]
    BY <1>3, Marked, Latched DEF Steady
  <2>2. "passive_auth" \in Steady
    BY DEF Steady, Stages, SecurityStages
  <2>3. SUFFICES ASSUME export.pc = "scoring", ~export'.deserved, rd.pc = "idle",
                        \A other \in Steady : status[other] = "ok",
                        \A z \in SecurityStages : ~Missing(z)
                 PROVE  \E x \in SecurityStages : status'[x] # "ok"
    BY <1>1, <2>1, <2>2 DEF Scoring, Missing
  <2>4. \A z \in NeedEvidence : \E e \in evidence : e.stage = z
    BY <2>3 DEF Missing, NeedEvidence, SecurityStages
  <2>5. ~Advanced(status', evidence)
    BY <1>3, <2>3, Latched
  <2>6. PICK x \in Stages \ {"eac_dg_read"} : status'[x] # "ok"
    BY <2>4, <2>5, AllDone
  <2>7. x \notin Steady
    BY <2>1, <2>3, <2>6
  <2> QED BY <2>6, <2>7 DEF Steady
<1> QED BY <1>1, <1>2, <1>3

LEMMA ScoringTk == ASSUME Inv, Scoring, TkThread PROVE Scoring'
<1> USE DEF Inv
<1>1. CASE ReadPassport
  <2>1. export.pc = "idle" /\ export' = export /\ status' = Blank /\ "passive_auth" \in Stages
    BY <1>1 DEF ReadPassport, BeginSession, TkOnly, Stages
  <2> QED BY <2>1 DEF Scoring, Blank
<1>2. CASE KeepReader \/ \E op \in Ops : Press(op)
  <2>1. export.pc = "idle" /\ UNCHANGED <<export, status>> /\ (rd.pc = "idle" => rd'.pc = "idle")
    BY <1>2 DEF KeepReader, Press, TkOnly, ReadGoes
  <2> QED BY <2>1 DEF Scoring
<1>3. CASE PopulateReport \/ CopyTrace \/ ScoreSecurity
  <2>1. UNCHANGED <<status, rd>>
    BY <1>3 DEF PopulateReport, CopyTrace, ScoreSecurity, TkOnly
  <2>2. CASE PopulateReport
    <3>1. export' = [pc |-> "populated", evidence |-> {}, functional |-> 0, deserved |-> FALSE]
      BY <2>2 DEF PopulateReport, NoExport
    <3> QED BY <2>1, <3>1 DEF Scoring
  <2>3. CASE CopyTrace
    <3>1. export' = [pc |-> "copied", evidence |-> evidence, functional |-> export.functional,
                     deserved |-> export.deserved]
      BY <2>3 DEF CopyTrace, Marking
    <3> QED BY <2>1, <3>1 DEF Scoring
  <2>4. CASE ScoreSecurity
    <3>1. export' = [pc |-> "idle", evidence |-> {}, functional |-> 0, deserved |-> FALSE]
      BY <2>4 DEF ScoreSecurity, NoExport
    <3> QED BY <2>1, <3>1 DEF Scoring
  <2> QED BY <1>3, <2>2, <2>3, <2>4
<1>4. CASE ScoreFunctional
  <2>1. /\ UNCHANGED <<status, rd, evidence>>
        /\ export'.functional = Functional(status) /\ export'.deserved = Advanced(status, evidence)
    BY <1>4 DEF ScoreFunctional, TkOnly, Marking
  <2>2. SUFFICES ASSUME 10 * Functional(status) >= 72, ~Advanced(status, evidence)
                 PROVE  \/ \E x \in SecurityStages : Missing(x)
                        \/ /\ rd.pc = "idle" /\ \A st \in Steady : status[st] = "ok"
                           /\ \E x \in SecurityStages : status[x] # "ok"
    BY <2>1, FunctionalScore DEF Scoring, Missing
  <2>3. Counted(status, evidence) # SecurityStages
    BY <2>2, FunctionalScore, SecurityScore DEF Advanced, Readiness
  <2>4. PICK x \in SecurityStages : x \notin Counted(status, evidence)
    BY <2>3 DEF Counted
  <2>5. CASE status[x] = "ok"
    BY <2>4, <2>5 DEF Counted, Ok, Missing, SecurityStages, Stages
  <2>6. CASE status[x] # "ok"
    <3>1. x \in Stages /\ "passive_auth" \in Stages \ {x} /\ Steady \subseteq Stages \ {x}
      BY DEF SecurityStages, Stages, Steady
    <3>2. \A st \in Stages \ {x} : status[st] = "ok"
      BY <2>2, <2>6, <3>1, FunctionalScore
    <3>3. rd.pc = "idle"
      BY <3>1, <3>2 DEF Scoring
    <3> QED BY <2>6, <3>1, <3>2, <3>3
  <2> QED BY <2>5, <2>6
<1> QED BY <1>1, <1>2, <1>3, <1>4 DEF TkThread

LEMMA ScoringStep == ASSUME Inv, Scoring, [Next]_vars PROVE Scoring'
<1>1. CASE Crash
  BY <1>1 DEF Crash, NoExport, Blank, NoRead, Scoring, Stages
<1>2. CASE StartUp \/ Display \/ ClearHistory \/ Save \/ UNCHANGED vars
  <2>1. Quiet
    BY <1>2 DEF StartUp, Display, ClearHistory, Save, vars, trace, Quiet
  <2> QED BY <2>1 DEF Quiet, Scoring, Missing
<1> QED BY <1>1, <1>2, ScoringRead, ScoringAct, ScoringTk DEF Next, Threads, Tk

\* A report is written when the second score is taken.
LEMMA ReportEarned == ASSUME Inv, Scoring, ReadinessEarned, [Next]_vars PROVE ReadinessEarned'
<1>1. CASE UNCHANGED report
  BY <1>1 DEF ReadinessEarned
<1>2. CASE PopulateReport
  BY <1>2 DEF PopulateReport, NoReport, ReadinessEarned
<1>3. CASE ScoreSecurity
  <2>1. /\ export.pc = "scoring" /\ report'.deserved = export.deserved
        /\ report'.readiness = Readiness(export.functional, Cardinality(Counted(status, evidence)))
    BY <1>3 DEF ScoreSecurity
  <2>2. SUFFICES ASSUME report'.readiness = "advanced", ~export.deserved PROVE FALSE
    BY <2>1 DEF ReadinessEarned
  <2>3. 10 * export.functional >= 72 /\ Counted(status, evidence) = SecurityStages
    BY <2>1, <2>2, SecurityScore DEF Readiness, Scoring
  <2>4. \A x \in SecurityStages : status[x] = "ok" /\ ~Missing(x)
    BY <2>3 DEF Counted, Ok, Missing
  <2> QED BY <2>1, <2>2, <2>3, <2>4 DEF Scoring
<1>4. UNCHANGED report \/ PopulateReport \/ ScoreSecurity
  <2>1. ReadThread \/ (\E a \in Slots : ActThread(a)) => UNCHANGED report
    BY DEF ReadThread, Connect, DetectProtocol, Authenticate, ReadAll, MarkPassiveAuth, FindRunning, FailRunning,
           ReadsOnly, ActThread, ActBegins, ActExchange, ActMarks, RereadBegins, Reread, ActsOnly
  <2>2. TkThread => UNCHANGED report \/ PopulateReport \/ ScoreSecurity
    BY DEF TkThread, ReadPassport, KeepReader, Press, CopyTrace, ScoreFunctional, TkOnly
  <2> QED BY <2>1, <2>2 DEF Next, StartUp, Crash, Threads, Tk, Display, ClearHistory, Save, vars, trace
<1> QED BY <1>1, <1>2, <1>3, <1>4

\* Although the lock is released before the scores are computed and other threads
\* mark stages between the two, a report never says "advanced" of a session that did
\* not deserve it at some moment of the scoring (to_dict, _scores).
THEOREM LabelEarned == Spec => []ReadinessEarned
<1>1. RecordsInit => Scoring /\ ReadinessEarned
  BY DEF RecordsInit, Init, NoExport, NoReport, Blank, Scoring, ReadinessEarned, Stages
<1>2. Inv /\ Scoring /\ ReadinessEarned /\ [Next]_vars => (Scoring /\ ReadinessEarned)'
  BY ScoringStep, ReportEarned
<1> QED BY <1>1, <1>2, InvHolds, PTL DEF Spec

-----------------------------------------------------------------------------
(* The history of MRZs.                                                    *)

\* Each entry once.
Distinct(list) == \A i, j \in DOMAIN list : list[i] = list[j] => i = j
Histories == {list \in Seq(Mrz) : Distinct(list) /\ Len(list) <= Cap}

\* A file that parses has a list that was in memory, and the one to be found by the
\* log unless a save was refused; a save under way will write what is in memory.
Kept ==
  /\ bounds \in Bounds /\ history \in Histories /\ log \in Seq(Mrz)
  /\ disk \in Histories \cup {H!Broken}
  /\ saving \in {"idle", "truncating", "writing"} /\ unsaved \in BOOLEAN
  /\ running => H!IsLatest(history, log)
  /\ ~running => saving = "idle"
  /\ ~unsaved /\ saving = "idle" => H!IsLatest(H!Loaded, log) /\ (running => H!Loaded = history)

LEMMA OneCardinality == \A S : H!Cardinality(S) = Cardinality(S)
  BY DEF H!Cardinality, Cardinality

LEMMA FirstPlaces ==
  ASSUME NEW n \in Nat
  PROVE  /\ Cardinality(1 .. n) = n
         /\ \A p : Cardinality((1 .. n) \ {p}) = IF p \in 1 .. n THEN n - 1 ELSE n
<1>1. IsFiniteSet(1 .. n) /\ Cardinality(1 .. n) = IF 1 > n THEN 0 ELSE n - 1 + 1
  BY FS_Interval
<1>2. Cardinality(1 .. n) = n
  BY <1>1
<1>3. ASSUME NEW p PROVE Cardinality((1 .. n) \ {p}) = IF p \in 1 .. n THEN Cardinality(1 .. n) - 1 ELSE Cardinality(1 .. n)
  BY <1>1, FS_RemoveElement
<1> QED BY <1>2, <1>3

\* A list with one place skipped, if it has it.
Skipped(list, p) ==
  [k \in 1 .. (IF p \in DOMAIN list THEN Len(list) - 1 ELSE Len(list)) |-> list[IF k < p THEN k ELSE k + 1]]

\* The list without an entry is the list with one place, if any, skipped.
LEMMA OneSkipped ==
  ASSUME NEW h \in Histories, NEW mrz
  PROVE  \E p \in 1 .. Len(h) + 1 :
           /\ p \in DOMAIN h => h[p] = mrz
           /\ \A i \in DOMAIN h : i # p => h[i] # mrz
           /\ H!Without(h, mrz) = Skipped(h, p)
<1> DEFINE places == {i \in DOMAIN h : h[i] # mrz}
<1>1. h \in Seq(Mrz) /\ Distinct(h) /\ DOMAIN h = 1 .. Len(h) /\ Len(h) \in Nat
  BY DEF Histories
<1>2. PICK p \in 1 .. Len(h) + 1 :
        /\ p \in DOMAIN h => h[p] = mrz
        /\ \A i \in DOMAIN h : i # p => h[i] # mrz
  <2>1. CASE \E i \in DOMAIN h : h[i] = mrz
    BY <1>1, <2>1 DEF Distinct
  <2>2. CASE ~\E i \in DOMAIN h : h[i] = mrz
    <3>1. Len(h) + 1 \in 1 .. Len(h) + 1 /\ Len(h) + 1 \notin DOMAIN h
      BY <1>1
    <3> QED BY <2>2, <3>1
  <2> QED BY <2>1, <2>2
<1>3. places = (1 .. Len(h)) \ {p}
  BY <1>1, <1>2
<1> DEFINE n == IF p \in DOMAIN h THEN Len(h) - 1 ELSE Len(h)
<1>4. Cardinality(places) = n
  <2>1. Cardinality((1 .. Len(h)) \ {p}) = IF p \in 1 .. Len(h) THEN Len(h) - 1 ELSE Len(h)
    BY <1>1, FirstPlaces
  <2> QED BY <1>1, <1>3, <2>1
<1>5. \A i \in places : Cardinality({j \in places : j < i}) = IF i < p THEN i - 1 ELSE i - 2
  <2> SUFFICES ASSUME NEW i \in places
               PROVE  Cardinality({j \in places : j < i}) = IF i < p THEN i - 1 ELSE i - 2
    OBVIOUS
  <2>1. {j \in places : j < i} = (1 .. (i - 1)) \ {p}
    BY <1>1, <1>3
  <2>2. i - 1 \in Nat /\ (i - 1) - 1 = i - 2
    BY <1>1
  <2>3. Cardinality((1 .. (i - 1)) \ {p}) = IF p \in 1 .. (i - 1) THEN i - 2 ELSE i - 1
    BY <2>2, FirstPlaces
  <2>4. p \in 1 .. (i - 1) <=> ~(i < p)
    BY <1>1, <1>2, <1>3
  <2> QED BY <2>1, <2>3, <2>4
<1>6. \A k \in 1 .. n : H!Place(places, k) = IF k < p THEN k ELSE k + 1
  <2> SUFFICES ASSUME NEW k \in 1 .. n PROVE H!Place(places, k) = IF k < p THEN k ELSE k + 1
    OBVIOUS
  <2> DEFINE q == IF k < p THEN k ELSE k + 1
  <2>1. q \in places /\ Cardinality({j \in places : j < q}) = k - 1
    <3>1. q \in places /\ (q < p <=> k < p)
      BY <1>1, <1>2, <1>3
    <3> QED BY <1>1, <1>5, <3>1
  <2>2. \A i \in places : Cardinality({j \in places : j < i}) = k - 1 => i = q
    BY <1>1, <1>2, <1>3, <1>5
  <2>3. \A i \in places : H!Cardinality({j \in places : j < i}) = k - 1 <=> i = q
    BY <2>1, <2>2, OneCardinality
  <2>4. H!Place(places, k) = CHOOSE i \in places : H!Cardinality({j \in places : j < i}) = k - 1
    BY DEF H!Place
  <2> HIDE DEF q, places, n
  <2>5. H!Place(places, k) = q
    BY <2>1, <2>3, <2>4
  <2> QED BY <2>5 DEF q
<1>7. H!Without(h, mrz) = Skipped(h, p)
  <2>0. Skipped(h, p) = [k \in 1 .. n |-> h[IF k < p THEN k ELSE k + 1]]
    BY DEF Skipped
  <2>1. H!Without(h, mrz) = [k \in 1 .. Cardinality(places) |-> h[H!Place(places, k)]]
    BY OneCardinality DEF H!Without, H!Picked
  <2> HIDE DEF places, n
  <2> QED BY <1>4, <1>6, <2>0, <2>1
<1> QED BY <1>2, <1>7

\* What an entry more in the log does to the order.
LEMMA NewerStays ==
  ASSUME NEW mrzLog \in Seq(Mrz), NEW mrz \in Mrz
  PROVE  /\ \A b : b # mrz => H!Newer(mrz, b, Append(mrzLog, mrz))
         /\ \A a, b : b # mrz /\ H!Newer(a, b, mrzLog) => H!Newer(a, b, Append(mrzLog, mrz))
         /\ \A a : ~H!Newer(a, a, mrzLog)
         /\ H!ToSet(Append(mrzLog, mrz)) = H!ToSet(mrzLog) \cup {mrz}
<1> DEFINE new == Append(mrzLog, mrz)
<1>1. /\ Len(mrzLog) \in Nat /\ DOMAIN mrzLog = 1 .. Len(mrzLog) /\ DOMAIN new = 1 .. Len(mrzLog) + 1
      /\ new[Len(mrzLog) + 1] = mrz /\ \A i \in 1 .. Len(mrzLog) : new[i] = mrzLog[i]
  OBVIOUS
<1> HIDE DEF new
<1>2. \A b : b # mrz => H!Newer(mrz, b, new)
  <2> SUFFICES ASSUME NEW b, b # mrz PROVE H!Newer(mrz, b, new)
    OBVIOUS
  <2>1. \A j \in DOMAIN new : new[j] = b => j < Len(mrzLog) + 1
    BY <1>1
  <2> QED BY <1>1, <2>1 DEF H!Newer
<1>3. ASSUME NEW a, NEW b, b # mrz, H!Newer(a, b, mrzLog) PROVE H!Newer(a, b, new)
  <2>1. PICK i \in DOMAIN mrzLog : mrzLog[i] = a /\ \A j \in DOMAIN mrzLog : mrzLog[j] = b => j < i
    BY <1>3 DEF H!Newer
  <2>2. i \in DOMAIN new /\ new[i] = a /\ \A j \in DOMAIN new : new[j] = b => j < i
    BY <1>1, <1>3, <2>1
  <2> QED BY <2>2 DEF H!Newer
<1>4. \A a : ~H!Newer(a, a, mrzLog)
  BY <1>1 DEF H!Newer
<1>5. H!ToSet(new) = H!ToSet(mrzLog) \cup {mrz}
  BY <1>1 DEF H!ToSet
<1> QED BY <1>2, <1>3, <1>4, <1>5 DEF new


\* Remembering an MRZ keeps the list the latest of the log.
LEMMA Remembering ==
  ASSUME NEW h \in Histories, NEW mrzLog \in Seq(Mrz), NEW mrz \in Mrz, H!IsLatest(h, mrzLog),
         NEW new, new = H!Capped(<<mrz>> \o H!Without(h, mrz))
  PROVE  new \in Histories /\ H!IsLatest(new, Append(mrzLog, mrz))
<1>1. h \in Seq(Mrz) /\ Distinct(h) /\ DOMAIN h = 1 .. Len(h) /\ Len(h) \in Nat /\ Len(h) <= Cap /\ Cap \in Nat \ {0}
  BY HistoryAssumption DEF Histories
<1>2. PICK p \in 1 .. Len(h) + 1 :
        /\ p \in DOMAIN h => h[p] = mrz
        /\ \A i \in DOMAIN h : i # p => h[i] # mrz
        /\ H!Without(h, mrz) = Skipped(h, p)
  BY OneSkipped
<1> DEFINE n == IF p \in DOMAIN h THEN Len(h) - 1 ELSE Len(h)
           old == H!Without(h, mrz)
           at(k) == IF k < p THEN k ELSE k + 1
           m == IF n + 1 < Cap THEN n + 1 ELSE Cap
<1>3. n \in Nat /\ m \in 1 .. n + 1 /\ m <= Cap /\ \A k \in 1 .. n : at(k) \in DOMAIN h /\ at(k) # p
  BY <1>1
<1>4. \A k \in 1 .. n : h[at(k)] \in Mrz
  BY <1>1, <1>3
<1>5. old = [k \in 1 .. n |-> h[at(k)]]
  BY <1>2 DEF Skipped
<1>6. old \in Seq(Mrz) /\ Len(old) = n
  BY <1>3, <1>4, <1>5
<1> HIDE DEF n, old
<1>7. /\ new \in Seq(Mrz) /\ Len(new) = m /\ DOMAIN new = 1 .. m
      /\ new[1] = mrz /\ \A i \in 2 .. m : new[i] = old[i - 1]
  <2> DEFINE all == <<mrz>> \o old
  <2>1. all \in Seq(Mrz) /\ Len(all) = n + 1 /\ \A i \in 1 .. n + 1 : all[i] = IF i = 1 THEN mrz ELSE old[i - 1]
    <3>1. <<mrz>> \in Seq(Mrz) /\ Len(<<mrz>>) = 1 /\ <<mrz>>[1] = mrz
      OBVIOUS
    <3>2. all \in Seq(Mrz) /\ Len(all) = 1 + n
      BY <1>6, <3>1, ConcatProperties
    <3>3. \A i \in 1 .. 1 + n : all[i] = IF i <= 1 THEN <<mrz>>[i] ELSE old[i - 1]
      BY <1>6, <3>1, ConcatProperties
    <3> HIDE DEF all
    <3>4. ASSUME NEW i \in 1 .. n + 1 PROVE all[i] = IF i = 1 THEN mrz ELSE old[i - 1]
      BY <1>3, <1>6, <3>1, <3>3
    <3> QED BY <1>3, <3>2, <3>4
  <2>2. new = SubSeq(all, 1, m)
    <3>1. new = H!Capped(all)
      BY DEF old
    <3> HIDE DEF all, m
    <3>2. m = IF Len(all) < Cap THEN Len(all) ELSE Cap
      BY <2>1 DEF m
    <3> QED BY <3>1, <3>2 DEF H!Capped
  <2> HIDE DEF all, m
  <2>3. m \in Nat /\ 1 <= m /\ m <= n + 1
    BY <1>3
  <2>4. new \in Seq(Mrz) /\ Len(new) = m /\ \A i \in 1 .. m : new[i] = all[i]
    <3>1. \A i \in 1 .. m : all[i] \in Mrz
      BY <1>3, <2>1, <2>3
    <3>2. /\ SubSeq(all, 1, m) \in Seq(Mrz) /\ Len(SubSeq(all, 1, m)) = m
          /\ \A i \in 1 .. m : SubSeq(all, 1, m)[i] = all[i]
      <4>1. /\ SubSeq(all, 1, m) \in Seq(Mrz)
            /\ Len(SubSeq(all, 1, m)) = IF 1 <= m THEN m - 1 + 1 ELSE 0
            /\ \A i \in 1 .. m - 1 + 1 : SubSeq(all, 1, m)[i] = all[1 + i - 1]
        BY <2>3, <3>1, SubSeqProperties
      <4> QED BY <2>3, <4>1
    <3> QED BY <2>2, <3>2
  <2>5. DOMAIN new = 1 .. m
    BY <2>4
  <2>6. new[1] = mrz
    <3>1. 1 \in 1 .. m /\ 1 \in 1 .. n + 1
      BY <1>3, <2>3
    <3>2. new[1] = all[1]
      BY <2>4, <3>1
    <3>3. all[1] = mrz
      BY <2>1, <3>1
    <3> QED BY <3>2, <3>3
  <2>7. ASSUME NEW i \in 2 .. m PROVE new[i] = old[i - 1]
    <3>1. i \in 1 .. m /\ i \in 1 .. n + 1 /\ i # 1
      BY <1>3, <2>3, <2>7
    <3>2. new[i] = all[i]
      BY <2>4, <3>1
    <3>3. all[i] = old[i - 1]
      BY <2>1, <3>1
    <3> QED BY <3>2, <3>3
  <2> QED BY <2>4, <2>5, <2>6, <2>7
<1>8. \A i \in 2 .. m : i - 1 \in 1 .. n /\ new[i] = h[at(i - 1)]
  <2> SUFFICES ASSUME NEW i \in 2 .. m PROVE i - 1 \in 1 .. n /\ new[i] = h[at(i - 1)]
    OBVIOUS
  <2>1. i - 1 \in 1 .. n
    BY <1>3
  <2> HIDE DEF m, at
  <2> QED BY <1>5, <1>7, <2>1
<1>9. /\ \A i, j \in 2 .. m : i < j => at(i - 1) < at(j - 1)
      /\ \A i \in 2 .. m : at(i - 1) \in DOMAIN h /\ at(i - 1) # p /\ h[at(i - 1)] # mrz
  <2>1. \A i, j \in 2 .. m : i < j => at(i - 1) < at(j - 1)
    BY <1>1, <1>3
  <2>2. \A i \in 2 .. m : at(i - 1) \in DOMAIN h /\ at(i - 1) # p
    BY <1>3, <1>8
  <2> QED BY <1>2, <2>1, <2>2
<1> HIDE DEF m, at
<1>10. \A i \in DOMAIN new : i = 1 \/ i \in 2 .. m
  BY <1>3, <1>7
<1>11. /\ \A i, j \in DOMAIN h : i < j => H!Newer(h[i], h[j], mrzLog)
       /\ H!ToSet(h) \subseteq H!ToSet(mrzLog)
       /\ \A x \in H!ToSet(mrzLog) \ H!ToSet(h) :
            Len(h) = Cap /\ \A i \in DOMAIN h : H!Newer(h[i], x, mrzLog)
  BY DEF H!IsLatest
<1> DEFINE mrzLog2 == Append(mrzLog, mrz)
<1>12. \A i, j \in DOMAIN new : i < j => H!Newer(new[i], new[j], mrzLog2)
  <2> SUFFICES ASSUME NEW i \in DOMAIN new, NEW j \in DOMAIN new, i < j
               PROVE  H!Newer(new[i], new[j], mrzLog2)
    OBVIOUS
  <2>1. j \in 2 .. m
    BY <1>3, <1>7
  <2>2. new[j] # mrz
    BY <1>8, <1>9, <2>1
  <2>3. CASE i = 1
    BY <1>7, <2>2, <2>3, NewerStays
  <2>4. CASE i \in 2 .. m
    <3>1. H!Newer(new[i], new[j], mrzLog)
      BY <1>8, <1>9, <1>11, <2>1, <2>4
    <3> QED BY <2>2, <3>1, NewerStays
  <2> QED BY <1>10, <2>3, <2>4
<1>13. \A i \in DOMAIN new : i # 1 => new[i] # mrz
  BY <1>8, <1>9, <1>10
<1>14. Distinct(new)
  <2>1. ASSUME NEW i \in DOMAIN new, NEW j \in DOMAIN new, i < j PROVE new[i] # new[j]
    <3>1. j \in 2 .. m
      BY <1>3, <1>7, <2>1
    <3>2. CASE i = 1
      BY <1>7, <1>8, <1>9, <3>1, <3>2
    <3>3. CASE i \in 2 .. m
      <4>1. H!Newer(new[i], new[j], mrzLog)
        BY <1>8, <1>9, <1>11, <2>1, <3>1, <3>3
      <4> QED BY <4>1, NewerStays
    <3> QED BY <1>10, <3>2, <3>3
  <2>2. ASSUME NEW i \in DOMAIN new, NEW j \in DOMAIN new, i # j PROVE new[i] # new[j]
    <3>1. i < j \/ j < i
      BY <1>3, <1>7, <2>2
    <3> QED BY <2>1, <3>1
  <2> QED BY <2>2 DEF Distinct
<1> HIDE DEF mrzLog2
<1>15. H!ToSet(mrzLog2) = H!ToSet(mrzLog) \cup {mrz}
  BY NewerStays DEF mrzLog2
<1>16. H!ToSet(new) \subseteq H!ToSet(mrzLog2)
  <2>1. \A i \in DOMAIN new : new[i] = mrz \/ new[i] \in H!ToSet(h)
    BY <1>7, <1>8, <1>9, <1>10 DEF H!ToSet
  <2>2. \A y \in H!ToSet(new) : y = mrz \/ y \in H!ToSet(h)
    BY <2>1 DEF H!ToSet
  <2> QED BY <1>11, <1>15, <2>2
<1>17. \A x \in H!ToSet(mrzLog2) \ H!ToSet(new) :
         Len(new) = Cap /\ \A i \in DOMAIN new : H!Newer(new[i], x, mrzLog2)
  <2> SUFFICES ASSUME NEW x \in H!ToSet(mrzLog2) \ H!ToSet(new)
               PROVE  Len(new) = Cap /\ \A i \in DOMAIN new : H!Newer(new[i], x, mrzLog2)
    OBVIOUS
  <2>1. x # mrz /\ x \in H!ToSet(mrzLog)
    <3>1. mrz \in H!ToSet(new)
      BY <1>3, <1>7 DEF H!ToSet
    <3> QED BY <1>15, <3>1
  <2>2. Len(new) = Cap /\ \A i \in 2 .. m : H!Newer(new[i], x, mrzLog)
    <3>1. CASE x \in H!ToSet(h)
      <4>1. PICK q \in DOMAIN h : h[q] = x
        BY <3>1 DEF H!ToSet
      <4>2. q # p
        BY <1>2, <2>1, <4>1
      <4> DEFINE k == IF q < p THEN q ELSE q - 1
      <4>3. k \in 1 .. n /\ at(k) = q
        BY <1>1, <4>1, <4>2 DEF at, n
      <4>4. k + 1 \notin 1 .. m
        <5>1. SUFFICES ASSUME k + 1 \in 1 .. m PROVE FALSE
          OBVIOUS
        <5>2. k + 1 \in 2 .. m /\ (k + 1) - 1 = k
          BY <4>3, <5>1
        <5>3. new[k + 1] = x
          BY <1>8, <4>1, <4>3, <5>2
        <5> QED BY <1>7, <5>1, <5>3 DEF H!ToSet
      <4>5. m = Cap /\ m < k + 1
        BY <1>1, <1>3, <4>3, <4>4 DEF m
      <4>6. \A i \in 2 .. m : at(i - 1) < q
        BY <1>3, <4>3, <4>5 DEF at
      <4> QED BY <1>7, <1>8, <1>9, <1>11, <4>1, <4>5, <4>6
    <3>2. CASE x \notin H!ToSet(h)
      <4>1. Len(h) = Cap /\ \A i \in DOMAIN h : H!Newer(h[i], x, mrzLog)
        BY <1>11, <2>1, <3>2
      <4>2. m = Cap
        BY <1>1, <4>1 DEF m, n
      <4> QED BY <1>7, <1>8, <1>9, <4>1, <4>2
    <3> QED BY <3>1, <3>2
  <2>3. H!Newer(mrz, x, mrzLog2) /\ \A a : H!Newer(a, x, mrzLog) => H!Newer(a, x, mrzLog2)
    BY <2>1, NewerStays DEF mrzLog2
  <2> QED BY <1>7, <1>10, <2>2, <2>3
<1>18. new \in Histories
  BY <1>3, <1>7, <1>14 DEF Histories
<1> QED BY <1>3, <1>7, <1>12, <1>16, <1>17, <1>18 DEF H!IsLatest, mrzLog2

\* A list is the latest of itself read backwards.
LEMMA OfItself ==
  ASSUME NEW h \in Histories
  PROVE  H!Reverse(h) \in Seq(Mrz) /\ H!IsLatest(h, H!Reverse(h))
<1>1. h \in Seq(Mrz) /\ Distinct(h) /\ DOMAIN h = 1 .. Len(h) /\ Len(h) \in Nat /\ Len(h) <= Cap
  BY DEF Histories
<1> DEFINE back == H!Reverse(h)
           at(i) == Len(h) - i + 1
<1>2. back = [i \in 1 .. Len(h) |-> h[at(i)]]
  BY DEF H!Reverse
<1>3. \A i \in 1 .. Len(h) : at(i) \in 1 .. Len(h) /\ at(at(i)) = i
  BY <1>1
<1>4. back \in Seq(Mrz) /\ DOMAIN back = 1 .. Len(h) /\ \A i \in 1 .. Len(h) : back[i] = h[at(i)]
  BY <1>1, <1>2, <1>3
<1>5. \A i, j \in 1 .. Len(h) : i < j => at(j) < at(i)
  BY <1>1
<1> HIDE DEF back, at
<1>6. H!ToSet(back) = H!ToSet(h)
  <2>1. \A x \in H!ToSet(h) : x \in H!ToSet(back)
    <3> SUFFICES ASSUME NEW i \in 1 .. Len(h) PROVE h[i] \in H!ToSet(back)
      BY <1>1 DEF H!ToSet
    <3>1. at(i) \in DOMAIN back /\ back[at(i)] = h[i]
      BY <1>3, <1>4
    <3> QED BY <3>1 DEF H!ToSet
  <2>2. \A x \in H!ToSet(back) : x \in H!ToSet(h)
    BY <1>1, <1>3, <1>4 DEF H!ToSet
  <2> QED BY <2>1, <2>2
<1>7. \A i, j \in DOMAIN h : i < j => H!Newer(h[i], h[j], back)
  <2> SUFFICES ASSUME NEW i \in 1 .. Len(h), NEW j \in 1 .. Len(h), i < j
               PROVE  H!Newer(h[i], h[j], back)
    BY <1>1
  <2>1. at(i) \in DOMAIN back /\ back[at(i)] = h[i] /\ at(j) < at(i)
    BY <1>3, <1>4, <1>5
  <2>2. \A k \in DOMAIN back : back[k] = h[j] => k = at(j)
    <3> SUFFICES ASSUME NEW k \in 1 .. Len(h), h[at(k)] = h[j] PROVE k = at(j)
      BY <1>4
    <3>1. at(k) = j
      BY <1>1, <1>3 DEF Distinct
    <3> QED BY <1>3, <3>1
  <2> QED BY <2>1, <2>2 DEF H!Newer
<1>8. H!IsLatest(h, back)
  BY <1>1, <1>6, <1>7 DEF H!IsLatest
<1> QED BY <1>4, <1>8 DEF back

\* An empty list, cleared or not read from the file, is the latest of an empty log.
LEMMA OfNothing == <<>> \in Histories /\ H!IsLatest(<<>>, <<>>)
<1>1. <<>> \in Histories
  BY HistoryAssumption DEF Histories, Distinct
<1>2. H!IsLatest(<<>>, <<>>)
  BY HistoryAssumption DEF H!IsLatest, H!ToSet
<1> QED BY <1>1, <1>2

LEMMA BrokenParsesNot == \A h \in Histories : h # H!Broken
<1> SUFFICES ASSUME NEW h \in Histories, h = H!Broken PROVE FALSE
  OBVIOUS
<1>1. h \in Seq(Mrz) /\ h = <<Garbled>>
  BY DEF Histories, H!Broken
<1>2. Garbled \in Mrz
  BY <1>1
<1> QED BY <1>2, HistoryAssumption

LEMMA KeptInit == RecordsInit => Kept
<1> SUFFICES ASSUME RecordsInit PROVE Kept
  OBVIOUS
<1>1. /\ running = FALSE /\ history = <<>> /\ saving = "idle" /\ unsaved = FALSE
      /\ disk \in {h \in H!BoundedSeq(Mrz, Cap) : H!IsInjective(h)} /\ log = H!Reverse(disk)
  BY DEF RecordsInit, H!Init
<1>2. disk \in Histories
  <2>1. PICK n \in 0 .. Cap : disk \in [1 .. n -> Mrz]
    BY <1>1 DEF H!BoundedSeq, H!SeqOf
  <2>2. disk \in Seq(Mrz) /\ Len(disk) = n
    BY <2>1, HistoryAssumption
  <2>3. Distinct(disk)
    BY <1>1 DEF H!IsInjective, Distinct
  <2> QED BY <2>1, <2>2, <2>3, HistoryAssumption DEF Histories
<1>3. H!Loaded = disk
  BY <1>2, BrokenParsesNot DEF H!Loaded
<1>4. log \in Seq(Mrz) /\ H!IsLatest(H!Loaded, log)
  BY <1>1, <1>2, <1>3, OfItself
<1>5. bounds \in Bounds
  BY DEF RecordsInit, Init
<1> QED BY <1>1, <1>2, <1>4, <1>5, OfNothing DEF Kept

LEMMA SameBounds == ASSUME [Next]_vars PROVE bounds' = bounds
<1>1. CASE Threads
  <2>1. CASE ReadThread
    BY <2>1 DEF ReadThread, Connect, DetectProtocol, Authenticate, ReadAllRaises, ReadAll, MarkPassiveAuth,
                FindRunning, FailRunning, ReadsOnly
  <2>2. CASE \E a \in Slots : ActThread(a)
    BY <2>2 DEF ActThread, ActBegins, ActExchange, ActMarks, RereadBegins, Reread, ActsOnly
  <2> QED BY <1>1, <2>1, <2>2 DEF Threads
<1>2. CASE Tk
  BY <1>2 DEF Tk, TkThread, ReadPassport, KeepReader, Press, PopulateReport, CopyTrace, ScoreFunctionalAttempted,
              ScoreFunctional, ScoreSecurity, TkOnly
<1>3. CASE StartUp \/ Crash \/ Display \/ ClearHistory \/ Save \/ UNCHANGED vars
  BY <1>3 DEF StartUp, Crash, Display, ClearHistory, Save, vars, trace
<1> QED BY <1>1, <1>2, <1>3 DEF Next

LEMMA KeptStep == ASSUME Kept, [Next]_vars PROVE Kept'
<1> USE DEF Kept
<1>0. bounds' \in Bounds
  BY SameBounds
<1>1. H!Loaded \in Histories
  BY OfNothing DEF H!Loaded
<1>2. CASE StartUp
  <2>1. ~running /\ running' = TRUE /\ disk' = disk /\ saving' = saving
        /\ \/ /\ history' = H!Loaded /\ unsaved' = FALSE
              /\ log' = IF unsaved THEN H!Reverse(history') ELSE log
           \/ history' = <<>> /\ log' = <<>> /\ unsaved' = TRUE
    BY <1>2 DEF StartUp, H!Start
  <2>2. H!Loaded' = H!Loaded
    BY <2>1 DEF H!Loaded
  <2>3. CASE history' = H!Loaded /\ unsaved' = FALSE /\ log' = IF unsaved THEN H!Reverse(history') ELSE log
    <3>1. log' \in Seq(Mrz) /\ H!IsLatest(history', log')
      BY <1>1, <2>1, <2>3, OfItself
    <3> QED BY <1>0, <1>1, <2>1, <2>2, <2>3, <3>1
  <2>4. CASE history' = <<>> /\ log' = <<>> /\ unsaved' = TRUE
    BY <1>0, <2>1, <2>4, OfNothing
  <2> QED BY <2>1, <2>3, <2>4
<1>3. CASE Crash
  <2>1. running /\ running' = FALSE /\ history' = <<>> /\ saving' = "idle" /\ disk' = disk /\ log' = log
        /\ unsaved' = (unsaved \/ saving # "idle")
    BY <1>3 DEF Crash, H!Stop
  <2>2. H!Loaded' = H!Loaded
    BY <2>1 DEF H!Loaded
  <2>3. ~unsaved' => ~unsaved /\ saving = "idle"
    BY <2>1
  <2>4. unsaved' \in BOOLEAN
    BY <2>1
  <2> QED BY <1>0, <2>1, <2>2, <2>3, <2>4, OfNothing
<1>4. ASSUME NEW mrz \in bounds.mrzs, TkFree, H!Remember(mrz), mrz # Garbled, mrz \in Mrz PROVE Kept'
  <2>1. running /\ history' = H!Remembered(mrz) /\ log' = Append(log, mrz) /\ saving' = "truncating"
        /\ running' = running /\ disk' = disk /\ unsaved' = unsaved
    BY <1>4 DEF H!Remember, TkFree
  <2>2. history' = H!Capped(<<mrz>> \o H!Without(history, mrz))
    BY <2>1 DEF H!Remembered
  <2>3. history' \in Histories /\ H!IsLatest(history', log')
    BY <1>4, <2>1, <2>2, Remembering
  <2>4. log' \in Seq(Mrz)
    BY <1>4, <2>1
  <2> QED BY <1>0, <2>1, <2>3, <2>4
<1>5. CASE ClearHistory
  <2>1. running /\ history' = <<>> /\ log' = <<>> /\ saving' = "truncating"
        /\ running' = running /\ disk' = disk /\ unsaved' = unsaved
    BY <1>5 DEF ClearHistory, H!Clear
  <2> QED BY <1>0, <2>1, OfNothing
<1>6. CASE Save
  <2>1. CASE H!Truncate
    <3>1. running' = running /\ history' = history /\ log' = log /\ running
          /\ \/ disk' = H!Broken /\ saving' = "writing" /\ unsaved' = unsaved
             \/ disk' = disk /\ saving' = "idle" /\ unsaved' = TRUE
      BY <2>1 DEF H!Truncate
    <3> QED BY <1>0, <3>1
  <2>2. CASE H!Write
    <3>1. running' = running /\ history' = history /\ log' = log /\ running /\ saving' = "idle"
          /\ \/ disk' = history /\ unsaved' = FALSE
             \/ disk' = disk /\ unsaved' = TRUE
      BY <2>2 DEF H!Write
    <3>2. CASE disk' = history /\ unsaved' = FALSE
      <4>1. H!Loaded' = history
        BY <3>2, BrokenParsesNot DEF H!Loaded
      <4> QED BY <1>0, <3>1, <3>2, <4>1
    <3>3. CASE disk' = disk /\ unsaved' = TRUE
      BY <1>0, <3>1, <3>3
    <3> QED BY <3>1, <3>2, <3>3
  <2> QED BY <1>6, <2>1, <2>2 DEF Save
<1>7. ASSUME UNCHANGED mrzs PROVE Kept'
  BY <1>0, <1>7 DEF mrzs, H!Loaded
<1>8. CASE Display
  <2>1. CASE UNCHANGED mrzs
    BY <1>7, <2>1
  <2>2. ASSUME NEW mrz \in bounds.mrzs, H!Remember(mrz) PROVE Kept'
    <3>1. CASE mrz = Garbled
      BY <1>7, <2>2, <3>1 DEF H!Remember, H!mrzs, mrzs
    <3>2. CASE mrz # Garbled
      <4>1. mrz \in Mrz
        BY <2>2, <3>2, RecordsAssumption
      <4> QED BY <1>4, <1>8, <2>2, <3>2, <4>1 DEF Display
    <3> QED BY <3>1, <3>2
  <2> QED BY <1>8, <2>1, <2>2 DEF Display
<1>9. CASE Threads \/ Tk \/ UNCHANGED vars
  BY <1>7, <1>9 DEF Threads, Tk, vars
<1> QED BY <1>2, <1>3, <1>5, <1>6, <1>8, <1>9 DEF Next

\* Across restarts, of any number of reads: the history shown is the latest distinct
\* MRZs read since it was last cleared, but for what a refused or cut-short save, or a
\* refused read of the file, lost.
THEOREM HistoryOfReads == Spec => []HistoryKept
<1>1. Kept => HistoryKept
  BY DEF Kept, HistoryKept, H!HistoryKept
<1> QED BY <1>1, KeptInit, KeptStep, PTL DEF Spec
=============================================================================
