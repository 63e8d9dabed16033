---------------------------- MODULE PassiveAuth ----------------------------
(***************************************************************************)
(* Passive authentication over a session: verify_pa runs at the end of the *)
(* first full read and again after Terminal Authentication, when the       *)
(* groups it opens have been read, and the coverage report says which      *)
(* groups were closed before.  What is read at which moment decides both.  *)
(*                                                                         *)
(* A full read is one step here (module ReadAll takes it apart).  A lost   *)
(* exchange ends the channel, as module SecureMessaging shows; a refusal   *)
(* is an error status for one file that the channel survives.              *)
(***************************************************************************)
EXTENDS Naturals, Sequences, FiniteSets

CONSTANTS
  Groups,       \* the data groups
  Documents,    \* passports: what EF.COM lists, the files there are, the groups the chip
                \* closes until TA, the groups EF.SOD has a hash of, those not matching it,
                \* and whether _HASH_FACTORY has the digest that EF.SOD names
  MaxFaults,    \* bound: exchanges the link loses
  MaxRefusals   \* bound: files a chip refuses although it need not

EacGroups == {"DG3", "DG4"}
NotRun == "not_run"
None == [overall |-> "none", result |-> <<>>]

ASSUME DocumentsAssumption ==
  /\ Groups \subseteq STRING /\ Groups \cap {"COM", "SOD"} = {}
  /\ EacGroups \subseteq Groups
  /\ Documents \subseteq [listed: Seq(Groups), files: SUBSET (Groups \cup {"COM", "SOD"}),
                          gated: SUBSET Groups, hashed: SUBSET Groups, altered: SUBSET Groups,
                          supported: BOOLEAN]
  /\ MaxFaults \in Nat /\ MaxRefusals \in Nat

VARIABLES
  doc,        \* the passport
  step,       \* opened, read, authorized, reread
  pd,         \* what is displayed: groups listed, groups kept, verdict
  efSuccess,  \* files read before and after TA
  taDone,     \* TA succeeded: _eac_ta_done, and on the chip
  stage,      \* the trace's passive_auth stage
  dg3Closed,  \* the report's dg3_before_ta
  inStep, faults, refusals

vars == <<doc, step, pd, efSuccess, taDone, stage, dg3Closed, inStep, faults, refusals>>

Init ==
  /\ doc \in Documents
  /\ step = "opened"
  /\ pd = [listed |-> {}, kept |-> {}, pa |-> None]
  /\ efSuccess = [pre |-> {}, post |-> {}]
  /\ taDone = FALSE
  /\ stage = NotRun /\ dg3Closed = FALSE
  /\ inStep = TRUE /\ faults = 0 /\ refusals = 0

-----------------------------------------------------------------------------
\* What is computed of a group is the hash stored: never, when the digest is not
\* supported, since nothing is computed then.
Matches(g) == doc.supported /\ g \notin doc.altered

\* Result of one data group EF.SOD has a hash of.
Status(g, kept, eac) ==
  CASE g \notin kept /\ g \in eac    -> "EAC required"
    [] g \notin kept /\ g \notin eac -> "DG not read"
    [] g \in kept /\ ~Matches(g)     -> "MISMATCH"
    [] g \in kept /\ Matches(g)      -> "OK"

\* Mutant of Overall: a group that was not read does not count.
OverallOfRead(result, eac) ==
  LET counted == {g \in DOMAIN result \ eac : result[g] # "DG not read"}
  IN  IF counted # {} /\ \A g \in counted : result[g] = "OK" THEN "PASS" ELSE "FAIL"

Overall(result, eac) ==
  LET counted == DOMAIN result \ eac
  IN  IF counted # {} /\ \A g \in counted : result[g] = "OK" THEN "PASS" ELSE "FAIL"

\* verify_pa; the signature is checked after the verdict and never changes it.
VerifyPa(kept, eac) ==
  LET result == [g \in doc.hashed |-> Status(g, kept, eac)]
  IN  [overall |-> IF doc.hashed = {} THEN "N/A" ELSE Overall(result, eac), result |-> result]

-----------------------------------------------------------------------------
\* What the chip hands out.
Served == doc.files \ (IF taDone THEN {} ELSE doc.gated)

\* The files of a read, in order: those at the positions of bad are not got.
Got(order, bad) == {order[i] : i \in (1 .. Len(order)) \ bad} \cap Served

\* Ways for a read of n files to fail: the file from which on the link is gone
\* (n + 1: it is not), and those before it the chip refuses.
Failures(n) ==
  {f \in [lostFrom: CASE ~inStep                       -> {1}
                      [] inStep /\ faults < MaxFaults -> 1 .. n + 1
                      [] inStep /\ faults = MaxFaults -> {n + 1},
          refused: {r \in SUBSET (1 .. n) : refusals + Cardinality(r) <= MaxRefusals}] :
     \A i \in f.refused : i < f.lostFrom}

Bad(f, n) == f.refused \cup (f.lostFrom .. n)

Fail(f, n) ==
  /\ inStep' = (f.lostFrom > n)
  /\ faults' = IF inStep /\ f.lostFrom <= n THEN faults + 1 ELSE faults
  /\ refusals' = refusals + Cardinality(f.refused)

\* Mutant of Noted: TA is not looked at when a read is noted.
NotedAsPre(files) == [efSuccess EXCEPT !.pre = @ \cup files]

\* read_ef notes a file that was read to its end.
Noted(files) ==
  IF taDone THEN [efSuccess EXCEPT !.post = @ \cup files] ELSE [efSuccess EXCEPT !.pre = @ \cup files]

\* read_all's order, then extra files: nothing is listed when EF.COM fails.
OrderOf(bad, extra) ==
  (IF "COM" \in Got(<<"COM">>, bad) THEN <<"COM">> \o doc.listed ELSE <<"COM">>) \o <<"SOD">> \o extra

\* No more files than this; a loss beyond a read's last is one of EF.CardSecurity and EF.CVCA.
Longest == 2 + Len(doc.listed) + Cardinality(EacGroups)

\* What a read leaves.  Without EF.SOD read_all does not reach verify_pa, and
\* _terminal_auth_worker calls it on None, where it raises and the verdict stays None.
Record(got, judged, eac) ==
  [listed |-> IF "COM" \in got THEN {doc.listed[i] : i \in DOMAIN doc.listed} ELSE {},
   kept |-> got \cap Groups,
   pa |-> IF "SOD" \in got THEN VerifyPa(judged \cap Groups, eac) ELSE None]

\* _read_worker from read_all on; the stage is marked from the verdict.
ReadAll ==
  /\ step = "opened"
  /\ \E f \in Failures(Longest) :
       /\ Fail(f, Longest)
       /\ LET bad == Bad(f, Longest)
              got == Got(OrderOf(bad, <<>>), bad)
          IN  /\ pd' = Record(got, got, EacGroups)
              /\ efSuccess' = Noted(got)
  /\ stage' = CASE pd'.pa = None               -> stage
                [] pd'.pa.overall = "PASS"     -> "ok"
                [] pd'.pa.overall \in {"FAIL", "N/A"} -> "failed"
  /\ step' = "read"
  /\ UNCHANGED <<doc, taDone, dg3Closed>>

\* terminal_authentication: without the channel, or with chains the chip does
\* not take, it raises.
TerminalAuth ==
  /\ step \in {"read", "reread"} /\ inStep
  /\ taDone' = TRUE /\ step' = "authorized"
  /\ UNCHANGED <<doc, pd, efSuccess, stage, dg3Closed, inStep, faults, refusals>>

\* Mutant of Judged: only the groups read on top of the full read are judged.
JudgedExtra(got) == got \cap EacGroups

\* The map of groups the second verdict is on.
Judged(got) == got

\* The rest of _terminal_auth_worker: a full read, DG3 and DG4, verify_pa again
\* with no group excused.  The stage is not marked again.
Reread ==
  /\ step = "authorized"
  /\ \E f \in Failures(Longest) :
       /\ Fail(f, Longest)
       /\ LET bad == Bad(f, Longest)
              got == Got(OrderOf(bad, <<"DG3", "DG4">>), bad)
          IN  /\ pd' = Record(got, Judged(got), {})
              /\ efSuccess' = Noted(got)
  /\ step' = "reread"
  /\ UNCHANGED <<doc, taDone, stage, dg3Closed>>

\* _read_dg3_worker: DG3 is kept, no verdict is made.
ReadDg3 ==
  /\ step = "reread" /\ taDone
  /\ \E f \in Failures(1) :
       /\ Fail(f, 1)
       /\ LET got == Got(<<"DG3">>, Bad(f, 1))
          IN  /\ pd' = [pd EXCEPT !.kept = @ \cup got]
              /\ efSuccess' = Noted(got)
  /\ UNCHANGED <<doc, step, taDone, stage, dg3Closed>>

-----------------------------------------------------------------------------
\* _dg_matrix: a row for each group listed.
Rows ==
  [g \in pd.listed |->
     LET before == g \in efSuccess.pre
         after  == g \in efSuccess.post \cup pd.kept
     IN  [before |-> before, after |-> after, gated |-> ~before /\ after]]

\* _populate_report.
ExportReport ==
  /\ dg3Closed' = (dg3Closed \/ ("DG3" \in DOMAIN Rows /\ Rows["DG3"].gated))
  /\ UNCHANGED <<doc, step, pd, efSuccess, taDone, stage, inStep, faults, refusals>>

Next == ReadAll \/ TerminalAuth \/ Reread \/ ReadDg3 \/ ExportReport

Spec == Init /\ [][Next]_vars

-----------------------------------------------------------------------------
Verdicts ==
  [overall: {"none", "N/A", "PASS", "FAIL"},
   result: {<<>>} \cup [doc.hashed -> {"EAC required", "DG not read", "MISMATCH", "OK"}]]

\* What is displayed speaks of the document's groups and hashes; TA is not
\* noted before a read, and a channel once lost stays lost (_terminal_auth_worker).
TypeOK ==
  /\ step \in {"opened", "read", "authorized", "reread"}
  /\ pd.listed \subseteq Groups /\ pd.kept \subseteq doc.files \cap Groups
  /\ pd.pa \in Verdicts
  /\ efSuccess.pre \cup efSuccess.post \subseteq doc.files
  /\ efSuccess.post # {} => taDone
  /\ stage \in {NotRun, "ok", "failed"}
  /\ taDone \in BOOLEAN /\ dg3Closed \in BOOLEAN /\ inStep = (faults = 0)
  /\ faults <= MaxFaults /\ refusals <= MaxRefusals

\* verify_pa's verdict is true of the document, at whatever moment it was made
\* and whatever was read since: PASS means each group the SOD has a hash of,
\* those needing EAC apart, is kept, compared and unaltered.  FAIL has a reason: a
\* group altered or not got, nothing ordinary to compare, or, which verify_pa does
\* not tell from an alteration, a digest it cannot compute.
VerdictTrue ==
  LET ordinary == doc.hashed \ EacGroups
  IN  /\ pd.pa.overall = "PASS" => /\ ordinary \cap doc.altered = {} /\ doc.supported
                                  /\ ordinary \subseteq pd.kept
      /\ pd.pa.overall = "FAIL" =>
           \/ doc.hashed \cap doc.altered # {}
           \/ ~doc.supported
           \/ ~(doc.hashed \subseteq efSuccess.pre \cup efSuccess.post)
           \/ faults + refusals > 0
           \/ ordinary = {}

\* The trace keeps the first verdict while the display shows the one made after
\* TA (_read_worker, _terminal_auth_worker).  With a channel that held, they
\* only part over a group that needs EAC.
VerdictsAgree ==
  stage = "ok" /\ pd.pa.overall # "PASS" /\ faults + refusals = 0 =>
    \E g \in doc.hashed \cap EacGroups : g \in doc.altered \/ g \notin pd.kept

\* The report's claim about access control is the chip's conduct: where no file
\* was refused without cause, a row says closed before TA and open after exactly
\* if the chip closes the group and the terminal has read it (_dg_matrix).  A
\* lost exchange cannot be taken for a refusal, since no TA can follow it.
GateReported ==
  refusals = 0 =>
    /\ \A g \in pd.listed :
         Rows[g].gated <=> g \in doc.gated /\ g \in efSuccess.post \cup pd.kept
    /\ dg3Closed => "DG3" \in doc.gated

=============================================================================
