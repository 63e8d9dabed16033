-------------------------- MODULE PassiveAuth_proofs --------------------------
(***************************************************************************)
(* Whatever a passport holds, closes and hashes, and however many exchanges *)
(* are lost and files refused: the verdict on display is true, the trace's  *)
(* stage departs from it only over a group that needs EAC, and the report   *)
(* says of access control what the chip does.                               *)
(***************************************************************************)
EXTENDS PassiveAuth, SequenceTheorems, FiniteSetTheorems, TLAPS

\* All a session asks for that the passport has, TA included.
Reachable ==
  doc.files \cap
    ({"COM", "SOD"} \cup EacGroups \cup (IF "COM" \in doc.files THEN Range(doc.listed) ELSE {}))

NoFault == faults = 0 /\ refusals = 0
Ordinary == doc.hashed \ EacGroups

Typed ==
  /\ doc \in Documents
  /\ step \in {"opened", "read", "authorized", "reread"}
  /\ pd \in [listed: SUBSET Groups, kept: SUBSET Groups, pa: Verdicts]
  /\ efSuccess \in [pre: SUBSET doc.files, post: SUBSET doc.files]
  /\ stage \in {NotRun, "ok", "failed"}
  /\ taDone \in BOOLEAN /\ dg3Closed \in BOOLEAN
  /\ faults \in Nat /\ refusals \in Nat
  /\ inStep \in BOOLEAN /\ (inStep <=> faults = 0)

\* Where a session stands, and what has been read by then.
Reading ==
  /\ step = "opened" => efSuccess.pre = {} /\ pd.listed = {} /\ pd.pa = None /\ stage = NotRun
  /\ step \in {"opened", "read"} <=> ~taDone
  /\ ~taDone => efSuccess.post = {} /\ pd.kept \subseteq efSuccess.pre
  /\ efSuccess.pre \cup efSuccess.post \cup pd.kept \subseteq Reachable
  /\ efSuccess.pre \cap doc.gated = {}

\* A terminal that was authorized had a channel that held over the first read,
\* so that only a refusal can have kept a group from it that the chip does not close.
Opened ==
  /\ step # "opened" /\ refusals = 0 /\ (taDone \/ faults = 0) /\ "COM" \in doc.files =>
       (Range(doc.listed) \cap doc.files) \ doc.gated \subseteq efSuccess.pre
  /\ pd.listed # {} => "COM" \in doc.files /\ pd.listed = Range(doc.listed)
  /\ refusals = 0 /\ dg3Closed => "DG3" \in doc.gated

\* What each verdict was made on.
Judgement ==
  /\ pd.pa.overall = "PASS" => /\ Ordinary \cap doc.altered = {} /\ doc.supported
                              /\ Ordinary \subseteq pd.kept
  /\ pd.pa.overall = "FAIL" =>
       \/ doc.hashed \cap doc.altered # {} \/ ~doc.supported
       \/ ~(doc.hashed \subseteq Reachable)
       \/ ~taDone /\ ~(doc.hashed \subseteq efSuccess.pre)
       \/ step = "authorized" /\ ~(doc.hashed \subseteq efSuccess.pre \cup efSuccess.post)
       \/ ~NoFault
       \/ Ordinary = {}
  /\ stage = "ok" => /\ "SOD" \in doc.files /\ Ordinary # {} /\ Ordinary \cap doc.altered = {}
                    /\ doc.supported
                    /\ Ordinary \subseteq Reachable
  /\ stage = "ok" /\ pd.pa.overall # "PASS" /\ NoFault =>
       \E g \in doc.hashed \cap EacGroups : g \in doc.altered \/ g \notin Reachable

Inv == Typed /\ Reading /\ Opened /\ Judgement

-----------------------------------------------------------------------------
(* What a read gets.                                                       *)

Names == Groups \cup {"COM", "SOD"}

\* The files asked for: EF.COM and EF.SOD, what EF.COM lists if it was got, and the rest.
LEMMA Asked ==
  ASSUME doc \in Documents, NEW bad, NEW extra \in {<<>>, <<"DG3", "DG4">>}
  PROVE  /\ OrderOf(bad, extra) \in Seq(Names)
         /\ Range(OrderOf(bad, extra)) =
              {"COM", "SOD"} \cup Range(extra)
                \cup (IF "COM" \in doc.files /\ 1 \notin bad THEN Range(doc.listed) ELSE {})
         /\ Range(extra) \subseteq EacGroups
<1>0. \A s, t \in Seq(Names) : s \o t \in Seq(Names) /\ Range(s \o t) = Range(s) \cup Range(t)
  BY RangeConcatenation
<1>1. doc.listed \in Seq(Groups) /\ doc.gated \subseteq Groups
  BY DocumentsAssumption
<1>2. doc.listed \in Seq(Names) /\ extra \in Seq(Names) /\ <<"COM">> \in Seq(Names) /\ <<"SOD">> \in Seq(Names)
  <2>1. doc.listed \in Seq(Names)
    BY <1>1 DEF Names
  <2>2. {"DG3", "DG4", "COM", "SOD"} \subseteq Names
    BY DocumentsAssumption DEF Names, EacGroups
  <2>3. \A x \in Names : <<x>> \in Seq(Names)
    OBVIOUS
  <2>4. \A x, y \in Names : <<x, y>> \in Seq(Names)
    OBVIOUS
  <2>5. <<"DG3", "DG4">> \in Seq(Names) /\ <<>> \in Seq(Names)
    BY <2>2, <2>4
  <2>6. <<"COM">> \in Seq(Names) /\ <<"SOD">> \in Seq(Names)
    BY <2>2, <2>3
  <2> QED BY <2>1, <2>5, <2>6
<1>3. Range(<<"COM">>) = {"COM"} /\ Range(<<"SOD">>) = {"SOD"}
  BY DEF Range
<1>4. "COM" \in Got(<<"COM">>, bad) <=> "COM" \in doc.files /\ 1 \notin bad
  <2>1. "COM" \in Served <=> "COM" \in doc.files
    BY <1>1, DocumentsAssumption DEF Served
  <2>2. "COM" \in {<<"COM">>[i] : i \in (1 .. Len(<<"COM">>)) \ bad} <=> 1 \notin bad
    OBVIOUS
  <2> QED BY <2>1, <2>2 DEF Got
<1> DEFINE first == IF "COM" \in doc.files /\ 1 \notin bad THEN <<"COM">> \o doc.listed ELSE <<"COM">>
<1>5. first \in Seq(Names)
      /\ Range(first) = {"COM"} \cup (IF "COM" \in doc.files /\ 1 \notin bad THEN Range(doc.listed) ELSE {})
  <2>1. Range(<<"COM">> \o doc.listed) = {"COM"} \cup Range(doc.listed)
    BY <1>0, <1>2, <1>3
  <2> QED BY <1>0, <1>2, <1>3, <2>1
<1>6. OrderOf(bad, extra) = (first \o <<"SOD">>) \o extra
  BY <1>2, <1>4, <1>5 DEF OrderOf
<1> HIDE DEF first
<1>7. first \o <<"SOD">> \in Seq(Names) /\ Range(first \o <<"SOD">>) = Range(first) \cup {"SOD"}
  BY <1>0, <1>2, <1>3, <1>5
<1>8. OrderOf(bad, extra) \in Seq(Names)
      /\ Range(OrderOf(bad, extra)) = Range(first) \cup {"SOD"} \cup Range(extra)
  BY <1>0, <1>2, <1>6, <1>7
<1>9. Range(extra) \subseteq EacGroups
  <2>1. Range(<<>>) = {} /\ Range(<<"DG3", "DG4">>) = {"DG3", "DG4"}
    BY DEF Range
  <2> QED BY <2>1 DEF EacGroups
<1> QED BY <1>5, <1>8, <1>9

LEMMA GotOf ==
  ASSUME NEW S, NEW order \in Seq(S), NEW bad
  PROVE  /\ Got(order, bad) \subseteq Range(order) \cap Served
         /\ bad = {} => Got(order, bad) = Range(order) \cap Served
<1>1. Range(order) = {order[i] : i \in 1 .. Len(order)}
  BY RangeEquality
<1> QED BY <1>1 DEF Got

\* One full read.
LEMMA FullRead ==
  ASSUME Typed, NEW bad, NEW extra \in {<<>>, <<"DG3", "DG4">>}
  PROVE  LET got == Got(OrderOf(bad, extra), bad)
         IN  /\ got \subseteq Reachable \cap Served
             /\ bad = {} => /\ Reachable \cap Served \cap ({"COM", "SOD"} \cup Range(extra)) \subseteq got
                            /\ "COM" \in doc.files => Range(doc.listed) \cap Served \subseteq got
<1>1. doc \in Documents
  BY DEF Typed
<1> QED BY <1>1, Asked, GotOf DEF Reachable, Served

\* What a failure leaves: faults and refusals only grow, and a read without any
\* leaves out no file.
LEMMA Failing ==
  ASSUME Typed, NEW n \in Nat \ {0}, NEW f \in Failures(n), Fail(f, n)
  PROVE  /\ faults' \in Nat /\ refusals' \in Nat /\ inStep' \in BOOLEAN /\ (inStep' <=> faults' = 0)
         /\ refusals' = 0 => refusals = 0
         /\ faults' = 0 => faults = 0
         /\ refusals' = 0 /\ faults' = 0 => Bad(f, n) = {}
<1>1. f.refused \subseteq 1 .. n /\ f.lostFrom \in 1 .. n + 1 /\ (~inStep => f.lostFrom = 1)
  <2>1. MaxFaults \in Nat /\ faults \in Nat /\ inStep \in BOOLEAN /\ (inStep <=> faults = 0)
    BY DocumentsAssumption DEF Typed
  <2>2. f.refused \subseteq 1 .. n
    BY DEF Failures
  <2>3. CASE ~inStep
    BY <2>2, <2>3 DEF Failures
  <2>4. CASE inStep /\ faults < MaxFaults
    BY <2>1, <2>2, <2>4 DEF Failures
  <2>5. CASE inStep /\ ~(faults < MaxFaults)
    <3>1. faults = MaxFaults
      BY <2>1, <2>5
    <3> QED BY <2>1, <2>2, <2>5, <3>1 DEF Failures
  <2> QED BY <2>3, <2>4, <2>5
<1>2. IsFiniteSet(f.refused)
  <2>1. IsFiniteSet(1 .. n)
    BY FS_Interval
  <2> QED BY <1>1, <2>1, FS_Subset
<1>3. Cardinality(f.refused) \in Nat /\ (Cardinality(f.refused) = 0 => f.refused = {})
  BY <1>2, FS_CardinalityType, FS_EmptySet
<1>4. faults \in Nat /\ refusals \in Nat /\ inStep \in BOOLEAN /\ (inStep <=> faults = 0)
  BY DEF Typed
<1>5. /\ inStep' \in BOOLEAN /\ (inStep' <=> f.lostFrom > n)
      /\ faults' = IF inStep /\ f.lostFrom <= n THEN faults + 1 ELSE faults
      /\ refusals' = refusals + Cardinality(f.refused)
  <2>1. inStep' = (f.lostFrom > n)
    BY DEF Fail
  <2>2. f.lostFrom \in Int /\ n \in Int
    BY <1>1
  <2>3. inStep' \in BOOLEAN
    BY <2>1, <2>2
  <2>4. inStep' <=> f.lostFrom > n
    BY <2>1, <2>2
  <2> QED BY <2>3, <2>4 DEF Fail
<1>6. refusals' \in Nat /\ (refusals' = 0 => refusals = 0 /\ f.refused = {})
  BY <1>3, <1>4, <1>5
<1>7. faults' \in Nat /\ inStep' \in BOOLEAN /\ (inStep' <=> faults' = 0) /\ (faults' = 0 => faults = 0 /\ f.lostFrom > n)
  <2>1. CASE ~inStep
    BY <1>1, <1>4, <1>5, <2>1
  <2>2. CASE inStep /\ f.lostFrom <= n
    BY <1>1, <1>4, <1>5, <2>2
  <2>3. CASE inStep /\ ~(f.lostFrom <= n)
    BY <1>1, <1>4, <1>5, <2>3
  <2> QED BY <2>1, <2>2, <2>3
<1>8. f.refused = {} /\ f.lostFrom > n => Bad(f, n) = {}
  BY <1>1 DEF Bad
<1> QED BY <1>6, <1>7, <1>8

LEMMA LongestNat == ASSUME Typed PROVE Longest \in Nat \ {0}
<1>1. IsFiniteSet(EacGroups)
  <2>1. IsFiniteSet({"DG3"})
    BY FS_Singleton
  <2>2. IsFiniteSet({"DG3"} \cup {"DG4"})
    BY <2>1, FS_AddElement
  <2>3. {"DG3"} \cup {"DG4"} = EacGroups
    BY DEF EacGroups
  <2> QED BY <2>2, <2>3
<1>2. Cardinality(EacGroups) \in Nat
  BY <1>1, FS_CardinalityType
<1>3. Len(doc.listed) \in Nat
  BY DocumentsAssumption DEF Typed
<1> QED BY <1>2, <1>3 DEF Longest

-----------------------------------------------------------------------------
(* What a verdict says.                                                    *)

LEMMA Verdict ==
  ASSUME NEW kept, NEW eac
  PROVE  LET pa == VerifyPa(kept, eac)
         IN  /\ pa \in Verdicts /\ pa # None
             /\ pa.overall \in {"N/A", "PASS", "FAIL"}
             /\ pa.overall = "N/A" <=> doc.hashed = {}
             /\ pa.overall = "PASS" =>
                  doc.hashed \ eac # {} /\ \A g \in doc.hashed \ eac : g \in kept /\ Matches(g)
             /\ pa.overall = "FAIL" =>
                  doc.hashed \ eac = {} \/ \E g \in doc.hashed \ eac : g \notin kept \/ ~Matches(g)
<1> DEFINE result == [g \in doc.hashed |-> Status(g, kept, eac)]
<1>1. \A g : /\ Status(g, kept, eac) \in {"EAC required", "DG not read", "MISMATCH", "OK"}
             /\ Status(g, kept, eac) = "OK" <=> g \in kept /\ Matches(g)
  BY DEF Status
<1>2. /\ DOMAIN result = doc.hashed
      /\ \A g \in doc.hashed : result[g] = Status(g, kept, eac)
      /\ result \in [doc.hashed -> {"EAC required", "DG not read", "MISMATCH", "OK"}]
  BY <1>1
<1>3. VerifyPa(kept, eac) = [overall |-> IF doc.hashed = {} THEN "N/A" ELSE Overall(result, eac), result |-> result]
  BY DEF VerifyPa
<1> HIDE DEF result
<1>4. Overall(result, eac) = IF doc.hashed \ eac # {} /\ \A g \in doc.hashed \ eac : g \in kept /\ Matches(g)
                             THEN "PASS" ELSE "FAIL"
  BY <1>1, <1>2 DEF Overall
<1> DEFINE overall == IF doc.hashed = {} THEN "N/A" ELSE Overall(result, eac)
<1>5. /\ overall \in {"N/A", "PASS", "FAIL"}
      /\ overall = "N/A" <=> doc.hashed = {}
      /\ overall = "PASS" =>
           doc.hashed \ eac # {} /\ \A g \in doc.hashed \ eac : g \in kept /\ Matches(g)
      /\ overall = "FAIL" =>
           doc.hashed \ eac = {} \/ \E g \in doc.hashed \ eac : g \notin kept \/ ~Matches(g)
  BY <1>4
<1>6. VerifyPa(kept, eac) = [overall |-> overall, result |-> result]
  BY <1>3
<1> HIDE DEF overall
<1>7. VerifyPa(kept, eac).overall = overall
  BY <1>6
<1>8. VerifyPa(kept, eac) \in Verdicts
  <2>1. result \in {<<>>} \cup [doc.hashed -> {"EAC required", "DG not read", "MISMATCH", "OK"}]
    BY <1>2
  <2>2. overall \in {"none", "N/A", "PASS", "FAIL"}
    BY <1>5
  <2> DEFINE results == {<<>>} \cup [doc.hashed -> {"EAC required", "DG not read", "MISMATCH", "OK"}]
  <2>3. Verdicts = [overall: {"none", "N/A", "PASS", "FAIL"}, result: results]
    BY DEF Verdicts
  <2>4. result \in results
    BY <2>1
  <2> HIDE DEF results
  <2> QED BY <1>6, <2>2, <2>3, <2>4
<1>9. VerifyPa(kept, eac) # None
  BY <1>5, <1>7 DEF None
<1> QED BY <1>5, <1>7, <1>8, <1>9

-----------------------------------------------------------------------------
(* Each action keeps Inv.                                                  *)

LEMMA InvInit == Init => Inv
<1> SUFFICES ASSUME Init PROVE Inv
  OBVIOUS
<1> USE DEF Init
<1>1. None \in Verdicts
  BY DEF None, Verdicts
<1>2. Typed
  BY <1>1, DocumentsAssumption DEF Typed
<1>3. Reading
  BY DEF Reading, NotRun
<1>4. Opened
  BY DEF Opened
<1>5. Judgement
  BY DEF Judgement, None, NotRun
<1> QED BY <1>2, <1>3, <1>4, <1>5 DEF Inv

\* What a full read records and displays.
LEMMA Displayed ==
  ASSUME Typed, NEW got, got \subseteq doc.files, NEW eac
  PROVE  LET new == Record(got, got, eac)
         IN  /\ new \in [listed: SUBSET Groups, kept: SUBSET Groups, pa: Verdicts]
             /\ new.listed = (IF "COM" \in got THEN Range(doc.listed) ELSE {})
             /\ new.kept = got \cap Groups
             /\ new.pa = (IF "SOD" \in got THEN VerifyPa(got \cap Groups, eac) ELSE None)
<1>1. None \in Verdicts /\ VerifyPa(got \cap Groups, eac) \in Verdicts
  BY Verdict DEF None, Verdicts
<1>2. doc.listed \in Seq(Groups)
  BY DocumentsAssumption DEF Typed
<1>3. Range(doc.listed) \subseteq Groups
  BY <1>2, RangeOfSeq
<1> DEFINE listed == IF "COM" \in got THEN Range(doc.listed) ELSE {}
           pa == IF "SOD" \in got THEN VerifyPa(got \cap Groups, eac) ELSE None
<1>4. Record(got, got, eac) = [listed |-> listed, kept |-> got \cap Groups, pa |-> pa]
  BY DEF Record, Range
<1>5. listed \subseteq Groups /\ pa \in Verdicts
  BY <1>1, <1>3
<1> HIDE DEF listed, pa
<1>6. /\ Record(got, got, eac) \in [listed: SUBSET Groups, kept: SUBSET Groups, pa: Verdicts]
      /\ Record(got, got, eac).listed = listed
      /\ Record(got, got, eac).kept = got \cap Groups
      /\ Record(got, got, eac).pa = pa
  BY <1>4, <1>5
<1> QED BY <1>6 DEF listed, pa

LEMMA InvReadAll == Inv /\ ReadAll => Inv'
<1> SUFFICES ASSUME Inv, ReadAll PROVE Inv'
  OBVIOUS
<1> USE DEF Inv
<1>1. PICK f \in Failures(Longest) :
        /\ Fail(f, Longest)
        /\ LET bad == Bad(f, Longest)
               got == Got(OrderOf(bad, <<>>), bad)
           IN  /\ pd' = Record(got, got, EacGroups)
               /\ efSuccess' = Noted(got)
  BY DEF ReadAll
<1> DEFINE bad == Bad(f, Longest)
           got == Got(OrderOf(bad, <<>>), bad)
<1>2. /\ faults' \in Nat /\ refusals' \in Nat /\ inStep' \in BOOLEAN /\ (inStep' <=> faults' = 0)
      /\ refusals' = 0 => refusals = 0
      /\ refusals' = 0 /\ faults' = 0 => bad = {}
  BY <1>1, LongestNat, Failing
<1>3. /\ got \subseteq Reachable \cap Served
      /\ bad = {} => /\ Reachable \cap Served \cap {"COM", "SOD"} \subseteq got
                     /\ "COM" \in doc.files => Range(doc.listed) \cap Served \subseteq got
  BY FullRead
<1>4. pd' = Record(got, got, EacGroups) /\ efSuccess' = Noted(got)
  BY <1>1
<1> HIDE DEF bad, got
<1>5. /\ step = "opened" /\ step' = "read" /\ ~taDone
      /\ UNCHANGED <<doc, taDone, dg3Closed>>
  BY DEF ReadAll, Reading
<1>6. Served = doc.files \ doc.gated
  BY <1>5 DEF Served
<1>7. efSuccess'.pre = got /\ efSuccess'.post = {} /\ efSuccess' \in [pre: SUBSET doc.files, post: SUBSET doc.files]
  BY <1>3, <1>4, <1>5, <1>6 DEF Noted, Typed, Reading
<1>8. got \subseteq doc.files
  BY <1>3, <1>6
<1>9. /\ pd' \in [listed: SUBSET Groups, kept: SUBSET Groups, pa: Verdicts]
      /\ pd'.listed = (IF "COM" \in got THEN Range(doc.listed) ELSE {})
      /\ pd'.kept = got \cap Groups
      /\ pd'.pa = (IF "SOD" \in got THEN VerifyPa(got \cap Groups, EacGroups) ELSE None)
  BY <1>4, <1>8, Displayed
<1>10. /\ pd'.pa = None => stage' = stage
       /\ pd'.pa # None => stage' = IF pd'.pa.overall = "PASS" THEN "ok" ELSE "failed"
  <2>1. pd'.pa # None => pd'.pa.overall \in {"N/A", "PASS", "FAIL"}
    BY <1>9, Verdict
  <2>2. None.overall = "none"
    BY DEF None
  <2>3. stage' = CASE pd'.pa = None -> stage
                   [] pd'.pa.overall = "PASS" -> "ok"
                   [] pd'.pa.overall \in {"FAIL", "N/A"} -> "failed"
    BY DEF ReadAll
  <2>4. CASE pd'.pa = None
    BY <2>2, <2>3, <2>4
  <2>5. CASE pd'.pa # None /\ pd'.pa.overall = "PASS"
    BY <2>3, <2>5
  <2>6. CASE pd'.pa # None /\ pd'.pa.overall # "PASS"
    BY <2>1, <2>3, <2>6
  <2> QED BY <2>4, <2>5, <2>6
<1>11. stage = NotRun /\ stage' \in {NotRun, "ok", "failed"} /\ (stage' = "ok" => pd'.pa # None /\ pd'.pa.overall = "PASS")
  BY <1>5, <1>10 DEF Reading, NotRun
<1>12. Verdicts' = Verdicts /\ Reachable' = Reachable /\ Ordinary' = Ordinary
  BY <1>5 DEF Verdicts, Reachable, Ordinary
<1>13. doc.hashed \subseteq Groups
  BY DocumentsAssumption DEF Typed
<1>14. /\ pd'.pa.overall = "PASS" => /\ "SOD" \in got /\ Ordinary # {}
                                    /\ \A g \in Ordinary : g \in got \cap Groups /\ Matches(g)
       /\ pd'.pa.overall = "FAIL" =>
            Ordinary = {} \/ \E g \in Ordinary : g \notin got \cap Groups \/ ~Matches(g)
  BY <1>9, Verdict DEF Ordinary, None
<1>15. Typed'
  BY <1>2, <1>5, <1>7, <1>9, <1>11, <1>12 DEF Typed
<1>16. Reading'
  BY <1>3, <1>5, <1>6, <1>7, <1>9, <1>12 DEF Reading
<1>17. Opened'
  BY <1>2, <1>3, <1>5, <1>6, <1>7, <1>8, <1>9 DEF Opened, Reading
<1>18. Judgement'
  BY <1>3, <1>5, <1>7, <1>9, <1>11, <1>12, <1>13, <1>14 DEF Judgement, Ordinary, Matches
<1> QED BY <1>15, <1>16, <1>17, <1>18

LEMMA InvTerminalAuth == Inv /\ TerminalAuth => Inv'
<1> SUFFICES ASSUME Inv, TerminalAuth PROVE Inv'
  OBVIOUS
<1> USE DEF Inv, TerminalAuth
<1>1. Verdicts' = Verdicts /\ Reachable' = Reachable /\ Ordinary' = Ordinary /\ (NoFault' <=> NoFault)
  BY DEF Verdicts, Reachable, Ordinary, NoFault
<1>2. Typed'
  BY <1>1 DEF Typed
<1>3. Reading'
  BY <1>1 DEF Reading, Typed
<1>4. Opened'
  BY DEF Opened, Typed
<1>5. Judgement'
  BY <1>1 DEF Judgement, Reading
<1> QED BY <1>2, <1>3, <1>4, <1>5

LEMMA InvReread == Inv /\ Reread => Inv'
<1> SUFFICES ASSUME Inv, Reread PROVE Inv'
  OBVIOUS
<1> USE DEF Inv
<1>1. PICK f \in Failures(Longest) :
        /\ Fail(f, Longest)
        /\ LET bad == Bad(f, Longest)
               got == Got(OrderOf(bad, <<"DG3", "DG4">>), bad)
           IN  /\ pd' = Record(got, Judged(got), {})
               /\ efSuccess' = Noted(got)
  BY DEF Reread
<1> DEFINE bad == Bad(f, Longest)
           got == Got(OrderOf(bad, <<"DG3", "DG4">>), bad)
<1>2. /\ faults' \in Nat /\ refusals' \in Nat /\ inStep' \in BOOLEAN /\ (inStep' <=> faults' = 0)
      /\ refusals' = 0 => refusals = 0
      /\ faults' = 0 => faults = 0
      /\ refusals' = 0 /\ faults' = 0 => bad = {}
  BY <1>1, LongestNat, Failing
<1>3. Range(<<"DG3", "DG4">>) = EacGroups
  BY DEF Range, EacGroups
<1>4. /\ got \subseteq Reachable \cap Served
      /\ bad = {} => /\ Reachable \cap Served \cap ({"COM", "SOD"} \cup EacGroups) \subseteq got
                     /\ "COM" \in doc.files => Range(doc.listed) \cap Served \subseteq got
  BY <1>3, FullRead
<1>5. pd' = Record(got, got, {}) /\ efSuccess' = Noted(got)
  BY <1>1 DEF Judged
<1> HIDE DEF bad, got
<1>6. /\ step = "authorized" /\ step' = "reread" /\ taDone
      /\ UNCHANGED <<doc, taDone, stage, dg3Closed>>
  BY DEF Reread, Reading
<1>7. Served = doc.files
  BY <1>6 DEF Served
<1>8. got \subseteq doc.files /\ (bad = {} => got = Reachable)
  BY <1>4, <1>7 DEF Reachable
<1>9. /\ efSuccess'.pre = efSuccess.pre /\ efSuccess'.post = efSuccess.post \cup got
      /\ efSuccess' \in [pre: SUBSET doc.files, post: SUBSET doc.files]
  BY <1>5, <1>6, <1>8 DEF Noted, Typed
<1>10. /\ pd' \in [listed: SUBSET Groups, kept: SUBSET Groups, pa: Verdicts]
       /\ pd'.listed = (IF "COM" \in got THEN Range(doc.listed) ELSE {})
       /\ pd'.kept = got \cap Groups
       /\ pd'.pa = (IF "SOD" \in got THEN VerifyPa(got \cap Groups, {}) ELSE None)
  BY <1>5, <1>8, Displayed
<1>11. Verdicts' = Verdicts /\ Reachable' = Reachable /\ Ordinary' = Ordinary /\ (NoFault' => bad = {})
  BY <1>2, <1>6 DEF Verdicts, Reachable, Ordinary, NoFault
<1>12. doc.hashed \subseteq Groups
  BY DocumentsAssumption DEF Typed
<1>13. /\ pd'.pa.overall = "PASS" => /\ doc.hashed # {}
                                    /\ \A g \in doc.hashed : g \in got \cap Groups /\ Matches(g)
       /\ pd'.pa.overall = "FAIL" =>
            doc.hashed = {} \/ \E g \in doc.hashed : g \notin got \cap Groups \/ ~Matches(g)
       /\ "SOD" \in got => /\ pd'.pa.overall \in {"N/A", "PASS", "FAIL"}
                           /\ pd'.pa.overall = "N/A" <=> doc.hashed = {}
  BY <1>10, Verdict DEF None
<1>14. Typed'
  BY <1>2, <1>6, <1>9, <1>10, <1>11 DEF Typed
<1>15. Reading'
  BY <1>4, <1>6, <1>8, <1>9, <1>10, <1>11 DEF Reading
<1>16. Opened'
  BY <1>2, <1>6, <1>8, <1>9, <1>10 DEF Opened
<1>17. Judgement'
  <2>1. pd'.pa.overall = "PASS" =>
          Ordinary \cap doc.altered = {} /\ doc.supported /\ Ordinary \subseteq pd'.kept
    BY <1>10, <1>13 DEF Ordinary, Matches
  <2>2. pd'.pa.overall = "FAIL" =>
          \/ doc.hashed \cap doc.altered # {} \/ ~doc.supported
          \/ ~(doc.hashed \subseteq Reachable) \/ ~NoFault' \/ Ordinary = {}
    BY <1>8, <1>11, <1>12, <1>13 DEF Ordinary, Matches
  <2>3. stage = "ok" /\ pd'.pa.overall # "PASS" /\ NoFault' =>
          \E g \in doc.hashed \cap EacGroups : g \in doc.altered \/ g \notin Reachable
    <3> SUFFICES ASSUME stage = "ok", pd'.pa.overall # "PASS", NoFault'
                 PROVE  \E g \in doc.hashed \cap EacGroups : g \in doc.altered \/ g \notin Reachable
      OBVIOUS
    <3>1. /\ "SOD" \in doc.files /\ Ordinary # {} /\ Ordinary \cap doc.altered = {}
          /\ Ordinary \subseteq Reachable /\ doc.supported
      BY DEF Judgement
    <3>2. got = Reachable /\ "SOD" \in got
      BY <1>8, <1>11, <3>1 DEF Reachable
    <3>3. pd'.pa.overall = "FAIL"
      BY <1>13, <3>1, <3>2 DEF Ordinary
    <3>4. PICK g \in doc.hashed : g \notin Reachable \/ g \in doc.altered
      BY <1>12, <1>13, <3>2, <3>3, <3>1 DEF Ordinary, Matches
    <3>5. g \in EacGroups
      BY <3>1, <3>4 DEF Ordinary
    <3> QED BY <3>4, <3>5
  <2> QED BY <1>6, <1>11, <2>1, <2>2, <2>3 DEF Judgement
<1> QED BY <1>14, <1>15, <1>16, <1>17

LEMMA InvReadDg3 == Inv /\ ReadDg3 => Inv'
<1> SUFFICES ASSUME Inv, ReadDg3 PROVE Inv'
  OBVIOUS
<1> USE DEF Inv
<1>1. PICK f \in Failures(1) :
        /\ Fail(f, 1)
        /\ LET got == Got(<<"DG3">>, Bad(f, 1))
           IN  /\ pd' = [pd EXCEPT !.kept = @ \cup got]
               /\ efSuccess' = Noted(got)
  BY DEF ReadDg3
<1> DEFINE got == Got(<<"DG3">>, Bad(f, 1))
<1>2. /\ faults' \in Nat /\ refusals' \in Nat /\ inStep' \in BOOLEAN /\ (inStep' <=> faults' = 0)
      /\ refusals' = 0 => refusals = 0
      /\ faults' = 0 => faults = 0
  BY <1>1, Failing
<1>3. got \subseteq {"DG3"} \cap Served
  <2>1. <<"DG3">> \in Seq({"DG3"}) /\ Range(<<"DG3">>) = {"DG3"}
    BY DEF Range
  <2> QED BY <2>1, GotOf
<1>4. pd' = [pd EXCEPT !.kept = @ \cup got] /\ efSuccess' = Noted(got)
  BY <1>1
<1> HIDE DEF got
<1>5. /\ step = "reread" /\ taDone
      /\ UNCHANGED <<doc, step, taDone, stage, dg3Closed>>
  BY DEF ReadDg3
<1>6. got \subseteq doc.files /\ got \subseteq Groups /\ got \subseteq Reachable
  BY <1>3, <1>5, DocumentsAssumption DEF Served, EacGroups, Reachable
<1>7. /\ efSuccess'.pre = efSuccess.pre /\ efSuccess'.post = efSuccess.post \cup got
      /\ efSuccess' \in [pre: SUBSET doc.files, post: SUBSET doc.files]
  BY <1>4, <1>5, <1>6 DEF Noted, Typed
<1>8. /\ pd' \in [listed: SUBSET Groups, kept: SUBSET Groups, pa: Verdicts]
      /\ pd'.listed = pd.listed /\ pd'.kept = pd.kept \cup got /\ pd'.pa = pd.pa
  BY <1>4, <1>6 DEF Typed
<1>9. Verdicts' = Verdicts /\ Reachable' = Reachable /\ Ordinary' = Ordinary /\ (NoFault' => NoFault)
  BY <1>2, <1>5 DEF Verdicts, Reachable, Ordinary, NoFault
<1>10. Typed'
  BY <1>2, <1>5, <1>7, <1>8, <1>9 DEF Typed
<1>11. Reading'
  BY <1>5, <1>6, <1>7, <1>8, <1>9 DEF Reading
<1>12. Opened'
  BY <1>2, <1>5, <1>7, <1>8 DEF Opened
<1>13. Judgement'
  BY <1>5, <1>7, <1>8, <1>9 DEF Judgement
<1> QED BY <1>10, <1>11, <1>12, <1>13

\* The rows of the report, in every state.
LEMMA RowsTrue ==
  ASSUME Inv, refusals = 0
  PROVE  \A g \in pd.listed :
           Rows[g].gated <=> g \in doc.gated /\ g \in efSuccess.post \cup pd.kept
<1> USE DEF Inv
<1> SUFFICES ASSUME NEW g \in pd.listed
             PROVE  Rows[g].gated <=> g \in doc.gated /\ g \in efSuccess.post \cup pd.kept
  OBVIOUS
<1>1. Rows[g].gated <=> g \notin efSuccess.pre /\ g \in efSuccess.post \cup pd.kept
  BY DEF Rows
<1>2. CASE g \in doc.gated
  BY <1>1, <1>2 DEF Reading
<1>3. CASE g \notin doc.gated /\ ~taDone
  BY <1>1, <1>3 DEF Reading
<1>4. CASE g \notin doc.gated /\ taDone
  <2>1. "COM" \in doc.files /\ g \in Range(doc.listed) /\ step # "opened"
    BY <1>4 DEF Opened, Reading
  <2>2. (Range(doc.listed) \cap doc.files) \ doc.gated \subseteq efSuccess.pre
    BY <1>4, <2>1 DEF Opened
  <2>3. g \in efSuccess.post \cup pd.kept => g \in doc.files
    BY DEF Reading, Reachable
  <2> QED BY <1>1, <1>4, <2>1, <2>2, <2>3
<1> QED BY <1>2, <1>3, <1>4

LEMMA InvExportReport == Inv /\ ExportReport => Inv'
<1> SUFFICES ASSUME Inv, ExportReport PROVE Inv'
  OBVIOUS
<1> USE DEF Inv
<1>1. /\ dg3Closed' = (dg3Closed \/ ("DG3" \in DOMAIN Rows /\ Rows["DG3"].gated))
      /\ UNCHANGED <<doc, step, pd, efSuccess, taDone, stage, inStep, faults, refusals>>
  BY DEF ExportReport
<1>2. Verdicts' = Verdicts /\ Reachable' = Reachable /\ Ordinary' = Ordinary /\ (NoFault' <=> NoFault)
  BY <1>1 DEF Verdicts, Reachable, Ordinary, NoFault
<1>3. DOMAIN Rows = pd.listed
  BY DEF Rows
<1>4. dg3Closed' \in BOOLEAN /\ (dg3Closed' => dg3Closed \/ ("DG3" \in pd.listed /\ Rows["DG3"].gated))
  BY <1>1, <1>3, Zenon
<1>5. refusals = 0 /\ dg3Closed' => "DG3" \in doc.gated
  BY <1>4, RowsTrue DEF Opened
<1>6. Typed'
  BY <1>1, <1>2, <1>4 DEF Typed
<1>7. Reading'
  BY <1>1, <1>2 DEF Reading
<1>8. Opened'
  BY <1>1, <1>5 DEF Opened
<1>9. Judgement'
  BY <1>1, <1>2 DEF Judgement
<1> QED BY <1>6, <1>7, <1>8, <1>9

\* Inv, of every state of every session.
THEOREM InvHolds == Spec => []Inv
<1>1. Inv /\ UNCHANGED vars => Inv'
  <2> SUFFICES ASSUME Inv, UNCHANGED vars PROVE Inv'
    OBVIOUS
  <2> USE DEF Inv, vars
  <2>1. Verdicts' = Verdicts /\ Reachable' = Reachable /\ Ordinary' = Ordinary /\ (NoFault' <=> NoFault)
    BY DEF Verdicts, Reachable, Ordinary, NoFault
  <2>2. Typed'
    BY <2>1 DEF Typed
  <2>3. Reading'
    BY <2>1 DEF Reading
  <2>4. Opened'
    BY DEF Opened
  <2>5. Judgement'
    BY <2>1 DEF Judgement
  <2> QED BY <2>2, <2>3, <2>4, <2>5
<1>2. Inv /\ [Next]_vars => Inv'
  BY <1>1, InvReadAll, InvTerminalAuth, InvReread, InvReadDg3, InvExportReport DEF Next
<1> QED BY InvInit, <1>2, PTL DEF Spec

-----------------------------------------------------------------------------
\* The verdict on display is true of the passport (pa.py, _terminal_auth_worker).
THEOREM VerdictAlwaysTrue == Spec => []VerdictTrue
<1>1. Inv => VerdictTrue
  <2> SUFFICES ASSUME Inv PROVE VerdictTrue
    OBVIOUS
  <2>1. faults + refusals > 0 \/ NoFault
    BY DEF Inv, Typed, NoFault
  <2> QED BY <2>1 DEF Inv, VerdictTrue, Judgement, Reading, Ordinary
<1> QED BY <1>1, InvHolds, PTL

\* The trace's stage and the verdict part only over a group that needs EAC.
THEOREM VerdictsAgreeAlways == Spec => []VerdictsAgree
<1>1. Inv => VerdictsAgree
  <2> SUFFICES ASSUME Inv, stage = "ok", pd.pa.overall # "PASS", faults + refusals = 0
               PROVE  \E g \in doc.hashed \cap EacGroups : g \in doc.altered \/ g \notin pd.kept
    BY DEF VerdictsAgree
  <2>1. NoFault
    BY DEF Inv, Typed, NoFault
  <2> QED BY <2>1 DEF Inv, Judgement, Reading
<1> QED BY <1>1, InvHolds, PTL

\* What the report says of access control is the chip's conduct (_dg_matrix,
\* _populate_report).
THEOREM GateAlwaysReported == Spec => []GateReported
<1>1. Inv => GateReported
  BY RowsTrue DEF Inv, GateReported, Opened
<1> QED BY <1>1, InvHolds, PTL

=============================================================================
