----------------------- MODULE SecureMessaging_proofs -----------------------
(***************************************************************************)
(* Proofs about SecureMessaging, for every counter width, set of commands  *)
(* and bound.  The argument: each side's counter only moves forward from   *)
(* the start of its key and cannot come round within the bounds, so a key  *)
(* and a counter value name one command (CountersNotReused); an envelope   *)
(* verifies only against the key and counter of the command it answers.    *)
(***************************************************************************)
EXTENDS SecureMessaging, TLAPS

\* Steps from the first counter value under key k to s.
Distance(k, s) == IF s >= Start[k] THEN s - Start[k] ELSE s + SscMod - Start[k]

\* Exchanges are numbered upwards and a key is older than what it protects.
Numbering ==
  /\ term.key <= n /\ card.key <= n
  /\ \A c \in sent : 0 < c.key /\ c.key < c.n /\ c.n <= n
  /\ \A c, d \in sent : c.n = d.n => c = d

\* The exchange in progress is the last begun, on the terminal's counter.
Outstanding ==
  /\ out \subseteq sent
  /\ phase = "idle" <=> out = {}
  /\ \A c \in out : c.n = n /\ c.key = term.key /\ c.ssc = term.ssc
  /\ reply.kind = "envelope" => reply \in envelopes

\* How far the counters have come; all a side used lies at or behind its own.
Counters ==
  /\ term.key # 0 => /\ Distance(term.key, term.ssc) <= 2 * n
                     /\ phase # "idle" => Distance(term.key, term.ssc) < 2 * n
  /\ card.key # 0 => /\ Distance(card.key, card.ssc) <= 2 * n + 2 * faults
                     /\ phase = "sending" => Distance(card.key, card.ssc) + 2 <= 2 * n + 2 * faults
  /\ \A c \in sent : c.key = term.key => Distance(c.key, c.ssc) <= Distance(term.key, term.ssc)
  /\ \A e \in envelopes : e.key = card.key => Distance(e.key, e.ssc) <= Distance(card.key, card.ssc)

\* An envelope answers a command sent, under its key and the next counter value.
Origins ==
  \A e \in envelopes :
    /\ e.n \in executed
    /\ \E d \in sent : d.n = e.n /\ d.key = e.key /\ e.ssc = IncSsc(d.ssc)

\* The inductive invariant.
Inv ==
  /\ TypeOK /\ Numbering /\ Outstanding /\ Counters /\ Origins
  /\ CountersNotReused /\ ExecutedOnce /\ AnswersTheCommand

-----------------------------------------------------------------------------
(* The counter.                                                            *)

\* Short of the wrap-around back to the start, inc_ssc adds one to the distance.
LEMMA IncDistance ==
  ASSUME NEW k \in Numbers, NEW s \in SSC
  PROVE  /\ Distance(k, s) \in 0 .. SscMod - 1
         /\ IncSsc(s) \in SSC
         /\ Distance(k, s) < SscMod - 1 => Distance(k, IncSsc(s)) = Distance(k, s) + 1
  BY CountersAssumption DEF Distance, IncSsc, SSC

\* A key starts at distance zero.
LEMMA StartDistance ==
  ASSUME NEW k \in Numbers
  PROVE  Distance(k, Start[k]) = 0 /\ Distance(k, NewSession(k).ssc) = 0
  BY CountersAssumption DEF Distance, SSC, NewSession

\* inc_ssc maps no two values to the same one.
LEMMA IncInjective ==
  ASSUME NEW s \in SSC, NEW t \in SSC, IncSsc(s) = IncSsc(t)
  PROVE  s = t
  BY CountersAssumption DEF IncSsc, SSC

\* The sessions and answers the actions build are of their types.
LEMMA SessionTypes ==
  /\ NoSession \in Session
  /\ \A k \in Numbers : NewSession(k) \in Session
  /\ \A session \in Session : Stepped(session) \in Session
  /\ \A kind \in Kinds : NoSm(kind) \in Reply
<1>1. 0 \in Numbers /\ 0 \in SSC
  BY CountersAssumption DEF Numbers, SSC
<1>2. \A k \in Numbers : NewSession(k) \in Session
  BY CountersAssumption DEF NewSession, Session
<1>3. \A session \in Session : Stepped(session) \in Session
  BY IncDistance DEF Stepped, Session
<1> QED
  BY <1>1, <1>2, <1>3 DEF NoSession, NoSm, Session, Reply

-----------------------------------------------------------------------------
(* Type correctness.                                                       *)

\* A fault counts itself and breaks the channel's unbroken record.
LEMMA FaultTypes ==
  TypeOK /\ Fault => faults' \in 0 .. MaxFaults /\ intact' \in BOOLEAN
<1> SUFFICES ASSUME TypeOK, Fault PROVE faults' \in 0 .. MaxFaults /\ intact' \in BOOLEAN
  OBVIOUS
<1>1. faults' \in 0 .. MaxFaults
  BY CountersAssumption DEF TypeOK, Fault
<1>2. intact' \in BOOLEAN
  BY Zenon DEF Fault
<1> QED
  BY <1>1, <1>2

LEMMA TypeInit == Init => TypeOK
<1> SUFFICES ASSUME Init PROVE TypeOK
  OBVIOUS
<1>1. NoSession \in Session /\ NoSm("none") \in Reply
  BY SessionTypes DEF Kinds
<1> QED
  BY <1>1, CountersAssumption DEF Init, TypeOK, Numbers

LEMMA TypeStep == TypeOK /\ [Next]_vars => TypeOK'
<1> SUFFICES ASSUME TypeOK, [Next]_vars PROVE TypeOK'
  OBVIOUS
<1> USE DEF TypeOK
<1>1. CASE Authenticate
  <2>1. n' \in Numbers
    BY <1>1, CountersAssumption DEF Authenticate, Numbers
  <2> QED
    BY <1>1, <2>1, SessionTypes DEF Authenticate
<1>2. ASSUME NEW op \in Ops, WrapCommand(op) PROVE TypeOK'
  <2>1. n' \in Numbers
    BY <1>2, CountersAssumption DEF WrapCommand, Numbers
  <2>2. term' \in Session
    BY <1>2, SessionTypes DEF WrapCommand
  <2>3. out' \subseteq Command
    BY <1>2, <2>1, <2>2 DEF WrapCommand, Command, Session
  <2> QED
    BY <1>2, <2>1, <2>2, <2>3 DEF WrapCommand
<1>3. CASE PlainCommand
  BY <1>3, SessionTypes, FaultTypes DEF PlainCommand
<1>4. ASSUME NEW ok \in BOOLEAN, NEW do87 \in BOOLEAN, CardExecutes(ok, do87) PROVE TypeOK'
  <2> PICK c \in out : CardExecutes(ok, do87)!(c)
    BY <1>4 DEF CardExecutes
  <2>1. c \in Command /\ IncSsc(c.ssc) \in SSC
    BY IncDistance DEF Command
  <2>2. reply' \in Reply /\ envelopes' = envelopes \cup {reply'}
    BY <2>1 DEF Answered, Reply, Kinds, Command
  <2>3. card' \in Session
    BY <2>1, SessionTypes DEF Command, Session
  <2>4. phase' = "answered" /\ executed' \subseteq Numbers
    BY <2>1 DEF Answered, Command
  <2> QED
    BY <2>2, <2>3, <2>4
<1>5. CASE CardDeclines
  BY <1>5, SessionTypes DEF CardDeclines, Answered, Kinds
<1>6. CASE CardRefuses
  BY <1>6, SessionTypes DEF CardRefuses, Answered, Kinds
<1>7. ASSUME NEW kind \in {"raised", "bare"}, LoseCommand(kind) PROVE TypeOK'
  BY <1>7, SessionTypes, FaultTypes DEF LoseCommand, Answered, Kinds
<1>8. CASE SpoilReply
  <2>1. reply' \in Reply
    BY <1>8, SessionTypes DEF SpoilReply, Kinds
  <2> QED
    BY <1>8, <2>1, FaultTypes DEF SpoilReply
<1>9. CASE Retransmit
  BY <1>9, FaultTypes DEF Retransmit
<1>10. CASE NothingVerified
  BY <1>10, SessionTypes DEF NothingVerified, Done, Kinds
<1>11. CASE UnwrapResponse
  <2> PICK c \in out : UnwrapResponse!(c)
    BY <1>11 DEF UnwrapResponse
  <2>1. accepted' \subseteq Answer
    BY DEF Answer, Command, Reply
  <2> QED
    BY <2>1, SessionTypes DEF Done, Kinds
<1>12. CASE UpgradeSession
  <2> PICK c \in out : UpgradeSession!(c)
    BY <1>12 DEF UpgradeSession
  <2>1. accepted' \subseteq Answer /\ c.n \in Numbers
    BY DEF Answer, Command, Reply
  <2> QED
    BY <2>1, SessionTypes DEF Done, Kinds
<1>13. CASE UpgradeFails
  <2> PICK c \in out : UpgradeFails!(c)
    BY <1>13 DEF UpgradeFails
  <2>1. accepted' \subseteq Answer
    BY DEF Answer, Command, Reply
  <2> QED
    BY <2>1, SessionTypes, FaultTypes DEF Done, Kinds
<1>14. CASE UNCHANGED vars
  BY <1>14 DEF vars
<1> QED
  BY <1>1, <1>2, <1>3, <1>4, <1>5, <1>6, <1>7, <1>8, <1>9, <1>10, <1>11,
     <1>12, <1>13, <1>14 DEF Next

\* Every variable of the channel keeps its type.
THEOREM TypeCorrect == Spec => []TypeOK
  BY TypeInit, TypeStep, PTL DEF Spec

-----------------------------------------------------------------------------
(* The inductive invariant.                                                *)

LEMMA InvInit == Init => Inv
<1> SUFFICES ASSUME Init PROVE Inv
  OBVIOUS
<1>1. TypeOK
  BY TypeInit
<1>2. term.key = 0 /\ card.key = 0 /\ n = 0 /\ reply.kind = "none"
  BY DEF Init, NoSession, NoSm
<1> QED
  BY <1>1, <1>2 DEF Init, Inv, Numbering, Outstanding, Counters, Origins,
     CountersNotReused, ExecutedOnce, AnswersTheCommand

\* A key agreement: the new key is above all numbers in use.
LEMMA AuthenticateInv == Inv /\ Authenticate => Inv'
<1> SUFFICES ASSUME Inv, Authenticate PROVE Inv'
  OBVIOUS
<1>1. TypeOK'
  BY TypeStep DEF Inv, Next
<1>2. /\ n' = n + 1 /\ n' \in Numbers /\ n \in Nat /\ faults \in Nat
      /\ term'.key = n' /\ card'.key = n' /\ Distance(n', term'.ssc) = 0
      /\ card'.ssc = term'.ssc
  BY <1>1, StartDistance, CountersAssumption
     DEF Inv, TypeOK, Authenticate, NewSession, Numbers
<1>3. UNCHANGED <<phase, out, reply, sent, envelopes, executed, accepted, faults>>
      /\ phase = "idle"
  BY DEF Authenticate
<1>4. \A c \in sent : c.key # n' /\ c.key \in Nat /\ c.n \in Nat
  BY <1>2 DEF Inv, TypeOK, Command, Numbers, Numbering
<1>5. \A e \in envelopes : e.key # n'
  BY <1>4 DEF Inv, Origins
<1>6. Numbering'
  BY <1>2, <1>3, <1>4 DEF Inv, Numbering
<1>7. Outstanding'
  BY <1>3 DEF Inv, Outstanding
<1>8. Counters'
  BY <1>2, <1>3, <1>4, <1>5 DEF Counters
<1> QED
  BY <1>1, <1>3, <1>6, <1>7, <1>8 DEF Inv, Origins, CountersNotReused,
     ExecutedOnce, AnswersTheCommand

\* Wrapping: the new command's counter is ahead of all the terminal used.
LEMMA WrapCommandInv == ASSUME Inv, NEW op \in Ops, WrapCommand(op) PROVE Inv'
<1>1. TypeOK'
  BY TypeStep DEF Inv, Next
<1> DEFINE c == [n |-> n', key |-> term.key, ssc |-> term'.ssc, op |-> op]
<1>2. /\ out' = {c} /\ sent' = sent \cup {c} /\ n' = n + 1
      /\ term'.ssc = IncSsc(term.ssc) /\ term'.key = term.key /\ term.key # 0
      /\ phase = "idle" /\ phase' = "sending"
      /\ UNCHANGED <<card, reply, envelopes, executed, accepted, faults>>
  BY DEF WrapCommand, Stepped, Inv, TypeOK, Session
<1>3. /\ n \in Nat /\ n' \in Nat /\ faults \in Nat
      /\ n' <= MaxExchanges /\ faults <= MaxFaults
      /\ term.key \in Numbers /\ term.key \in Nat /\ term.ssc \in SSC
      /\ card.key \in Numbers /\ card.ssc \in SSC
  BY <1>1, <1>2, CountersAssumption DEF Inv, TypeOK, Numbers, Session
<1>4. /\ Distance(term.key, term.ssc) \in Nat
      /\ Distance(term.key, term.ssc) <= 2 * n
      /\ Distance(term.key, term'.ssc) = Distance(term.key, term.ssc) + 1
  BY <1>2, <1>3, IncDistance, CountersAssumption DEF Inv, Counters
<1>5. \A d \in sent : d.key = term.key =>
        Distance(d.key, d.ssc) <= Distance(term.key, term.ssc) /\ d.ssc # term'.ssc
  <2> SUFFICES ASSUME NEW d \in sent, d.key = term.key
               PROVE  Distance(d.key, d.ssc) <= Distance(term.key, term.ssc) /\ d.ssc # term'.ssc
    OBVIOUS
  <2>1. Distance(d.key, d.ssc) <= Distance(term.key, term.ssc)
    BY DEF Inv, Counters
  <2> QED
    BY <2>1, <1>4
<1>6. \A d \in sent : d.n \in Nat /\ d.key \in Nat /\ d.n <= n /\ d.n # n' /\ 0 < d.key /\ d.key < d.n
  BY <1>2, <1>3 DEF Inv, TypeOK, Command, Numbers, Numbering
<1>7. term.key <= n /\ card.key <= n /\ card.key \in Nat
  BY <1>3 DEF Inv, Numbering, Numbers
<1>8. Numbering'
  <2>1. term'.key <= n' /\ card'.key <= n'
    BY <1>2, <1>3, <1>7
  <2>2. \A d \in sent' : 0 < d.key /\ d.key < d.n /\ d.n <= n'
    BY <1>2, <1>3, <1>6, <1>7
  <2>3. \A d, e \in sent' : d.n = e.n => d = e
    BY <1>2, <1>6 DEF Inv, Numbering
  <2> QED
    BY <2>1, <2>2, <2>3 DEF Numbering
<1>9. Outstanding'
  <2>1. reply'.kind = "envelope" => reply' \in envelopes'
    BY <1>2 DEF Inv, Outstanding
  <2>2. out' # {} /\ out' \subseteq sent'
    BY <1>2
  <2>3. \A d \in out' : d.n = n' /\ d.key = term'.key /\ d.ssc = term'.ssc
    BY <1>2
  <2> QED
    BY <2>1, <2>2, <2>3, <1>2 DEF Outstanding
<1>10. Counters'
  <2>1. /\ Distance(term'.key, term'.ssc) <= 2 * n'
        /\ Distance(term'.key, term'.ssc) < 2 * n'
    BY <1>2, <1>3, <1>4
  <2>2. card'.key # 0 => /\ Distance(card'.key, card'.ssc) <= 2 * n' + 2 * faults'
                         /\ Distance(card'.key, card'.ssc) + 2 <= 2 * n' + 2 * faults'
    BY <1>2, <1>3, IncDistance, CountersAssumption DEF Inv, Counters, SSC
  <2>3. \A d \in sent' : d.key = term'.key => Distance(d.key, d.ssc) <= Distance(term'.key, term'.ssc)
    <3> SUFFICES ASSUME NEW d \in sent', d.key = term'.key
                 PROVE  Distance(d.key, d.ssc) <= Distance(term'.key, term'.ssc)
      OBVIOUS
    <3>1. CASE d \in sent
      <4>1. d.key \in Numbers /\ d.ssc \in SSC
        BY <3>1 DEF Inv, TypeOK, Command
      <4>2. Distance(d.key, d.ssc) \in Nat
        BY <4>1, IncDistance
      <4> QED
        BY <3>1, <4>2, <1>2, <1>4, <1>5
    <3>2. CASE d = c
      BY <3>2, <1>2, <1>4
    <3> QED
      BY <3>1, <3>2, <1>2
  <2> QED
    BY <2>1, <2>2, <2>3, <1>2 DEF Inv, Counters
<1>11. CountersNotReused'
  BY <1>2, <1>5 DEF Inv, CountersNotReused
<1>12. Origins'
  BY <1>2 DEF Inv, Origins
<1> QED
  BY <1>1, <1>2, <1>8, <1>9, <1>10, <1>11, <1>12 DEF Inv, ExecutedOnce, AnswersTheCommand

\* What the chip does leaves the terminal as it is; an answer is an envelope
\* the chip has made, and the chip's counter stays within reach.
LEMMA ChipSideInv ==
  ASSUME Inv, TypeOK',
         UNCHANGED <<term, out, n, sent, envelopes, executed, accepted>>,
         phase # "idle", phase' # "idle",
         reply'.kind = "envelope" => reply' \in envelopes,
         card'.key \in {0, card.key},
         card'.key # 0 =>
           /\ Distance(card'.key, card'.ssc) <= 2 * n + 2 * faults'
           /\ phase' = "sending" => Distance(card'.key, card'.ssc) + 2 <= 2 * n + 2 * faults'
           /\ Distance(card.key, card.ssc) <= Distance(card'.key, card'.ssc)
  PROVE  Inv'
<1>1. n \in Nat /\ card.key \in Nat /\ card.key <= n /\ term.key \in Nat
  BY CountersAssumption DEF Inv, TypeOK, Session, Numbers, Numbering
<1>2. Numbering'
  BY <1>1 DEF Inv, Numbering
<1>3. Outstanding'
  BY DEF Inv, Outstanding
<1>4. ASSUME NEW e \in envelopes, e.key = card'.key
      PROVE  Distance(e.key, e.ssc) <= Distance(card'.key, card'.ssc)
  <2>1. PICK d \in sent : d.key = e.key /\ 0 < d.key
    BY DEF Inv, Origins, Numbering
  <2>2. e.key = card.key /\ card'.key # 0
    BY <1>4, <2>1, <1>1
  <2>3. Distance(e.key, e.ssc) <= Distance(card.key, card.ssc)
    BY <2>2 DEF Inv, Counters
  <2>4. /\ Distance(e.key, e.ssc) \in Nat /\ Distance(card.key, card.ssc) \in Nat
        /\ Distance(card'.key, card'.ssc) \in Nat
    BY IncDistance, <1>4 DEF Inv, TypeOK, Session, Reply
  <2> QED
    BY <2>2, <2>3, <2>4
<1>5. Counters'
  BY <1>4 DEF Inv, Counters
<1> QED
  BY <1>2, <1>3, <1>5 DEF Inv, Origins, CountersNotReused, ExecutedOnce, AnswersTheCommand

\* The chip's counter, stepped once, stays within reach.
LEMMA CardSteps ==
  ASSUME Inv, phase = "sending", card.key # 0
  PROVE  /\ n \in Nat /\ faults \in Nat
         /\ Distance(card.key, card.ssc) \in Nat
         /\ Distance(card.key, card.ssc) + 2 <= 2 * n + 2 * faults
         /\ Distance(card.key, IncSsc(card.ssc)) = Distance(card.key, card.ssc) + 1
         /\ Distance(card.key, IncSsc(IncSsc(card.ssc))) = Distance(card.key, card.ssc) + 2
<1>1. /\ n \in Nat /\ faults \in Nat /\ n <= MaxExchanges /\ faults <= MaxFaults
      /\ card.key \in Numbers /\ card.ssc \in SSC
  BY CountersAssumption DEF Inv, TypeOK, Numbers, Session
<1>2. Distance(card.key, card.ssc) + 2 <= 2 * n + 2 * faults
  BY DEF Inv, Counters
<1>3. Distance(card.key, card.ssc) \in Nat /\ Distance(card.key, card.ssc) + 2 < SscMod
  BY <1>1, <1>2, IncDistance, CountersAssumption
<1>4. /\ Distance(card.key, IncSsc(card.ssc)) = Distance(card.key, card.ssc) + 1
      /\ IncSsc(card.ssc) \in SSC
  BY <1>1, <1>3, IncDistance, CountersAssumption
<1>5. Distance(card.key, IncSsc(IncSsc(card.ssc))) = Distance(card.key, card.ssc) + 2
  BY <1>1, <1>3, <1>4, IncDistance, CountersAssumption
<1> QED
  BY <1>1, <1>2, <1>3, <1>4, <1>5

LEMMA CardDeclinesInv == Inv /\ CardDeclines => Inv'
<1> SUFFICES ASSUME Inv, CardDeclines PROVE Inv'
  OBVIOUS
<1>1. TypeOK'
  BY TypeStep DEF Inv, Next
<1>2. PICK c \in out : CardDeclines!(c)
  BY DEF CardDeclines
<1>3. card.key # 0 /\ card'.key = card.key /\ card'.ssc = IncSsc(card.ssc)
  BY <1>2 DEF Verifies, Stepped, Inv, TypeOK, Session, Outstanding, Numbering, Command, Numbers
<1> QED
  BY <1>1, <1>2, <1>3, CardSteps, ChipSideInv DEF Answered, NoSm

LEMMA CardRefusesInv == Inv /\ CardRefuses => Inv'
<1> SUFFICES ASSUME Inv, CardRefuses PROVE Inv'
  OBVIOUS
<1>1. TypeOK'
  BY TypeStep DEF Inv, Next
<1>2. PICK c \in out : CardRefuses!(c)
  BY DEF CardRefuses
<1>3. card'.key = card.key /\ card.key # 0 => card'.ssc = IncSsc(card.ssc)
  BY <1>2 DEF Stepped, Inv, TypeOK, Session
<1>4. card'.key = card.key
  BY <1>2 DEF Stepped, Inv, TypeOK, Session
<1> QED
  BY <1>1, <1>2, <1>3, <1>4, CardSteps, ChipSideInv DEF Answered, NoSm

\* Faults of the link move no counter.
LEMMA LinkFaultInv ==
  ASSUME Inv, Next, Fault, phase # "idle", phase' # "idle",
         UNCHANGED <<term, card, out, n, sent, envelopes, executed, accepted>>,
         reply'.kind = "envelope" => reply' \in envelopes
  PROVE  Inv'
<1>1. TypeOK'
  BY TypeStep DEF Inv
<1>2. /\ n \in Nat /\ faults \in Nat /\ faults' = faults + 1
      /\ Distance(card.key, card.ssc) \in Nat
  BY CountersAssumption, IncDistance DEF Inv, TypeOK, Numbers, Fault, Session
<1>3. card.key # 0 => /\ Distance(card.key, card.ssc) <= 2 * n + 2 * faults
  BY DEF Inv, Counters
<1> QED
  BY <1>1, <1>2, <1>3, ChipSideInv

\* Executing: the envelope's counter is ahead of all the chip used under the
\* key, so it is new, and no envelope of this exchange exists.
LEMMA CardExecutesInv ==
  ASSUME Inv, NEW ok \in BOOLEAN, NEW do87 \in BOOLEAN, CardExecutes(ok, do87)
  PROVE  Inv'
<1>1. TypeOK'
  BY TypeStep DEF Inv, Next
<1> PICK c \in out : CardExecutes(ok, do87)!(c)
  BY DEF CardExecutes
<1> DEFINE r == [kind |-> "envelope", n |-> c.n, key |-> c.key, ssc |-> IncSsc(c.ssc),
                 ok |-> ok, do87 |-> do87]
<1>2. /\ c \in sent /\ c.n = n /\ c.key = card.key /\ c.ssc = IncSsc(card.ssc)
      /\ 0 < c.key /\ c.key < n /\ n \in Numbers
      /\ c.n \in Nat /\ c.key \in Nat /\ c.key \in Numbers
  BY DEF Inv, TypeOK, Verifies, Outstanding, Numbering, Command, Numbers
<1>3. /\ phase = "sending" /\ phase' = "answered"
      /\ reply' = r /\ envelopes' = envelopes \cup {r} /\ executed' = executed \cup {c.n}
      /\ UNCHANGED <<term, out, n, sent, accepted, faults>>
  BY DEF Answered
<1>4. /\ n \in Nat /\ faults \in Nat
      /\ Distance(card.key, card.ssc) \in Nat
      /\ Distance(card.key, card.ssc) + 2 <= 2 * n + 2 * faults
      /\ Distance(card.key, r.ssc) = Distance(card.key, card.ssc) + 2
  BY <1>2, <1>3, CardSteps
<1>5. ASSUME NEW e \in envelopes
      PROVE  /\ e.n # r.n /\ ~(e.key = r.key /\ e.ssc = r.ssc)
             /\ e.key \in Nat /\ e.key < n
             /\ Distance(e.key, e.ssc) \in Nat
             /\ e.key = card.key => Distance(e.key, e.ssc) <= Distance(card.key, card.ssc)
  <2>1. PICK d \in sent : d.n = e.n /\ d.key = e.key /\ e.ssc = IncSsc(d.ssc)
    BY DEF Inv, Origins
  <2>2. e.key = card.key => Distance(e.key, e.ssc) <= Distance(card.key, card.ssc)
    BY DEF Inv, Counters
  <2>3. ~(e.key = r.key /\ e.ssc = r.ssc)
    BY <1>2, <1>4, <2>2
  <2>4. e.n # r.n
    BY <1>2, <2>1, <2>3 DEF Inv, Numbering
  <2>5. e.key \in Nat /\ e.key < n
    BY <1>2, <1>4, <2>1 DEF Inv, TypeOK, Command, Numbers, Numbering
  <2>6. Distance(e.key, e.ssc) \in Nat
    BY IncDistance DEF Inv, TypeOK, Reply
  <2> QED
    BY <2>2, <2>3, <2>4, <2>5, <2>6
<1>6. \/ card'.key = n /\ Distance(n, card'.ssc) = 0
      \/ card'.key = card.key /\ card'.ssc = r.ssc
  <2>1. card' = NewSession(c.n) \/ card' = [card EXCEPT !.ssc = IncSsc(c.ssc)]
    BY Zenon
  <2>2. card' = NewSession(c.n) => card'.key = n /\ Distance(n, card'.ssc) = 0
    BY <1>2, StartDistance DEF NewSession
  <2>3. card' = [card EXCEPT !.ssc = IncSsc(c.ssc)] => card'.key = card.key /\ card'.ssc = r.ssc
    BY <1>2 DEF Inv, TypeOK, Session
  <2> QED
    BY <2>1, <2>2, <2>3
<1>7. Numbering'
  BY <1>2, <1>3, <1>4, <1>6 DEF Inv, Numbering
<1>8. Outstanding'
  BY <1>3 DEF Inv, Outstanding
<1>9. \A e \in envelopes' : e.key = card'.key => Distance(e.key, e.ssc) <= Distance(card'.key, card'.ssc)
  BY <1>2, <1>3, <1>4, <1>5, <1>6
<1>10. Counters'
  BY <1>2, <1>3, <1>4, <1>6, <1>9 DEF Inv, Counters
<1>11. Origins'
  BY <1>2, <1>3 DEF Inv, Origins
<1>12. ExecutedOnce'
  BY <1>3, <1>5 DEF Inv, ExecutedOnce
<1> QED
  BY <1>1, <1>3, <1>7, <1>8, <1>10, <1>11, <1>12 DEF Inv, CountersNotReused, AnswersTheCommand

\* The terminal is done with an exchange: the invariant asks that its counter
\* has not left its reach and that what it accepted was an answer to the command.
LEMMA TerminalDoneInv ==
  ASSUME Inv, TypeOK', Done, phase = "answered", faults' \in {faults, faults + 1},
         NEW c \in out, accepted' \in {accepted, accepted \cup {[asked |-> c.n, answer |-> reply.n]}},
         accepted' # accepted => Authentic(reply),
         \/ term' = term
         \/ term' = Stepped(term)
         \/ term' = NewSession(c.n)
  PROVE  Inv'
<1>1. /\ n \in Nat /\ faults \in Nat /\ faults' \in Nat /\ faults' >= faults
      /\ n \in Numbers /\ n <= MaxExchanges /\ term \in Session /\ card \in Session
  BY CountersAssumption DEF Inv, TypeOK, Numbers
<1>2. /\ c \in sent /\ c \in Command /\ c.n = n /\ c.key = term.key /\ c.ssc = term.ssc
      /\ 0 < term.key /\ term.key < n /\ term.key \in Nat /\ term.key \in Numbers /\ term.ssc \in SSC
  BY <1>1 DEF Inv, TypeOK, Outstanding, Numbering, Session, Numbers
<1>3. /\ Distance(term.key, term.ssc) \in Nat
      /\ Distance(term.key, term.ssc) + 1 <= 2 * n
      /\ Distance(term.key, IncSsc(term.ssc)) = Distance(term.key, term.ssc) + 1
  BY <1>1, <1>2, IncDistance, CountersAssumption DEF Inv, Counters
<1>4. /\ phase' = "idle" /\ out' = {} /\ reply'.kind = "none"
      /\ UNCHANGED <<card, n, sent, envelopes, executed>>
  BY DEF Done, NoSm
<1>5. \/ term'.key = n /\ Distance(n, term'.ssc) = 0
      \/ /\ term'.key = term.key
         /\ Distance(term.key, term'.ssc) \in {Distance(term.key, term.ssc), Distance(term.key, term.ssc) + 1}
  BY <1>1, <1>2, <1>3, StartDistance DEF NewSession, Stepped, Session
<1>6. Numbering'
  BY <1>1, <1>2, <1>4, <1>5 DEF Inv, Numbering
<1>7. Outstanding'
  BY <1>4 DEF Inv, Outstanding
<1>8. ASSUME NEW d \in sent, d.key = term'.key
      PROVE  Distance(d.key, d.ssc) <= Distance(term'.key, term'.ssc)
  <2>1. d.key \in Nat /\ d.key < n
    BY <1>1 DEF Inv, TypeOK, Command, Numbers, Numbering
  <2>2. term'.key = term.key
    BY <1>5, <1>8, <2>1
  <2>3. Distance(d.key, d.ssc) <= Distance(term.key, term.ssc)
    BY <1>8, <2>2 DEF Inv, Counters
  <2>4. Distance(d.key, d.ssc) \in Nat
    BY IncDistance DEF Inv, TypeOK, Command
  <2> QED
    BY <2>1, <2>2, <2>3, <2>4, <1>2, <1>3, <1>5
<1>9. Distance(term'.key, term'.ssc) <= 2 * n
  BY <1>1, <1>2, <1>3, <1>5
<1>10. card.key # 0 => Distance(card.key, card.ssc) <= 2 * n + 2 * faults'
  <2>1. card.key \in Numbers /\ card.ssc \in SSC
    BY <1>1 DEF Session
  <2>2. Distance(card.key, card.ssc) \in Nat
    BY <2>1, IncDistance, CountersAssumption
  <2> QED
    BY <1>1, <2>2 DEF Inv, Counters
<1>11. Counters'
  BY <1>4, <1>8, <1>9, <1>10 DEF Inv, Counters
<1>12. Authentic(reply) => reply.n = c.n
  <2> SUFFICES ASSUME Authentic(reply) PROVE reply.n = c.n
    OBVIOUS
  <2>1. PICK d \in sent : d.n = reply.n /\ d.key = reply.key /\ reply.ssc = IncSsc(d.ssc)
    BY DEF Authentic, Inv, Outstanding, Origins
  <2>2. d.key = c.key /\ IncSsc(d.ssc) = IncSsc(c.ssc) /\ d.ssc \in SSC /\ c.ssc \in SSC
    BY <1>2, <2>1 DEF Authentic, Inv, TypeOK, Command
  <2>3. d.ssc = c.ssc
    BY <2>2, IncInjective
  <2> QED
    BY <1>2, <2>1, <2>2, <2>3 DEF Inv, CountersNotReused
<1>13. AnswersTheCommand'
  BY <1>12 DEF Inv, AnswersTheCommand
<1> QED
  BY <1>4, <1>6, <1>7, <1>11, <1>13 DEF Inv, Origins, CountersNotReused, ExecutedOnce

LEMMA InvStep == Inv /\ [Next]_vars => Inv'
<1> SUFFICES ASSUME Inv, [Next]_vars PROVE Inv'
  OBVIOUS
<1>0. TypeOK'
  BY TypeStep DEF Inv
<1>1. CASE Authenticate
  BY <1>1, AuthenticateInv
<1>2. ASSUME NEW op \in Ops, WrapCommand(op) PROVE Inv'
  BY <1>2, WrapCommandInv
<1>3. CASE PlainCommand
  <2>1. /\ n \in Nat /\ term.key \in Nat /\ faults \in Nat /\ faults' \in Nat /\ faults' >= faults
        /\ card'.key = 0
        /\ UNCHANGED <<term, phase, out, reply, n, sent, envelopes, executed, accepted>>
    BY <1>3, <1>0, CountersAssumption
       DEF PlainCommand, Fault, NoSession, Inv, TypeOK, Session, Numbers
  <2>2. \A e \in envelopes : e.key # 0
    BY DEF Inv, Origins, Numbering
  <2>3. Numbering' /\ Outstanding' /\ Counters'
    BY <2>1, <2>2 DEF Inv, Numbering, Outstanding, Counters
  <2> QED
    BY <1>0, <2>1, <2>3 DEF Inv, Origins, CountersNotReused, ExecutedOnce, AnswersTheCommand
<1>4. ASSUME NEW ok \in BOOLEAN, NEW do87 \in BOOLEAN, CardExecutes(ok, do87) PROVE Inv'
  BY <1>4, CardExecutesInv
<1>5. CASE CardDeclines
  BY <1>5, CardDeclinesInv
<1>6. CASE CardRefuses
  BY <1>6, CardRefusesInv
<1>7. ASSUME NEW kind \in {"raised", "bare"}, LoseCommand(kind) PROVE Inv'
  <2>1. Next
    BY <1>7 DEF Next
  <2> QED
    BY <1>7, <2>1, LinkFaultInv DEF LoseCommand, Answered, NoSm
<1>8. CASE SpoilReply
  <2>1. Next
    BY <1>8 DEF Next
  <2>2. reply'.kind = "envelope" => reply' \in envelopes
    BY <1>8 DEF SpoilReply, NoSm
  <2> QED
    BY <1>8, <2>1, <2>2, LinkFaultInv DEF SpoilReply
<1>9. CASE Retransmit
  <2>1. Next
    BY <1>9 DEF Next
  <2>2. reply.kind = "envelope" => reply \in envelopes
    BY DEF Inv, Outstanding
  <2> QED
    BY <1>9, <2>1, <2>2, LinkFaultInv DEF Retransmit
<1>10. CASE NothingVerified
  <2>1. UNCHANGED <<term, accepted, faults, card, n, sent, envelopes, executed>>
        /\ phase' = "idle" /\ out' = {} /\ reply'.kind = "none"
    BY <1>10 DEF NothingVerified, Done, NoSm
  <2>2. Numbering' /\ Outstanding' /\ Counters'
    BY <2>1 DEF Inv, Numbering, Outstanding, Counters
  <2> QED
    BY <1>0, <2>1, <2>2 DEF Inv, Origins, CountersNotReused, ExecutedOnce, AnswersTheCommand
<1>11. CASE UnwrapResponse
  <2> PICK c \in out : UnwrapResponse!(c)
    BY <1>11 DEF UnwrapResponse
  <2>1. accepted' \in {accepted, accepted \cup {[asked |-> c.n, answer |-> reply.n]}}
    BY Zenon
  <2> QED
    BY <1>0, <2>1, TerminalDoneInv
<1>12. CASE UpgradeSession
  <2> PICK c \in out : UpgradeSession!(c)
    BY <1>12 DEF UpgradeSession
  <2> QED
    BY <1>0, TerminalDoneInv
<1>13. CASE UpgradeFails
  <2> PICK c \in out : UpgradeFails!(c)
    BY <1>13 DEF UpgradeFails
  <2>1. faults' = faults + 1
    BY DEF Fault
  <2> QED
    BY <1>0, <2>1, TerminalDoneInv
<1>14. CASE UNCHANGED vars
  BY <1>0, <1>14 DEF vars, Inv, Numbering, Outstanding, Counters, Origins,
     CountersNotReused, ExecutedOnce, AnswersTheCommand
<1> QED
  BY <1>1, <1>2, <1>3, <1>4, <1>5, <1>6, <1>7, <1>8, <1>9, <1>10, <1>11,
     <1>12, <1>13, <1>14 DEF Next

THEOREM Invariance == Spec => []Inv
  BY InvInit, InvStep, PTL DEF Spec

\* Whatever the link loses, repeats, damages or delivers late, an answer handed
\* to a caller is the chip's answer to that caller's command.
THEOREM AnswersAuthentic == Spec => []AnswersTheCommand
<1>1. Inv => AnswersTheCommand
  BY DEF Inv
<1> QED
  BY <1>1, Invariance, PTL

\* No key and counter value protects two commands.
THEOREM CountersUnique == Spec => []CountersNotReused
<1>1. Inv => CountersNotReused
  BY DEF Inv
<1> QED
  BY <1>1, Invariance, PTL

\* No command is executed twice.
THEOREM ExecutionUnique == Spec => []ExecutedOnce
<1>1. Inv => ExecutedOnce
  BY DEF Inv
<1> QED
  BY <1>1, Invariance, PTL

-----------------------------------------------------------------------------
(* Refinement.                                                             *)

\* Accepting one more answer adds its exchange to those answered.
LEMMA AnswersUnion ==
  ASSUME NEW S, NEW m
  PROVE  {a.answer : a \in S \cup {m}} = {a.answer : a \in S} \cup {m.answer}
  OBVIOUS

\* Every step of the channel is a step of SecureChannel or a stutter.
LEMMA ChannelStep == Inv /\ Inv' /\ [Next]_vars => [Channel!Next]_(Channel!vars)
<1> SUFFICES ASSUME Inv, Inv', [Next]_vars PROVE [Channel!Next]_(Channel!vars)
  OBVIOUS
<1> DEFINE answered == {a.answer : a \in accepted}
<1> USE DEF Channel!Next, Channel!vars
<1>1. ASSUME n < MaxExchanges, n' = n + 1, UNCHANGED <<executed, accepted>>
      PROVE  Channel!Ask
  BY <1>1 DEF Channel!Ask
<1>2. ASSUME UNCHANGED <<n, executed, accepted>>
      PROVE  UNCHANGED Channel!vars
  BY <1>2
<1>3. CASE Authenticate
  BY <1>1, <1>3 DEF Authenticate
<1>4. ASSUME NEW op \in Ops, WrapCommand(op) PROVE Channel!Ask
  BY <1>1, <1>4 DEF WrapCommand
<1>5. ASSUME NEW ok \in BOOLEAN, NEW do87 \in BOOLEAN, CardExecutes(ok, do87)
      PROVE  [Channel!Next]_(Channel!vars)
  <2> PICK c \in out : CardExecutes(ok, do87)!(c)
    BY <1>5 DEF CardExecutes
  <2>1. c.n = n /\ executed' = executed \cup {n} /\ UNCHANGED <<n, accepted>>
    BY DEF Inv, Outstanding
  <2>2. CASE n \in executed
    BY <2>1, <2>2
  <2>3. CASE n \notin executed
    BY <2>1, <2>3 DEF Channel!Execute
  <2> QED
    BY <2>2, <2>3
<1>6. ASSUME NEW c \in out, Authentic(reply), UNCHANGED <<n, executed>>,
             accepted' \in {accepted, accepted \cup {[asked |-> c.n, answer |-> reply.n]}}
      PROVE  [Channel!Next]_(Channel!vars)
  <2>1. CASE accepted' = accepted
    BY <1>6, <2>1
  <2>2. CASE accepted' = accepted \cup {[asked |-> c.n, answer |-> reply.n]}
    <3>1. [asked |-> c.n, answer |-> reply.n] \in accepted'
      BY <2>2
    <3>2. reply.n = n
      BY <3>1 DEF Inv, AnswersTheCommand, Outstanding
    <3>3. answered' = answered \cup {n}
      BY <2>2, <3>2, AnswersUnion
    <3>4. n \in executed
      BY <1>6, <3>2 DEF Authentic, Inv, Outstanding, Origins
    <3> QED
      BY <1>6, <3>3, <3>4 DEF Channel!Answer
  <2> QED
    BY <1>6, <2>1, <2>2
<1>7. CASE UnwrapResponse
  <2> PICK c \in out : UnwrapResponse!(c)
    BY <1>7 DEF UnwrapResponse
  <2>1. accepted' \in {accepted, accepted \cup {[asked |-> c.n, answer |-> reply.n]}}
    BY Zenon
  <2> QED
    BY <1>6, <2>1 DEF Done
<1>8. CASE UpgradeSession
  BY <1>6, <1>8 DEF UpgradeSession, Done
<1>9. CASE UpgradeFails
  BY <1>6, <1>9 DEF UpgradeFails, Done
<1>10. ASSUME \/ PlainCommand \/ CardDeclines \/ CardRefuses
              \/ \E kind \in {"raised", "bare"} : LoseCommand(kind)
              \/ SpoilReply \/ Retransmit \/ NothingVerified \/ UNCHANGED vars
       PROVE  UNCHANGED <<n, executed, accepted>>
  BY <1>10 DEF PlainCommand, CardDeclines, CardRefuses, LoseCommand, SpoilReply,
     Retransmit, NothingVerified, Done, vars
<1> QED
  BY <1>2, <1>3, <1>4, <1>5, <1>7, <1>8, <1>9, <1>10 DEF Next

\* The channel keeps what SecureChannel promises its callers.
THEOREM ImplementsChannel == Spec => ChannelSpec
<1>1. Init => Channel!Init
  BY DEF Init, Channel!Init
<1> QED
  BY <1>1, ChannelStep, Invariance, PTL DEF Spec, ChannelSpec, Channel!Spec

-----------------------------------------------------------------------------
(* Staying in step.                                                        *)

\* InStep with what distinguishes, between the chip's answer and its unwrapping,
\* a bare answer, a refusal by a card that leaves the header unpadded, an envelope
\* and a re-keying envelope.
Healthy ==
  intact =>
    /\ phase = "idle"     => term = card
    /\ phase = "sending"  => term = Stepped(card)
    /\ phase = "answered" =>
         \/ reply.kind = "bare" /\ term = card
         \/ reply.kind = "refused" /\ term = card /\ term.key \in Unpadded
         \/ /\ Authentic(reply)
            /\ \A c \in out : \/ c.op = CaOp /\ reply.ok = TRUE /\ card = NewSession(c.n)
                              \/ ~(c.op = CaOp /\ reply.ok = TRUE) /\ card = Stepped(term)

LEMMA HealthyStep ==
  ASSUME SkipsUnwrap = {}, Inv, Healthy, [Next]_vars
  PROVE  Healthy'
<1>0. TypeOK /\ TypeOK'
  BY TypeStep DEF Inv
<1>1. CASE Authenticate
  BY <1>1 DEF Authenticate, Healthy
<1>2. ASSUME NEW op \in Ops, WrapCommand(op) PROVE Healthy'
  BY <1>2 DEF WrapCommand, Healthy
<1>3. CASE Fault
  BY <1>3, Zenon DEF Fault, Healthy
<1>4. ASSUME NEW ok \in BOOLEAN, NEW do87 \in BOOLEAN, CardExecutes(ok, do87) PROVE Healthy'
  <2> PICK c \in out : CardExecutes(ok, do87)!(c)
    BY <1>4 DEF CardExecutes
  <2>1. \A d \in out : d = c
    BY DEF Inv, Outstanding, Numbering
  <2>2. /\ c.key = term.key /\ c.ssc = term.ssc /\ c.key = card.key /\ term.ssc = IncSsc(card.ssc)
    BY DEF Inv, Outstanding, Verifies
  <2>3. reply'.kind = "envelope" /\ reply'.key = term.key /\ reply'.ssc = IncSsc(term.ssc)
    BY <2>2 DEF Answered
  <2>4. reply'.ok = ok /\ phase' = "answered" /\ term' = term /\ out' = out
    BY DEF Answered
  <2>5. \/ c.op = CaOp /\ ok = TRUE /\ card' = NewSession(c.n)
        \/ ~(c.op = CaOp /\ ok = TRUE) /\ card' = [card EXCEPT !.ssc = IncSsc(c.ssc)]
    BY Zenon
  <2>6. [card EXCEPT !.ssc = IncSsc(c.ssc)] = Stepped(term)
    BY <1>0, <2>2 DEF Stepped, TypeOK, Session
  <2> QED
    BY <2>1, <2>3, <2>4, <2>5, <2>6 DEF Healthy, Authentic
<1>5. CASE CardDeclines
  BY <1>5 DEF CardDeclines, Answered, NoSm, Healthy
<1>6. CASE CardRefuses
  <2> PICK c \in out : CardRefuses!(c)
    BY <1>6 DEF CardRefuses
  <2>1. intact => term = Stepped(card)
    BY DEF Healthy
  <2>2. /\ c.key = term.key /\ c.ssc = term.ssc /\ c.key # 0
    BY <1>0 DEF Inv, Outstanding, Numbering, TypeOK, Session, Numbers
  <2>3. intact => term.key \in Unpadded /\ card.key # 0
    BY <1>0, <2>1, <2>2 DEF Verifies, Stepped, TypeOK, Session
  <2>4. /\ intact => card' = Stepped(card)
        /\ phase' = "answered" /\ reply'.kind = "refused" /\ UNCHANGED <<term, intact>>
    BY <2>3 DEF Answered, NoSm
  <2> QED
    BY <2>1, <2>3, <2>4 DEF Healthy
<1>7. CASE NothingVerified
  <2>1. ~Dropped
    BY DEF Dropped
  <2>2. ~Authentic(reply) /\ phase = "answered"
    BY <1>7, <2>1 DEF NothingVerified
  <2>3. intact => term = card
    BY <2>2 DEF Healthy
  <2>4. phase' = "idle" /\ UNCHANGED <<term, card, intact>>
    BY <1>7 DEF NothingVerified, Done
  <2> QED
    BY <2>3, <2>4 DEF Healthy
<1>8. CASE UnwrapResponse
  <2> PICK c \in out : UnwrapResponse!(c)
    BY <1>8 DEF UnwrapResponse
  <2>1. intact' => intact /\ ~(c.op = CaOp /\ reply.ok = TRUE)
    BY Zenon
  <2>2. intact' => card = Stepped(term)
    BY <2>1 DEF Healthy, Authentic
  <2> QED
    BY <2>2 DEF Done, Healthy
<1>9. CASE UpgradeSession
  <2> PICK c \in out : UpgradeSession!(c)
    BY <1>9 DEF UpgradeSession
  <2>1. c.op = CaOp /\ reply.ok = TRUE /\ intact' = intact
    BY <1>0, Zenon DEF TypeOK, Reply
  <2>2. intact => card = NewSession(c.n)
    BY <2>1 DEF Healthy, Authentic
  <2> QED
    BY <2>1, <2>2 DEF Done, Healthy
<1>10. CASE UNCHANGED vars
  BY <1>10 DEF vars, Healthy, Authentic
<1> QED
  BY <1>1, <1>2, <1>3, <1>4, <1>5, <1>6, <1>7, <1>8, <1>9, <1>10
     DEF Next, PlainCommand, LoseCommand, SpoilReply, Retransmit, UpgradeFails

\* With senders that unwrap every answer the two sides stay in step until
\* something goes wrong, also when the card refuses every command of a session.
THEOREM StaysInStep ==
  ASSUME SkipsUnwrap = {}
  PROVE  Spec => []InStep
<1>1. Init => Healthy
  BY DEF Init, Healthy
<1>2. Inv /\ Healthy /\ [Next]_vars => Healthy'
  BY HealthyStep
<1>3. Inv /\ Healthy => InStep
  <2> SUFFICES ASSUME Inv, Healthy, intact, phase = "answered"
               PROVE  IF Authentic(reply) THEN card \in {Stepped(term), NewSession(n)} ELSE term = card
    BY DEF Healthy, InStep, Aligned
  <2>1. CASE reply.kind \in {"bare", "refused"} /\ term = card
    BY <2>1 DEF Authentic
  <2>2. CASE Authentic(reply)
    <3>1. out # {}
      BY DEF Inv, Outstanding
    <3> QED
      BY <2>2 DEF Healthy, Authentic, Inv, Outstanding
  <2> QED
    BY <2>1, <2>2 DEF Healthy
<1> QED
  BY <1>1, <1>2, <1>3, Invariance, PTL DEF Spec

\* Between exchanges no answer is at hand, and one at hand is a refusal only in a
\* session whose card leaves the header unpadded.
Unrefused == (phase = "idle" => reply.kind = "none") /\ SyncedCommandVerifies

LEMMA UnrefusedStep ==
  ASSUME Inv, Healthy', Unrefused, [Next]_vars
  PROVE  Unrefused'
<1>1. CASE phase' = "answered"
  <2>1. intact' => reply'.kind \in {"bare", "envelope"} \/ (term.key \in Unpadded)'
    BY <1>1 DEF Healthy, Authentic
  <2> QED BY <1>1, <2>1 DEF Unrefused, SyncedCommandVerifies
<1>2. CASE phase' # "answered"
  <2>1. CASE Authenticate
    BY <2>1 DEF Authenticate, Unrefused, SyncedCommandVerifies
  <2>2. CASE \E op \in Ops : WrapCommand(op)
    BY <2>2 DEF WrapCommand, Unrefused, SyncedCommandVerifies
  <2>3. CASE Done
    <3>1. reply'.kind = "none"
      BY <2>3 DEF Done, NoSm
    <3> QED BY <3>1 DEF Unrefused, SyncedCommandVerifies
  <2>4. CASE PlainCommand \/ Retransmit
    BY <2>4 DEF PlainCommand, Retransmit, Fault, Unrefused, SyncedCommandVerifies
  <2>5. CASE UNCHANGED vars
    BY <2>5 DEF vars, Unrefused, SyncedCommandVerifies
  <2>6. CASE \/ \E ok, do87 \in BOOLEAN : CardExecutes(ok, do87)
             \/ CardDeclines \/ CardRefuses \/ SpoilReply
             \/ \E kind \in {"raised", "bare"} : LoseCommand(kind)
    BY <1>2, <2>6 DEF CardExecutes, CardDeclines, CardRefuses, LoseCommand, SpoilReply, Answered
  <2> QED BY <2>1, <2>2, <2>3, <2>4, <2>5, <2>6
          DEF Next, NothingVerified, UnwrapResponse, UpgradeSession, UpgradeFails
<1> QED BY <1>1, <1>2

\* Under the same condition the chip's MAC check (unwrap_command) refuses a command
\* sent while nothing went wrong for no other reason than the unpadded header.
THEOREM SyncedVerifies ==
  ASSUME SkipsUnwrap = {}
  PROVE  Spec => []SyncedCommandVerifies
<1>1. Init => Healthy /\ Unrefused
  BY DEF Init, Healthy, Unrefused, SyncedCommandVerifies, NoSm
<1>2. Inv /\ Healthy /\ [Next]_vars => Healthy'
  BY HealthyStep
<1>3. Inv /\ Healthy' /\ Unrefused /\ [Next]_vars => Unrefused'
  BY UnrefusedStep
<1>4. Unrefused => SyncedCommandVerifies
  BY DEF Unrefused
<1> QED
  BY <1>1, <1>2, <1>3, <1>4, Invariance, PTL DEF Spec

\* No step but a fault or a key agreement aligns two sides that are apart.
LEMMA OutOfStepStep ==
  ASSUME Inv, [Next]_vars, ~Aligned, Aligned'
  PROVE  faults' # faults \/ card' = NewSession(n')
<1>0. TypeOK /\ TypeOK'
  BY TypeStep DEF Inv
<1>1. \A s, t \in Session : Stepped(s) = Stepped(t) => s = t
  <2> SUFFICES ASSUME NEW s \in Session, NEW t \in Session, Stepped(s) = Stepped(t) PROVE s = t
    OBVIOUS
  <2>1. s.key = t.key /\ IncSsc(s.ssc) = IncSsc(t.ssc) /\ s.ssc \in SSC /\ t.ssc \in SSC
    BY DEF Stepped, Session
  <2>2. s.ssc = t.ssc
    BY <2>1, IncInjective
  <2> QED
    BY <2>1, <2>2 DEF Session
<1>2. ASSUME NEW c \in out, Verifies(c) PROVE term = Stepped(card)
  BY <1>0, <1>2 DEF Verifies, Inv, Outstanding, Stepped, TypeOK, Session
<1>3. CASE Authenticate
  BY <1>3 DEF Authenticate
<1>4. ASSUME NEW op \in Ops, WrapCommand(op) PROVE FALSE
  BY <1>0, <1>1, <1>4 DEF WrapCommand, Aligned, TypeOK
<1>5. CASE Fault
  BY <1>0, <1>5 DEF Fault, TypeOK
<1>6. ASSUME NEW ok \in BOOLEAN, NEW do87 \in BOOLEAN, CardExecutes(ok, do87) PROVE FALSE
  BY <1>2, <1>6 DEF CardExecutes, Aligned
<1>7. CASE CardDeclines
  BY <1>2, <1>7 DEF CardDeclines, Aligned
<1>8. CASE CardRefuses
  <2> PICK c \in out : CardRefuses!(c)
    BY <1>8 DEF CardRefuses
  <2>1. term = card'
    BY DEF Aligned, Answered, NoSm, Authentic
  <2>2. term.key # 0
    BY <1>0 DEF Inv, Outstanding, Numbering, TypeOK, Session, Numbers
  <2>3. card' = Stepped(card)
    BY <2>1, <2>2
  <2> QED
    BY <2>1, <2>3 DEF Aligned
<1>9. CASE NothingVerified
  <2>1. phase = "answered" /\ term = card
    BY <1>9 DEF NothingVerified, Done, Aligned
  <2>2. Authentic(reply)
    BY <2>1 DEF Aligned
  <2>3. PICK c \in out : c.key = term.key /\ 0 < c.key
    BY <2>1 DEF Inv, Outstanding, Numbering
  <2>4. reply \in envelopes /\ reply.key = card.key /\ reply.ssc = IncSsc(card.ssc)
    BY <2>1, <2>2 DEF Authentic, Inv, Outstanding
  <2>5. Distance(card.key, IncSsc(card.ssc)) <= Distance(card.key, card.ssc)
    BY <2>4 DEF Inv, Counters
  <2>6. /\ card.key \in Numbers /\ card.ssc \in SSC /\ card.key # 0
        /\ n \in Nat /\ n <= MaxExchanges
    BY <1>0, <2>1, <2>3, CountersAssumption DEF TypeOK, Session, Numbers
  <2>7. Distance(card.key, card.ssc) \in Nat /\ Distance(card.key, card.ssc) < 2 * n
    BY <2>1, <2>6, IncDistance, CountersAssumption DEF Inv, Counters
  <2>8. Distance(card.key, IncSsc(card.ssc)) = Distance(card.key, card.ssc) + 1
    BY <2>6, <2>7, IncDistance, CountersAssumption
  <2> QED
    BY <2>5, <2>7, <2>8
<1>10. CASE UnwrapResponse
  BY <1>10 DEF UnwrapResponse, Done, Aligned
<1>11. CASE UpgradeSession
  BY <1>11 DEF UpgradeSession, Done, Aligned, Inv, Outstanding
<1>12. CASE UNCHANGED vars
  BY <1>12 DEF vars, Aligned, Authentic
<1> QED
  BY <1>3, <1>4, <1>5, <1>6, <1>7, <1>8, <1>9, <1>10, <1>11, <1>12
     DEF Next, PlainCommand, LoseCommand, SpoilReply, Retransmit, UpgradeFails

\* One lost or extra step of either counter costs the channel all it had left
\* to read: nothing but a further fault or a new key agreement aligns it again.
THEOREM OutOfStepStays == Spec => OutOfStepIsFinal
<1>1. Inv /\ [Next]_vars => [~Aligned /\ Aligned' => faults' # faults \/ card' = NewSession(n')]_vars
  BY OutOfStepStep
<1> QED
  BY <1>1, Invariance, PTL DEF Spec, OutOfStepIsFinal
=============================================================================
