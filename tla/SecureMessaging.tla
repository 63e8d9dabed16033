-------------------------- MODULE SecureMessaging --------------------------
(***************************************************************************)
(* The secure-messaging channel of epassport_reader/sm.py: the terminal's  *)
(* SecureMessagingSession, the chip that answers it (sm.py also holds the  *)
(* card side, unwrap_command and wrap_response) and the reader between.    *)
(*                                                                         *)
(* Cryptography is symbolic.  A MAC verifies exactly when the verifier     *)
(* recomputes it from the same key, send sequence counter and content, so  *)
(* a message carries the key and counter it was MACed under.  The content  *)
(* of a command is the number n of its exchange: it is never compared by   *)
(* the code, only by the properties.  The key agreed in exchange n is n.   *)
(***************************************************************************)
EXTENDS Naturals, FiniteSets

CONSTANTS
  SscMod,         \* values of the counter: 256^8 (3DES) or 256^16 (AES)
  Start,          \* Start[k]: first counter value under the key agreed in exchange k
  Ops,            \* commands the callers send
  CaOp,           \* GENERAL AUTHENTICATE of Chip Authentication: re-keys the chip
  SkipsUnwrap,    \* commands whose sender drops an answer with an error status (_select_emrtd_sm)
  Unpadded,       \* keys under which the card takes a command's MAC over the bare header
  MaxExchanges,   \* bound: exchanges (commands and key agreements) of a behaviour
  MaxFaults       \* bound: faults of the link, the chip and the personalisation

SSC == 0 .. SscMod - 1
Numbers == 0 .. MaxExchanges

ASSUME CountersAssumption ==
  /\ MaxExchanges \in Nat /\ MaxFaults \in Nat /\ SscMod \in Nat
  /\ 2 * MaxExchanges + 2 * MaxFaults + 1 < SscMod
  /\ Start \in [Numbers -> SSC]
ASSUME OpsAssumption ==
  /\ CaOp \in Ops /\ SkipsUnwrap \subseteq Ops
  /\ Unpadded \subseteq Numbers

VARIABLES
  term,       \* the terminal's session: key and ssc
  card,       \* the chip's session; key 0 when it has none
  phase,      \* of the terminal: idle, sending (in card.send), answered
  out,        \* the command of the current exchange
  reply,      \* what card.send hands back
  n,          \* exchanges begun
  sent,       \* every command wrapped
  envelopes,  \* every response envelope the chip made
  executed,   \* exchanges whose command the chip executed
  accepted,   \* answers unwrap_response verified, with the exchange they were taken for
  intact,     \* no fault since the last key agreement with the chip's application
  faults      \* faults so far

vars == <<term, card, phase, out, reply, n, sent, envelopes, executed,
          accepted, intact, faults>>

Session  == [key: Numbers, ssc: SSC]
Command  == [n: Numbers, key: Numbers, ssc: SSC, op: Ops]
Kinds    == {"none", "raised", "bare", "refused", "damaged", "envelope"}
Reply    == [kind: Kinds, n: Numbers, key: Numbers, ssc: SSC, ok: BOOLEAN, do87: BOOLEAN]
Answer   == [asked: Numbers, answer: Numbers]

NoSession == [key |-> 0, ssc |-> 0]
NewSession(k) == [key |-> k, ssc |-> Start[k]]
NoSm(kind) ==
  [kind |-> kind, n |-> 0, key |-> 0, ssc |-> 0, ok |-> FALSE, do87 |-> FALSE]

\* Mutant of IncSsc: the carry out of the last byte is kept.
IncSscNoWrap(s) == s + 1

\* inc_ssc: the counter is an odometer, all ones are followed by zero.
IncSsc(s) == IF s = SscMod - 1 THEN 0 ELSE s + 1
Stepped(session) == [session EXCEPT !.ssc = IncSsc(session.ssc)]

Init ==
  /\ term = NoSession /\ card = NoSession
  /\ phase = "idle" /\ out = {} /\ reply = NoSm("none")
  /\ n = 0 /\ faults = 0
  /\ sent = {} /\ envelopes = {} /\ executed = {} /\ accepted = {}
  /\ intact = TRUE

Fault ==
  /\ faults < MaxFaults
  /\ faults' = faults + 1
  /\ intact' = FALSE

-----------------------------------------------------------------------------
(* The terminal sends.                                                     *)

\* BAC or PACE, in the clear: both sides start afresh on a new key and counter.
Authenticate ==
  /\ phase = "idle"
  /\ n < MaxExchanges
  /\ n' = n + 1
  /\ term' = NewSession(n') /\ card' = NewSession(n')
  /\ intact' = TRUE
  /\ UNCHANGED <<phase, out, reply, sent, envelopes, executed, accepted, faults>>

\* Mutant of WrapCommand: a chain of two blocks wrapped at once, the first sent.
WrapCommandEager(op) ==
  /\ phase = "idle" /\ term.key # 0
  /\ n < MaxExchanges
  /\ n' = n + 1
  /\ term' = Stepped(Stepped(term))
  /\ out' = {[n |-> n', key |-> term.key, ssc |-> IncSsc(term.ssc), op |-> op]}
  /\ sent' = sent \cup out'
  /\ phase' = "sending"
  /\ UNCHANGED <<card, reply, envelopes, executed, accepted, intact, faults>>

\* wrap_command: the counter steps when the command is wrapped, not when it is sent.
WrapCommand(op) ==
  /\ phase = "idle" /\ term.key # 0
  /\ n < MaxExchanges
  /\ n' = n + 1
  /\ term' = Stepped(term)
  /\ out' = {[n |-> n', key |-> term.key, ssc |-> term'.ssc, op |-> op]}
  /\ sent' = sent \cup out'
  /\ phase' = "sending"
  /\ UNCHANGED <<card, reply, envelopes, executed, accepted, intact, faults>>

\* A clear APDU on an established channel (Active Authentication's first try):
\* the counters stay; a chip may drop its session over it.
PlainCommand ==
  /\ phase = "idle" /\ term.key # 0 /\ card.key # 0
  /\ card' = NoSession
  /\ Fault
  /\ UNCHANGED <<term, phase, out, reply, n, sent, envelopes, executed, accepted>>

-----------------------------------------------------------------------------
(* The chip and the link, between the call of card.send and its return.    *)

\* Mutant of Verifies: the counter is left out of the MAC input.
VerifiesKeyOnly(c) == c.key = card.key

\* unwrap_command's MAC check, made on the counter after its step.  The terminal
\* pads the header in any session.  _unwrap_command_bac pads it too, and so does
\* the applet that _wrap_pace is written for; _unwrap_command_pace does not, and
\* its MAC never matches: the sessions of such a card are those of Unpadded.
Verifies(c) ==
  /\ c.key = card.key /\ c.ssc = IncSsc(card.ssc)
  /\ c.key \notin Unpadded

Answered(r) ==
  /\ phase' = "answered"
  /\ reply' = r

\* unwrap_command, the command itself and wrap_response.  A GENERAL
\* AUTHENTICATE is answered under the old key; the chip then uses the new one.
CardExecutes(ok, do87) ==
  \E c \in out :
    /\ phase = "sending"
    /\ Verifies(c)
    /\ LET r == [kind |-> "envelope", n |-> c.n, key |-> c.key, ssc |-> IncSsc(c.ssc),
                 ok |-> ok, do87 |-> do87]
       IN  Answered(r) /\ envelopes' = envelopes \cup {r}
    /\ card' = IF c.op = CaOp /\ ok THEN NewSession(c.n)
                                    ELSE [card EXCEPT !.ssc = IncSsc(c.ssc)]
    /\ executed' = executed \cup {c.n}
    /\ UNCHANGED <<term, out, n, sent, accepted, intact, faults>>

\* The command verifies and the chip declines it with a bare status word:
\* unwrap_command stepped the counter, wrap_response is never called.
CardDeclines ==
  \E c \in out :
    /\ phase = "sending"
    /\ Verifies(c)
    /\ card' = Stepped(card)
    /\ Answered(NoSm("bare"))
    /\ UNCHANGED <<term, out, n, sent, envelopes, executed, accepted, intact, faults>>

\* Mutant of CardRefuses: the counter steps only for a command that verifies.
CardRefusesUnstepped ==
  \E c \in out :
    /\ phase = "sending"
    /\ ~Verifies(c)
    /\ Answered(NoSm("refused"))
    /\ UNCHANGED <<card, term, out, n, sent, envelopes, executed, accepted, intact, faults>>

\* The MAC does not verify: unwrap_command raises after its counter step.
CardRefuses ==
  \E c \in out :
    /\ phase = "sending"
    /\ ~Verifies(c)
    /\ card' = IF card.key = 0 THEN card ELSE Stepped(card)
    /\ Answered(NoSm("refused"))
    /\ UNCHANGED <<term, out, n, sent, envelopes, executed, accepted, intact, faults>>

\* The command never reaches the chip's secure messaging.
LoseCommand(kind) ==
  /\ phase = "sending"
  /\ Answered(NoSm(kind))
  /\ Fault
  /\ UNCHANGED <<term, card, out, n, sent, envelopes, executed, accepted>>

\* The answer is lost, stripped, damaged or replaced by an earlier envelope.
SpoilReply ==
  /\ phase = "answered"
  /\ \/ \E kind \in {"raised", "bare", "damaged"} : reply' = NoSm(kind)
     \/ reply' \in envelopes
  /\ Fault
  /\ UNCHANGED <<term, card, phase, out, n, sent, envelopes, executed, accepted>>

\* The link hands the chip the same command again.
Retransmit ==
  /\ phase = "answered"
  /\ phase' = "sending"
  /\ Fault
  /\ UNCHANGED <<term, card, out, reply, n, sent, envelopes, executed, accepted>>

-----------------------------------------------------------------------------
(* card.send has returned: the terminal unwraps.                           *)

\* Mutant of Authentic: the counter is left out of the MAC input.
AuthenticKeyOnly(r) == r.kind = "envelope" /\ r.key = term.key

\* The check of DO8E in _unwrap_bac and _unwrap_pace, on the counter to come.
Authentic(r) ==
  /\ r.kind = "envelope"
  /\ r.key = term.key /\ r.ssc = IncSsc(term.ssc)

Done ==
  /\ phase' = "idle" /\ out' = {} /\ reply' = NoSm("none")
  /\ UNCHANGED <<card, n, sent, envelopes, executed>>

\* _select_emrtd_sm returns before unwrap_response when the status is an error.
Dropped ==
  /\ reply.kind = "envelope" /\ ~reply.ok
  /\ \E c \in out : c.op \in SkipsUnwrap

\* Mutant of NothingVerified: the counter goes back to where it was before the
\* command, so that the caller may try again.
NothingVerifiedRewinds ==
  /\ phase = "answered"
  /\ Dropped \/ ~Authentic(reply)
  /\ term' = [term EXCEPT !.ssc = CHOOSE s \in SSC : IncSsc(s) = term.ssc]
  /\ Done
  /\ UNCHANGED <<accepted, intact, faults>>

\* Mutant of NothingVerified: a bare status word steps the counter like an answer.
NothingVerifiedSteps ==
  /\ phase = "answered"
  /\ Dropped \/ ~Authentic(reply)
  /\ term' = Stepped(term)
  /\ Done
  /\ UNCHANGED <<accepted, intact, faults>>

\* card.send raised, or the answer holds no secure-messaging data object, or
\* unwrap_response raises on DO8E: the counter is where wrap_command left it.
NothingVerified ==
  /\ phase = "answered"
  /\ Dropped \/ ~Authentic(reply)
  /\ Done
  /\ UNCHANGED <<term, accepted, intact, faults>>

\* unwrap_response past the MAC check: the counter steps even when DO87 turns
\* out malformed and the call raises.
UnwrapResponse ==
  \E c \in out :
    /\ phase = "answered"
    /\ ~Dropped /\ Authentic(reply)
    /\ ~(c.op = CaOp /\ reply.ok /\ reply.do87)
    /\ term' = Stepped(term)
    /\ accepted' = IF reply.do87 THEN accepted \cup {[asked |-> c.n, answer |-> reply.n]}
                                 ELSE accepted
    /\ Done
    /\ intact' = (intact /\ ~(c.op = CaOp /\ reply.ok))
    /\ UNCHANGED faults

\* The same in _do_ca_exchange, which goes on to derive the new session.
UpgradeSession ==
  \E c \in out :
    /\ phase = "answered"
    /\ Authentic(reply) /\ reply.ok /\ reply.do87
    /\ c.op = CaOp
    /\ term' = NewSession(c.n)
    /\ accepted' = accepted \cup {[asked |-> c.n, answer |-> reply.n]}
    /\ Done
    /\ UNCHANGED <<intact, faults>>

\* ... and raises when DG14's public key is no point of the curve: the chip has
\* changed keys, the reader keeps the old session.
UpgradeFails ==
  \E c \in out :
    /\ phase = "answered"
    /\ Authentic(reply) /\ reply.ok /\ reply.do87
    /\ c.op = CaOp
    /\ term' = Stepped(term)
    /\ accepted' = accepted \cup {[asked |-> c.n, answer |-> reply.n]}
    /\ Done
    /\ Fault

Next ==
  \/ Authenticate
  \/ \E op \in Ops : WrapCommand(op)
  \/ PlainCommand
  \/ \E ok, do87 \in BOOLEAN : CardExecutes(ok, do87)
  \/ CardDeclines
  \/ CardRefuses
  \/ \E kind \in {"raised", "bare"} : LoseCommand(kind)
  \/ SpoilReply
  \/ Retransmit
  \/ NothingVerified
  \/ UnwrapResponse
  \/ UpgradeSession
  \/ UpgradeFails

Spec == Init /\ [][Next]_vars

-----------------------------------------------------------------------------
(* Properties.                                                             *)

\* The values the variables range over.
TypeOK ==
  /\ term \in Session /\ card \in Session
  /\ phase \in {"idle", "sending", "answered"}
  /\ out \subseteq Command /\ reply \in Reply
  /\ n \in Numbers /\ faults \in 0 .. MaxFaults /\ intact \in BOOLEAN
  /\ sent \subseteq Command /\ envelopes \subseteq Reply
  /\ executed \subseteq Numbers /\ accepted \subseteq Answer

\* unwrap_response hands a caller the chip's answer to the very command that
\* caller sent, whatever the link lost, repeated, damaged or delivered late.
AnswersTheCommand == \A a \in accepted : a.answer = a.asked

\* No two commands are protected under the same key and counter (under AES the
\* counter is also the IV): in particular a failed exchange may not rewind it.
CountersNotReused ==
  \A c, d \in sent : c.key = d.key /\ c.ssc = d.ssc => c = d

\* The chip executes a command at most once, even when the link repeats it: it
\* makes no second envelope for an exchange, nor under a counter already used.
ExecutedOnce ==
  \A e, f \in envelopes : e.n = f.n \/ (e.key = f.key /\ e.ssc = f.ssc) => e = f

\* Are the counters where the phase of the exchange wants them?  Equal between
\* exchanges; within one, apart by exactly the steps a side has yet to make.
Aligned ==
  /\ phase = "idle"     => term = card
  /\ phase = "sending"  => term = Stepped(card)
  /\ phase = "answered" => IF Authentic(reply) THEN card \in {Stepped(term), NewSession(n)}
                                               ELSE term = card

\* As long as nothing went wrong the channel is in step: bare error answers,
\* error envelopes, malformed DO87s and Chip Authentication do not disturb it.
InStep == intact => Aligned

\* On a channel where nothing went wrong, over chains, key agreements and the wrap
\* of the counter, no command is refused for its key or its counter: what is
\* refused are the commands of a session whose card leaves the header unpadded
\* (_unwrap_command_pace), all of them.
SyncedCommandVerifies == intact /\ reply.kind = "refused" => term.key \in Unpadded

\* A channel out of step stays so: short of another fault only a new key
\* agreement restores it, so the files read_all goes on to ask for after a
\* failed exchange cannot be read.
OutOfStepIsFinal ==
  [][~Aligned /\ Aligned' => faults' # faults \/ card' = NewSession(n')]_vars

\* What the channel promises its callers: commands are executed in the order
\* asked, at most once, and answered only after that (SecureChannel).
Channel == INSTANCE SecureChannel WITH
             asked <- n, answered <- {a.answer : a \in accepted}
ChannelSpec == Channel!Spec
=============================================================================
