---------------------------- MODULE AccessControl ----------------------------
(***************************************************************************)
(* One EPassportReader after connect: authenticate by BAC, PACE or both,   *)
(* then Chip, Terminal and Active Authentication as often as the caller    *)
(* likes, with the state the chip keeps on its side.  An action is one     *)
(* exchange with the chip (the handshakes of BAC and of GENERAL            *)
(* AUTHENTICATE count as one): it is answered, refused by the chip, or     *)
(* lost, before the chip executes it or after.                             *)
(*                                                                         *)
(* Session keys, PACE and CA key pairs and challenges are numbers, drawn   *)
(* from fresh.  A session is the chip's or it is not: the counters under   *)
(* it are the subject of SecureMessaging, where a lost exchange leaves     *)
(* them apart for good.                                                    *)
(***************************************************************************)
EXTENDS Naturals, Sequences

CONSTANTS
  Protocols,  \* protocols asked for: "BAC", "PACE", "HYBRID"
  Suites,     \* the key agreement DG14 names: "AES", "3DES"
  Homes,      \* chips, by the set of directories in which they take MSE:Set AT
  Tolerance,  \* do chips keep their session over a command in the clear?
  Modes,      \* ta_apdu_mode: "chaining", "extended"
  Chains,     \* certificate chains, each the sequence of the certificates' sizes
  Block,      \* _CHAIN_PLAINTEXT
  MaxOps,     \* bound: operations called
  MaxLost     \* bound: exchanges lost

ASSUME AccessAssumption ==
  /\ Protocols \subseteq {"BAC", "PACE", "HYBRID"} /\ Suites \subseteq {"AES", "3DES"}
  /\ Homes \subseteq SUBSET {"MF", "APP"} /\ Tolerance \subseteq BOOLEAN
  /\ Modes \subseteq {"chaining", "extended"}
  /\ Chains \subseteq Seq(Nat \ {0}) \ {<<>>}
  /\ Block \in Nat \ {0} /\ MaxOps \in Nat /\ MaxLost \in Nat

VARIABLES
  setup,     \* the protocol asked for, the chip and the terminal's certificates
  pc,        \* the exchange that comes next, or idle
  session,   \* self.session; key 0 for None, iccX 0 for no pace_icc_eph_x
  caPub,     \* _ca_ifd_public, 0 for None
  taDone,    \* _eac_ta_done: files read from now on are recorded as read after TA
  challenge, \* r_IC as the reader holds it
  cert, off, \* the certificate being sent, and how much of it has been
  runs,      \* runs of PACE past MSE:Set AT
  ops, lost, fresh,
  chip       \* its side: see Init

reader == <<session, caPub, taDone, challenge, cert, off, runs>>
vars == <<setup, pc, reader, ops, lost, fresh, chip>>

NoSession == [key |-> 0, protocol |-> "none", iccX |-> 0]

Init ==
  /\ setup \in [protocol: Protocols, suite: Suites, homes: Homes, tolerant: Tolerance,
                mode: Modes, chain: Chains]
  /\ pc = "idle"
  /\ session = NoSession /\ caPub = 0 /\ taDone = FALSE /\ challenge = 0 /\ cert = 0 /\ off = 0 /\ runs = 0
  /\ ops = 0 /\ lost = 0 /\ fresh = 0
  /\ chip = [df |-> "APP",      \* current directory
             sm |-> 0,          \* key of its session, 0 for none
             idIc |-> 0,        \* its PACE key, or 0: the document number
             peer |-> 0,        \* the terminal's CA key it has seen
             received |-> 0,    \* of a chained command
             certs |-> 0,       \* certificates imported
             nonce |-> 0,       \* r_IC
             authorized |-> FALSE]

Least(a, b) == IF a < b THEN a ELSE b

-----------------------------------------------------------------------------
(* Exchanges.                                                              *)

Raise == pc' = "idle" /\ UNCHANGED reader
Loses == lost < MaxLost /\ lost' = lost + 1

\* A chip that ends its session withdraws the terminal's authorization.
Aborted(c) == [c EXCEPT !.sm = 0, !.authorized = FALSE]

\* The chip after a command in the clear: an intolerant one ends its session.
Plain(c) == IF setup.tolerant THEN c ELSE Aborted(c)

\* A protected command is on the chip's session.
OnChannel == session.key # 0 /\ chip.sm = session.key

\* A protected command that would have made the chip done does not come to its
\* end: refused for the chip's own reasons; refused as not on its session, which
\* ends it; or lost, which leaves the counters apart.
Fails(done) ==
  \/ /\ chip' = IF OnChannel THEN [chip EXCEPT !.received = 0] ELSE Aborted(chip)
     /\ UNCHANGED lost
  \/ /\ Loses
     /\ chip' \in {Aborted(chip)} \cup
          IF OnChannel THEN {IF done.sm = chip.sm THEN Aborted(done) ELSE done} ELSE {}

-----------------------------------------------------------------------------
(* authenticate: BAC, PACE, authenticate_hybrid.                           *)

Authenticate ==
  /\ pc = "idle" /\ ops = 0 /\ MaxOps > 0
  /\ ops' = 1
  /\ pc' = IF setup.protocol = "PACE" THEN "select_mf" ELSE "bac"
  /\ UNCHANGED <<setup, reader, lost, fresh, chip>>

BacSession == [key |-> fresh + 1, protocol |-> "BAC", iccX |-> 0]

\* authenticate_hybrid goes on with PACE, which may then fail without harm.
AfterBac == IF setup.protocol = "HYBRID" THEN "mse_app" ELSE "idle"

\* do_bac.
Bac ==
  LET done == [chip EXCEPT !.sm = fresh + 1, !.idIc = 0]
  IN  /\ pc = "bac"
      /\ fresh' = fresh + 1
      /\ \/ /\ pc' = AfterBac
            /\ session' = BacSession
            /\ chip' = done
            /\ UNCHANGED <<lost, caPub, taDone, challenge, cert, off, runs>>
         \/ Raise /\ UNCHANGED <<lost, chip>>
         \/ Raise /\ Loses /\ chip' \in {chip, done}
      /\ UNCHANGED <<setup, ops>>

\* _select_mf_plain: both variants of the SELECT.
SelectMfPlain ==
  /\ pc = "select_mf"
  /\ \/ pc' = "mse_mf" /\ chip' = [chip EXCEPT !.df = "MF"] /\ UNCHANGED lost
     \/ pc' = "restore" /\ UNCHANGED <<lost, chip>>
     \/ pc' = "idle" /\ Loses /\ chip' \in {chip, [chip EXCEPT !.df = "MF"]}
  /\ UNCHANGED <<setup, reader, ops, fresh>>

\* do_pace up to MSE:Set AT, in the clear, with the master file or the application
\* current; only in the master file is a refusal followed by another attempt.
MseSetAt ==
  /\ pc \in {"mse_mf", "mse_app"}
  /\ \/ /\ chip.df \in setup.homes
        /\ pc' = IF pc = "mse_mf" THEN "ga_mf" ELSE "ga_app"
        /\ chip' = Plain(chip) /\ UNCHANGED lost
     \/ /\ pc' = IF pc = "mse_mf" THEN "restore" ELSE "idle"
        /\ chip' = Plain(chip) /\ UNCHANGED lost
     \/ pc' = "idle" /\ Loses /\ chip' \in {chip, Plain(chip)}
  /\ UNCHANGED <<setup, reader, ops, fresh>>

\* Mutant of AfterGaRefused: whatever failed, PACE is run again.
AfterGaRefusedRetry == IF pc = "ga_mf" THEN "restore" ELSE "idle"

\* The except clause of _run_pace, when it was not MSE:Set AT that was refused.
AfterGaRefused == IF pc = "ga_mf" THEN "restore_raise" ELSE "idle"

\* The four steps of GENERAL AUTHENTICATE, in the clear.  A status other than
\* 9000 (a wrong password, for one) is a RuntimeError; a lost exchange is not.
\* authenticate_hybrid takes either for a reason to stay with BAC.
GeneralAuthenticate ==
  LET done == [chip EXCEPT !.sm = fresh + 1, !.idIc = fresh + 1]
  IN  /\ pc \in {"ga_mf", "ga_app"}
      /\ fresh' = fresh + 1 /\ runs' = runs + 1
      /\ \/ /\ pc' = IF setup.protocol = "HYBRID" THEN "idle" ELSE "select_sm"
            /\ session' = [key |-> fresh + 1, protocol |-> "PACE", iccX |-> fresh + 1]
            /\ chip' = done
            /\ UNCHANGED lost
         \/ pc' = AfterGaRefused /\ chip' = Plain(chip) /\ UNCHANGED <<session, lost>>
         \/ pc' = "idle" /\ Loses /\ chip' \in {chip, Plain(chip), done} /\ UNCHANGED session
      /\ UNCHANGED <<setup, ops, caPub, taDone, challenge, cert, off>>

\* _restore_emrtd_context: the SELECTs in the clear, whose refusal is logged.
RestoreEmrtdContext ==
  /\ pc \in {"restore", "restore_raise"}
  /\ \/ /\ pc' = IF pc = "restore" THEN "mse_app" ELSE "idle"
        /\ chip' \in {chip, [chip EXCEPT !.df = "APP", !.sm = 0]}
        /\ UNCHANGED lost
     \/ pc' = "idle" /\ Loses /\ chip' \in {chip, [chip EXCEPT !.df = "APP", !.sm = 0]}
  /\ UNCHANGED <<setup, reader, ops, fresh>>

\* _select_emrtd_sm: whatever becomes of it, the session is kept.  An error envelope
\* that it drops without unwrapping has the effect of a lost exchange.
SelectEmrtdSm ==
  /\ pc = "select_sm" /\ pc' = "idle"
  /\ \/ OnChannel /\ chip' = [chip EXCEPT !.df = "APP"] /\ UNCHANGED lost
     \/ Fails([chip EXCEPT !.df = "APP"])
  /\ UNCHANGED <<setup, reader, ops, fresh>>

-----------------------------------------------------------------------------
(* The operations after it.  Each is called when none is under way.        *)

Call(first) ==
  /\ pc = "idle" /\ 0 < ops /\ ops < MaxOps
  /\ session.key # 0
  /\ ops' = ops + 1
  /\ pc' = first

\* A protected step: the chip becomes done and the reader goes on to next, or not.
Step(next, done) ==
  \/ OnChannel /\ pc' = next /\ chip' = done /\ UNCHANGED lost
  \/ pc' = "idle" /\ Fails(done)

\* read_ef of DG14 or DG15, in the application's directory.
ReadInApplication(next) ==
  \/ OnChannel /\ chip.df = "APP" /\ pc' = next /\ UNCHANGED <<chip, lost>>
  \/ pc' = "idle" /\ Fails(chip)

(* chip_authentication.                                                    *)

ChipAuthentication == Call("ca_dg14") /\ UNCHANGED <<setup, reader, lost, fresh, chip>>

ReadDg14 ==
  /\ pc = "ca_dg14"
  /\ ReadInApplication("ca_mse")
  /\ UNCHANGED <<setup, reader, ops, fresh>>

MseCa ==
  /\ pc = "ca_mse"
  /\ Step("ca_ga", chip)
  /\ UNCHANGED <<setup, reader, ops, fresh>>

\* ca_suite.
SuiteProtocol == IF setup.suite = "3DES" THEN "BAC" ELSE "PACE"

\* Mutant of Upgraded: the new session knows nothing of the old one.
UpgradedBare == [key |-> fresh + 1, protocol |-> SuiteProtocol, iccX |-> 0]

\* The session of Chip Authentication keeps the PACE key of the one before.
Upgraded == [key |-> fresh + 1, protocol |-> SuiteProtocol, iccX |-> session.iccX]

\* Mutant of GeneralAuthenticateCa: the reader changes keys before the chip has answered.
GeneralAuthenticateCaEager ==
  /\ pc = "ca_ga"
  /\ fresh' = fresh + 1
  /\ session' = Upgraded /\ caPub' = fresh + 1
  /\ Step("idle", [chip EXCEPT !.sm = fresh + 1, !.peer = fresh + 1])
  /\ UNCHANGED <<setup, ops, taDone, challenge, cert, off, runs>>

\* GENERAL AUTHENTICATE: both sides change keys, the chip first.
GeneralAuthenticateCa ==
  LET done == [chip EXCEPT !.sm = fresh + 1, !.peer = fresh + 1]
  IN  /\ pc = "ca_ga"
      /\ fresh' = fresh + 1
      /\ pc' = "idle"
      /\ \/ /\ OnChannel
            /\ session' = Upgraded /\ caPub' = fresh + 1
            /\ chip' = done
            /\ UNCHANGED lost
         \/ Fails(done) /\ UNCHANGED <<session, caPub>>
      /\ UNCHANGED <<setup, ops, taDone, challenge, cert, off, runs>>

(* terminal_authentication.                                                *)

TerminalAuthentication ==
  /\ Call("ta_dst")
  /\ caPub # 0
  /\ cert' = 1 /\ off' = 0
  /\ UNCHANGED <<setup, session, caPub, taDone, challenge, runs, lost, fresh, chip>>

MseSetDst ==
  /\ pc = "ta_dst"
  /\ Step("ta_pso", [chip EXCEPT !.received = 0, !.certs = 0])
  /\ UNCHANGED <<setup, reader, ops, fresh>>

Size == setup.chain[cert]

\* Mutant of LastBlock: a block that ends with the data is not the last.
LastBlockLate(len) == off + len > Size

\* The chaining bit is off.
LastBlock(len) == off + len >= Size

\* PSO Verify Certificate: one block, or all of it in an extended APDU.  The chip
\* verifies what it has received when a command without the chaining bit comes.
PsoVerifyCertificate ==
  LET len  == IF setup.mode = "extended" THEN Size ELSE Least(Block, Size - off)
      got  == chip.received + len
      done == IF LastBlock(len) THEN [chip EXCEPT !.received = 0, !.certs = @ + 1]
                                ELSE [chip EXCEPT !.received = got]
  IN  /\ pc = "ta_pso"
      /\ \/ /\ OnChannel /\ (LastBlock(len) => got = Size)
            /\ chip' = done
            /\ \/ off + len < Size /\ off' = off + len /\ UNCHANGED <<pc, cert>>
               \/ /\ off + len >= Size /\ cert < Len(setup.chain)
                  /\ cert' = cert + 1 /\ off' = 0 /\ UNCHANGED pc
               \/ /\ off + len >= Size /\ cert = Len(setup.chain)
                  /\ pc' = "ta_at" /\ UNCHANGED <<cert, off>>
            /\ UNCHANGED lost
         \/ pc' = "idle" /\ Fails(done) /\ UNCHANGED <<cert, off>>
      /\ UNCHANGED <<setup, session, caPub, taDone, challenge, runs, ops, fresh>>

\* The chip must have the certificate of the key it is told to use.
MseSetAtTa ==
  /\ pc = "ta_at"
  /\ IF chip.certs = Len(setup.chain) THEN Step("ta_challenge", chip) ELSE pc' = "idle" /\ Fails(chip)
  /\ UNCHANGED <<setup, reader, ops, fresh>>

GetChallenge ==
  /\ pc = "ta_challenge"
  /\ fresh' = fresh + 1
  /\ challenge' = fresh + 1
  /\ Step("ta_sign", [chip EXCEPT !.nonce = fresh + 1])
  /\ UNCHANGED <<setup, session, caPub, taDone, cert, off, runs, ops>>

\* ID_IC: the chip's PACE key, or 0: the document number.
IdIc == IF session.protocol = "PACE" THEN session.iccX ELSE 0

\* What the reader signs, and what the chip checks the signature against.
Signed   == <<IdIc, challenge, caPub>>
Expected == <<chip.idIc, chip.nonce, chip.peer>>

\* Mutant of ExternalAuthenticate: the status of its answer is not looked at.
ExternalAuthenticateAnyhow ==
  LET done == [chip EXCEPT !.authorized = TRUE]
  IN  /\ pc = "ta_sign"
      /\ pc' = "idle"
      /\ taDone' = TRUE
      /\ \/ OnChannel /\ Signed = Expected /\ chip' = done /\ UNCHANGED lost
         \/ Fails(IF Signed = Expected THEN done ELSE chip)
      /\ UNCHANGED <<setup, session, caPub, challenge, cert, off, runs, ops, fresh>>

ExternalAuthenticate ==
  LET done == [chip EXCEPT !.authorized = TRUE]
  IN  /\ pc = "ta_sign"
      /\ pc' = "idle"
      /\ \/ OnChannel /\ Signed = Expected /\ chip' = done /\ taDone' = TRUE /\ UNCHANGED lost
         \/ Fails(IF Signed = Expected THEN done ELSE chip) /\ UNCHANGED taDone
      /\ UNCHANGED <<setup, session, caPub, challenge, cert, off, runs, ops, fresh>>

(* active_authentication.                                                  *)

ActiveAuthentication == Call("aa_dg15") /\ UNCHANGED <<setup, reader, lost, fresh, chip>>

ReadDg15 ==
  /\ pc = "aa_dg15"
  /\ ReadInApplication("aa_plain")
  /\ UNCHANGED <<setup, reader, ops, fresh>>

\* INTERNAL AUTHENTICATE in the clear, then, if the chip will not have that, protected.
InternalAuthenticate ==
  /\ pc = "aa_plain"
  /\ \/ pc' \in {"idle", "aa_sm"} /\ chip' = Plain(chip) /\ UNCHANGED lost
     \/ pc' = "idle" /\ Loses /\ chip' \in {chip, Plain(chip)}
  /\ UNCHANGED <<setup, reader, ops, fresh>>

InternalAuthenticateSm ==
  /\ pc = "aa_sm"
  /\ Step("idle", chip)
  /\ UNCHANGED <<setup, reader, ops, fresh>>

-----------------------------------------------------------------------------
Next ==
  \/ Authenticate \/ Bac \/ SelectMfPlain \/ MseSetAt \/ GeneralAuthenticate
  \/ RestoreEmrtdContext \/ SelectEmrtdSm
  \/ ChipAuthentication \/ ReadDg14 \/ MseCa \/ GeneralAuthenticateCa
  \/ TerminalAuthentication \/ MseSetDst \/ PsoVerifyCertificate \/ MseSetAtTa
  \/ GetChallenge \/ ExternalAuthenticate
  \/ ActiveAuthentication \/ ReadDg15 \/ InternalAuthenticate \/ InternalAuthenticateSm

Spec == Init /\ [][Next]_vars

-----------------------------------------------------------------------------
(* Properties.                                                             *)

\* The values the variables range over.
TypeOK ==
  /\ pc \in {"idle", "bac", "select_mf", "mse_mf", "mse_app", "ga_mf", "ga_app", "restore",
             "restore_raise", "select_sm", "ca_dg14", "ca_mse", "ca_ga", "ta_dst", "ta_pso", "ta_at",
             "ta_challenge", "ta_sign", "aa_dg15", "aa_plain", "aa_sm"}
  /\ session \in [key: 0 .. fresh, protocol: {"none", "BAC", "PACE"}, iccX: 0 .. fresh]
  /\ caPub \in 0 .. fresh /\ taDone \in BOOLEAN /\ challenge \in 0 .. fresh
  /\ cert \in 0 .. Len(setup.chain) /\ off \in Nat /\ (pc = "ta_pso" => off < Size)
  /\ ops \in 0 .. MaxOps /\ lost \in 0 .. MaxLost /\ runs \in Nat /\ fresh \in Nat
  /\ chip \in [df: {"MF", "APP"}, sm: 0 .. fresh, idIc: 0 .. fresh, peer: 0 .. fresh,
               received: Nat, certs: Nat, nonce: 0 .. fresh, authorized: BOOLEAN]

\* An operation that fails because the chip refuses a step of it leaves the reader
\* with the session the chip has, so that the next operation can be tried: PACE
\* after BAC, a Chip Authentication half done, Active Authentication in the clear.
ChannelUsable ==
  pc = "idle" /\ session.key # 0 /\ lost = 0 /\ setup.tolerant => OnChannel

\* When the reader gets to sign, it signs what the chip checks the signature
\* against: this chip's ID_IC, this challenge, the key of the Chip Authentication
\* whose session is in use, whatever was run, failed and was run again before.
\* Except after PACE and a Chip Authentication by 3DES: IdIc goes by the protocol
\* of the session in use, which is then "BAC".
SignatureFits ==
  pc = "ta_sign" /\ OnChannel =>
    \/ Signed = Expected
    \/ session.protocol = "BAC" /\ session.iccX # 0

\* When the key is selected, the chip has imported every certificate of the chain,
\* each put together from its blocks, in this attempt and not an earlier one.
ChainImported ==
  pc = "ta_at" /\ OnChannel => chip.certs = Len(setup.chain) /\ chip.received = 0

\* Files recorded as read after Terminal Authentication come from a chip that has
\* authorized the terminal and not withdrawn it.
AuthorizedAsRecorded == taDone /\ OnChannel => chip.authorized

\* A chip is given one try of the password for each authentication asked for.
OnePasswordTry == runs <= 1

\* The stage of access the chip has granted, and the one the reader acts on: the
\* session it holds, the key it has kept of Chip Authentication, _eac_ta_done.
Granted ==
  CASE chip.sm = 0                                                  -> 0
    [] chip.sm # 0 /\ chip.authorized                               -> 3
    [] chip.sm # 0 /\ ~chip.authorized /\ chip.peer = chip.sm       -> 2
    [] chip.sm # 0 /\ ~chip.authorized /\ chip.peer # chip.sm       -> 1

Believed ==
  CASE taDone                                     -> 3
    [] ~taDone /\ caPub # 0                       -> 2
    [] ~taDone /\ caPub = 0 /\ session.key # 0    -> 1
    [] ~taDone /\ caPub = 0 /\ session.key = 0    -> 0

Stages == INSTANCE Inspection WITH granted <- Granted, believed <- Believed

\* The operations keep the order of an inspection: whatever is refused, lost or
\* run again, the chip's grants go up stage by stage, and the reader never acts
\* on one the chip has not made in answer to the command.
StagesInOrder == Stages!Spec
=============================================================================
