------------------------ MODULE AccessControl_proofs ------------------------
(***************************************************************************)
(* Proofs about AccessControl, for every protocol, suite, chip, kind of    *)
(* certificate chain and number of operations and lost exchanges.          *)
(***************************************************************************)
EXTENDS AccessControl, TLAPS

\* Chains of certificates, each of some length.
LEMMA ChainsAreSequences == \A c \in Chains : c \in Seq(Nat \ {0}) /\ Len(c) \in Nat \ {0}
  BY AccessAssumption

ChipStates ==
  [df: {"MF", "APP"}, sm: Nat, idIc: Nat, peer: Nat, received: Nat, certs: Nat, nonce: Nat,
   authorized: BOOLEAN]

Setups == [protocol: Protocols, suite: Suites, homes: Homes, tolerant: Tolerance, mode: Modes, chain: Chains]

\* The types of what the steps compute with; keys come out of fresh.
Typed ==
  /\ setup \in Setups
  /\ session \in [key: Nat, protocol: {"none", "BAC", "PACE"}, iccX: Nat]
  /\ caPub \in Nat /\ taDone \in BOOLEAN /\ challenge \in Nat /\ cert \in Nat /\ off \in Nat
  /\ runs \in Nat /\ ops \in Nat /\ lost \in Nat /\ fresh \in Nat
  /\ chip \in ChipStates
  /\ session.key <= fresh /\ chip.sm <= fresh /\ chip.peer <= fresh

\* Where an authentication is under way: in the clear before a session, or with
\* that of BAC; and where PACE has not been run.
NoSessionYet == {"bac", "select_mf", "mse_mf", "ga_mf", "restore", "restore_raise"}
Early        == NoSessionYet \cup {"mse_app", "ga_app"}
BeforePace   == Early \ {"restore_raise"}
Terminal     == {"ta_dst", "ta_pso", "ta_at", "ta_challenge", "ta_sign"}

\* Until the authentication is over there is no Chip or Terminal Authentication,
\* on either side.
InOrder ==
  /\ ops = 0 => pc = "idle" /\ session.key = 0 /\ runs = 0
  /\ pc \in NoSessionYet => session.key = 0
  /\ pc \in BeforePace => runs = 0
  /\ runs <= 1
  /\ pc \in Early \/ ops = 0 => ~taDone /\ caPub = 0 /\ ~chip.authorized /\ chip.peer = 0
  /\ pc \in Terminal => caPub # 0

\* As long as the reader is on the chip's session, the two hold the same.
Matching ==
  /\ chip.authorized => chip.sm # 0 /\ taDone
  /\ session.key # 0 => session.protocol # "none"
  /\ lost = 0 /\ setup.tolerant /\ session.key # 0 => OnChannel
  /\ OnChannel => /\ chip.idIc = session.iccX
                  /\ taDone => chip.authorized
                  /\ caPub # 0 => chip.peer = caPub /\ chip.sm = caPub

\* How far Terminal Authentication has come, on both sides.
Progress ==
  /\ pc = "ta_dst" => cert = 1 /\ off = 0
  /\ pc = "ta_pso" => cert \in 1 .. Len(setup.chain) /\ off < Size
  /\ pc = "ta_pso" /\ OnChannel => chip.certs = cert - 1 /\ chip.received = off
  /\ pc = "ta_at" /\ OnChannel => chip.certs = Len(setup.chain) /\ chip.received = 0
  /\ pc = "ta_sign" /\ OnChannel => challenge = chip.nonce

Inv == Typed /\ InOrder /\ Matching /\ Progress

-----------------------------------------------------------------------------
LEMMA InvInit == Init => Inv
<1> SUFFICES ASSUME Init PROVE Inv
  OBVIOUS
<1> USE DEF Init, NoSession
<1>1. Typed
  <2>1. chip \in ChipStates
    BY DEF ChipStates
  <2>2. session \in [key: Nat, protocol: {"none", "BAC", "PACE"}, iccX: Nat]
    OBVIOUS
  <2>3. setup \in Setups
    BY DEF Setups
  <2>4. session.key = 0 /\ chip.sm = 0 /\ chip.peer = 0 /\ fresh = 0
    OBVIOUS
  <2>5. session.key <= fresh /\ chip.sm <= fresh /\ chip.peer <= fresh
    BY <2>4
  <2>6. caPub \in Nat /\ taDone \in BOOLEAN /\ challenge \in Nat /\ cert \in Nat /\ off \in Nat
    OBVIOUS
  <2>7. runs \in Nat /\ ops \in Nat /\ lost \in Nat /\ fresh \in Nat
    OBVIOUS
  <2> HIDE DEF Init, NoSession
  <2> QED BY <2>1, <2>2, <2>3, <2>5, <2>6, <2>7 DEF Typed
<1>2. InOrder
  BY DEF InOrder, NoSessionYet, Early, BeforePace, Terminal
<1>3. Matching /\ Progress
  BY DEF Matching, Progress, OnChannel
<1> QED BY <1>1, <1>2, <1>3 DEF Inv

LEMMA Stutters == ASSUME Inv, UNCHANGED vars PROVE Inv'
<1> USE DEF vars, reader
<1>1. Typed' /\ InOrder'
  BY DEF Inv, Typed, InOrder
<1>2. Matching' /\ Progress'
  BY DEF Inv, Matching, Progress, OnChannel, Size
<1> QED BY <1>1, <1>2 DEF Inv

\* A chip without its session.
LEMMA AbortedChip ==
  ASSUME NEW c \in ChipStates
  PROVE  /\ Aborted(c) \in ChipStates
         /\ Aborted(c).sm = 0 /\ ~Aborted(c).authorized /\ Aborted(c).peer = c.peer
  BY DEF Aborted, ChipStates

\* What a command that does not come to its end leaves: the chip where it was,
\* without a session, or with a session the reader does not have.
LEMMA FailsLeaves ==
  ASSUME Typed, NEW done \in ChipStates, Fails(done)
  PROVE  /\ chip' \in ChipStates /\ lost' \in Nat
         /\ \/ /\ OnChannel /\ lost' = lost
               /\ chip'.sm = chip.sm /\ chip'.authorized = chip.authorized
               /\ chip'.peer = chip.peer /\ chip'.idIc = chip.idIc
            \/ /\ chip'.sm = 0 /\ ~chip'.authorized /\ chip'.peer \in {chip.peer, done.peer}
               /\ ~OnChannel \/ lost' # 0
            \/ OnChannel /\ lost' # 0 /\ done.sm # chip.sm /\ chip' = done
<1>1. chip \in ChipStates /\ lost \in Nat
  BY DEF Typed
<1>2. CASE /\ chip' = IF OnChannel THEN [chip EXCEPT !.received = 0] ELSE Aborted(chip)
           /\ UNCHANGED lost
  <2>1. CASE OnChannel
    BY <1>1, <1>2, <2>1 DEF ChipStates
  <2>2. CASE ~OnChannel
    BY <1>1, <1>2, <2>2, AbortedChip
  <2> QED BY <2>1, <2>2
<1>3. CASE /\ Loses
           /\ chip' \in {Aborted(chip)} \cup
                IF OnChannel THEN {IF done.sm = chip.sm THEN Aborted(done) ELSE done} ELSE {}
  <2>1. lost' \in Nat /\ lost' # 0
    BY <1>1, <1>3, AccessAssumption DEF Loses
  <2>2. \/ chip' = Aborted(chip)
        \/ chip' = Aborted(done)
        \/ OnChannel /\ done.sm # chip.sm /\ chip' = done
    BY <1>3
  <2> QED BY <1>1, <2>1, <2>2, AbortedChip
<1> QED BY <1>2, <1>3 DEF Fails

\* A protected command that does not come to its end keeps the invariant.
LEMMA FailsKeeps ==
  ASSUME Inv, NEW done \in ChipStates, Fails(done),
         pc \notin Early, ops # 0, pc' = "idle",
         UNCHANGED <<setup, session, caPub, taDone, runs, ops>>,
         fresh' \in {fresh, fresh + 1}, challenge' \in Nat, cert' \in Nat, off' \in Nat,
         done.sm = chip.sm \/ done.sm = fresh', done.sm = fresh' => fresh' = fresh + 1 \/ done.sm = chip.sm,
         done.peer = chip.peer \/ done.peer = fresh',
         done.authorized => chip.authorized \/ done.sm = chip.sm
  PROVE  Inv'
<1>1. Typed /\ InOrder /\ Matching /\ Progress
  BY DEF Inv
<1>2. chip' \in ChipStates /\ lost' \in Nat
  BY <1>1, FailsLeaves
<1>3. fresh \in Nat /\ session.key \in Nat /\ session.key <= fresh /\ chip.sm <= fresh /\ chip.peer <= fresh
      /\ chip.sm \in Nat /\ chip.peer \in Nat
  BY <1>1 DEF Typed, ChipStates
<1>4. chip'.sm <= fresh' /\ chip'.peer <= fresh'
  BY <1>1, <1>2, <1>3, FailsLeaves
<1>5. Typed'
  BY <1>1, <1>2, <1>3, <1>4 DEF Typed
<1>6. InOrder' /\ Progress'
  BY <1>1 DEF InOrder, Progress, NoSessionYet, Early, BeforePace, Terminal
<1>7. Matching'
  <2>1. CASE /\ OnChannel /\ lost' = lost
             /\ chip'.sm = chip.sm /\ chip'.authorized = chip.authorized
             /\ chip'.peer = chip.peer /\ chip'.idIc = chip.idIc
    BY <1>1, <2>1 DEF Matching, OnChannel
  <2>2. CASE /\ chip'.sm = 0 /\ ~chip'.authorized
             /\ ~OnChannel \/ lost' # 0
    <3>1. lost' = 0 => lost = 0
      BY AccessAssumption, <1>1 DEF Fails, Loses, Typed
    <3> QED BY <1>1, <2>2, <3>1 DEF Matching, OnChannel
  <2>3. CASE OnChannel /\ lost' # 0 /\ done.sm # chip.sm /\ chip' = done
    BY <1>1, <1>3, <2>3 DEF Matching, OnChannel
  <2> QED BY <1>1, <2>1, <2>2, <2>3, FailsLeaves
<1> QED BY <1>5, <1>6, <1>7 DEF Inv

-----------------------------------------------------------------------------
(* The steps of authenticate, in the clear.                                *)

\* A command in the clear leaves the chip with its session or without.
LEMMA PlainLeaves ==
  ASSUME Typed
  PROVE  /\ Plain(chip) \in ChipStates
         /\ Plain(chip).sm \in {0, chip.sm} /\ Plain(chip).peer = chip.peer
         /\ Plain(chip).authorized => chip.authorized /\ Plain(chip) = chip
         /\ setup.tolerant => Plain(chip) = chip
<1>1. chip \in ChipStates
  BY DEF Typed
<1>2. CASE setup.tolerant
  BY <1>1, <1>2 DEF Plain
<1>3. CASE ~setup.tolerant
  BY <1>1, <1>3, AbortedChip DEF Plain
<1> QED BY <1>2, <1>3

\* The chip has the session it had, or none any more.
SameSession ==
  /\ chip'.sm = chip.sm /\ chip'.authorized = chip.authorized
  /\ chip'.peer = chip.peer /\ chip'.idIc = chip.idIc
SessionEnded ==
  /\ chip'.sm = 0 /\ ~chip'.authorized /\ chip'.peer = chip.peer
  /\ setup.tolerant /\ lost' = 0 => session.key = 0

\* A step in the clear that leaves the reader's session and the chip's as they are,
\* or ends the chip's.
InTheClear ==
  /\ chip' \in ChipStates /\ lost' \in Nat /\ (lost' = 0 => lost = 0)
  /\ SameSession \/ SessionEnded
  /\ UNCHANGED <<setup, session, caPub, taDone, challenge, cert, off, ops>>

LEMMA ClearKeepsMatching ==
  ASSUME Inv, InTheClear, fresh' \in {fresh, fresh + 1}, runs' \in Nat
  PROVE  Typed' /\ Matching'
<1>1. Typed /\ Matching
  BY DEF Inv
<1>2. chip \in ChipStates /\ fresh \in Nat /\ chip.sm \in Nat /\ chip.peer \in Nat
  BY <1>1 DEF Typed, ChipStates
<1>3. chip'.sm <= fresh' /\ chip'.peer <= fresh' /\ session'.key <= fresh'
  BY <1>1, <1>2 DEF Typed, InTheClear, SameSession, SessionEnded
<1>4. Typed'
  BY <1>1, <1>2, <1>3 DEF Typed, InTheClear
<1>5. Matching'
  BY <1>1, <1>2 DEF Matching, OnChannel, InTheClear, SameSession, SessionEnded
<1> QED BY <1>4, <1>5

\* What SELECTs and commands answered in the clear, or lost, are.
LEMMA PlainIsClear ==
  ASSUME Inv, chip' = Plain(chip), lost' = lost \/ Loses,
         UNCHANGED <<setup, session, caPub, taDone, challenge, cert, off, ops>>
  PROVE  InTheClear
<1>1. Typed /\ lost \in Nat /\ chip \in ChipStates
  BY DEF Inv, Typed
<1>2. Plain(chip) \in ChipStates /\ lost' \in Nat /\ (lost' = 0 => lost = 0)
  BY <1>1, PlainLeaves, AccessAssumption DEF Loses
<1>3. SameSession \/ SessionEnded
  BY <1>1, AbortedChip DEF Plain, SameSession, SessionEnded
<1> QED BY <1>2, <1>3 DEF InTheClear

LEMMA DirectoryIsClear ==
  ASSUME Inv, NEW dir \in {"MF", "APP"}, chip' = chip \/ chip' = [chip EXCEPT !.df = dir],
         lost' = lost \/ Loses,
         UNCHANGED <<setup, session, caPub, taDone, challenge, cert, off, ops>>
  PROVE  InTheClear
<1>1. lost \in Nat /\ chip \in ChipStates
  BY DEF Inv, Typed
<1>2. chip' \in ChipStates /\ lost' \in Nat /\ (lost' = 0 => lost = 0)
  BY <1>1, AccessAssumption DEF Loses, ChipStates
<1>3. SameSession
  BY <1>1 DEF SameSession, ChipStates
<1> QED BY <1>2, <1>3 DEF InTheClear

LEMMA AuthenticateKeeps == ASSUME Inv, Authenticate PROVE Inv'
<1> USE DEF Authenticate, reader
<1>1. Typed'
  BY DEF Inv, Typed
<1>2. InOrder'
  BY DEF Inv, InOrder, NoSessionYet, Early, BeforePace, Terminal
<1>3. Matching' /\ Progress'
  BY DEF Inv, Matching, Progress, OnChannel
<1> QED BY <1>1, <1>2, <1>3 DEF Inv

\* Between the steps of PACE there is neither Chip nor Terminal Authentication, and
\* no session but that of BAC.
LEMMA PaceStepKeeps ==
  ASSUME Inv, InTheClear, pc \in Early, UNCHANGED <<runs, fresh>>,
         pc' \in (Early \ {"bac"}) \cup {"idle"},
         pc' \in BeforePace => pc \in BeforePace,
         pc' \in NoSessionYet => pc \in NoSessionYet
  PROVE  Inv'
<1>1. Typed' /\ Matching'
  BY ClearKeepsMatching DEF Inv, Typed
<1>2. ops # 0
  BY DEF Inv, InOrder, NoSessionYet, Early
<1>3. InOrder'
  BY <1>2 DEF Inv, Matching, InOrder, NoSessionYet, Early, BeforePace, Terminal, InTheClear, SameSession, SessionEnded
<1>4. Progress'
  BY DEF Progress, NoSessionYet, Early
<1> QED BY <1>1, <1>3, <1>4 DEF Inv

LEMMA SelectMfPlainKeeps == ASSUME Inv, SelectMfPlain PROVE Inv'
<1>1. InTheClear
  BY DirectoryIsClear DEF SelectMfPlain, reader
<1>2. pc \in BeforePace /\ pc \in NoSessionYet /\ pc \in Early
  BY DEF SelectMfPlain, BeforePace, NoSessionYet, Early
<1>3. pc' \in (Early \ {"bac"}) \cup {"idle"} /\ UNCHANGED <<runs, fresh>>
  BY DEF SelectMfPlain, reader, NoSessionYet, Early
<1> QED BY <1>1, <1>2, <1>3, PaceStepKeeps

LEMMA MseSetAtKeeps == ASSUME Inv, MseSetAt PROVE Inv'
<1>1. InTheClear
  <2>1. UNCHANGED <<setup, session, caPub, taDone, challenge, cert, off, ops>> /\ (lost' = lost \/ Loses)
    BY DEF MseSetAt, reader
  <2>2. CASE chip' = Plain(chip)
    BY <2>1, <2>2, PlainIsClear
  <2>3. CASE chip' = chip
    BY <2>1, <2>3, DirectoryIsClear
  <2> QED BY <2>2, <2>3 DEF MseSetAt
<1>2. pc \in BeforePace /\ pc \in Early
  BY DEF MseSetAt, BeforePace, NoSessionYet, Early
<1>3. pc' \in (Early \ {"bac"}) \cup {"idle"} /\ UNCHANGED <<runs, fresh>>
  BY DEF MseSetAt, reader, NoSessionYet, Early
<1>4. pc' \in NoSessionYet => pc \in NoSessionYet
  BY DEF MseSetAt, NoSessionYet
<1> QED BY <1>1, <1>2, <1>3, <1>4, PaceStepKeeps

LEMMA RestoreEmrtdContextKeeps == ASSUME Inv, RestoreEmrtdContext PROVE Inv'
<1>1. session.key = 0 /\ pc \in NoSessionYet /\ pc \in Early
  BY DEF RestoreEmrtdContext, Inv, InOrder, NoSessionYet, Early
<1>2. chip \in ChipStates /\ lost \in Nat /\ ~chip.authorized
  BY <1>1 DEF Inv, Typed, InOrder
<1>3. InTheClear
  <2>1. UNCHANGED <<setup, session, caPub, taDone, challenge, cert, off, ops>> /\ (lost' = lost \/ Loses)
    BY DEF RestoreEmrtdContext, reader
  <2>2. CASE chip' = chip
    BY <2>1, <2>2, DirectoryIsClear
  <2>3. CASE chip' = [chip EXCEPT !.df = "APP", !.sm = 0]
    <3>1. chip' \in ChipStates /\ SessionEnded
      BY <1>1, <1>2, <2>3 DEF SessionEnded, ChipStates
    <3>2. lost' \in Nat /\ (lost' = 0 => lost = 0)
      BY <1>2, <2>1, AccessAssumption DEF Loses
    <3> QED BY <2>1, <3>1, <3>2 DEF InTheClear
  <2> QED BY <2>2, <2>3 DEF RestoreEmrtdContext
<1>4. pc' \in (Early \ {"bac"}) \cup {"idle"} /\ UNCHANGED <<runs, fresh>>
  BY DEF RestoreEmrtdContext, reader, NoSessionYet, Early
<1>5. pc' \in BeforePace => pc \in BeforePace
  BY DEF RestoreEmrtdContext, BeforePace, NoSessionYet, Early
<1> QED BY <1>1, <1>3, <1>4, <1>5, PaceStepKeeps

-----------------------------------------------------------------------------
(* The steps of authenticate that set up a session.                        *)

\* The reader and the chip set up the same session, by BAC or PACE, or only the
\* chip does, because its last answer is lost.
LEMMA SetUpKeeps ==
  ASSUME Inv, pc \in Early, ops # 0, fresh' = fresh + 1, runs' \in Nat, runs' <= 1,
         UNCHANGED <<setup, caPub, taDone, challenge, cert, off, ops>>,
         NEW id \in {0, fresh + 1}, chip' = [chip EXCEPT !.sm = fresh + 1, !.idIc = id],
         NEW protocol \in {"BAC", "PACE"},
         \/ session' = [key |-> fresh + 1, protocol |-> protocol, iccX |-> id] /\ UNCHANGED lost
         \/ UNCHANGED session /\ Loses,
         pc' \in {"idle", "mse_app", "select_sm"},
         pc' \in Early => runs' = 0
  PROVE  Inv'
<1>1. chip \in ChipStates /\ fresh \in Nat /\ lost \in Nat /\ session.key \in Nat
      /\ session.key <= fresh /\ chip.peer = 0 /\ chip.peer \in Nat /\ ~chip.authorized /\ ~taDone /\ caPub = 0
  BY DEF Inv, Typed, InOrder, ChipStates
<1>2. chip' \in ChipStates /\ chip'.sm = fresh + 1 /\ chip'.idIc = id /\ chip'.peer = 0 /\ ~chip'.authorized
  <2>1. id \in Nat /\ fresh + 1 \in Nat
    BY <1>1
  <2>2. chip' = [chip EXCEPT !.sm = fresh + 1, !.idIc = id]
    OBVIOUS
  <2> QED BY <1>1, <2>1, <2>2 DEF ChipStates
<1>3. CASE session' = [key |-> fresh + 1, protocol |-> protocol, iccX |-> id] /\ UNCHANGED lost
  <2>1. session' \in [key: Nat, protocol: {"none", "BAC", "PACE"}, iccX: Nat]
        /\ session'.key = fresh + 1 /\ session'.iccX = id /\ session'.protocol # "none"
    BY <1>1, <1>3
  <2>2. Typed'
    BY <1>1, <1>2, <1>3, <2>1 DEF Inv, Typed
  <2>3. InOrder'
    BY <1>1, <1>2 DEF InOrder, NoSessionYet, Early, BeforePace, Terminal
  <2>4. Matching'
    BY <1>1, <1>2, <2>1 DEF Matching, OnChannel
  <2>5. Progress'
    BY DEF Progress
  <2> QED BY <2>2, <2>3, <2>4, <2>5 DEF Inv
<1>4. CASE UNCHANGED session /\ Loses
  <2>1. lost' \in Nat /\ lost' # 0
    BY <1>1, <1>4, AccessAssumption DEF Loses
  <2>2. Typed'
    BY <1>1, <1>2, <1>4, <2>1 DEF Inv, Typed
  <2>3. InOrder'
    BY <1>1, <1>2 DEF InOrder, NoSessionYet, Early, BeforePace, Terminal
  <2>4. Matching'
    BY <1>1, <1>2, <1>4, <2>1 DEF Inv, Matching, OnChannel
  <2>5. Progress'
    BY DEF Progress
  <2> QED BY <2>2, <2>3, <2>4, <2>5 DEF Inv
<1> QED BY <1>3, <1>4

LEMMA BacKeeps == ASSUME Inv, Bac PROVE Inv'
<1>1. pc \in Early /\ pc \in BeforePace /\ pc \in NoSessionYet /\ ops # 0 /\ runs = 0 /\ runs \in Nat /\ fresh' = fresh + 1
  BY DEF Bac, Inv, Typed, InOrder, Early, BeforePace, NoSessionYet
<1>2. CASE /\ pc' = AfterBac /\ session' = BacSession
           /\ chip' = [chip EXCEPT !.sm = fresh + 1, !.idIc = 0]
           /\ UNCHANGED <<lost, caPub, taDone, challenge, cert, off, runs>>
  <2>1. pc' \in {"idle", "mse_app", "select_sm"} /\ UNCHANGED <<setup, ops>>
    BY <1>2 DEF Bac, AfterBac
  <2>2. session' = [key |-> fresh + 1, protocol |-> "BAC", iccX |-> 0]
    BY <1>2 DEF BacSession
  <2> QED BY <1>1, <1>2, <2>1, <2>2, SetUpKeeps
<1>3. CASE Raise /\ Loses /\ chip' = [chip EXCEPT !.sm = fresh + 1, !.idIc = 0]
  <2>1. pc' = "idle" /\ UNCHANGED <<setup, ops, session, caPub, taDone, challenge, cert, off, runs>>
    BY <1>3 DEF Bac, Raise, reader
  <2>2. pc' \notin Early
    BY <2>1 DEF Early, NoSessionYet
  <2> QED BY <1>1, <1>3, <2>1, <2>2, SetUpKeeps
<1>4. CASE Raise /\ chip' = chip /\ (lost' = lost \/ Loses)
  <2>1. pc' = "idle" /\ UNCHANGED <<setup, ops, session, caPub, taDone, challenge, cert, off, runs>>
    BY <1>4 DEF Bac, Raise, reader
  <2>2. InTheClear
    BY <1>4, <2>1, DirectoryIsClear
  <2>3. Typed' /\ Matching'
    BY <1>1, <2>1, <2>2, ClearKeepsMatching
  <2>4. InOrder' /\ Progress'
    BY <1>1, <2>1 DEF Inv, InOrder, Progress, NoSessionYet, Early, BeforePace, Terminal
  <2> QED BY <2>3, <2>4 DEF Inv
<1> QED BY <1>2, <1>3, <1>4 DEF Bac

LEMMA GeneralAuthenticateKeeps == ASSUME Inv, GeneralAuthenticate PROVE Inv'
<1>1. pc \in Early /\ pc \in BeforePace /\ ops # 0 /\ runs = 0 /\ runs' = 1 /\ fresh' = fresh + 1
      /\ pc' \in {"idle", "select_sm", "restore_raise"}
      /\ UNCHANGED <<setup, ops, caPub, taDone, challenge, cert, off>>
  BY DEF GeneralAuthenticate, AfterGaRefused, Inv, Typed, InOrder, Early, BeforePace, NoSessionYet
<1>2. pc' = "restore_raise" => pc = "ga_mf" /\ session' = session
  BY DEF GeneralAuthenticate, AfterGaRefused
<1>3. CASE /\ pc' = IF setup.protocol = "HYBRID" THEN "idle" ELSE "select_sm"
           /\ session' = [key |-> fresh + 1, protocol |-> "PACE", iccX |-> fresh + 1]
           /\ chip' = [chip EXCEPT !.sm = fresh + 1, !.idIc = fresh + 1]
           /\ UNCHANGED lost
  <2>1. pc' \in {"idle", "mse_app", "select_sm"} /\ pc' \notin Early
    BY <1>3 DEF Early, NoSessionYet
  <2> QED BY <1>1, <1>3, <2>1, SetUpKeeps
<1>4. CASE /\ pc' = "idle" /\ Loses /\ UNCHANGED session
           /\ chip' = [chip EXCEPT !.sm = fresh + 1, !.idIc = fresh + 1]
  <2>1. pc' \notin Early
    BY <1>4 DEF Early, NoSessionYet
  <2> QED BY <1>1, <1>4, <2>1, SetUpKeeps
<1>5. CASE UNCHANGED session /\ chip' \in {chip, Plain(chip)} /\ (lost' = lost \/ Loses)
  <2>1. InTheClear
    BY <1>1, <1>5, DirectoryIsClear, PlainIsClear
  <2>2. Typed' /\ Matching'
    BY <1>1, <2>1, ClearKeepsMatching
  <2>3. InOrder'
    BY <1>1, <1>2, <2>1 DEF Inv, Matching, InOrder, NoSessionYet, Early, BeforePace, Terminal, InTheClear, SameSession, SessionEnded
  <2>4. Progress'
    BY <1>1 DEF Progress
  <2> QED BY <2>2, <2>3, <2>4 DEF Inv
<1> QED BY <1>3, <1>4, <1>5 DEF GeneralAuthenticate

\* A protected step after the authentication that changes nothing either side goes by.
LEMMA ProtectedKeeps ==
  ASSUME Inv, pc \notin Early, ops # 0, chip' \in ChipStates, SameSession,
         UNCHANGED <<setup, session, caPub, taDone, runs, ops, lost>>,
         fresh' \in {fresh, fresh + 1}, challenge' \in Nat, cert' \in Nat, off' \in Nat,
         pc' \notin Early, pc' \in Terminal => pc \in Terminal
  PROVE  Typed' /\ InOrder' /\ Matching'
<1>1. Typed /\ InOrder /\ Matching /\ fresh \in Nat /\ chip \in ChipStates
  BY DEF Inv, Typed
<1>2. chip'.sm <= fresh' /\ chip'.peer <= fresh' /\ session'.key <= fresh'
  BY <1>1 DEF Typed, ChipStates, SameSession
<1>3. Typed'
  BY <1>1, <1>2 DEF Typed
<1>4. InOrder'
  BY <1>1 DEF InOrder, Early, BeforePace
<1>5. Matching'
  BY <1>1 DEF Matching, SameSession, OnChannel
<1> QED BY <1>3, <1>4, <1>5

\* Where none of the steps of Terminal Authentication comes next.
LEMMA SelectEmrtdSmKeeps == ASSUME Inv, SelectEmrtdSm PROVE Inv'
<1>1. /\ pc \notin Early /\ ops # 0 /\ pc' = "idle" /\ chip \in ChipStates
      /\ UNCHANGED <<setup, session, caPub, taDone, challenge, cert, off, runs, ops, fresh>>
      /\ challenge \in Nat /\ cert \in Nat /\ off \in Nat
  BY DEF SelectEmrtdSm, reader, Inv, Typed, InOrder, Early, NoSessionYet
<1> DEFINE done == [chip EXCEPT !.df = "APP"]
<1>2. done \in ChipStates /\ done.sm = chip.sm /\ done.peer = chip.peer /\ done.authorized = chip.authorized
      /\ done.idIc = chip.idIc
  BY <1>1 DEF ChipStates
<1> HIDE DEF done
<1>3. CASE chip' = done /\ UNCHANGED lost
  <2>1. Typed' /\ InOrder' /\ Matching'
    BY <1>1, <1>2, <1>3, ProtectedKeeps DEF SameSession, Terminal, Early, NoSessionYet
  <2>2. Progress'
    BY <1>1 DEF Progress
  <2> QED BY <2>1, <2>2 DEF Inv
<1>4. CASE Fails(done)
  BY <1>1, <1>2, <1>4, FailsKeeps
<1> QED BY <1>3, <1>4 DEF SelectEmrtdSm, done

-----------------------------------------------------------------------------
(* Chip and Active Authentication.                                         *)

\* Where an operation after the authentication is under way, outside the steps of
\* Terminal Authentication.
Outside == {"ca_dg14", "ca_mse", "ca_ga", "aa_dg15", "aa_plain", "aa_sm", "idle"}

LEMMA OperationKeeps ==
  ASSUME Inv, pc \in Outside, ops # 0, pc' \in Outside,
         UNCHANGED <<setup, reader, ops, fresh>>,
         (chip' = chip /\ UNCHANGED lost) \/ (pc' = "idle" /\ Fails(chip))
  PROVE  Inv'
<1>1. /\ pc \notin Early /\ pc' \notin Early /\ pc' \notin Terminal /\ chip \in ChipStates
      /\ UNCHANGED <<session, caPub, taDone, challenge, cert, off, runs>>
      /\ challenge \in Nat /\ cert \in Nat /\ off \in Nat
  BY DEF Inv, Typed, Outside, Early, NoSessionYet, Terminal, reader
<1>2. CASE chip' = chip /\ UNCHANGED lost
  <2>1. Typed' /\ InOrder' /\ Matching'
    BY <1>1, <1>2, ProtectedKeeps DEF SameSession
  <2>2. Progress'
    BY DEF Progress, Outside
  <2> QED BY <2>1, <2>2 DEF Inv
<1>3. CASE pc' = "idle" /\ Fails(chip)
  BY <1>1, <1>3, FailsKeeps
<1> QED BY <1>2, <1>3

LEMMA CallsKeep == ASSUME Inv, ChipAuthentication \/ ActiveAuthentication PROVE Inv'
<1> USE DEF ChipAuthentication, ActiveAuthentication, Call, reader
<1>1. /\ pc \notin Early /\ pc' \notin Early /\ pc' \notin Terminal /\ pc' \in Outside
      /\ ops # 0 /\ ops' # 0 /\ ops' \in Nat
  BY DEF Inv, Typed, Outside, Early, NoSessionYet, Terminal
<1>2. Typed'
  BY <1>1 DEF Inv, Typed
<1>3. InOrder'
  BY <1>1 DEF Inv, InOrder, Early, BeforePace
<1>4. Matching'
  BY DEF Inv, Matching, OnChannel
<1>5. Progress'
  BY <1>1 DEF Progress, Outside
<1> QED BY <1>2, <1>3, <1>4, <1>5 DEF Inv

LEMMA ReadsAndMseKeep ==
  ASSUME Inv, ReadDg14 \/ MseCa \/ ReadDg15 \/ InternalAuthenticateSm PROVE Inv'
<1>1. pc \in Outside /\ pc' \in Outside /\ ops # 0 /\ UNCHANGED <<setup, reader, ops, fresh>>
  BY DEF ReadDg14, MseCa, ReadDg15, InternalAuthenticateSm, ReadInApplication, Step, Outside, Inv, InOrder
<1>2. (chip' = chip /\ UNCHANGED lost) \/ (pc' = "idle" /\ Fails(chip))
  BY DEF ReadDg14, MseCa, ReadDg15, InternalAuthenticateSm, ReadInApplication, Step
<1> QED BY <1>1, <1>2, OperationKeeps

LEMMA InternalAuthenticateKeeps == ASSUME Inv, InternalAuthenticate PROVE Inv'
<1>1. /\ pc \notin Early /\ pc' \notin Early /\ pc' \notin Terminal /\ pc' \in Outside /\ ops # 0
      /\ UNCHANGED <<setup, session, caPub, taDone, challenge, cert, off, runs, ops, fresh>>
      /\ chip' \in {chip, Plain(chip)} /\ (lost' = lost \/ Loses)
  BY DEF InternalAuthenticate, reader, Outside, Early, NoSessionYet, Terminal, Inv, InOrder
<1>2. InTheClear
  BY <1>1, DirectoryIsClear, PlainIsClear
<1>3. Typed' /\ Matching'
  BY <1>1, <1>2, ClearKeepsMatching DEF Inv, Typed
<1>4. InOrder'
  BY <1>1 DEF Inv, InOrder, Early, BeforePace
<1>5. Progress'
  BY <1>1 DEF Progress, Outside
<1> QED BY <1>3, <1>4, <1>5 DEF Inv

LEMMA GeneralAuthenticateCaKeeps == ASSUME Inv, GeneralAuthenticateCa PROVE Inv'
<1> DEFINE done == [chip EXCEPT !.sm = fresh + 1, !.peer = fresh + 1]
<1>1. /\ pc = "ca_ga" /\ pc' = "idle" /\ fresh' = fresh + 1 /\ pc \notin Early /\ ops # 0
      /\ UNCHANGED <<setup, ops, taDone, challenge, cert, off, runs>>
      /\ fresh \in Nat /\ chip \in ChipStates /\ chip.sm <= fresh /\ chip.sm \in Nat
      /\ challenge \in Nat /\ cert \in Nat /\ off \in Nat
  BY DEF GeneralAuthenticateCa, Inv, Typed, InOrder, Early, NoSessionYet, ChipStates
<1>2. /\ done \in ChipStates /\ done.sm = fresh' /\ done.peer = fresh' /\ done.authorized = chip.authorized
      /\ done.idIc = chip.idIc
  <2>1. fresh + 1 \in Nat
    BY <1>1
  <2> QED BY <1>1, <2>1 DEF ChipStates
<1> HIDE DEF done
<1>3. CASE /\ OnChannel /\ session' = Upgraded /\ caPub' = fresh + 1 /\ chip' = done /\ UNCHANGED lost
  <2>1. /\ session' \in [key: Nat, protocol: {"none", "BAC", "PACE"}, iccX: Nat]
        /\ session'.key = fresh' /\ session'.protocol # "none" /\ session'.iccX = session.iccX
    BY <1>1, <1>3 DEF Upgraded, SuiteProtocol, Inv, Typed
  <2>2. Typed'
    BY <1>1, <1>2, <1>3, <2>1 DEF Inv, Typed
  <2>3. InOrder'
    BY <1>1 DEF Inv, InOrder, Early, BeforePace, NoSessionYet, Terminal
  <2>4. Matching'
    BY <1>1, <1>2, <1>3, <2>1 DEF Inv, Matching, OnChannel
  <2>5. Progress'
    BY <1>1 DEF Progress
  <2> QED BY <2>2, <2>3, <2>4, <2>5 DEF Inv
<1>4. CASE Fails(done) /\ UNCHANGED <<session, caPub>>
  <2>1. done.authorized => chip.authorized
    BY <1>2
  <2> QED BY <1>1, <1>2, <1>4, <2>1, FailsKeeps
<1> QED BY <1>3, <1>4 DEF GeneralAuthenticateCa, done

-----------------------------------------------------------------------------
(* Terminal Authentication.                                                *)

LEMMA TerminalAuthenticationKeeps == ASSUME Inv, TerminalAuthentication PROVE Inv'
<1> USE DEF TerminalAuthentication, Call
<1>1. pc \notin Early /\ pc' \notin Early /\ ops # 0 /\ ops' # 0 /\ ops' \in Nat
  BY DEF Inv, Typed, Early, NoSessionYet
<1>2. Typed'
  BY <1>1 DEF Inv, Typed
<1>3. InOrder'
  BY <1>1 DEF Inv, InOrder, Early, BeforePace
<1>4. Matching'
  BY DEF Inv, Matching, OnChannel
<1>5. Progress'
  BY DEF Progress
<1> QED BY <1>2, <1>3, <1>4, <1>5 DEF Inv

\* What a step of Terminal Authentication on the channel, short of the last, gives.
LEMMA OnTheWay ==
  ASSUME Inv, pc \in Terminal, pc' \in Terminal, chip' \in ChipStates, SameSession,
         UNCHANGED <<setup, session, caPub, taDone, runs, ops, lost>>,
         fresh' \in {fresh, fresh + 1}, challenge' \in Nat, cert' \in Nat, off' \in Nat
  PROVE  Typed' /\ InOrder' /\ Matching'
<1>1. pc \notin Early /\ pc' \notin Early /\ ops # 0
  BY DEF Inv, InOrder, Terminal, Early, NoSessionYet
<1> QED BY <1>1, ProtectedKeeps

\* And what one that does not come to its end gives.
LEMMA GivesUp ==
  ASSUME Inv, pc \in Terminal, pc' = "idle", NEW done \in ChipStates, Fails(done),
         done.sm = chip.sm, done.peer = chip.peer,
         UNCHANGED <<setup, session, caPub, taDone, runs, ops>>,
         fresh' \in {fresh, fresh + 1}, challenge' \in Nat, cert' \in Nat, off' \in Nat
  PROVE  Inv'
<1>1. pc \notin Early /\ ops # 0
  BY DEF Inv, InOrder, Terminal, Early, NoSessionYet
<1> QED BY <1>1, FailsKeeps

LEMMA MseSetDstKeeps == ASSUME Inv, MseSetDst PROVE Inv'
<1> DEFINE done == [chip EXCEPT !.received = 0, !.certs = 0]
<1>1. /\ pc = "ta_dst" /\ pc \in Terminal /\ chip \in ChipStates /\ cert = 1 /\ off = 0
      /\ UNCHANGED <<setup, session, caPub, taDone, challenge, cert, off, runs, ops, fresh>>
      /\ challenge \in Nat /\ cert \in Nat /\ off \in Nat /\ setup.chain \in Chains
  BY DEF MseSetDst, reader, Terminal, Inv, Typed, Progress, Setups
<1>2. done \in ChipStates /\ done.sm = chip.sm /\ done.peer = chip.peer /\ done.authorized = chip.authorized
      /\ done.idIc = chip.idIc /\ done.received = 0 /\ done.certs = 0
  BY <1>1 DEF ChipStates
<1> HIDE DEF done
<1>3. CASE pc' = "ta_pso" /\ chip' = done /\ UNCHANGED lost
  <2>1. Typed' /\ InOrder' /\ Matching'
    BY <1>1, <1>2, <1>3, OnTheWay DEF SameSession, Terminal
  <2>2. setup.chain \in Seq(Nat \ {0}) /\ Len(setup.chain) \in Nat \ {0}
    BY <1>1, ChainsAreSequences
  <2>3. 1 \in 1 .. Len(setup.chain) /\ 0 < setup.chain[1]
    BY <2>2
  <2>4. Progress'
    BY <1>1, <1>2, <1>3, <2>3 DEF Progress, Size
  <2> QED BY <2>1, <2>4 DEF Inv
<1>4. CASE pc' = "idle" /\ Fails(done)
  BY <1>1, <1>2, <1>4, GivesUp
<1> QED BY <1>3, <1>4 DEF MseSetDst, Step, done

LEMMA PsoVerifyCertificateKeeps == ASSUME Inv, PsoVerifyCertificate PROVE Inv'
<1> DEFINE len  == IF setup.mode = "extended" THEN Size ELSE Least(Block, Size - off)
           got  == chip.received + len
           done == IF LastBlock(len) THEN [chip EXCEPT !.received = 0, !.certs = @ + 1]
                                     ELSE [chip EXCEPT !.received = got]
<1>1. /\ pc = "ta_pso" /\ pc \in Terminal /\ chip \in ChipStates
      /\ cert \in 1 .. Len(setup.chain) /\ off \in Nat /\ off < Size /\ setup.chain \in Seq(Nat \ {0})
      /\ OnChannel => chip.certs = cert - 1 /\ chip.received = off
      /\ UNCHANGED <<setup, session, caPub, taDone, challenge, runs, ops, fresh>>
      /\ challenge \in Nat
  BY ChainsAreSequences DEF PsoVerifyCertificate, Terminal, Inv, Typed, Progress, Setups
<1>2. Size \in Nat \ {0} /\ cert \in Nat /\ Len(setup.chain) \in Nat /\ \A k \in 1 .. Len(setup.chain) : setup.chain[k] \in Nat \ {0}
  BY <1>1 DEF Size
<1>3. len \in Nat /\ len > 0 /\ chip.received \in Nat /\ chip.certs \in Nat
  BY <1>1, <1>2, AccessAssumption DEF Least, ChipStates
<1> HIDE DEF len
<1>4. LastBlock(len) <=> off + len >= Size
  BY DEF LastBlock
<1>5. /\ done \in ChipStates /\ done.sm = chip.sm /\ done.peer = chip.peer /\ done.authorized = chip.authorized
      /\ done.idIc = chip.idIc
      /\ LastBlock(len) => done.received = 0 /\ done.certs = chip.certs + 1
      /\ ~LastBlock(len) => done.received = chip.received + len /\ done.certs = chip.certs
  <2>1. got \in Nat /\ chip.certs + 1 \in Nat
    BY <1>3
  <2> QED BY <1>1, <2>1 DEF ChipStates
<1> HIDE DEF done
<1>6. CASE /\ OnChannel /\ (LastBlock(len) => got = Size) /\ chip' = done /\ UNCHANGED lost
           /\ off + len < Size /\ off' = off + len /\ UNCHANGED <<pc, cert>>
  <2>1. off' \in Nat /\ off' < Size /\ cert' \in Nat /\ pc' \in Terminal
    BY <1>1, <1>2, <1>3, <1>6
  <2>2. Typed' /\ InOrder' /\ Matching'
    BY <1>1, <1>5, <1>6, <2>1, OnTheWay DEF SameSession
  <2>3. chip'.certs = cert' - 1 /\ chip'.received = off'
    BY <1>1, <1>2, <1>3, <1>4, <1>5, <1>6
  <2>4. Size' = Size
    BY <1>1, <1>6 DEF Size
  <2>5. Progress'
    BY <1>1, <1>6, <2>1, <2>3, <2>4 DEF Progress
  <2> QED BY <2>2, <2>5 DEF Inv
<1>7. CASE /\ OnChannel /\ (LastBlock(len) => got = Size) /\ chip' = done /\ UNCHANGED lost
           /\ off + len >= Size /\ cert < Len(setup.chain)
           /\ cert' = cert + 1 /\ off' = 0 /\ UNCHANGED pc
  <2>1. off' \in Nat /\ cert' \in Nat /\ pc' \in Terminal /\ cert' \in 1 .. Len(setup.chain)
    BY <1>1, <1>2, <1>7
  <2>2. Typed' /\ InOrder' /\ Matching'
    BY <1>1, <1>5, <1>7, <2>1, OnTheWay DEF SameSession
  <2>3. chip'.certs = cert' - 1 /\ chip'.received = off'
    BY <1>1, <1>2, <1>3, <1>4, <1>5, <1>7
  <2>4. off' < Size'
    BY <1>1, <1>2, <1>7, <2>1 DEF Size
  <2>5. Progress'
    BY <1>1, <1>7, <2>1, <2>3, <2>4 DEF Progress
  <2> QED BY <2>2, <2>5 DEF Inv
<1>8. CASE /\ OnChannel /\ (LastBlock(len) => got = Size) /\ chip' = done /\ UNCHANGED lost
           /\ off + len >= Size /\ cert = Len(setup.chain)
           /\ pc' = "ta_at" /\ UNCHANGED <<cert, off>>
  <2>1. off' \in Nat /\ cert' \in Nat /\ pc' \in Terminal
    BY <1>1, <1>2, <1>8 DEF Terminal
  <2>2. Typed' /\ InOrder' /\ Matching'
    BY <1>1, <1>5, <1>8, <2>1, OnTheWay DEF SameSession
  <2>3. chip'.certs = Len(setup.chain) /\ chip'.received = 0
    BY <1>1, <1>2, <1>3, <1>4, <1>5, <1>8
  <2>4. Progress'
    BY <1>1, <1>8, <2>3 DEF Progress
  <2> QED BY <2>2, <2>4 DEF Inv
<1>9. CASE pc' = "idle" /\ Fails(done) /\ UNCHANGED <<cert, off>>
  BY <1>1, <1>2, <1>5, <1>9, GivesUp
<1> QED BY <1>6, <1>7, <1>8, <1>9 DEF PsoVerifyCertificate, len, done

\* MSE:Set AT and GET CHALLENGE.
LEMMA MseSetAtTaKeeps == ASSUME Inv, MseSetAtTa PROVE Inv'
<1>1. /\ pc = "ta_at" /\ pc \in Terminal /\ chip \in ChipStates
      /\ UNCHANGED <<setup, session, caPub, taDone, challenge, cert, off, runs, ops, fresh>>
      /\ challenge \in Nat /\ cert \in Nat /\ off \in Nat
  BY DEF MseSetAtTa, reader, Terminal, Inv, Typed
<1>2. CASE pc' = "ta_challenge" /\ chip' = chip /\ UNCHANGED lost
  <2>1. Typed' /\ InOrder' /\ Matching'
    BY <1>1, <1>2, OnTheWay DEF SameSession, Terminal
  <2>2. Progress'
    BY <1>2 DEF Progress
  <2> QED BY <2>1, <2>2 DEF Inv
<1>3. CASE pc' = "idle" /\ Fails(chip)
  BY <1>1, <1>3, GivesUp
<1> QED BY <1>2, <1>3 DEF MseSetAtTa, Step

LEMMA GetChallengeKeeps == ASSUME Inv, GetChallenge PROVE Inv'
<1> DEFINE done == [chip EXCEPT !.nonce = fresh + 1]
<1>1. /\ pc = "ta_challenge" /\ pc \in Terminal /\ chip \in ChipStates
      /\ UNCHANGED <<setup, session, caPub, taDone, cert, off, runs, ops>>
      /\ fresh' = fresh + 1 /\ challenge' = fresh + 1 /\ challenge' \in Nat /\ cert \in Nat /\ off \in Nat
  BY DEF GetChallenge, Terminal, Inv, Typed
<1>2. done \in ChipStates /\ done.sm = chip.sm /\ done.peer = chip.peer /\ done.authorized = chip.authorized
      /\ done.idIc = chip.idIc /\ done.nonce = challenge'
  <2>1. fresh + 1 \in Nat
    BY <1>1
  <2> QED BY <1>1, <2>1 DEF ChipStates
<1> HIDE DEF done
<1>3. CASE pc' = "ta_sign" /\ chip' = done /\ UNCHANGED lost
  <2>1. Typed' /\ InOrder' /\ Matching'
    BY <1>1, <1>2, <1>3, OnTheWay DEF SameSession, Terminal
  <2>2. Progress'
    BY <1>2, <1>3 DEF Progress
  <2> QED BY <2>1, <2>2 DEF Inv
<1>4. CASE pc' = "idle" /\ Fails(done)
  BY <1>1, <1>2, <1>4, GivesUp
<1> QED BY <1>3, <1>4 DEF GetChallenge, Step, done

\* The step in which both sides take the terminal to be authorized.
LEMMA ExternalAuthenticateKeeps == ASSUME Inv, ExternalAuthenticate PROVE Inv'
<1> DEFINE done == [chip EXCEPT !.authorized = TRUE]
<1>1. /\ pc = "ta_sign" /\ pc' = "idle" /\ pc \in Terminal /\ pc \notin Early /\ ops # 0 /\ chip \in ChipStates
      /\ UNCHANGED <<setup, session, caPub, challenge, cert, off, runs, ops, fresh>>
      /\ challenge \in Nat /\ cert \in Nat /\ off \in Nat
  BY DEF ExternalAuthenticate, Terminal, Early, NoSessionYet, Inv, Typed, InOrder
<1>2. done \in ChipStates /\ done.sm = chip.sm /\ done.peer = chip.peer /\ done.idIc = chip.idIc /\ done.authorized
  BY <1>1 DEF ChipStates
<1> HIDE DEF done
<1>3. CASE OnChannel /\ chip' = done /\ taDone' = TRUE /\ UNCHANGED lost
  <2>1. Typed'
    BY <1>1, <1>2, <1>3 DEF Inv, Typed
  <2>2. InOrder'
    BY <1>1 DEF Inv, InOrder, Early, BeforePace, NoSessionYet, Terminal
  <2>3. Matching'
    BY <1>1, <1>2, <1>3 DEF Inv, Matching, OnChannel
  <2>4. Progress'
    BY <1>1 DEF Progress
  <2> QED BY <2>1, <2>2, <2>3, <2>4 DEF Inv
<1>4. CASE Fails(IF Signed = Expected THEN done ELSE chip) /\ UNCHANGED taDone
  <2>1. CASE Signed = Expected
    BY <1>1, <1>2, <1>4, <2>1, GivesUp
  <2>2. CASE Signed # Expected
    BY <1>1, <1>4, <2>2, GivesUp
  <2> QED BY <2>1, <2>2
<1> QED BY <1>3, <1>4 DEF ExternalAuthenticate, done

-----------------------------------------------------------------------------
(* The invariant, and the properties it gives.                             *)

LEMMA InvNext == ASSUME Inv, Next PROVE Inv'
<1>1. ASSUME Authenticate \/ Bac \/ SelectMfPlain \/ MseSetAt \/ GeneralAuthenticate
               \/ RestoreEmrtdContext \/ SelectEmrtdSm
      PROVE  Inv'
  BY <1>1, AuthenticateKeeps, BacKeeps, SelectMfPlainKeeps, MseSetAtKeeps, GeneralAuthenticateKeeps,
     RestoreEmrtdContextKeeps, SelectEmrtdSmKeeps
<1>2. ASSUME ChipAuthentication \/ ReadDg14 \/ MseCa \/ GeneralAuthenticateCa
               \/ ActiveAuthentication \/ ReadDg15 \/ InternalAuthenticate \/ InternalAuthenticateSm
      PROVE  Inv'
  BY <1>2, CallsKeep, ReadsAndMseKeep, GeneralAuthenticateCaKeeps, InternalAuthenticateKeeps
<1>3. ASSUME TerminalAuthentication \/ MseSetDst \/ PsoVerifyCertificate \/ MseSetAtTa
               \/ GetChallenge \/ ExternalAuthenticate
      PROVE  Inv'
  BY <1>3, TerminalAuthenticationKeeps, MseSetDstKeeps, PsoVerifyCertificateKeeps, MseSetAtTaKeeps,
     GetChallengeKeeps, ExternalAuthenticateKeeps
<1> QED BY <1>1, <1>2, <1>3 DEF Next

\* For every chip, certificate chain and order of the operations, Inv holds.
THEOREM InvHolds == Spec => []Inv
<1>1. Inv /\ [Next]_vars => Inv'
  BY InvNext, Stutters
<1> QED BY InvInit, <1>1, PTL DEF Spec

\* After an operation the chip has refused a step of, the reader and a chip that
\* tolerates commands in the clear still share their session.
THEOREM UsableAlways == Spec => []ChannelUsable
<1>1. Inv => ChannelUsable
  BY DEF Inv, Matching, ChannelUsable
<1> QED BY InvHolds, <1>1, PTL

\* What terminal_authentication signs is what the chip expects, but for the ID_IC
\* of PACE followed by a 3DES Chip Authentication.
THEOREM SignedFits == Spec => []SignatureFits
<1>1. Inv => SignatureFits
  <2> SUFFICES ASSUME Inv, pc = "ta_sign", OnChannel, ~(session.protocol = "BAC" /\ session.iccX # 0)
      PROVE  Signed = Expected
    BY DEF SignatureFits
  <2>1. challenge = chip.nonce /\ caPub = chip.peer /\ session.iccX = chip.idIc
    BY DEF Inv, InOrder, Matching, Progress, Terminal
  <2>2. session.protocol \in {"BAC", "PACE"}
    BY DEF Inv, Typed, Matching, OnChannel
  <2>3. IdIc = chip.idIc
    BY <2>1, <2>2 DEF IdIc
  <2> QED BY <2>1, <2>3 DEF Signed, Expected
<1> QED BY InvHolds, <1>1, PTL

\* Chains of any length, in blocks of any size: all certificates have arrived when
\* the key of the last one is selected.
THEOREM ChainArrives == Spec => []ChainImported
<1>1. Inv => ChainImported
  BY DEF Inv, Progress, ChainImported
<1> QED BY InvHolds, <1>1, PTL

\* _eac_ta_done speaks true of a chip still on the reader's session.
THEOREM RecordedTruly == Spec => []AuthorizedAsRecorded
<1>1. Inv => AuthorizedAsRecorded
  BY DEF Inv, Matching, AuthorizedAsRecorded
<1> QED BY InvHolds, <1>1, PTL

\* The retries of _run_pace never spend a second try of the password.
THEOREM OneTry == Spec => []OnePasswordTry
<1>1. Inv => OnePasswordTry
  BY DEF Inv, InOrder, OnePasswordTry
<1> QED BY InvHolds, <1>1, PTL

-----------------------------------------------------------------------------
(* The operations keep the stages of an inspection.                        *)

StageStep == [Stages!Next]_<<Granted, Believed>>

\* A step that leaves both sides at their stages, or ends the chip's session.
LEMMA QuietStep ==
  ASSUME UNCHANGED <<session, caPub, taDone>>,
         \/ chip'.sm = chip.sm /\ chip'.authorized = chip.authorized /\ chip'.peer = chip.peer
         \/ chip'.sm = 0
  PROVE  StageStep
<1>1. Believed' = Believed
  BY DEF Believed
<1>2. CASE chip'.sm = chip.sm /\ chip'.authorized = chip.authorized /\ chip'.peer = chip.peer
  <2>1. Granted' = Granted
    BY <1>2 DEF Granted
  <2> QED BY <1>1, <2>1 DEF StageStep
<1>3. CASE chip'.sm = 0
  <2>1. Granted' = 0
    BY <1>3 DEF Granted
  <2> QED BY <1>1, <2>1 DEF StageStep, Stages!Next, Stages!Withdraw
<1> QED BY <1>2, <1>3

\* A step of the reader in the clear is such a step.
LEMMA ClearStep ==
  ASSUME Inv, UNCHANGED <<session, caPub, taDone>>,
         chip' \in {chip, Plain(chip), [chip EXCEPT !.df = "MF"], [chip EXCEPT !.df = "APP"],
                    [chip EXCEPT !.df = "APP", !.sm = 0]}
  PROVE  StageStep
<1>1. chip \in ChipStates
  BY DEF Inv, Typed
<1>2. CASE chip' \in {chip, [chip EXCEPT !.df = "MF"], [chip EXCEPT !.df = "APP"]}
  <2>1. chip'.sm = chip.sm /\ chip'.authorized = chip.authorized /\ chip'.peer = chip.peer
    BY <1>1, <1>2 DEF ChipStates
  <2> QED BY <2>1, QuietStep
<1>3. CASE chip' = [chip EXCEPT !.df = "APP", !.sm = 0]
  <2>1. chip'.sm = 0
    BY <1>1, <1>3 DEF ChipStates
  <2> QED BY <2>1, QuietStep
<1>4. CASE chip' = Plain(chip)
  <2>1. chip' = chip \/ chip'.sm = 0
    BY <1>1, <1>4, AbortedChip DEF Plain
  <2> QED BY <2>1, QuietStep
<1> QED BY <1>2, <1>3, <1>4

\* A protected step that is not about the session, whether it succeeds or fails.
LEMMA ProtectedStep ==
  ASSUME Inv, UNCHANGED <<session, caPub, taDone>>,
         NEW done \in ChipStates, done.sm = chip.sm, done.peer = chip.peer,
         (chip' = done /\ done.authorized = chip.authorized) \/ Fails(done)
  PROVE  StageStep
<1>1. CASE chip' = done /\ done.authorized = chip.authorized
  BY <1>1, QuietStep
<1>2. CASE Fails(done)
  BY <1>2, FailsLeaves, QuietStep DEF Inv
<1> QED BY <1>1, <1>2

\* The session that BAC or PACE sets up is basic access, granted by a chip that had
\* granted no more, to a reader that has it in the same step or not at all.
LEMMA SetUpStep ==
  ASSUME Inv, pc \in Early,
         UNCHANGED <<caPub, taDone>>,
         NEW id \in {0, fresh + 1}, chip' = [chip EXCEPT !.sm = fresh + 1, !.idIc = id],
         UNCHANGED session \/ session'.key = fresh + 1
  PROVE  StageStep
<1>1. chip \in ChipStates /\ fresh \in Nat /\ session.key \in Nat /\ chip.sm \in Nat
      /\ chip.peer = 0 /\ ~chip.authorized /\ ~taDone /\ caPub = 0
  BY DEF Inv, Typed, InOrder, ChipStates
<1>2. chip'.sm = fresh + 1 /\ fresh + 1 \in Nat /\ fresh + 1 # 0 /\ chip'.peer = 0 /\ ~chip'.authorized
  BY <1>1 DEF ChipStates
<1>3. Granted' = 1 /\ Granted \in {0, 1}
  BY <1>1, <1>2 DEF Granted
<1>4. Believed \in {0, 1} /\ Believed' \in {Believed, 1}
  BY <1>1, <1>2 DEF Believed
<1>5. Stages!Grant(1)
  BY <1>3, <1>4 DEF Stages!Grant, Stages!Higher
<1> QED BY <1>5 DEF StageStep, Stages!Next

\* Chip Authentication is granted over basic access or run again later, when it
\* leaves a Terminal Authentication as it is.
LEMMA ChipAuthenticationStep ==
  ASSUME Inv, GeneralAuthenticateCa PROVE StageStep
<1> DEFINE done == [chip EXCEPT !.sm = fresh + 1, !.peer = fresh + 1]
<1>1. /\ fresh \in Nat /\ fresh + 1 \in Nat /\ fresh + 1 # 0 /\ chip \in ChipStates /\ chip.sm \in Nat
      /\ taDone' = taDone /\ taDone \in BOOLEAN /\ chip.authorized \in BOOLEAN
      /\ chip.authorized => taDone
      /\ session.key \in Nat /\ chip.peer \in Nat
  BY DEF GeneralAuthenticateCa, Inv, Typed, Matching, ChipStates
<1>2. done \in ChipStates /\ done.sm = fresh + 1 /\ done.peer = fresh + 1 /\ done.authorized = chip.authorized
  BY <1>1 DEF ChipStates
<1> HIDE DEF done
<1>3. ASSUME OnChannel, chip' = done, \/ session' = Upgraded /\ caPub' = fresh + 1
                                      \/ UNCHANGED <<session, caPub>>
      PROVE  StageStep
  <2>1. Granted = (IF chip.authorized THEN 3 ELSE IF chip.peer = chip.sm THEN 2 ELSE 1)
    BY <1>1, <1>3 DEF OnChannel, Granted
  <2>2. Granted' = (IF chip.authorized THEN 3 ELSE 2)
    BY <1>1, <1>2, <1>3 DEF Granted
  <2>3. CASE chip.authorized
    <3>1. Believed = 3 /\ Believed' = 3 /\ Granted = 3 /\ Granted' = 3
      BY <1>1, <2>1, <2>2, <2>3 DEF Believed
    <3>2. Stages!Grant(3)
      BY <3>1 DEF Stages!Grant, Stages!Higher
    <3> QED BY <3>2 DEF StageStep, Stages!Next
  <2>4. CASE ~chip.authorized
    <3>1. Granted \in {1, 2} /\ Granted' = 2 /\ ~taDone
      BY <1>3, <2>1, <2>2, <2>4 DEF Inv, Matching
    <3>2. Believed \in {0, 1, 2} /\ Believed' \in {Believed, 2}
      BY <1>1, <1>3, <3>1 DEF Believed
    <3>3. Stages!Grant(2)
      BY <3>1, <3>2 DEF Stages!Grant, Stages!Higher
    <3> QED BY <3>3 DEF StageStep, Stages!Next
  <2> QED BY <2>3, <2>4
<1>4. ASSUME Fails(done), UNCHANGED <<session, caPub>> PROVE StageStep
  <2>1. CASE \/ chip'.sm = chip.sm /\ chip'.authorized = chip.authorized /\ chip'.peer = chip.peer
             \/ chip'.sm = 0
    BY <1>1, <1>4, <2>1, QuietStep
  <2>2. CASE OnChannel /\ chip' = done
    BY <1>3, <1>4, <2>2
  <2> QED BY <1>2, <1>4, <2>1, <2>2, FailsLeaves DEF Inv
<1> QED BY <1>3, <1>4 DEF GeneralAuthenticateCa, done

\* Terminal Authentication is granted over Chip Authentication.
LEMMA TerminalAuthenticationStep ==
  ASSUME Inv, ExternalAuthenticate PROVE StageStep
<1> DEFINE done == [chip EXCEPT !.authorized = TRUE]
<1>1. /\ chip \in ChipStates /\ chip.sm \in Nat /\ caPub' = caPub /\ session' = session
      /\ taDone \in BOOLEAN /\ caPub # 0 /\ caPub \in Nat /\ session.key \in Nat /\ chip.authorized \in BOOLEAN
  BY DEF ExternalAuthenticate, Inv, Typed, InOrder, Terminal, ChipStates
<1>2. done \in ChipStates /\ done.sm = chip.sm /\ done.peer = chip.peer /\ done.authorized = TRUE
  BY <1>1 DEF ChipStates
<1> HIDE DEF done
<1>3. CASE OnChannel /\ chip' = done /\ taDone' = TRUE
  <2>1. Granted \in {2, 3}
    BY <1>1, <1>3 DEF Granted, Inv, Matching, OnChannel
  <2>2. Granted' = 3 /\ Believed' = 3 /\ Believed \in {2, 3}
    BY <1>1, <1>2, <1>3 DEF Granted, Believed, OnChannel
  <2>3. Stages!Grant(3)
    BY <2>1, <2>2 DEF Stages!Grant, Stages!Higher
  <2> QED BY <2>3 DEF StageStep, Stages!Next
<1>4. CASE Fails(IF Signed = Expected THEN done ELSE chip) /\ UNCHANGED taDone
  <2>1. CASE Signed = Expected
    BY <1>1, <1>2, <1>4, <2>1, ProtectedStep
  <2>2. CASE Signed # Expected
    BY <1>1, <1>4, <2>2, ProtectedStep
  <2> QED BY <2>1, <2>2
<1> QED BY <1>3, <1>4 DEF ExternalAuthenticate, done

\* Every step is one of an inspection, or of none of its stages.
LEMMA NextIsInspection == ASSUME Inv, [Next]_vars PROVE StageStep
<1>1. chip \in ChipStates
  BY DEF Inv, Typed
<1>2. CASE UNCHANGED vars
  BY <1>2, ClearStep DEF vars, reader
<1>3. ASSUME Authenticate \/ SelectMfPlain \/ MseSetAt \/ RestoreEmrtdContext
               \/ ChipAuthentication \/ ActiveAuthentication \/ TerminalAuthentication \/ InternalAuthenticate
      PROVE  StageStep
  <2> USE DEF reader
  <2>1. CASE Authenticate
    BY <2>1, ClearStep DEF Authenticate
  <2>2. CASE SelectMfPlain
    BY <2>2, ClearStep DEF SelectMfPlain
  <2>3. CASE MseSetAt
    BY <2>3, ClearStep DEF MseSetAt
  <2>4. CASE RestoreEmrtdContext
    BY <2>4, ClearStep DEF RestoreEmrtdContext
  <2>5. CASE ChipAuthentication \/ ActiveAuthentication \/ TerminalAuthentication
    BY <2>5, ClearStep DEF ChipAuthentication, ActiveAuthentication, TerminalAuthentication
  <2>6. CASE InternalAuthenticate
    BY <2>6, ClearStep DEF InternalAuthenticate
  <2> QED BY <1>3, <2>1, <2>2, <2>3, <2>4, <2>5, <2>6
<1>4. CASE Bac
  <2>1. pc \in Early /\ UNCHANGED <<caPub, taDone>>
    BY <1>4 DEF Bac, Raise, reader, Early, NoSessionYet
  <2>2. CASE chip' = [chip EXCEPT !.sm = fresh + 1, !.idIc = 0]
    <3>1. UNCHANGED session \/ session'.key = fresh + 1
      BY <1>4 DEF Bac, Raise, reader, BacSession
    <3> QED BY <2>1, <2>2, <3>1, SetUpStep
  <2>3. CASE chip' = chip /\ UNCHANGED session
    BY <2>1, <2>3, ClearStep
  <2> QED BY <1>4, <2>2, <2>3 DEF Bac, Raise, reader
<1>5. CASE GeneralAuthenticate
  <2>1. pc \in Early /\ UNCHANGED <<caPub, taDone>>
    BY <1>5 DEF GeneralAuthenticate, Early, NoSessionYet
  <2>2. CASE chip' = [chip EXCEPT !.sm = fresh + 1, !.idIc = fresh + 1]
    <3>1. UNCHANGED session \/ session'.key = fresh + 1
      BY <1>5 DEF GeneralAuthenticate
    <3> QED BY <2>1, <2>2, <3>1, SetUpStep
  <2>3. CASE chip' \in {chip, Plain(chip)} /\ UNCHANGED session
    BY <2>1, <2>3, ClearStep
  <2> QED BY <1>5, <2>2, <2>3 DEF GeneralAuthenticate
<1>6. CASE SelectEmrtdSm
  <2> DEFINE done == [chip EXCEPT !.df = "APP"]
  <2>1. done \in ChipStates /\ done.sm = chip.sm /\ done.peer = chip.peer /\ done.authorized = chip.authorized
    BY <1>1 DEF ChipStates
  <2> HIDE DEF done
  <2>2. UNCHANGED <<session, caPub, taDone>> /\ (chip' = done \/ Fails(done))
    BY <1>6 DEF SelectEmrtdSm, reader, done
  <2> QED BY <2>1, <2>2, ProtectedStep
<1>7. ASSUME ReadDg14 \/ MseCa \/ ReadDg15 \/ InternalAuthenticateSm \/ MseSetAtTa PROVE StageStep
  <2>1. UNCHANGED <<session, caPub, taDone>> /\ (chip' = chip \/ Fails(chip))
    BY <1>7 DEF ReadDg14, MseCa, ReadDg15, InternalAuthenticateSm, MseSetAtTa, ReadInApplication, Step, reader
  <2> QED BY <1>1, <2>1, ProtectedStep
<1>8. CASE MseSetDst
  <2> DEFINE done == [chip EXCEPT !.received = 0, !.certs = 0]
  <2>1. done \in ChipStates /\ done.sm = chip.sm /\ done.peer = chip.peer /\ done.authorized = chip.authorized
    BY <1>1 DEF ChipStates
  <2> HIDE DEF done
  <2>2. UNCHANGED <<session, caPub, taDone>> /\ (chip' = done \/ Fails(done))
    BY <1>8 DEF MseSetDst, Step, reader, done
  <2> QED BY <2>1, <2>2, ProtectedStep
<1>9. CASE PsoVerifyCertificate
  <2>1. PICK done : /\ done \in {[chip EXCEPT !.received = 0, !.certs = @ + 1]}
                         \cup {[chip EXCEPT !.received = chip.received + len] : len \in Nat}
                    /\ chip' = done \/ Fails(done)
    <3>1. Size \in Nat /\ off \in Nat /\ off < Size
      BY <1>9, ChainsAreSequences DEF PsoVerifyCertificate, Inv, Typed, Progress, Setups, Size
    <3>2. Size \in Nat /\ Least(Block, Size - off) \in Nat
      BY <3>1, AccessAssumption DEF Least
    <3> QED BY <1>9, <3>2 DEF PsoVerifyCertificate
  <2>2. chip.received \in Nat /\ chip.certs \in Nat
    BY <1>1 DEF ChipStates
  <2>3. done \in ChipStates /\ done.sm = chip.sm /\ done.peer = chip.peer /\ done.authorized = chip.authorized
    <3>1. CASE done = [chip EXCEPT !.received = 0, !.certs = @ + 1]
      <4>1. chip.certs + 1 \in Nat
        BY <2>2
      <4> QED BY <1>1, <3>1, <4>1 DEF ChipStates
    <3>2. ASSUME NEW len \in Nat, done = [chip EXCEPT !.received = chip.received + len]
          PROVE  done \in ChipStates /\ done.sm = chip.sm /\ done.peer = chip.peer /\ done.authorized = chip.authorized
      <4>1. chip.received + len \in Nat
        BY <2>2
      <4> QED BY <1>1, <3>2, <4>1 DEF ChipStates
    <3> QED BY <2>1, <3>1, <3>2
  <2>4. UNCHANGED <<session, caPub, taDone>>
    BY <1>9 DEF PsoVerifyCertificate
  <2> QED BY <2>1, <2>3, <2>4, ProtectedStep
<1>10. CASE GetChallenge
  <2> DEFINE done == [chip EXCEPT !.nonce = fresh + 1]
  <2>1. fresh + 1 \in Nat
    BY DEF Inv, Typed
  <2>2. done \in ChipStates /\ done.sm = chip.sm /\ done.peer = chip.peer /\ done.authorized = chip.authorized
    BY <1>1, <2>1 DEF ChipStates
  <2> HIDE DEF done
  <2>3. UNCHANGED <<session, caPub, taDone>> /\ (chip' = done \/ Fails(done))
    BY <1>10 DEF GetChallenge, Step, done
  <2> QED BY <2>2, <2>3, ProtectedStep
<1> QED BY <1>2, <1>3, <1>4, <1>5, <1>6, <1>7, <1>8, <1>9, <1>10,
           ChipAuthenticationStep, TerminalAuthenticationStep DEF Next

\* BAC, PACE, Chip and Terminal Authentication, with all their refusals, losses and
\* repetitions, implement an inspection: the reader acts on no access the chip has
\* not granted it in the same step.
THEOREM InspectionKept == Spec => StagesInOrder
<1>1. Init => Stages!Init
  BY DEF Init, NoSession, Stages!Init, Granted, Believed
<1>2. Inv /\ [Next]_vars => [Stages!Next]_<<Granted, Believed>>
  BY NextIsInspection DEF StageStep
<1> QED BY <1>1, <1>2, InvHolds, PTL DEF Spec, StagesInOrder, Stages!Spec
=============================================================================
