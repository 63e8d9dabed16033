------------------------------ MODULE ReadAll ------------------------------
(***************************************************************************)
(* EPassportReader.read_all: the files of the document, read one after the *)
(* other over secure messaging, each by read_ef (whose READ BINARY loop is *)
(* module ReadEf and one step here).  The chip resolves a file identifier  *)
(* in its current dedicated file: EF.SOD and EF.CardSecurity share one,    *)
(* and EF.CVCA and EF.CardAccess another.                                  *)
(*                                                                         *)
(* Of the channel only whether the counters are in step is kept.  Module   *)
(* SecureMessaging shows what is used here: a lost exchange puts them out  *)
(* of step, and from then on the chip refuses all it is sent.              *)
(***************************************************************************)
EXTENDS Naturals, Sequences

CONSTANTS
  DataGroups,     \* the data groups EF.COM lists, in its order
  Chips,          \* chips to read: files present; variants (1, 2) of the SELECTs of
                  \* _select_mf and _restore_lds1_context they accept; does the chip
                  \* hand out EF.SOD for an EF.CardSecurity it lacks
  MaxFaults       \* bound: exchanges the link loses

Nothing == "nothing"
Fixed == {"COM", "SOD", "CardSecurity", "CVCA", "CardAccess"}
DgNames == {DataGroups[i] : i \in 1 .. Len(DataGroups)}
Files == Fixed \cup DgNames

\* EF.COM lists each group once, and nothing here goes by another's name.
ASSUME FilesAssumption ==
  /\ DataGroups \in Seq(STRING)
  /\ \A i, j \in 1 .. Len(DataGroups) : DataGroups[i] = DataGroups[j] => i = j
  /\ DgNames \cap (Fixed \cup {Nothing, "011C", "011D"}) = {}
  /\ Chips \subseteq [present: SUBSET Files, mf: SUBSET {1, 2}, aid: SUBSET {1, 2},
                      sodForMissing: BOOLEAN]
  /\ MaxFaults \in Nat

VARIABLES
  chip,    \* the chip on the reader
  todo,    \* files read_all has yet to ask for
  phase,   \* of the current read_ef: idle, mf, select, read, restore
  try,     \* variant of the SELECT being tried
  got,     \* content obtained for the current file, or Nothing
  raw,     \* raw[f]: the file whose content the reader keeps as f, or Nothing
  errors,  \* files recorded as failed
  df,      \* the chip's current dedicated file
  ef,      \* the chip's current elementary file
  inStep,  \* are the two counters in step
  faults

vars == <<chip, todo, phase, try, got, raw, errors, df, ef, inStep, faults>>

Current == Head(todo)

\* The file identifier; the data groups' are their own.
Fid(f) == CASE f \in {"SOD", "CardSecurity"} -> "011D"
            [] f \in {"CVCA", "CardAccess"}  -> "011C"
            [] OTHER -> f
Home(f) == IF f \in {"CardSecurity", "CardAccess"} THEN "MF" ELSE "LDS1"

\* What SELECT EF finds for an identifier under a dedicated file.
Found(dir, fid) ==
  LET here == {f \in chip.present : Fid(f) = fid /\ Home(f) = dir}
  IN  IF here = {} /\ chip.sodForMissing /\ dir = "MF" THEN {f \in chip.present : Fid(f) = fid} ELSE here

Init ==
  /\ chip \in Chips
  /\ todo = <<"COM">>
  /\ phase = "idle" /\ try = 1 /\ got = Nothing
  /\ raw = [f \in Files |-> Nothing] /\ errors = {}
  /\ df = "LDS1" /\ ef = Nothing
  /\ inStep = TRUE /\ faults = 0

-----------------------------------------------------------------------------
\* One protected exchange.  The chip, if it accepts the command, moves to the
\* files given; the caller sees "ok", an error "status", or card.send or
\* unwrap_response "raised".
Exchange(accepts, newDf, newEf, seen) ==
  \/ /\ inStep
     /\ seen = IF accepts THEN "ok" ELSE "status"
     /\ df' = IF accepts THEN newDf ELSE df
     /\ ef' = IF accepts THEN newEf ELSE ef
     /\ UNCHANGED <<inStep, faults>>
  \/ /\ inStep /\ faults < MaxFaults
     /\ faults' = faults + 1 /\ inStep' = FALSE
     /\ seen \in {"status", "raised"}
     /\ \/ UNCHANGED <<df, ef>>
        \/ accepts /\ df' = newDf /\ ef' = newEf
  \/ /\ ~inStep
     /\ seen \in {"status", "raised"}
     /\ UNCHANGED <<df, ef, inStep, faults>>

\* read_ef begins; read_card_security is read_ef with mf=True.
Begin ==
  /\ phase = "idle" /\ todo # <<>>
  /\ phase' = IF Home(Current) = "MF" THEN "mf" ELSE "select"
  /\ try' = 1 /\ got' = Nothing
  /\ UNCHANGED <<chip, todo, raw, errors, df, ef, inStep, faults>>

\* Mutant of SelectMf: the second variant is only tried after an exception.
SelectMfOnce ==
  /\ phase = "mf"
  /\ \E seen \in {"ok", "status", "raised"} :
       /\ Exchange(try \in chip.mf, "MF", Nothing, seen)
       /\ phase' = CASE seen = "ok" -> "select"
                     [] seen = "raised" /\ try = 1 -> "mf"
                     [] OTHER -> "record"
       /\ try' = IF seen = "raised" /\ try = 1 THEN 2 ELSE 1
  /\ UNCHANGED <<chip, todo, got, raw, errors>>

\* _select_mf, outside read_ef's try: when it fails nothing is restored.
SelectMf ==
  /\ phase = "mf"
  /\ \E seen \in {"ok", "status", "raised"} :
       /\ Exchange(try \in chip.mf, "MF", Nothing, seen)
       /\ phase' = CASE seen = "ok" -> "select"
                     [] seen = "status" /\ try = 1 -> "mf"
                     [] OTHER -> "record"
       /\ try' = IF seen = "status" /\ try = 1 THEN 2 ELSE 1
  /\ UNCHANGED <<chip, todo, got, raw, errors>>

\* Mutant of AfterRead: the try of the finally clause begins after SELECT EF.
AfterReadLate == IF Home(Current) = "MF" /\ phase = "read" THEN "restore" ELSE "record"

\* The finally clause of read_ef.
AfterRead == IF Home(Current) = "MF" THEN "restore" ELSE "record"


\* SELECT EF by file identifier in the current dedicated file.
SelectEf ==
  /\ phase = "select"
  /\ \E seen \in {"ok", "status", "raised"} :
       LET found == Found(df, Fid(Current))
       IN  /\ Exchange(found # {}, df, IF found = {} THEN Nothing ELSE CHOOSE f \in found : TRUE, seen)
           /\ phase' = IF seen = "ok" THEN "read" ELSE AfterRead
  /\ UNCHANGED <<chip, todo, try, got, raw, errors>>

\* The READ BINARY loop; read_card_security refuses what starts like EF.SOD.
ReadBinary ==
  /\ phase = "read"
  /\ \E seen \in {"ok", "status", "raised"} :
       /\ Exchange(TRUE, df, ef, seen)
       /\ got' = IF seen = "ok" /\ ~(Current = "CardSecurity" /\ ef = "SOD") THEN ef ELSE Nothing
       /\ phase' = AfterRead
  /\ UNCHANGED <<chip, todo, try, raw, errors>>

\* Mutant of RestoreLds1: the restore is tried until it succeeds.
RestoreLds1Always ==
  /\ phase = "restore"
  /\ \E seen \in {"ok", "status", "raised"} :
       /\ Exchange(try \in chip.aid, "LDS1", Nothing, seen)
       /\ phase' = IF seen = "ok" THEN "record" ELSE "restore"
       /\ try' = IF seen = "ok" \/ try = 2 THEN 1 ELSE 2
  /\ UNCHANGED <<chip, todo, got, raw, errors>>

\* _restore_lds1_context: two variants, failures of any kind only logged.
RestoreLds1 ==
  /\ phase = "restore"
  /\ \E seen \in {"ok", "status", "raised"} :
       /\ Exchange(try \in chip.aid, "LDS1", Nothing, seen)
       /\ phase' = IF seen = "ok" \/ try = 2 THEN "record" ELSE "restore"
       /\ try' = IF seen = "ok" \/ try = 2 THEN 1 ELSE 2
  /\ UNCHANGED <<chip, todo, got, raw, errors>>

\* What read_all goes on to once EF.COM is in: the groups it lists, if any.
Following(parsed) ==
  IF Current = "COM"
  THEN (IF parsed THEN DataGroups ELSE <<>>) \o <<"SOD", "CardSecurity", "CVCA">>
  ELSE Tail(todo)

\* Can the try block of this file still raise with the content at hand?  EF.COM,
\* EF.SOD, EF.CardSecurity and EF.CVCA are parsed in it, data groups later.
MayFailToParse == Current \in Fixed

\* Mutant of Record: a failure of EF.COM ends read_all.
RecordGivesUp ==
  /\ phase = "record"
  /\ raw' = [raw EXCEPT ![Current] = got]
  /\ \E parsed \in {got # Nothing, got # Nothing /\ ~MayFailToParse} :
       /\ errors' = IF parsed THEN errors ELSE errors \cup {Current}
       /\ todo' = IF ~parsed /\ Current = "COM" THEN <<>> ELSE Following(parsed)
  /\ phase' = "idle"
  /\ UNCHANGED <<chip, try, got, df, ef, inStep, faults>>

\* Back in read_all: the content is kept, then parsed; an exception of either
\* step is recorded.
Record ==
  /\ phase = "record"
  /\ raw' = [raw EXCEPT ![Current] = got]
  /\ \E parsed \in {got # Nothing, got # Nothing /\ ~MayFailToParse} :
       /\ errors' = IF parsed THEN errors ELSE errors \cup {Current}
       /\ todo' = Following(parsed)
  /\ phase' = "idle"
  /\ UNCHANGED <<chip, try, got, df, ef, inStep, faults>>

Next == Begin \/ SelectMf \/ SelectEf \/ ReadBinary \/ RestoreLds1 \/ Record

\* read_all is straight-line code on one thread.
Spec == Init /\ [][Next]_vars /\ WF_vars(Next)

-----------------------------------------------------------------------------
Done == phase = "idle" /\ todo = <<>>

\* The files read_all sets out to read, given what EF.COM said.
Asked == {"COM", "SOD", "CardSecurity", "CVCA"} \cup (IF "COM" \in errors THEN {} ELSE DgNames)

\* The values the variables range over.
TypeOK ==
  /\ chip \in Chips
  /\ todo \in Seq(Files) /\ errors \subseteq Files
  /\ phase \in {"idle", "mf", "select", "read", "restore", "record"} /\ try \in {1, 2}
  /\ got \in Files \cup {Nothing} /\ ef \in Files \cup {Nothing}
  /\ raw \in [Files -> Files \cup {Nothing}]
  /\ df \in {"MF", "LDS1"} /\ inStep \in BOOLEAN /\ faults \in 0 .. MaxFaults

\* What the reader keeps under a file's name is that file, although two pairs of
\* files share an identifier and any exchange may fail on the way there or back.
RightFile == \A f \in Files : raw[f] \in {f, Nothing}

\* Nothing goes missing silently: each file asked for ends kept or reported.
AllAccounted == Done => \A f \in Asked : raw[f] = f \/ f \in errors

\* Without a lost exchange every file the chip has is read, whichever variants of
\* the SELECTs it accepts, in spite of the files it does not have.
FullRead == Done /\ inStep => \A f \in Asked \cap chip.present : raw[f] = f

\* read_all comes to an end whatever fails.
Terminates == <>Done
=============================================================================
