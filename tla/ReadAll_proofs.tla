--------------------------- MODULE ReadAll_proofs ---------------------------
(***************************************************************************)
(* Whatever set of files a chip holds and whichever exchanges are lost,    *)
(* read_all keeps under each name the file of that name, and reports every *)
(* file it asked for and could not keep.                                   *)
(***************************************************************************)
EXTENDS ReadAll, SequenceTheorems, TLAPS

\* Every chip can be brought back to the application one way or the other.
Restorable == \A c \in Chips : c.aid # {}

\* Files read_all asks for; EF.CardAccess is read before, in the clear.
Readable == Files \ {"CardAccess"}

Typed ==
  /\ chip \in Chips
  /\ todo \in Seq(Readable) /\ errors \subseteq Files
  /\ phase \in {"idle", "mf", "select", "read", "restore", "record"} /\ try \in {1, 2}
  /\ got \in Files \cup {Nothing}
  /\ raw \in [Files -> Files \cup {Nothing}]
  /\ inStep \in BOOLEAN
  /\ phase # "idle" => todo # <<>>

\* Where the chip stands in each phase of read_ef, as long as the counters are
\* in step: this is what lets the next file's identifier find that file.
Stands ==
  /\ phase \in {"idle", "mf", "record"} => df = "LDS1"
  /\ phase \in {"select", "read"} => df = Home(Current)
  /\ phase = "read" => ef = Current \/ (Current = "CardSecurity" /\ ef = "SOD")
  /\ phase = "restore" /\ try = 2 => 1 \notin chip.aid

\* The inductive invariant.
Located ==
  /\ Typed
  /\ RightFile
  /\ phase \in {"restore", "record"} => got \in {Current, Nothing}
  /\ phase \in {"mf", "restore"} => Home(Current) = "MF"
  /\ phase \in {"select", "read"} => try = 1 /\ got = Nothing
  /\ phase = "mf" => got = Nothing
  /\ inStep => Stands

\* What an exchange leaves behind, by what its caller saw of it.
LEMMA ExchangeOutcome ==
  ASSUME inStep \in BOOLEAN, NEW accepts \in BOOLEAN, NEW newDf, NEW newEf,
         NEW seen \in {"ok", "status", "raised"}, Exchange(accepts, newDf, newEf, seen)
  PROVE  /\ inStep' \in BOOLEAN /\ (inStep' => inStep)
         /\ seen = "ok" => accepts /\ df' = newDf /\ ef' = newEf
         /\ inStep' /\ seen # "ok" => ~accepts /\ df' = df /\ ef' = ef
PROOF
  <1>1. CASE /\ inStep
             /\ seen = IF accepts THEN "ok" ELSE "status"
             /\ df' = IF accepts THEN newDf ELSE df
             /\ ef' = IF accepts THEN newEf ELSE ef
             /\ UNCHANGED <<inStep, faults>>
    BY <1>1
  <1>2. CASE inStep' = FALSE /\ seen \in {"status", "raised"} /\ inStep
    BY <1>2
  <1>3. CASE ~inStep /\ seen \in {"status", "raised"} /\ UNCHANGED <<df, ef, inStep, faults>>
    BY <1>3
  <1> QED BY <1>1, <1>2, <1>3 DEF Exchange

\* In the right dedicated file an identifier finds the file that is wanted, or
\* EF.SOD in the place of a missing EF.CardSecurity.
LEMMA FindsIt ==
  ASSUME FilesAssumption, chip \in Chips, NEW f \in Readable,
         NEW g \in Found(Home(f), Fid(f))
  PROVE  g = f \/ (f = "CardSecurity" /\ g = "SOD")
PROOF
  <1>1. chip.present \subseteq Files
    BY DEF FilesAssumption
  <1>2. g \in Files /\ Fid(g) = Fid(f)
    BY <1>1 DEF Found
  <1>3. \A h \in DgNames : h \notin Fixed /\ h # "011C" /\ h # "011D"
    BY DEF FilesAssumption
  <1>4. CASE f \in {"SOD", "CVCA"}
    <2>1. Home(f) = "LDS1" /\ Home(g) = "LDS1"
      BY <1>4 DEF Found, Home
    <2> QED BY <1>2, <1>3, <1>4, <2>1 DEF Fid, Home, Files, Fixed
  <1>5. CASE f = "CardSecurity"
    BY <1>2, <1>3, <1>5 DEF Fid, Files, Fixed
  <1>6. CASE f \notin {"SOD", "CVCA", "CardSecurity"}
    BY <1>2, <1>3, <1>6 DEF Fid, Files, Fixed, Readable
  <1> QED BY <1>4, <1>5, <1>6

\* read_all never asks for EF.CardAccess.
LEMMA AsksReadable ==
  ASSUME FilesAssumption
  PROVE  /\ DataGroups \in Seq(Readable)
         /\ <<"COM">> \in Seq(Readable)
         /\ <<"SOD", "CardSecurity", "CVCA">> \in Seq(Readable)
         /\ Nothing \notin Files
PROOF
  <1>1. \A h \in DgNames : h \notin Fixed /\ h # Nothing
    BY DEF FilesAssumption
  <1>2. DataGroups \in Seq(DgNames)
    BY DEF FilesAssumption, DgNames
  <1>3. DgNames \subseteq Readable
    BY <1>1 DEF Readable, Files, Fixed
  <1>4. Nothing \notin Files
    BY <1>1 DEF Files, Fixed, Nothing
  <1> QED BY <1>2, <1>3, <1>4 DEF Readable, Files, Fixed

LEMMA LocatedInit == FilesAssumption /\ Init => Located
  BY AsksReadable DEF Init, Located, Typed, RightFile, Stands, Files

LEMMA LocatedNext ==
  ASSUME FilesAssumption, Restorable, Located, [Next]_vars
  PROVE  Located'
PROOF
  <1> USE DEF Located, Typed
  <1>0. todo # <<>> => Current \in Readable /\ Current \in Files
    BY DEF Current, Readable
  <1>1. CASE Begin
    <2>1. Current' = Current /\ RightFile'
      BY <1>1 DEF Begin, Current, RightFile
    <2>2. Home(Current) \in {"MF", "LDS1"}
      BY DEF Home
    <2>3. inStep => Stands'
      BY <1>1, <2>1, <2>2 DEF Begin, Stands
    <2> QED BY <1>1, <2>1, <2>2, <2>3 DEF Begin
  <1>2. CASE SelectMf
    <2>1. PICK seen \in {"ok", "status", "raised"} :
            /\ Exchange(try \in chip.mf, "MF", Nothing, seen)
            /\ phase' = CASE seen = "ok" -> "select"
                          [] seen = "status" /\ try = 1 -> "mf"
                          [] OTHER -> "record"
            /\ try' = IF seen = "status" /\ try = 1 THEN 2 ELSE 1
      BY <1>2 DEF SelectMf
    <2>2. /\ inStep' \in BOOLEAN /\ (inStep' => inStep)
          /\ seen = "ok" => df' = "MF"
          /\ inStep' /\ seen # "ok" => df' = df
      <3> DEFINE accepts == try \in chip.mf
      <3>1. accepts \in BOOLEAN /\ Exchange(accepts, "MF", Nothing, seen)
        BY <2>1
      <3> HIDE DEF accepts
      <3> QED BY <3>1, ExchangeOutcome
    <2>3. /\ UNCHANGED <<chip, todo, got, raw, errors>> /\ phase = "mf"
          /\ Current' = Current /\ RightFile'
      BY <1>2 DEF SelectMf, Current, RightFile
    <2>4. inStep' => Stands'
      BY <2>1, <2>2, <2>3 DEF Stands
    <2> QED BY <2>1, <2>2, <2>3, <2>4
  <1>3. CASE SelectEf
    <2> DEFINE found == Found(df, Fid(Current))
    <2>1. PICK seen \in {"ok", "status", "raised"} :
            /\ Exchange(found # {}, df, IF found = {} THEN Nothing ELSE CHOOSE f \in found : TRUE, seen)
            /\ phase' = IF seen = "ok" THEN "read" ELSE AfterRead
      BY <1>3 DEF SelectEf
    <2>2. /\ inStep' \in BOOLEAN /\ (inStep' => inStep)
          /\ seen = "ok" => found # {} /\ df' = df /\ ef' \in found
          /\ inStep' /\ seen # "ok" => df' = df
      <3> DEFINE accepts == found # {}
      <3>1. /\ accepts \in BOOLEAN
            /\ Exchange(accepts, df, IF found = {} THEN Nothing ELSE CHOOSE f \in found : TRUE, seen)
        BY <2>1
      <3>2. /\ inStep' \in BOOLEAN /\ (inStep' => inStep)
            /\ seen = "ok" => accepts /\ df' = df
                   /\ ef' = IF found = {} THEN Nothing ELSE CHOOSE f \in found : TRUE
            /\ inStep' /\ seen # "ok" => df' = df
        <4> HIDE DEF accepts, found
        <4> QED BY <3>1, ExchangeOutcome
      <3> HIDE DEF found
      <3> QED BY <3>2
    <2>3. /\ UNCHANGED <<chip, todo, try, got, raw, errors>> /\ phase = "select"
          /\ Current' = Current /\ RightFile'
      BY <1>3 DEF SelectEf, Current, RightFile
    <2>4. inStep => df = Home(Current)
      BY <2>3 DEF Stands
    <2>5. inStep' => Stands'
      <3>1. CASE seen = "ok"
        <4>1. inStep => ef' = Current \/ (Current = "CardSecurity" /\ ef' = "SOD")
          BY <1>0, <2>2, <2>3, <2>4, <3>1, FindsIt
        <4> QED BY <2>1, <2>2, <2>3, <2>4, <3>1, <4>1 DEF Stands
      <3>2. CASE seen # "ok"
        BY <2>1, <2>2, <2>3, <2>4, <3>2 DEF Stands, AfterRead, Home
      <3> QED BY <3>1, <3>2
    <2> HIDE DEF found
    <2> QED BY <2>1, <2>2, <2>3, <2>5 DEF AfterRead
  <1>4. CASE ReadBinary
    <2>1. PICK seen \in {"ok", "status", "raised"} :
            /\ Exchange(TRUE, df, ef, seen)
            /\ got' = IF seen = "ok" /\ ~(Current = "CardSecurity" /\ ef = "SOD") THEN ef ELSE Nothing
            /\ phase' = AfterRead
      BY <1>4 DEF ReadBinary
    <2>2. /\ inStep' \in BOOLEAN /\ (inStep' => inStep) /\ (seen = "ok" => inStep)
          /\ (inStep' => df' = df)
      BY <2>1, ExchangeOutcome DEF Exchange
    <2>3. /\ UNCHANGED <<chip, todo, try, raw, errors>> /\ phase = "read"
          /\ Current' = Current /\ RightFile'
      BY <1>4 DEF ReadBinary, Current, RightFile
    <2>4. got' \in {Current, Nothing}
      BY <2>1, <2>2, <2>3 DEF Stands
    <2>5. inStep' => Stands'
      BY <2>1, <2>2, <2>3 DEF Stands, AfterRead, Home
    <2> QED BY <1>0, <2>1, <2>2, <2>3, <2>4, <2>5 DEF AfterRead
  <1>5. CASE RestoreLds1
    <2>1. PICK seen \in {"ok", "status", "raised"} :
            /\ Exchange(try \in chip.aid, "LDS1", Nothing, seen)
            /\ phase' = IF seen = "ok" \/ try = 2 THEN "record" ELSE "restore"
            /\ try' = IF seen = "ok" \/ try = 2 THEN 1 ELSE 2
      BY <1>5 DEF RestoreLds1
    <2>2. /\ inStep' \in BOOLEAN /\ (inStep' => inStep)
          /\ seen = "ok" => df' = "LDS1"
          /\ inStep' /\ seen # "ok" => try \notin chip.aid /\ df' = df
      <3> DEFINE accepts == try \in chip.aid
      <3>1. accepts \in BOOLEAN /\ Exchange(accepts, "LDS1", Nothing, seen)
        BY <2>1
      <3>2. /\ inStep' \in BOOLEAN /\ (inStep' => inStep)
            /\ seen = "ok" => df' = "LDS1"
            /\ inStep' /\ seen # "ok" => ~accepts /\ df' = df
        <4> HIDE DEF accepts
        <4> QED BY <3>1, ExchangeOutcome
      <3> QED BY <3>2
    <2>3. /\ UNCHANGED <<chip, todo, got, raw, errors>> /\ phase = "restore"
          /\ Current' = Current /\ RightFile'
      BY <1>5 DEF RestoreLds1, Current, RightFile
    <2>4. chip.aid \subseteq {1, 2} /\ chip.aid # {}
      BY DEF Restorable, FilesAssumption
    <2>5. inStep' => Stands'
      BY <2>1, <2>2, <2>3, <2>4 DEF Stands
    <2> QED BY <2>1, <2>2, <2>3, <2>5
  <1>6. CASE Record
    <2>1. PICK parsed \in {got # Nothing, got # Nothing /\ ~MayFailToParse} :
            /\ errors' = IF parsed THEN errors ELSE errors \cup {Current}
            /\ todo' = Following(parsed)
      BY <1>6 DEF Record
    <2>2. /\ raw' = [raw EXCEPT ![Current] = got] /\ phase' = "idle" /\ phase = "record"
          /\ UNCHANGED <<chip, try, got, df, ef, inStep, faults>>
      BY <1>6 DEF Record
    <2>3. RightFile'
      BY <1>0, <2>2 DEF RightFile
    <2>4. todo' \in Seq(Readable)
      BY <2>1, <2>2, AsksReadable DEF Following
    <2>5. errors' \subseteq Files /\ raw' \in [Files -> Files \cup {Nothing}]
      BY <1>0, <2>1, <2>2
    <2>6. inStep' => Stands'
      BY <2>2 DEF Stands
    <2> QED BY <2>2, <2>3, <2>4, <2>5, <2>6
  <1>7. CASE UNCHANGED vars
    BY <1>7 DEF vars, RightFile, Stands, Current
  <1> QED BY <1>1, <1>2, <1>3, <1>4, <1>5, <1>6, <1>7 DEF Next

\* For every chip with a way back to the application, every list of groups and
\* every loss: a name the reader fills is filled with that file.
THEOREM RightFileAlways ==
  ASSUME Restorable
  PROVE  Spec => []RightFile
PROOF
  <1>1. Init => Located
    BY LocatedInit, FilesAssumption
  <1>2. Located /\ [Next]_vars => Located'
    BY LocatedNext, FilesAssumption
  <1>3. Located => RightFile
    BY DEF Located
  <1> QED BY <1>1, <1>2, <1>3, PTL DEF Spec

-----------------------------------------------------------------------------
\* The files read_all has set out to read are kept, reported or yet to come.
Among(f, s) == \E i \in 1 .. Len(s) : s[i] = f
ToCome(f) == Among(f, todo)
Accounted ==
  \/ todo = <<"COM">> /\ errors = {}
  \/ /\ ~ToCome("COM")
     /\ \A f \in Asked : raw[f] # Nothing \/ f \in errors \/ ToCome(f)

\* Going on to the next file leaves out none but the current one.
LEMMA NextFile ==
  ASSUME Typed, FilesAssumption, todo # <<>>, Current # "COM", NEW parsed, todo' = Following(parsed)
  PROVE  \A f : ToCome(f) => f = Current \/ ToCome(f)'
PROOF
  <1>1. todo' = Tail(todo)
    BY DEF Following
  <1>2. SUFFICES ASSUME NEW f, NEW i \in 1 .. Len(todo), todo[i] = f, f # Current
                 PROVE  ToCome(f)'
    BY DEF ToCome, Among
  <1>3. i # 1
    BY <1>2 DEF Current, Typed
  <1>4. i - 1 \in 1 .. Len(todo') /\ todo'[i - 1] = f
    BY <1>1, <1>2, <1>3 DEF Typed
  <1> QED BY <1>4 DEF ToCome, Among

LEMMA NoOtherFile ==
  ASSUME Typed, todo # <<>>, todo' = Tail(todo), NEW f, ToCome(f)'
  PROVE  ToCome(f)
PROOF
  <1>1. PICK i \in 1 .. Len(todo') : todo'[i] = f
    BY DEF ToCome, Among
  <1>2. i + 1 \in 1 .. Len(todo) /\ todo[i + 1] = f
    BY <1>1 DEF Typed
  <1> QED BY <1>2 DEF ToCome, Among

\* The elements of two sequences put together.
LEMMA Joined ==
  ASSUME NEW S, NEW a \in Seq(S), NEW b \in Seq(S), NEW f
  PROVE  Among(f, a \o b) <=> Among(f, a) \/ Among(f, b)
PROOF
  <1>1. /\ Len(a) \in Nat /\ Len(b) \in Nat /\ Len(a \o b) = Len(a) + Len(b)
        /\ \A i \in 1 .. Len(a) + Len(b) :
             (a \o b)[i] = IF i <= Len(a) THEN a[i] ELSE b[i - Len(a)]
    BY ConcatProperties
  <1>2. ASSUME NEW i \in 1 .. Len(a \o b), (a \o b)[i] = f
        PROVE  (\E j \in 1 .. Len(a) : a[j] = f) \/ (\E j \in 1 .. Len(b) : b[j] = f)
    <2>1. CASE i <= Len(a)
      BY <1>1, <1>2, <2>1
    <2>2. CASE i > Len(a)
      <3>1. i - Len(a) \in 1 .. Len(b) /\ b[i - Len(a)] = f
        BY <1>1, <1>2, <2>2
      <3> QED BY <3>1
    <2> QED BY <1>1, <2>1, <2>2
  <1>3. ASSUME NEW i \in 1 .. Len(a), a[i] = f
        PROVE  i \in 1 .. Len(a \o b) /\ (a \o b)[i] = f
    BY <1>1, <1>3
  <1>4. ASSUME NEW i \in 1 .. Len(b), b[i] = f
        PROVE  Len(a) + i \in 1 .. Len(a \o b) /\ (a \o b)[Len(a) + i] = f
    <2>1. Len(a) + i \in 1 .. Len(a) + Len(b) /\ ~(Len(a) + i <= Len(a)) /\ (Len(a) + i) - Len(a) = i
      BY <1>1
    <2> QED BY <1>1, <1>4, <2>1
  <1> QED BY <1>2, <1>3, <1>4 DEF Among

\* What EF.COM brings in: every group it lists and the three files after them.
LEMMA FirstFiles ==
  ASSUME FilesAssumption, todo = <<"COM">>, NEW parsed \in BOOLEAN, todo' = Following(parsed)
  PROVE  /\ \A f \in {"SOD", "CardSecurity", "CVCA"} : ToCome(f)'
         /\ parsed => \A f \in DgNames : ToCome(f)'
         /\ ~ToCome("COM")'
PROOF
  <1> DEFINE rest == <<"SOD", "CardSecurity", "CVCA">>
             groups == IF parsed THEN DataGroups ELSE <<>>
  <1>1. todo' = groups \o rest
    BY DEF Following, Current
  <1>2. groups \in Seq(Readable) /\ rest \in Seq(Readable)
    BY AsksReadable
  <1>3. \A f : ToCome(f)' <=> Among(f, groups) \/ Among(f, rest)
    <2> HIDE DEF groups, rest
    <2> QED BY <1>1, <1>2, Joined DEF ToCome
  <1>4. \A f : Among(f, rest) <=> f \in {"SOD", "CardSecurity", "CVCA"}
    <2>1. Len(rest) = 3 /\ rest[1] = "SOD" /\ rest[2] = "CardSecurity" /\ rest[3] = "CVCA"
      OBVIOUS
    <2> HIDE DEF rest
    <2> QED BY <2>1 DEF Among
  <1>5. \A f : Among(f, groups) <=> parsed /\ f \in DgNames
    BY DEF DgNames, Among
  <1>6. "COM" \notin DgNames
    BY DEF FilesAssumption, Fixed
  <1> HIDE DEF groups, rest
  <1> QED BY <1>3, <1>4, <1>5, <1>6

LEMMA AccountedNext ==
  ASSUME FilesAssumption, Located, Accounted, [Next]_vars
  PROVE  Accounted'
PROOF
  <1> USE DEF Typed
  <1>0. Typed
    BY DEF Located
  <1>1. CASE Record
    <2>1. PICK parsed \in {got # Nothing, got # Nothing /\ ~MayFailToParse} :
            /\ errors' = IF parsed THEN errors ELSE errors \cup {Current}
            /\ todo' = Following(parsed)
      BY <1>1 DEF Record
    <2>2. /\ raw' = [raw EXCEPT ![Current] = got]
          /\ todo # <<>> /\ Current \in Files /\ raw \in [Files -> Files \cup {Nothing}]
          /\ parsed \in BOOLEAN /\ (parsed => got # Nothing)
      <3>1. raw' = [raw EXCEPT ![Current] = got] /\ phase = "record"
        BY <1>1 DEF Record
      <3>2. todo # <<>> /\ Current \in Files
        BY <1>0, <3>1 DEF Current, Readable
      <3>3. (got # Nothing) \in BOOLEAN /\ (got # Nothing /\ ~MayFailToParse) \in BOOLEAN
        OBVIOUS
      <3>4. parsed \in BOOLEAN /\ (parsed => got # Nothing)
        BY <2>1, <3>3, Zenon
      <3> QED BY <1>0, <3>1, <3>2, <3>4
    <2>3. errors \subseteq errors' /\ (parsed => raw'[Current] # Nothing)
          /\ (~parsed => Current \in errors')
          /\ \A f \in Files : f # Current => raw'[f] = raw[f]
      BY <2>1, <2>2
    <2>4. CASE todo = <<"COM">> /\ errors = {}
      <3>1. Current = "COM" /\ ("COM" \in errors' <=> ~parsed)
        BY <2>1, <2>2, <2>4 DEF Current
      <3>2. /\ \A f \in {"SOD", "CardSecurity", "CVCA"} : ToCome(f)'
            /\ parsed => \A f \in DgNames : ToCome(f)'
            /\ ~ToCome("COM")'
        BY <2>1, <2>2, <2>4, FirstFiles
      <3> QED BY <2>3, <3>1, <3>2 DEF Accounted, Asked
    <2>5. CASE ~ToCome("COM") /\ \A f \in Asked : raw[f] # Nothing \/ f \in errors \/ ToCome(f)
      <3>1. Current # "COM"
        BY <2>2, <2>5, <1>0 DEF Current, ToCome, Among
      <3>2. todo' = Tail(todo)
        BY <2>1, <3>1 DEF Following
      <3>3. ~ToCome("COM")'
        BY <1>0, <2>2, <2>5, <3>2, NoOtherFile
      <3>4. Asked' \subseteq Asked /\ Asked \subseteq Files
        BY <2>3 DEF Asked, Files, Fixed
      <3>5. ASSUME NEW f \in Asked'
            PROVE  raw'[f] # Nothing \/ f \in errors' \/ ToCome(f)'
        <4>1. ToCome(f) => f = Current \/ ToCome(f)'
          BY <1>0, <2>1, <2>2, <3>1, NextFile
        <4> QED BY <2>3, <2>5, <3>4, <3>5, <4>1
      <3> QED BY <3>3, <3>5 DEF Accounted
    <2> QED BY <2>4, <2>5 DEF Accounted
  <1>2. CASE UNCHANGED <<todo, raw, errors>>
    BY <1>2 DEF Accounted, Asked, ToCome
  <1> QED BY <1>1, <1>2 DEF Next, vars, Begin, SelectMf, SelectEf, ReadBinary, RestoreLds1

\* No file read_all asked for goes missing silently, whatever fails and wherever.
THEOREM AllAccountedAlways ==
  ASSUME Restorable
  PROVE  Spec => []AllAccounted
PROOF
  <1>1. Init => Located /\ Accounted
    BY LocatedInit, FilesAssumption DEF Init, Accounted
  <1>2. Located /\ Accounted /\ [Next]_vars => (Located /\ Accounted)'
    BY LocatedNext, AccountedNext, FilesAssumption
  <1>3. Located /\ Accounted => AllAccounted
    <2> SUFFICES ASSUME Located, Accounted, Done, NEW f \in Asked
                 PROVE  raw[f] = f \/ f \in errors
      BY DEF AllAccounted
    <2>1. f \in Files /\ ~ToCome(f)
      BY DEF Done, ToCome, Among, Asked, Files, Fixed
    <2> QED BY <2>1 DEF Accounted, Done, Located, RightFile
  <1> QED BY <1>1, <1>2, <1>3, PTL DEF Spec
-----------------------------------------------------------------------------
\* Every chip lets EF.CardSecurity be reached, if it has one.
Reachable == \A c \in Chips : "CardSecurity" \in c.present => c.mf # {}

\* As long as the counters are in step, a file the chip has is found, read and kept,
\* and those already asked for have been.
Caught ==
  inStep =>
    /\ phase = "mf" /\ try = 2 => 1 \notin chip.mf
    /\ phase = "read" /\ Current \in chip.present => ef = Current
    /\ phase \in {"restore", "record"} /\ Current \in chip.present => got = Current
    /\ todo # <<"COM">> => \A f \in Asked \cap chip.present : raw[f] = f \/ ToCome(f)

\* In its own dedicated file an identifier finds a file that is there, and no other.
LEMMA FindsThere ==
  ASSUME FilesAssumption, chip \in Chips, NEW f \in Readable, f \in chip.present
  PROVE  Found(Home(f), Fid(f)) = {f}
PROOF
  <1>1. f \in Found(Home(f), Fid(f)) /\ \A g \in Found(Home(f), Fid(f)) : Home(g) = Home(f)
    BY DEF Found
  <1>2. Home("CardSecurity") # Home("SOD")
    BY DEF Home
  <1> QED BY <1>1, <1>2, FindsIt

LEMMA CaughtRecord ==
  ASSUME FilesAssumption, Located, Accounted, Caught, Record
  PROVE  Caught'
PROOF
  <1>1. PICK parsed \in {got # Nothing, got # Nothing /\ ~MayFailToParse} :
          /\ errors' = IF parsed THEN errors ELSE errors \cup {Current}
          /\ todo' = Following(parsed)
    BY DEF Record
  <1>2. /\ raw' = [raw EXCEPT ![Current] = got] /\ phase = "record" /\ phase' = "idle"
        /\ UNCHANGED <<chip, inStep>>
    BY DEF Record
  <1>3. /\ Typed /\ todo # <<>> /\ Current \in Files /\ raw \in [Files -> Files \cup {Nothing}]
    BY <1>2 DEF Located, Typed, Current, Readable
  <1>4. parsed \in BOOLEAN
    <2>1. (got # Nothing) \in BOOLEAN /\ (got # Nothing /\ ~MayFailToParse) \in BOOLEAN
      OBVIOUS
    <2> QED BY <1>1, <2>1, Zenon
  <1>5. SUFFICES ASSUME inStep, NEW f \in Asked', f \in chip.present
                 PROVE  raw'[f] = f \/ ToCome(f)'
    BY <1>2 DEF Caught
  <1>6. f = Current => raw'[f] = f
    BY <1>2, <1>3, <1>5 DEF Caught
  <1>7. f \in Files
    BY <1>5 DEF Asked, Files, Fixed
  <1>8. f # Current => raw'[f] = raw[f]
    BY <1>2, <1>3, <1>7
  <1>9. CASE todo = <<"COM">>
    <2>1. Current = "COM" /\ (~parsed => "COM" \in errors')
      BY <1>1, <1>9 DEF Current
    <2>2. /\ \A g \in {"SOD", "CardSecurity", "CVCA"} : ToCome(g)'
          /\ parsed => \A g \in DgNames : ToCome(g)'
      BY <1>1, <1>4, <1>9, FirstFiles
    <2> QED BY <1>5, <1>6, <2>1, <2>2 DEF Asked
  <1>10. CASE todo # <<"COM">>
    <2>1. ~ToCome("COM")
      BY <1>10 DEF Accounted
    <2>2. Current # "COM"
      BY <1>3, <2>1 DEF Current, ToCome, Among, Typed
    <2>3. errors \subseteq errors'
      BY <1>1
    <2>4. raw[f] = f \/ ToCome(f)
      BY <1>5, <1>10, <2>3 DEF Caught, Asked
    <2>5. ToCome(f) => f = Current \/ ToCome(f)'
      BY <1>1, <1>3, <2>2, NextFile
    <2> QED BY <1>6, <1>8, <2>4, <2>5
  <1> QED BY <1>9, <1>10

LEMMA CaughtNext ==
  ASSUME FilesAssumption, Reachable, Located, Accounted, Caught, [Next]_vars
  PROVE  Caught'
PROOF
  <1>0. Typed /\ (todo # <<>> => Current \in Readable)
    BY DEF Located, Typed, Current
  <1>1. CASE Record
    BY <1>1, CaughtRecord
  <1>2. CASE UNCHANGED <<chip, todo, raw, errors>>
    <2>1. Current' = Current /\ Asked' = Asked /\ \A f : ToCome(f)' <=> ToCome(f)
      BY <1>2 DEF Current, Asked, ToCome
    <2>2. ASSUME inStep,
                 inStep' /\ phase' = "mf" /\ try' = 2 => 1 \notin chip.mf,
                 inStep' /\ phase' = "read" /\ Current \in chip.present => ef' = Current,
                 inStep' /\ phase' \in {"restore", "record"} /\ Current \in chip.present => got' = Current
          PROVE  Caught'
      BY <1>2, <2>1, <2>2 DEF Caught
    <2>3. inStep' => inStep
      <3>1. ASSUME NEW a, NEW d, NEW e, NEW seen, Exchange(a, d, e, seen) PROVE inStep' => inStep
        BY <3>1 DEF Exchange
      <3> QED BY <3>1 DEF Next, vars, Begin, SelectMf, SelectEf, ReadBinary, RestoreLds1, Record
    <2>4. CASE ~inStep'
      BY <2>4 DEF Caught
    <2>5. CASE inStep' /\ Begin
      BY <2>2, <2>3, <2>5 DEF Begin
    <2>6. CASE inStep' /\ SelectMf
      <3>1. PICK seen \in {"ok", "status", "raised"} :
              /\ Exchange(try \in chip.mf, "MF", Nothing, seen)
              /\ phase' = CASE seen = "ok" -> "select"
                            [] seen = "status" /\ try = 1 -> "mf"
                            [] OTHER -> "record"
              /\ try' = IF seen = "status" /\ try = 1 THEN 2 ELSE 1
        BY <2>6 DEF SelectMf
      <3>2. seen = IF try \in chip.mf THEN "ok" ELSE "status"
        BY <2>6, <3>1 DEF Exchange
      <3>3. Current \in Files /\ Home(Current) = "MF" /\ phase = "mf"
        BY <1>0, <2>6 DEF SelectMf, Located, Typed, Readable
      <3>4. Current = "CardSecurity"
        BY <1>0, <3>3 DEF Typed, Home, Readable
      <3>5. Current \in chip.present => chip.mf # {} /\ chip.mf \subseteq {1, 2}
        BY <1>0, <3>4 DEF Reachable, FilesAssumption, Typed
      <3>6. CASE try \in chip.mf
        BY <2>2, <2>3, <2>6, <3>1, <3>2, <3>6
      <3>7. CASE try \notin chip.mf /\ try = 1
        BY <2>2, <2>3, <2>6, <3>1, <3>2, <3>7
      <3>8. CASE try \notin chip.mf /\ try = 2
        <4>1. Current \notin chip.present
          BY <2>3, <2>6, <3>3, <3>5, <3>8 DEF Caught
        <4> QED BY <2>2, <2>3, <2>6, <3>1, <3>2, <3>8, <4>1
      <3> QED BY <1>0, <3>6, <3>7, <3>8 DEF Typed
    <2>7. CASE inStep' /\ SelectEf
      <3> DEFINE found == Found(df, Fid(Current))
      <3>1. PICK seen \in {"ok", "status", "raised"} :
              /\ Exchange(found # {}, df, IF found = {} THEN Nothing ELSE CHOOSE f \in found : TRUE, seen)
              /\ phase' = IF seen = "ok" THEN "read" ELSE AfterRead
        BY <2>7 DEF SelectEf
      <3>2. /\ seen = IF found # {} THEN "ok" ELSE "status"
            /\ found # {} => ef' = CHOOSE f \in found : TRUE
        <4> HIDE DEF found
        <4> QED BY <2>7, <3>1 DEF Exchange
      <3>3. df = Home(Current) /\ Current \in Readable
        BY <1>0, <2>3, <2>7 DEF SelectEf, Located, Stands, Typed
      <3>4. Current \in chip.present => found = {Current}
        BY <1>0, <3>3, FindsThere DEF Typed
      <3> HIDE DEF found
      <3>5. Current \in chip.present => phase' = "read" /\ ef' = Current
        BY <3>1, <3>2, <3>4
      <3>6. phase' \in {"read", "restore", "record"}
        BY <3>1 DEF AfterRead
      <3> QED BY <2>2, <2>3, <2>7, <3>5, <3>6
    <2>8. CASE inStep' /\ ReadBinary
      <3>1. PICK seen \in {"ok", "status", "raised"} :
              /\ Exchange(TRUE, df, ef, seen)
              /\ got' = IF seen = "ok" /\ ~(Current = "CardSecurity" /\ ef = "SOD") THEN ef ELSE Nothing
              /\ phase' = AfterRead
        BY <2>8 DEF ReadBinary
      <3>2. seen = "ok" /\ phase = "read"
        BY <2>8, <3>1 DEF Exchange, ReadBinary
      <3>3. Current \in chip.present => ef = Current
        BY <2>3, <2>8, <3>2 DEF Caught
      <3>4. phase' \in {"restore", "record"}
        BY <3>1 DEF AfterRead
      <3> QED BY <2>2, <2>3, <2>8, <3>1, <3>2, <3>3, <3>4
    <2>9. CASE inStep' /\ RestoreLds1
      <3>1. phase = "restore" /\ phase' \in {"restore", "record"} /\ got' = got
        BY <2>9 DEF RestoreLds1
      <3> QED BY <2>2, <2>3, <2>9, <3>1 DEF Caught
    <2>10. CASE inStep' /\ UNCHANGED vars
      BY <2>2, <2>3, <2>10 DEF vars, Caught
    <2> QED BY <1>1, <2>4, <2>5, <2>6, <2>7, <2>8, <2>9, <2>10 DEF Next
  <1> QED BY <1>1, <1>2 DEF Next, vars, Begin, SelectMf, SelectEf, ReadBinary, RestoreLds1

\* Without a lost exchange read_all keeps every file the chip has, whichever variants
\* of the SELECTs it takes and whichever files it lacks.
THEOREM FullReadAlways ==
  ASSUME Restorable, Reachable
  PROVE  Spec => []FullRead
PROOF
  <1>1. Init => Located /\ Accounted /\ Caught
    BY LocatedInit, FilesAssumption DEF Init, Accounted, Caught
  <1>2. Located /\ Accounted /\ Caught /\ [Next]_vars => (Located /\ Accounted /\ Caught)'
    BY LocatedNext, AccountedNext, CaughtNext, FilesAssumption
  <1>3. Caught => FullRead
    <2> SUFFICES ASSUME Caught, Done, inStep, NEW f \in Asked \cap chip.present
                 PROVE  raw[f] = f
      BY DEF FullRead
    <2>1. ~ToCome(f) /\ todo # <<"COM">>
      BY DEF Done, ToCome, Among
    <2> QED BY <2>1 DEF Caught
  <1> QED BY <1>1, <1>2, <1>3, PTL DEF Spec
=============================================================================
