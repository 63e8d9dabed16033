---------------------------- MODULE ReadEf_proofs ----------------------------
(***************************************************************************)
(* What the READ BINARY loops return, and when they stop, for every size   *)
(* of file, every chunk size and every chip of ChipAnswers.                *)
(***************************************************************************)
EXTENDS ReadEf, TLAPS

\* As far as the file goes, and no further than READ BINARY can address it.
InReach == Least(size, SfiFrom)

\* The values of the variables; the loop over EF.CardAccess knows no size.
Typed ==
  /\ loop \in Loops /\ size \in Sizes /\ ending \in Endings
  /\ fci \in {NoSize, size, size + 1} /\ (loop = "card_access" => fci = NoSize)
  /\ pc \in {"select", "reading", "returned", "missing", "raised"}
  /\ offset \in Nat /\ reads \in Nat
  /\ buf \in Seq(Int) /\ Len(buf) = offset /\ (pc = "select" => offset = 0)

\* The two guards; a command that is counted brought a byte.
Guarded ==
  /\ reads <= MaxReads + 1 /\ reads <= offset
  /\ pc \in {"select", "reading"} =>
       reads <= MaxReads /\ (loop = "read_ef" => offset <= MaxOffset)

\* The inductive invariant: at every moment the buffer begins with the file, as
\* far as it has come and the file can be addressed, and it is longer than the
\* file only in a loop that overruns.
Prefix ==
  /\ Typed
  /\ Begins(Least(offset, InReach))
  /\ offset > size => Overruns
  /\ pc = "returned" => Acceptable

\* What the constants and the types give to every step.
LEMMA Numbers ==
  ASSUME LoopAssumption, Typed
  PROVE  /\ size \in Nat /\ offset \in Nat /\ reads \in Nat /\ fci \in Int
         /\ ReadChunk \in Nat \ {0} /\ SfiFrom \in Nat \ {0} /\ OffsetSpan \in Nat \ {0}
         /\ MaxReads \in Nat /\ MaxOffset \in Nat /\ SfiFrom <= OffsetSpan
         /\ InReach \in Nat /\ InReach <= size /\ InReach <= SfiFrom
         /\ (InReach = size \/ InReach = SfiFrom)
  BY DEF LoopAssumption, Typed, NoSize, InReach, Least

\* A command asks for one chunk at most, and never for a byte behind a size
\* that the chip gave.
LEMMA Asked ==
  ASSUME LoopAssumption, Typed, Le > 0
  PROVE  Le \in 1 .. ReadChunk /\ (fci = size => Le <= size - offset)
  BY Numbers DEF Le, Least, NoSize, Typed

\* A piece of a file is a sequence of as many elements as it was asked for.
LEMMA BytesLength ==
  ASSUME NEW from \in Nat, NEW count \in Nat, size \in Nat
  PROVE  /\ Bytes(from, count) \in Seq(Int)
         /\ Len(Bytes(from, count)) = count
  BY DEF Bytes, Foreign

\* What the chip answers below SfiFrom: an error, the next bytes, nothing
\* behind the end, or a status in place of a read across the end.
LEMMA Answers ==
  ASSUME LoopAssumption, Typed, Le > 0, offset < SfiFrom,
         NEW a \in ChipAnswers(offset % OffsetSpan, Le)
  PROVE  \/ a.sw = "error"
         \/ \E k \in 1 .. Le : /\ a.sw = "9000" /\ a.data = Bytes(offset, k)
                               /\ ending = "padding" \/ k <= size - offset
         \/ offset >= size /\ a.data = <<>> /\ (a.sw = "9000" \/ a.sw = ending)
         \/ offset < size /\ size - offset < Le /\ a.sw = ending /\ ending \in {"6282", "6700"}
PROOF
  <1>20. size \in Nat /\ offset \in Nat /\ SfiFrom \in Nat /\ OffsetSpan \in Nat
        /\ ReadChunk \in Nat /\ fci \in Int /\ SfiFrom <= OffsetSpan /\ OffsetSpan > 0
        /\ InReach \in Nat /\ InReach <= size /\ InReach <= SfiFrom
        /\ (InReach = size \/ InReach = SfiFrom)
    BY Numbers
  <1>1. offset % OffsetSpan = offset
    BY <1>20
  <1>2. Le \in 1 .. ReadChunk
    BY Asked
  <1>3. ending \in {"empty", "6B00", "6282", "6700", "padding"}
    BY DEF LoopAssumption, Typed
  <1>4. a = [data |-> <<>>, sw |-> "error"] \/ a \in
          IF ending = "padding"
          THEN {[data |-> Bytes(offset, k), sw |-> "9000"] : k \in 1 .. Le}
          ELSE IF offset >= size
          THEN {[data |-> <<>>, sw |-> IF ending = "empty" THEN "9000" ELSE ending]}
          ELSE IF size - offset >= Le \/ ending \in {"empty", "6B00"}
          THEN {[data |-> Bytes(offset, k), sw |-> "9000"] : k \in 1 .. Least(Le, size - offset)}
          ELSE IF ending = "6282"
          THEN {[data |-> Bytes(offset, size - offset), sw |-> "6282"]}
          ELSE {[data |-> <<>>, sw |-> "6700"]}
    <2>1. a \in ChipAnswers(offset, Le) /\ ~(offset >= SfiFrom)
      BY <1>1, <1>20
    <2> QED BY <2>1 DEF ChipAnswers
  <1>5. CASE ending = "padding"
    BY <1>4, <1>5
  <1>6. CASE ending # "padding" /\ offset >= size
    BY <1>4, <1>6
  <1>7. CASE ending # "padding" /\ offset < size /\ (size - offset >= Le \/ ending \in {"empty", "6B00"})
    <2>1. a = [data |-> <<>>, sw |-> "error"] \/
          \E k \in 1 .. Least(Le, size - offset) : a = [data |-> Bytes(offset, k), sw |-> "9000"]
      BY <1>4, <1>7, <1>20
    <2>2. \A k \in 1 .. Least(Le, size - offset) : k \in 1 .. Le /\ k <= size - offset
      BY <1>2, <1>7, <1>20 DEF Least
    <2> QED BY <2>1, <2>2
  <1>8. CASE ending # "padding" /\ offset < size /\ ~(size - offset >= Le \/ ending \in {"empty", "6B00"})
    BY <1>2, <1>3, <1>4, <1>8, <1>20
  <1> QED BY <1>5, <1>6, <1>7, <1>8, <1>20

\* Where the next answer comes from behind the file, or from another one, the
\* loop overruns.
LEMMA Beyond ==
  ASSUME LoopAssumption, Prefix, Le > 0, offset >= SfiFrom
  PROVE  Overruns /\ Begins(InReach)
PROOF
  <1> Typed
    BY DEF Prefix
  <1>20. size \in Nat /\ offset \in Nat /\ SfiFrom \in Nat /\ OffsetSpan \in Nat
        /\ ReadChunk \in Nat /\ fci \in Int /\ SfiFrom <= OffsetSpan /\ OffsetSpan > 0
        /\ InReach \in Nat /\ InReach <= size /\ InReach <= SfiFrom
        /\ (InReach = size \/ InReach = SfiFrom)
    BY Numbers
  <1>1. Overruns
    <2>1. CASE size > SfiFrom
      BY <2>1 DEF Overruns
    <2>2. CASE size = SfiFrom
      BY <2>2, Asked, <1>20 DEF Overruns
    <2>3. CASE size < SfiFrom
      BY <2>3, <1>20 DEF Prefix
    <2> QED BY <2>1, <2>2, <2>3, <1>20
  <1>2. Least(offset, InReach) = InReach
    BY <1>20 DEF Least
  <1> QED BY <1>1, <1>2 DEF Prefix

\* A loop that the size, or an answer, ends returns something acceptable.
LEMMA SizeReached ==
  ASSUME LoopAssumption, Prefix, Le <= 0
  PROVE  Acceptable
PROOF
  <1> Typed
    BY DEF Prefix
  <1>20. size \in Nat /\ offset \in Nat /\ SfiFrom \in Nat /\ OffsetSpan \in Nat
        /\ ReadChunk \in Nat /\ fci \in Int /\ SfiFrom <= OffsetSpan /\ OffsetSpan > 0
        /\ InReach \in Nat /\ InReach <= size /\ InReach <= SfiFrom
        /\ (InReach = size \/ InReach = SfiFrom)
    BY Numbers
  <1>1. fci # NoSize /\ offset >= size
    BY <1>20 DEF Le, Least, NoSize, Typed
  <1>2. Least(offset, InReach) = InReach
    BY <1>1, <1>20 DEF Least
  <1>3. CASE offset = size /\ size <= SfiFrom
    BY <1>2, <1>3, <1>20 DEF Prefix, Acceptable, Typed, InReach, Least
  <1>4. CASE offset > size \/ size > SfiFrom
    BY <1>2, <1>4 DEF Prefix, Acceptable, Overruns, InReach
  <1> QED BY <1>1, <1>3, <1>4, <1>20

LEMMA AnswerEnds ==
  ASSUME LoopAssumption, Prefix, Le > 0,
         NEW a \in ChipAnswers(offset % OffsetSpan, Le), EndsLoop(a)
  PROVE  Acceptable
PROOF
  <1> Typed
    BY DEF Prefix
  <1>20. size \in Nat /\ offset \in Nat /\ SfiFrom \in Nat /\ OffsetSpan \in Nat
        /\ ReadChunk \in Nat /\ fci \in Int /\ SfiFrom <= OffsetSpan /\ OffsetSpan > 0
        /\ InReach \in Nat /\ InReach <= size /\ InReach <= SfiFrom
        /\ (InReach = size \/ InReach = SfiFrom)
    BY Numbers
  <1>1. CASE offset >= SfiFrom
    BY <1>1, Beyond DEF Acceptable, InReach
  <1>2. CASE offset < SfiFrom
    <2>0. a.sw # "error"
      BY DEF EndsLoop
    <2>1. ASSUME NEW k \in 1 .. Le, a.sw = "9000", a.data = Bytes(offset, k)
          PROVE  FALSE
      <3>0. k \in Nat /\ k > 0
        BY Asked
      <3>1. Len(a.data) = k
        <4>1. Len(Bytes(offset, k)) = k
          BY <3>0, <1>20, BytesLength
        <4> QED BY <2>1, <4>1
      <3>2. a.data = <<>>
        BY <2>1 DEF EndsLoop
      <3> QED BY <3>0, <3>1, <3>2
    <2>2. CASE offset >= size
      <3>1. Least(offset, InReach) = size /\ InReach = size
        BY <1>2, <2>2, <1>20 DEF Least
      <3>2. CASE offset = size
        BY <3>1, <3>2 DEF Prefix, Acceptable, Typed
      <3>3. CASE offset > size
        BY <3>1, <3>3 DEF Prefix, Acceptable, InReach
      <3> QED BY <2>2, <3>2, <3>3, <1>20
    <2>3. CASE offset < size /\ size - offset < Le /\ a.sw = ending /\ ending \in {"6282", "6700"}
      <3>1. Least(offset, InReach) = offset
        BY <1>2, <2>3, <1>20 DEF Least
      <3>2. offset \in (size - ReadChunk) + 1 .. size - 1
        BY <2>3, Asked, <1>20
      <3>3. fci # size
        BY <2>3, Asked, <1>20
      <3>4. Truncates
        BY <2>3, <3>3 DEF EndsLoop, Truncates
      <3> QED BY <3>1, <3>2, <3>4 DEF Prefix, Acceptable, Typed
    <2> QED BY <1>2, <2>0, <2>1, <2>2, <2>3, Answers
  <1> QED BY <1>1, <1>2, <1>20

\* An answer that does not end the loop brings a byte at least.
LEMMA Brings ==
  ASSUME LoopAssumption, Typed, Le > 0,
         NEW a \in ChipAnswers(offset % OffsetSpan, Le), ~EndsLoop(a), a.sw = "9000"
  PROVE  a.data \in Seq(Int) /\ Len(a.data) >= 1
PROOF
  <1>20. size \in Nat /\ offset \in Nat /\ SfiFrom \in Nat /\ OffsetSpan \in Nat
        /\ ReadChunk \in Nat /\ fci \in Int /\ SfiFrom <= OffsetSpan /\ OffsetSpan > 0
        /\ InReach \in Nat /\ InReach <= size /\ InReach <= SfiFrom
        /\ (InReach = size \/ InReach = SfiFrom)
    BY Numbers
  <1>0. Le \in 1 .. ReadChunk
    BY Asked
  <1>1. offset % OffsetSpan \in Nat
    BY <1>20
  <1> DEFINE at == offset % OffsetSpan
  <1> HIDE DEF at
  <1>2. \/ a.data = <<>>
        \/ a.data = <<Foreign>>
        \/ \E k \in 1 .. Le : a.data = Bytes(at, k)
        \/ \E k \in 1 .. Least(Le, size - at) : at < size /\ a.data = Bytes(at, k)
    <2> a \in ChipAnswers(at, Le) /\ at \in Nat
      BY <1>1 DEF at
    <2>1. CASE at >= SfiFrom
      BY <2>1 DEF ChipAnswers
    <2>2. CASE at < SfiFrom /\ ending = "padding"
      BY <2>2, <1>20 DEF ChipAnswers
    <2>3. CASE at < SfiFrom /\ ending # "padding" /\ at >= size
      BY <2>3, <1>20 DEF ChipAnswers
    <2>4. CASE at < SfiFrom /\ ending # "padding" /\ at < size
      <3>1. EndsLoop(a) \/ a.sw # "9000" \/
            a \in {[data |-> Bytes(at, k), sw |-> "9000"] : k \in 1 .. Least(Le, size - at)}
        BY <2>4, <1>20 DEF ChipAnswers
      <3> QED BY <2>4, <3>1
    <2> QED BY <2>1, <2>2, <2>3, <2>4, <1>20
  <1>3. a.data # <<>>
    BY DEF EndsLoop
  <1>4. ASSUME NEW k \in Nat \ {0}, a.data = Bytes(at, k)
        PROVE  a.data \in Seq(Int) /\ Len(a.data) >= 1
    <2>1. at \in Nat /\ size \in Nat /\ k \in Nat /\ k >= 1
      BY <1>1, <1>20 DEF at
    <2>2. Bytes(at, k) \in Seq(Int) /\ Len(Bytes(at, k)) = k
      BY <2>1, BytesLength
    <2> QED BY <1>4, <2>1, <2>2
  <1>5. ASSUME at < size, NEW k \in 1 .. Least(Le, size - at)
        PROVE  k \in Nat \ {0}
    <2> at \in Nat
      BY <1>1 DEF at
    <2> QED BY <1>0, <1>5, <1>20 DEF Least
  <1>6. CASE a.data = <<Foreign>>
    BY <1>6 DEF Foreign
  <1> QED BY <1>0, <1>2, <1>3, <1>4, <1>5, <1>6

\* Bytes put behind a sequence leave its elements where they are.
LEMMA Appended ==
  ASSUME NEW s \in Seq(Int), NEW t \in Seq(Int)
  PROVE  /\ s \o t \in Seq(Int) /\ Len(s \o t) = Len(s) + Len(t)
         /\ \A i \in 1 .. Len(s) : (s \o t)[i] = s[i]
         /\ \A i \in 1 .. Len(t) : (s \o t)[Len(s) + i] = t[i]
  OBVIOUS

\* A turn of the loop that goes on keeps what the buffer begins with.
LEMMA Extended ==
  ASSUME LoopAssumption, Prefix, Le > 0,
         NEW a \in ChipAnswers(offset % OffsetSpan, Le), ~EndsLoop(a), a.sw = "9000",
         NEW b, NEW n, NEW d, d = a.data, b = buf \o d, n = offset + Len(d)
  PROVE  /\ b \in Seq(Int) /\ Len(b) = n /\ n \in Nat /\ n > offset
         /\ \A i \in 1 .. Least(n, InReach) : i <= n /\ b[i] = i - 1
         /\ n > size => Overruns
PROOF
  <1> Typed
    BY DEF Prefix
  <1>20. size \in Nat /\ offset \in Nat /\ SfiFrom \in Nat /\ OffsetSpan \in Nat
        /\ ReadChunk \in Nat /\ fci \in Int /\ SfiFrom <= OffsetSpan /\ OffsetSpan > 0
        /\ InReach \in Nat /\ InReach <= size /\ InReach <= SfiFrom
        /\ (InReach = size \/ InReach = SfiFrom)
    BY Numbers
  <1>0. a.data \in Seq(Int) /\ Len(a.data) >= 1
    BY Brings
  <1>1. d \in Seq(Int) /\ Len(d) >= 1 /\ Len(d) \in Nat
    BY <1>0
  <1>2. buf \in Seq(Int) /\ Len(buf) = offset
    BY DEF Typed
  <1>10. \A i \in 1 .. Len(d) : (buf \o d)[Len(buf) + i] = d[i]
    BY <1>1, <1>2, Appended, Zenon
  <1>3. b \in Seq(Int) /\ Len(b) = n /\ n \in Nat /\ n > offset
    <2>1. offset \in Nat
      BY <1>20
    <2>2. buf \o d \in Seq(Int) /\ Len(buf \o d) = Len(buf) + Len(d)
      BY <1>1, <1>2, Appended, Zenon
    <2>3. b \in Seq(Int) /\ Len(b) = offset + Len(d)
      BY <1>2, <2>2
    <2>4. offset + Len(d) \in Nat /\ offset + Len(d) > offset
      BY <1>1, <2>1
    <2> QED BY <2>3, <2>4
  <1>4. \A i \in 1 .. offset : b[i] = buf[i]
    BY <1>1, <1>2, Appended
  <1>5. \A i \in 1 .. Least(offset, InReach) : b[i] = i - 1
    <2> TAKE i \in 1 .. Least(offset, InReach)
    <2>1. i \in 1 .. offset
      BY <1>20 DEF Least
    <2>2. buf[i] = i - 1
      BY DEF Prefix, Begins
    <2> QED BY <1>4, <2>1, <2>2
  <1>6. CASE offset >= SfiFrom
    <2>1. Overruns
      BY <1>6, Beyond
    <2>2. offset \in Nat /\ InReach \in Nat /\ InReach <= offset
      BY <1>6, <1>20
    <2>3. Least(n, InReach) = InReach /\ Least(offset, InReach) = InReach /\ InReach <= n
      <3>1. InReach <= n /\ n \in Nat
        BY <1>3, <2>2
      <3> QED BY <2>2, <3>1 DEF Least
    <2>4. \A i \in 1 .. InReach : i <= n
      BY <1>3, <2>2, <2>3
    <2> QED BY <1>3, <1>5, <2>1, <2>3, <2>4
  <1>7. CASE offset < SfiFrom
    <2>1. PICK k \in 1 .. Le : d = Bytes(offset, k) /\ (ending = "padding" \/ k <= size - offset)
      <3>1. d # <<>> /\ (a.sw = "9000" /\ ~(a.sw = ending /\ ending \in {"6282", "6700"}))
        BY DEF EndsLoop
      <3> QED BY <1>7, <3>1, Answers
    <2>2. k \in Nat /\ k > 0 /\ k <= Le
      BY Asked
    <2>3. Len(d) = k /\ n = offset + k
      <3>1. offset \in Nat /\ size \in Nat
        BY <1>20
      <3>2. Len(Bytes(offset, k)) = k
        BY <2>2, <3>1, BytesLength
      <3> QED BY <2>1, <3>2
    <2>4. n > size => Overruns
      <3>1. CASE offset > size
        BY <3>1 DEF Prefix
      <3>2. CASE k > size - offset
        <4>1. fci # size
          BY <2>2, <3>2, Asked, <1>20
        <4>2. ending = "padding"
          BY <2>1, <2>2, <3>2, <1>20
        <4> QED BY <4>1, <4>2 DEF Overruns
      <3> QED BY <2>2, <2>3, <3>1, <3>2, <1>20
    <2>5. ASSUME NEW i \in 1 .. Least(n, InReach)
          PROVE  i <= n /\ b[i] = i - 1
      <3>0. offset \in Nat /\ size \in Nat /\ InReach \in Nat /\ InReach <= size
        BY <1>20
      <3>1. i \in Nat /\ i >= 1 /\ i <= n /\ i <= InReach /\ i <= size
        <4>1. n \in Nat
          BY <1>3
        <4>2. Least(n, InReach) \in Nat /\ Least(n, InReach) <= n /\ Least(n, InReach) <= InReach
          BY <3>0, <4>1 DEF Least
        <4> QED BY <3>0, <4>2
      <3>2. CASE i <= offset
        <4>1. i \in 1 .. Least(offset, InReach)
          BY <3>1, <3>2, <1>20 DEF Least
        <4> QED BY <1>5, <3>1, <4>1
      <3>3. CASE i > offset
        <4> DEFINE j == i - offset
        <4>1. j \in 1 .. k /\ i = offset + j
          BY <2>2, <2>3, <3>1, <3>3, <1>20
        <4>2. d[j] = i - 1
          BY <2>1, <2>2, <3>0, <3>1, <4>1 DEF Bytes
        <4> HIDE DEF j
        <4>3. (buf \o d)[Len(buf) + j] = d[j]
          BY <1>10, <2>3, <4>1
        <4>4. b[i] = d[j]
          BY <1>2, <4>1, <4>3
        <4> QED BY <3>1, <4>2, <4>4
      <3>4. i <= offset \/ i > offset
        BY <3>0, <3>1
      <3> QED BY <3>2, <3>3, <3>4
    <2> QED BY <1>3, <2>4, <2>5
  <1>8. offset \in Nat /\ SfiFrom \in Nat
    BY <1>20
  <1>9. offset >= SfiFrom \/ offset < SfiFrom
    BY <1>8
  <1> QED BY <1>6, <1>7, <1>9

\* A step that leaves the buffer alone keeps Prefix, if what it may return is
\* acceptable.
LEMMA StepKeeps ==
  ASSUME Prefix, UNCHANGED <<loop, size, ending, fci, offset, buf, reads>>,
         pc' \in {"returned", "raised"}, pc' = "returned" => Acceptable'
  PROVE  Prefix'
  BY DEF Prefix, Typed, Begins, InReach, Least, Overruns

\* Prefix holds at first and every step keeps it.
LEMMA PrefixInit == LoopAssumption /\ Init => Prefix
  <1> SUFFICES ASSUME LoopAssumption, Init PROVE Prefix
    OBVIOUS
  <1>1. Typed
    BY DEF Init, Typed, LoopAssumption
  <1>2. Least(offset, InReach) = 0 /\ ~(offset > size)
    BY <1>1, Numbers DEF Init, Least
  <1> QED BY <1>1, <1>2 DEF Init, Prefix, Begins

LEMMA PrefixNext ==
  ASSUME LoopAssumption, Prefix, [Next]_vars
  PROVE  Prefix'
PROOF
  <1> Typed
    BY DEF Prefix
  <1>1. CASE Select
    <2>1. UNCHANGED <<loop, size, ending, offset, buf, reads>> /\ offset = 0 /\ pc' # "returned"
      BY <1>1 DEF Select, Typed
    <2>2. Typed'
      BY <1>1, <2>1, LoopAssumption DEF Select, Typed
    <2>3. (offset' = 0) /\ (size' \in Nat)
      BY <2>1, Numbers
    <2>4. Least(offset, InReach)' = 0 /\ ~(offset > size)'
      BY <2>1, <2>3, Numbers DEF Least, InReach
    <2> QED BY <2>1, <2>2, <2>4, Numbers DEF Prefix, Begins, Typed
  <1>2. CASE ReadBinary
    <2>1. PICK a \in ChipAnswers(offset % OffsetSpan, Le) :
            \/ /\ EndsLoop(a)
               /\ pc' = "returned"
               /\ UNCHANGED <<offset, buf, reads>>
            \/ /\ ~EndsLoop(a) /\ a.sw # "9000"
               /\ pc' = "raised"
               /\ UNCHANGED <<offset, buf, reads>>
            \/ /\ ~EndsLoop(a) /\ a.sw = "9000"
               /\ buf' = buf \o a.data
               /\ offset' = offset + Len(a.data)
               /\ reads' = reads + 1
               /\ pc' = IF Runaway THEN "raised" ELSE "reading"
      BY <1>2 DEF ReadBinary
    <2>2. Le > 0 /\ pc = "reading" /\ UNCHANGED <<loop, size, ending, fci>>
      BY <1>2 DEF ReadBinary
    <2>3. CASE EndsLoop(a)
      <3>1. pc' = "returned" /\ UNCHANGED <<offset, buf, reads>>
        BY <2>1, <2>3
      <3>2. Acceptable
        BY <2>2, <2>3, AnswerEnds
      <3>3. Acceptable'
        BY <2>2, <3>1, <3>2 DEF Acceptable, Begins, Truncates, Overruns
      <3> QED BY <2>2, <3>1, <3>3, StepKeeps
    <2>4. CASE ~EndsLoop(a) /\ a.sw # "9000"
      <3>1. pc' = "raised" /\ UNCHANGED <<offset, buf, reads>>
        BY <2>1, <2>4
      <3> QED BY <2>2, <3>1, StepKeeps
    <2>5. CASE ~EndsLoop(a) /\ a.sw = "9000"
      <3>1. /\ buf' = buf \o a.data /\ offset' = offset + Len(a.data)
            /\ reads' = reads + 1 /\ pc' \in {"raised", "reading"}
        BY <2>1, <2>5
      <3>2. /\ buf' \in Seq(Int) /\ Len(buf') = offset' /\ offset' \in Nat
            /\ \A i \in 1 .. Least(offset', InReach) : i <= offset' /\ buf'[i] = i - 1
            /\ offset' > size => Overruns
        BY <2>2, <2>5, <3>1, Extended
      <3>3. Typed'
        BY <2>2, <3>1, <3>2, Numbers DEF Typed
      <3>4. Least(offset, InReach)' = Least(offset', InReach) /\ (Overruns' <=> Overruns)
            /\ Least(offset', InReach) <= offset'
        BY <2>2, <3>2, Numbers DEF Least, InReach, Overruns
      <3>5. Begins(Least(offset, InReach))'
        BY <2>2, <3>2, <3>4 DEF Begins, InReach, Least
      <3> QED BY <2>2, <3>1, <3>2, <3>3, <3>4, <3>5 DEF Prefix
    <2> QED BY <2>1, <2>3, <2>4, <2>5
  <1>3. CASE ReachSize
    <2>1. pc' = "returned" /\ UNCHANGED <<loop, size, ending, fci, offset, buf, reads>> /\ Le <= 0
      BY <1>3 DEF ReachSize
    <2>2. Acceptable'
      BY <2>1, SizeReached DEF Acceptable, Begins, Truncates, Overruns
    <2> QED BY <2>1, <2>2, StepKeeps
  <1>4. CASE UNCHANGED vars
    BY <1>4 DEF vars, Prefix, Typed, Acceptable, Begins, InReach, Truncates, Overruns
  <1> QED BY <1>1, <1>2, <1>3, <1>4 DEF Next

\* The two guards stop the loop whatever the chip answers.
LEMMA GuardedNext ==
  ASSUME LoopAssumption, Typed, Guarded, [Next]_vars
  PROVE  Guarded'
PROOF
  <1>1. CASE Select
    BY <1>1, Numbers DEF Select, Guarded, Typed
  <1>2. CASE ReadBinary
    <2>1. Le > 0 /\ pc = "reading" /\ loop' = loop
      BY <1>2 DEF ReadBinary
    <2>2. CASE UNCHANGED <<offset, reads>> /\ pc' \in {"returned", "raised"}
      BY <2>1, <2>2 DEF Guarded
    <2>3. CASE \E a \in ChipAnswers(offset % OffsetSpan, Le) :
                 /\ ~EndsLoop(a) /\ a.sw = "9000"
                 /\ offset' = offset + Len(a.data) /\ reads' = reads + 1
                 /\ pc' = IF Runaway THEN "raised" ELSE "reading"
      <3>1. PICK a \in ChipAnswers(offset % OffsetSpan, Le) :
                 /\ ~EndsLoop(a) /\ a.sw = "9000"
                 /\ offset' = offset + Len(a.data) /\ reads' = reads + 1
                 /\ pc' = IF Runaway THEN "raised" ELSE "reading"
        BY <2>3
      <3>2. a.data \in Seq(Int) /\ Len(a.data) >= 1
        BY <2>1, <3>1, Brings
      <3>3. Len(a.data) \in Nat
        BY <3>2
      <3>4. offset' \in Nat /\ offset' >= offset + 1 /\ reads' = reads + 1
        <4>1. offset \in Nat /\ reads \in Nat
          BY Numbers
        <4> QED BY <3>1, <3>2, <3>3, <4>1
      <3>5. reads' <= MaxReads + 1 /\ reads' <= offset'
        BY <2>1, <3>4, Numbers DEF Guarded
      <3>6. pc' # "select" /\ (pc' = "reading" => ~Runaway)
        BY <3>1
      <3>7. offset' \in Nat /\ reads' \in Nat /\ MaxReads \in Nat /\ MaxOffset \in Nat
        BY <3>4, Numbers
      <3> QED BY <2>1, <3>5, <3>6, <3>7 DEF Guarded, Runaway
    <2> QED BY <1>2, <2>2, <2>3 DEF ReadBinary
  <1>3. CASE ReachSize
    BY <1>3 DEF ReachSize, Guarded
  <1>4. CASE UNCHANGED vars
    BY <1>4 DEF vars, Guarded
  <1> QED BY <1>1, <1>2, <1>3, <1>4 DEF Next

\* The buffer begins with the file at every moment, whatever sizes the pieces
\* come in and however the chip ends a file.
THEOREM PrefixRead == Spec => []Prefix
PROOF
  <1>1. Init => Prefix
    BY PrefixInit, LoopAssumption
  <1>2. Prefix /\ [Next]_vars => Prefix'
    BY PrefixNext, LoopAssumption
  <1> QED BY <1>1, <1>2, PTL DEF Spec

\* What read_ef or _read_card_access_content returns is the whole file, for any
\* file and any chip, but for the endings and sizes CompleteOnReturn names; and
\* for those, what the returned bytes still are.
THEOREM WholeFileOrNone == Spec => []CompleteOnReturn
PROOF
  <1>1. Prefix => CompleteOnReturn
    BY DEF Prefix, CompleteOnReturn
  <1> QED BY <1>1, PrefixRead, PTL

\* The loops send no more commands than their guards allow, to any chip.
THEOREM AlwaysStopsInTime == Spec => []StopsInTime
PROOF
  <1>1. Init => Guarded
    BY LoopAssumption DEF Init, Guarded, LoopAssumption
  <1>2. Prefix /\ Guarded /\ [Next]_vars => Guarded'
    BY GuardedNext, LoopAssumption DEF Prefix
  <1>3. Guarded => StopsInTime
    BY DEF Guarded, StopsInTime
  <1> QED BY <1>1, <1>2, <1>3, PrefixRead, PTL DEF Spec

\* The offset is the length of the buffer.
THEOREM TypeCorrect == Spec => []TypeOK
PROOF
  <1>1. Prefix => TypeOK
    <2> SUFFICES ASSUME Prefix PROVE TypeOK
      OBVIOUS
    <2>1. Typed /\ size \in Nat
      BY LoopAssumption, Numbers DEF Prefix
    <2> QED BY <2>1 DEF Typed, TypeOK, NoSize
  <1> QED BY <1>1, PrefixRead, PTL
=============================================================================
