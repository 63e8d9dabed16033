------------------------------- MODULE ReadEf -------------------------------
(***************************************************************************)
(* Reading one elementary file: EPassportReader.read_ef (over secure       *)
(* messaging) and _read_card_access_content (in the clear), the chip's     *)
(* SELECT and READ BINARY answers included.  A byte of the file is its     *)
(* position; any other byte is Foreign.                                    *)
(***************************************************************************)
EXTENDS Integers, Sequences

CONSTANTS
  Sizes,       \* sizes the file may have
  Loops,       \* the loops that may read it: "read_ef", "card_access"
  Endings,     \* how chips answer at the end of the file, see ChipAnswers
  ReadChunk,   \* READ_CHUNK
  SfiFrom,     \* first offset whose high bit of P1 says "short EF identifier": 32768
  OffsetSpan,  \* offsets P1-P2 can hold at all: 65536
  MaxReads,    \* the loop's guard: 4096 READ BINARYs
  MaxOffset    \* the loop's guard: 128 KiB

NoSize  == -1  \* parse_fci_size found no size in the SELECT answer
Foreign == -1

ASSUME LoopAssumption ==
  /\ Sizes \subseteq Nat /\ Loops \subseteq {"read_ef", "card_access"}
  /\ Endings \subseteq {"empty", "6B00", "6282", "6700", "padding"}
  /\ {ReadChunk, SfiFrom, OffsetSpan, MaxReads, MaxOffset} \subseteq Nat \ {0}
  /\ SfiFrom <= OffsetSpan

VARIABLES
  loop,     \* the loop that reads
  size,     \* of the file on the chip
  ending,   \* how this chip answers at the end of a file
  fci,      \* the size parse_fci_size found, or NoSize
  pc,       \* select, reading, returned, missing (FileNotFoundError), raised
  offset, buf, reads

vars == <<loop, size, ending, fci, pc, offset, buf, reads>>

Least(a, b) == IF a < b THEN a ELSE b
\* What the file, and its padding behind it, has at count places.
Bytes(from, count) == [i \in 1 .. count |-> IF from + i <= size THEN from + i - 1 ELSE Foreign]

Init ==
  /\ loop \in Loops /\ size \in Sizes /\ ending \in Endings
  /\ fci = NoSize /\ pc = "select"
  /\ offset = 0 /\ buf = <<>> /\ reads = 0

\* SELECT EF.  Chips give the file's size, a larger capacity, or none.
Select ==
  /\ pc = "select"
  /\ \/ pc' = "reading" /\ fci' \in IF loop = "read_ef" THEN {NoSize, size, size + 1} ELSE {NoSize}
     \/ pc' \in {"missing", "raised"} /\ UNCHANGED fci
  /\ UNCHANGED <<loop, size, ending, offset, buf, reads>>

\* le of the next READ BINARY; none is sent when it is not positive.
Le == IF fci = NoSize THEN ReadChunk ELSE Least(ReadChunk, fci - offset)

\* What the chip may answer to READ BINARY: data, then the status.  Past the
\* end: nothing, or a status alone, or padding for as long as it is asked.
\* Across the end: what is left, the status 6282 when the chip warns of it,
\* or 6700 from one strict about Le.
ChipAnswers(at, le) ==
  {[data |-> <<>>, sw |-> "error"]} \cup
  IF at >= SfiFrom
  THEN {[data |-> <<>>, sw |-> "6A82"], [data |-> <<Foreign>>, sw |-> "9000"]}
  ELSE IF ending = "padding"
  THEN {[data |-> Bytes(at, k), sw |-> "9000"] : k \in 1 .. le}
  ELSE IF at >= size
  THEN {[data |-> <<>>, sw |-> IF ending = "empty" THEN "9000" ELSE ending]}
  ELSE IF size - at >= le \/ ending \in {"empty", "6B00"}
  THEN {[data |-> Bytes(at, k), sw |-> "9000"] : k \in 1 .. Least(le, size - at)}
  ELSE IF ending = "6282"
  THEN {[data |-> Bytes(at, size - at), sw |-> "6282"]}
  ELSE {[data |-> <<>>, sw |-> "6700"]}

\* EOF_SW, the empty chunk, and 6700 once _read_card_access_content has data.
EndsLoop(a) ==
  \/ a.sw \in {"6282", "6B00", "6A82"}
  \/ a.sw = "6700" /\ loop = "card_access" /\ buf # <<>>
  \/ a.sw = "9000" /\ a.data = <<>>

\* Mutant of Runaway: only the number of bytes is bounded.
RunawayByOffset == loop = "read_ef" /\ offset' > MaxOffset

\* Both halves of read_ef's guard, the first half only in the other loop.
Runaway == reads' > MaxReads \/ (loop = "read_ef" /\ offset' > MaxOffset)

\* Mutant of ReadBinary: the offset moves on by what was asked for.
ReadBinaryAsked ==
  /\ pc = "reading" /\ Le > 0
  /\ \E a \in ChipAnswers(offset % OffsetSpan, Le) :
       \/ /\ EndsLoop(a)
          /\ pc' = "returned"
          /\ UNCHANGED <<offset, buf, reads>>
       \/ /\ ~EndsLoop(a) /\ a.sw # "9000"
          /\ pc' = "raised"
          /\ UNCHANGED <<offset, buf, reads>>
       \/ /\ ~EndsLoop(a) /\ a.sw = "9000"
          /\ buf' = buf \o a.data
          /\ offset' = offset + Le
          /\ reads' = reads + 1
          /\ pc' = IF Runaway THEN "raised" ELSE "reading"
  /\ UNCHANGED <<loop, size, ending, fci>>

\* One turn of the loop: READ BINARY, its answer, and what becomes of it.
ReadBinary ==
  /\ pc = "reading" /\ Le > 0
  /\ \E a \in ChipAnswers(offset % OffsetSpan, Le) :
       \/ /\ EndsLoop(a)
          /\ pc' = "returned"
          /\ UNCHANGED <<offset, buf, reads>>
       \/ /\ ~EndsLoop(a) /\ a.sw # "9000"
          /\ pc' = "raised"
          /\ UNCHANGED <<offset, buf, reads>>
       \/ /\ ~EndsLoop(a) /\ a.sw = "9000"
          /\ buf' = buf \o a.data
          /\ offset' = offset + Len(a.data)
          /\ reads' = reads + 1
          /\ pc' = IF Runaway THEN "raised" ELSE "reading"
  /\ UNCHANGED <<loop, size, ending, fci>>

\* The size from the FCI is reached: no further command is sent.
ReachSize ==
  /\ pc = "reading" /\ Le <= 0
  /\ pc' = "returned"
  /\ UNCHANGED <<loop, size, ending, fci, offset, buf, reads>>

Next == Select \/ ReadBinary \/ ReachSize

Spec == Init /\ [][Next]_vars

-----------------------------------------------------------------------------
\* The values the variables range over.
TypeOK ==
  /\ loop \in Loops /\ size \in Sizes /\ ending \in Endings /\ fci \in Nat \cup {NoSize}
  /\ pc \in {"select", "reading", "returned", "missing", "raised"}
  /\ offset \in Nat /\ reads \in Nat
  /\ Len(buf) = offset

\* The buffer holds at least n bytes, the first n of them the file's in order.
Begins(n) == n <= Len(buf) /\ \A i \in 1 .. n : buf[i] = i - 1

\* A read across the end whose answer ends the loop: 6282, whose data is not
\* kept, unless the FCI's size keeps the read short of the end; and 6700 where
\* only the loop over EF.CardAccess takes it for the end.
Truncates ==
  \/ ending = "6282" /\ fci # size
  \/ ending = "6700" /\ loop = "card_access"

\* The loop goes on behind the file, or where P1 names another file.
Overruns ==
  \/ size > SfiFrom
  \/ size = SfiFrom /\ fci # size
  \/ ending = "padding" /\ fci # size

\* The whole file; or all but less than one chunk at its end; or the file as
\* far as it can be addressed, and then other bytes.
Acceptable ==
  \/ Len(buf) = size /\ Begins(size)
  \/ Truncates /\ Len(buf) \in (size - ReadChunk) + 1 .. size - 1 /\ Begins(Len(buf))
  \/ Overruns /\ Begins(Least(size, SfiFrom))

\* A file handed to the caller (and recorded in _ef_success) is the whole file,
\* each byte once and in order, except where the loop truncates or overruns;
\* and then what is returned still begins with the file.
CompleteOnReturn == pc = "returned" => Acceptable

\* Whatever the chip answers, padding without end included, the loop sends no
\* more than MaxReads + 1 commands, each of which brought a byte, and read_ef
\* goes on only while it has at most MaxOffset bytes.
StopsInTime ==
  /\ reads <= MaxReads + 1 /\ reads <= offset
  /\ pc = "reading" => reads <= MaxReads /\ (loop = "read_ef" => offset <= MaxOffset)

\* What is returned is the whole file (reader.py:12-15: the loop handles chips
\* that answer with no data and those that answer with 6282 or 6B00).
WholeFileReturned == pc = "returned" => Len(buf) = size /\ Begins(size)
=============================================================================
