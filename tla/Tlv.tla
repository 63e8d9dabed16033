-------------------------------- MODULE Tlv --------------------------------
(***************************************************************************)
(* BER-TLV as tlvs.py reads and writes it: tags of several bytes, lengths  *)
(* of the short, long and indefinite forms.  A byte string is a sequence   *)
(* of 0 .. 255; a tag is the sequence of its bytes; positions count from   *)
(* 1, and `to' is the position after the last byte.                        *)
(*                                                                         *)
(* The end of the module is the view of a file the other parsers have: the *)
(* tree of the objects it parses to.                                       *)
(***************************************************************************)
EXTENDS Lists, SequencesExt

Malformed == [tag |-> <<>>, from |-> 0, to |-> 0]  \* ValueError

\* _read_ber_tag: the position after the tag at i.
TagEnd(data, i) ==
  LET last == {j \in i + 1 .. Len(data) : data[j] < 128}
  IN  CASE data[i] % 32 # 31               -> i + 1
        [] data[i] % 32 = 31 /\ last # {} -> Min(last) + 1
        [] data[i] % 32 = 31 /\ last = {} -> Len(data) + 1

\* int.from_bytes; what is beyond the limit need not be told apart.
BigEndian(bytes, limit) ==
  LET value[k \in 0 .. Len(bytes)] == IF k = 0 THEN 0 ELSE Min({256 * value[k - 1] + bytes[k], limit})
  IN  value[Len(bytes)]

\* _value_end for a tag that ends at `at'; eoc is the end of indefinite contents.
ValueAt(data, tag, at, eoc) ==
  LET first == data[at]
      start == at + 1 + (IF first > 128 THEN first - 128 ELSE 0)
      size  == IF first < 128 THEN first ELSE BigEndian(SubSeq(data, at + 1, start - 1), Len(data))
  IN  IF first = 128 THEN [tag |-> tag, from |-> at + 1, to |-> eoc[at + 1]]
      ELSE IF first > 132 \/ start > Len(data) + 1 \/ start + size > Len(data) + 1 THEN Malformed
           ELSE [tag |-> tag, from |-> start, to |-> start + size]

ReadFrom(data, i, at, eoc) ==
  IF at > Len(data) THEN Malformed ELSE ValueAt(data, SubSeq(data, i, at - 1), at, eoc)

\* read_der_tlv at i.
ReadAt(data, i, eoc) ==
  IF i > Len(data) THEN Malformed ELSE ReadFrom(data, i, TagEnd(data, i), eoc)

EndMarkAt(data, i) == i < Len(data) /\ data[i] = 0 /\ data[i + 1] = 0

\* Mutant of EndOfContents: the first 00 00 ends the value, inner ones too.
EndOfContentsFirst(data) ==
  LET eoc[i \in 1 .. Len(data) + 1] ==
        CASE EndMarkAt(data, i)                      -> i + 2
          [] ~EndMarkAt(data, i) /\ i >= Len(data)   -> Len(data) + 1
          [] ~EndMarkAt(data, i) /\ i < Len(data)    -> eoc[i + 1]
  IN  eoc

\* The walk of an indefinite value from i to past its 00 00; contents that end
\* without it, or cannot be read on (position 0), are taken to the end.
EndOfContents(data) ==
  LET eoc[i \in 0 .. Len(data) + 1] ==
        IF i = 0 THEN Len(data) + 1
        ELSE IF EndMarkAt(data, i) THEN i + 2 ELSE eoc[ReadAt(data, i, eoc).to]
  IN  eoc

Broken == <<[tag |-> <<>>, value |-> <<>>]>>  \* ValueError out of parse_tlvs

\* The object read as t, and what follows it.
Listing(data, t, list) ==
  IF t = Malformed THEN Broken
  ELSE <<[tag |-> t.tag, value |-> SubSeq(data, t.from, t.to - 1)]>> \o list[t.to]

OrBroken(list) == IF Head(Broken) \in ToSet(list) THEN Broken ELSE list

ParseTlvs(data) ==
  LET list[i \in 1 .. Len(data) + 1] ==
        IF i > Len(data) THEN <<>>
        ELSE Listing(data, ReadAt(data, i, EndOfContents(data)), list)
  IN  OrBroken(list[1])

-----------------------------------------------------------------------------
\* The length bytes tlv writes; it has none for 65536 and more.
LengthBytes(n) ==
  CASE n < 128              -> <<n>>
    [] n \in 128 .. 255     -> <<129, n>>
    [] n > 255              -> <<130, (n \div 256) % 256, n % 256>>

EncodeTlv(tag, value) == tag \o LengthBytes(Len(value)) \o value

\* find_first: the first value with the tag, as a sequence of at most one.
FindFirst(list, tag) ==
  LET at == {i \in DOMAIN list : list[i].tag = tag}
  IN  IF at = {} THEN <<>> ELSE <<list[Min(at)].value>>

FciTemplates == {<<111>>, <<98>>, <<100>>, <<97>>}  \* 6F, 62, 64, 61
SizeTag == <<128>>

Sized(list) ==
  IF list = Broken THEN Broken
  ELSE IF FindFirst(list, SizeTag) = << <<>> >> THEN <<>> ELSE FindFirst(list, SizeTag)

SizeIn(outer) ==
  LET inside(i) == Sized(ParseTlvs(outer[i].value))
      found == {i \in DOMAIN outer : outer[i].tag \in FciTemplates /\ inside(i) # <<>>}
  IN  IF found = {} THEN Sized(outer) ELSE inside(Min(found))

\* parse_fci_size: a size in a template, else one beside them, as a sequence of
\* at most one.
ParseFciSize(fci) == SizeIn(ParseTlvs(fci))

-----------------------------------------------------------------------------
\* A file as the tree it parses to: a value is a leaf, or holds objects.
Leaf(tag, val)   == [tag |-> tag, val |-> val, kids |-> <<>>]
Holds(tag, kids) == [tag |-> tag, val |-> "", kids |-> kids]

TagSequence == <<48>>
TagSet      == <<49>>
TagInteger  == <<2>>
TagBits     == <<3>>
TagOctets   == <<4>>
TagOid      == <<6>>
TagCtx0     == <<160>>
TagCtx1     == <<161>>
EndMark     == Leaf(<<0>>, "")  \* the 00 00 of an indefinite value, as parse_tlvs sees it

Tagged(nodes, tags) == Picked(nodes, {i \in DOMAIN nodes : nodes[i].tag \in tags})

\* The value of the first object with the tag, or none.
None == "none"
FirstValue(nodes, tag) == IF Tagged(nodes, {tag}) = <<>> THEN None ELSE Head(Tagged(nodes, {tag})).val

=============================================================================
