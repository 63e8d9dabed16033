----------------------------- MODULE Encodings -----------------------------
(***************************************************************************)
(* The parsers against what a document's issuer meant: every call below is *)
(* made on inputs built from a description of the file, and the properties *)
(* compare the answer with the description.                                *)
(***************************************************************************)
EXTENDS Sod, SecurityInfos, MrzInfo

CONSTANTS
  Objects,      \* data objects: tag, form of the length, value or objects held, bytes
  FciCases,     \* SELECT answers: template, other objects, size
  SodCases,     \* layouts of EF.SOD
  Dg14Cases,    \* layouts of EF.DG14
  AccessCases,  \* lists of the infos of EF.CardAccess
  Documents     \* number, date of birth and date of expiry

VARIABLE call  \* the parser called, and the description of its input

-----------------------------------------------------------------------------
\* An object of definite length may hold a value or objects; what has no stated
\* length ends with an end mark.  A tag goes on while its bytes are 128 and more.
Bytes == 0 .. 255
IsTag(tag) ==
  /\ tag \in Seq(Bytes) /\ Len(tag) > 0 /\ tag[1] # 0
  /\ Len(tag) = 1 <=> tag[1] % 32 # 31
  /\ \A i \in 2 .. Len(tag) : tag[i] < 128 <=> i = Len(tag)

Marked(form) == IF form = "indefinite" THEN <<0, 0>> ELSE <<>>
Joined(nodes) == FlattenSeq([i \in DOMAIN nodes |-> nodes[i].bytes])
Contents(n) == n.val \o Joined(n.kids) \o Marked(n.form)
Encoded(n) ==
  IF n.form = "indefinite" THEN n.tag \o <<128>> \o Contents(n) ELSE EncodeTlv(n.tag, Contents(n))

ASSUME ObjectsAssumption ==
  \A n \in Objects :
    /\ IsTag(n.tag) /\ n.form \in {"definite", "indefinite"}
    /\ n.val \in Seq(Bytes) /\ n.kids \in Seq(Objects)
    /\ n.kids # <<>> \/ n.form = "indefinite" => n.val = <<>>
    /\ n.bytes \in Seq(Bytes) /\ n.bytes = Encoded(n) /\ Len(Contents(n)) < 65536

\* What a list of objects should parse to, the end mark included.
Listed(nodes, form) ==
  [i \in DOMAIN nodes |-> [tag |-> nodes[i].tag, value |-> Contents(nodes[i])]]
  \o (IF form = "indefinite" THEN <<[tag |-> <<0>>, value |-> <<>>]>> ELSE <<>>)

\* SELECT answers: the size alone, or in a template, after other objects.
SizedOf(c) == Joined(c.others) \o EncodeTlv(SizeTag, c.size)
FciOf(c) == IF c.template = <<>> THEN SizedOf(c) ELSE EncodeTlv(c.template, SizedOf(c))

ASSUME FciAssumption ==
  \A c \in FciCases :
    /\ c.template \in FciTemplates \cup {<<>>}
    /\ c.size \in Seq(Bytes) /\ c.size # <<>> /\ Len(SizedOf(c)) < 65536
    /\ c.others \in Seq(Objects)
    /\ \A i \in DOMAIN c.others : c.others[i].tag \notin FciTemplates \cup {SizeTag}

-----------------------------------------------------------------------------
\* EF.SOD: wrappers, encoding, optional fields, the length of the signed
\* attributes (0: there are none) and where the LDS object is.
ASSUME SodAssumption ==
  \A d \in SodCases :
    /\ {d.file, d.info, d.ber, d.certs, d.crls, d.unsigned} \subseteq BOOLEAN
    /\ d.signers \in Nat \ {0} /\ d.attrs \in Nat
    /\ d.groups \in Seq(Nat) /\ d.groups # <<>> /\ IsInjective(d.groups)
    /\ d.place \in {"content", "attributes"} /\ (d.place = "attributes" => d.attrs > 0)

Alg(oid) == Holds(TagSequence, <<Leaf(TagOid, oid)>>)
Hash(n) == <<"hash", n>>

LdsOf(d) ==
  Holds(TagSequence,
    <<Leaf(TagInteger, 1), Alg("sha256"),
      Holds(TagSequence, [i \in DOMAIN d.groups |->
        Holds(TagSequence, <<Leaf(TagInteger, d.groups[i]), Leaf(TagOctets, Hash(d.groups[i]))>>)]),
      Holds(TagSequence, <<Leaf(<<19>>, "0108"), Leaf(<<19>>, "040000")>>)>>)

Attribute(type, value) ==
  Holds(TagSequence, <<Leaf(TagOid, type), Holds(TagSet, <<value>>)>>)

AttrsOf(d) ==
  <<Attribute("contentType", Leaf(TagOid, LdsSecurityObject)),
    Attribute("messageDigest", Leaf(TagOctets, "digest"))>>
  \o (IF d.place = "attributes"
      THEN <<Attribute(LdsSecurityObject, Holds(TagOctets, <<LdsOf(d)>>))>> ELSE <<>>)

SignerNode(d, signature) ==
  Holds(TagSequence,
    <<Leaf(TagInteger, 1), Holds(TagSequence, <<Leaf(TagInteger, 9)>>), Alg("sha1")>>
    \o (IF d.attrs > 0 THEN <<[Holds(TagCtx0, AttrsOf(d)) EXCEPT !.val = d.attrs]>> ELSE <<>>)
    \o <<Alg("sha512Rsa"), Leaf(TagOctets, signature)>>
    \o (IF d.unsigned THEN <<Holds(TagCtx1, <<Leaf(TagOid, "other")>>)>> ELSE <<>>))

SodOf(d) ==
  LET holds(tag, kids) == Holds(tag, IF d.ber THEN Append(kids, EndMark) ELSE kids)
      content == IF d.place = "content"
                 THEN <<holds(TagCtx0, <<Holds(TagOctets, <<LdsOf(d)>>)>>)>> ELSE <<>>
      signed == holds(TagSequence,
        <<Leaf(TagInteger, 3), holds(TagSet, <<Alg("sha1")>>),
          holds(TagSequence, <<Leaf(TagOid, LdsSecurityObject)>> \o content)>>
        \o (IF d.certs THEN <<holds(TagCtx0, <<[Holds(TagSequence, <<Leaf(TagInteger, 1)>>) EXCEPT !.val = "signer"],
                                              [Holds(TagSequence, <<Leaf(TagInteger, 2)>>) EXCEPT !.val = "other"]>>)>>
            ELSE <<>>)
        \o (IF d.crls THEN <<holds(TagCtx1, <<Leaf(TagInteger, 1)>>)>> ELSE <<>>)
        \o <<holds(TagSet, [i \in 1 .. d.signers |-> SignerNode(d, IF i = 1 THEN "first" ELSE "other")])>>)
      object == IF d.info
                THEN holds(TagSequence, <<Leaf(TagOid, "signedData"), holds(TagCtx0, <<signed>>)>>)
                ELSE signed
  IN  IF d.file THEN <<Holds(TagSod, <<object>>)>> ELSE <<object>>

-----------------------------------------------------------------------------
\* EF.DG14: one chip key among suites and other infos, in any order, as a SET
\* OF, a SEQUENCE OF or a bare list, with a sequence more around each or not.
ASSUME Dg14Assumption ==
  \A d \in Dg14Cases :
    /\ d.wrapper \in {"set", "sequence", "none"} /\ {d.deep, d.byName} \subseteq BOOLEAN
    /\ d.keyId \in {NoKeyId} \cup 0 .. 127
    /\ d.param \in Nat /\ (d.byName => d.param \in {NoParam, 12, 13, 16, 17})
    /\ d.place \in {"SPKI", "tag 81"}
    /\ d.infos \in Seq(SuiteOids \cup {"key", "other"})
    /\ \E i \in DOMAIN d.infos : \A j \in DOMAIN d.infos : d.infos[j] = "key" <=> j = i

CurveName(param) == CHOOSE c \in DOMAIN NamedCurves : NamedCurves[c] = param

KeyNode(d) ==
  LET point == [size |-> 65, key |-> "chip"]
      param == CASE d.param = NoParam              -> <<>>
                 [] d.param # NoParam /\ d.byName  -> <<Leaf(TagOid, CurveName(d.param))>>
                 [] d.param # NoParam /\ ~d.byName -> <<Leaf(TagInteger, d.param)>>
  IN  Holds(TagSequence,
        <<Leaf(TagOid, "id-PK-ECDH"),
          IF d.place = "SPKI"
          THEN Holds(TagSequence, <<Holds(TagSequence, <<Leaf(TagOid, "ecPublicKey")>> \o param),
                                    Leaf(TagBits, point)>>)
          ELSE Leaf(<<129>>, point)>>
        \o (IF d.keyId = NoKeyId THEN <<>> ELSE <<Leaf(TagInteger, d.keyId)>>))

Dg14Of(d) ==
  LET info(n) == IF n = "key" THEN KeyNode(d)
                 ELSE Holds(TagSequence, <<Leaf(TagOid, n), Leaf(TagInteger, 1), Leaf(TagInteger, 2)>>)
      infos == [i \in DOMAIN d.infos |->
                  IF d.deep THEN Holds(TagSequence, <<info(d.infos[i])>>) ELSE info(d.infos[i])]
  IN  <<Holds(TagDg14, CASE d.wrapper = "none"     -> infos
                         [] d.wrapper = "set"      -> <<Holds(TagSet, infos)>>
                         [] d.wrapper = "sequence" -> <<Holds(TagSequence, infos)>>)>>

\* EF.CardAccess: infos of PACE by ECDH or DH, with the version and a curve or a
\* group, or of another protocol.
ASSUME AccessAssumption ==
  \A d \in AccessCases :
    d \in Seq([oid: PaceEcdhOids \cup PaceDhOids \cup {"other"}, param: Nat])

CardAccessOf(d) ==
  LET info(i) == Holds(TagSequence, <<Leaf(TagOid, i.oid), Leaf(TagInteger, 2)>>
                   \o (IF i.param = NoParam THEN <<>> ELSE <<Leaf(TagInteger, i.param)>>))
  IN  <<Holds(TagSet, [i \in DOMAIN d |-> info(d[i])])>>

-----------------------------------------------------------------------------
\* Documents: a number of one to nine letters and digits, in the MRZ and as it
\* is typed, with or without fillers and check digits.
ASSUME DocumentsAssumption ==
  \A d \in Documents :
    /\ d.number \in Seq(0 .. 35) /\ Len(d.number) \in 1 .. 9
    /\ {d.dob, d.expiry} \subseteq [1 .. 6 -> 0 .. 9]

Filled(number) == number \o Fillers(9 - Len(number))

DocumentInfo(d) == Checked(Filled(d.number)) \o Checked(d.dob) \o Checked(d.expiry)

Line2(d) ==
  Checked(Filled(d.number)) \o <<29, 28, 13>> \o Checked(d.dob) \o <<Filler>> \o Checked(d.expiry) \o Fillers(16)

Typed(d) == [doc: {d.number, Filled(d.number), Checked(Filled(d.number))},
             dob: {d.dob, Checked(d.dob)}, expiry: {d.expiry, Checked(d.expiry)}]

-----------------------------------------------------------------------------
Idle == [of |-> "none"]

Init == call = Idle

Call(of, inputs) == call = Idle /\ \E d \in inputs : call' = [of |-> of, input |-> d]

CallParseTlvs       == Call("parse_tlvs", Objects)
CallParseFciSize    == Call("parse_fci_size", FciCases)
CallParseSod        == Call("parse_sod", SodCases)
CallParseChipAuth   == Call("parse_chip_auth_data", Dg14Cases)
CallParseCardAccess == Call("parse_card_access", AccessCases)
CallBuildMrzInfo    == Call("build_mrz_info", Documents)
Return              == call # Idle /\ call' = Idle

Next ==
  \/ CallParseTlvs \/ CallParseFciSize \/ CallParseSod \/ CallParseChipAuth
  \/ CallParseCardAccess \/ CallBuildMrzInfo \/ Return

Spec == Init /\ [][Next]_call

-----------------------------------------------------------------------------
\* What was encoded is read back: parse_tlvs finds the objects of every value,
\* whatever the forms of the lengths and of the tags, an indefinite value
\* ending with its own end mark and with no bytes of another's; a value of
\* stated length that is cut short is refused, not read short; and
\* parse_fci_size finds the size of an FCI in and out of a template.
ReadBack ==
  /\ call.of = "parse_tlvs" =>
       /\ ParseTlvs(call.input.bytes) = Listed(<<call.input>>, "definite")
       /\ call.input.kids # <<>> => ParseTlvs(Contents(call.input)) = Listed(call.input.kids, call.input.form)
       /\ call.input.form = "definite" => ParseTlvs(Front(call.input.bytes)) = Broken
  /\ call.of = "parse_fci_size" => ParseFciSize(FciOf(call.input)) = <<call.input.size>>

\* Signed attributes of these lengths parse, with the last length byte for the
\* whole length.
LastByteServes(n) == n < 128 \/ n % 256 = 128

\* parse_sod finds the fields by place and order in every layout of the file:
\* the hashes and their digest, which is not the signer's, the first signer's
\* signature and the first certificate; signed attributes shorter than 128
\* bytes are the ones signed.  Hashes in longer attributes are missed but for a
\* few lengths.
SodRead ==
  LET d == call.input  sod == ParseSod(SodOf(d))
  IN  call.of = "parse_sod" =>
        /\ d.place = "content" \/ LastByteServes(d.attrs) =>
             /\ sod.hashes = [n \in ToSet(d.groups) |-> Hash(n)]
             /\ sod.digest = "SHA-256" /\ ~sod.error
        /\ sod.sigAlg = "SHA-512" /\ sod.signature = "first"
        /\ sod.cert = (IF d.certs THEN "signer" ELSE None)
        /\ d.attrs \in 1 .. 127 => sod.attrs = Holds(TagSet, AttrsOf(d))

\* The docstring of pa.py has the LDS object in the signed attributes or in the
\* eContent: its hashes are found in either place.
HashesInEitherPlace ==
  call.of = "parse_sod" => ParseSod(SodOf(call.input)).hashes = [n \in ToSet(call.input.groups) |-> Hash(n)]

\* Chip Authentication runs with the document's own key, its reference and
\* curve, and a suite the document lists, the first if it lists several,
\* wherever in EF.DG14 they are.  A bare list of one key is taken apart as if it
\* were the wrapper, and the key is not found.
KeyFound ==
  LET d == call.input
      listed == {i \in DOMAIN d.infos : d.infos[i] \in SuiteOids}
  IN  call.of = "parse_chip_auth_data" =>
        \/ d.wrapper = "none" /\ Len(d.infos) = 1 /\ ~d.deep /\ d.place = "SPKI"
        \/ ChipAuthSetup(Dg14Of(d)) =
              [key |-> "chip", reference |-> IF d.keyId = NoKeyId THEN 0 ELSE d.keyId,
               curve |-> IF d.place = "SPKI" THEN CurveOf(d.param) ELSE DefaultCurve,
               suite |-> IF listed = {} THEN "CA-CMAC-256" ELSE d.infos[Min(listed)]]

\* PACE runs with the variant and the curve of one and the same PACEInfo, one by
\* ECDH if any is listed, and with the reader's defaults when none is.
PaceAsListed ==
  LET pace == {i \in ToSet(call.input) : i.oid # "other"}
      ecdh == {i \in pace : i.oid \in PaceEcdhOids}
      setup(i) == [oid |-> i.oid, curve |-> CurveOf(i.param)]
  IN  call.of = "parse_card_access" =>
        PaceSetup(CardAccessOf(call.input)) \in
          CASE ecdh # {}                -> {setup(i) : i \in ecdh}
            [] ecdh = {} /\ pace # {}   -> {setup(i) : i \in pace}
            [] pace = {}                -> {DefaultPace}

\* The key material fits the document however its number reaches the reader:
\* the MRZ information is the document's for a number taken from a stored MRZ
\* and for one typed with or without fillers and check digits, and the number
\* signed as ID_IC has its check digit when it was given in full length.
CredentialsFit ==
  LET d == call.input
  IN  call.of = "build_mrz_info" =>
        /\ MrzToFields(Line2(d)) # NotAccepted
        /\ BuildMrzInfo(Head(MrzToFields(Line2(d)))) = DocumentInfo(d)
        /\ \A f \in Typed(d) :
             /\ BuildMrzInfo(f) = DocumentInfo(d)
             /\ Len(f.doc) >= 9 => IdIc(f.doc) = Checked(Filled(d.number))

=============================================================================
