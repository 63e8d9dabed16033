-------------------------------- MODULE Sod --------------------------------
(***************************************************************************)
(* parse_sod: what passive authentication takes out of EF.SOD, a CMS       *)
(* SignedData found by the tags and positions of its fields.  The input is *)
(* the tree module Tlv's parser makes of the file; the signed attributes   *)
(* carry the length of their encoding as their value.                      *)
(***************************************************************************)
EXTENDS Tlv

TagSod == <<119>>
LdsSecurityObject == "ldsSecurityObject"
DigestNames == [sha1 |-> "SHA-1", sha256 |-> "SHA-256", sha512 |-> "SHA-512",
                sha1Rsa |-> "SHA-1", sha256Rsa |-> "SHA-256", sha512Rsa |-> "SHA-512"]
Garbled == Leaf(<<>>, "garbled")  \* bytes that are no object

\* Where data starts with an object of the tag, its contents.
Unwrapped(data, tag) == IF data # <<>> /\ Head(data).tag = tag THEN Head(data).kids ELSE data

AlgName(alg) ==
  LET oid == FirstValue(alg.kids, TagOid)
  IN  IF oid \in DOMAIN DigestNames THEN DigestNames[oid] ELSE "unknown"

-----------------------------------------------------------------------------
Refused == [digest |-> "raised", hashes |-> <<>>]

\* One data group's number and hash; the last of each kind counts.
HashOf(entry) ==
  [num |-> Last(Tagged(entry.kids, {TagInteger})).val, hash |-> Last(Tagged(entry.kids, {TagOctets})).val]

IsHash(entry) ==
  /\ entry.tag = TagSequence
  /\ Tagged(entry.kids, {TagInteger}) # <<>> /\ Tagged(entry.kids, {TagOctets}) # <<>>

HashesOf(kids) == Picked(kids, {j \in DOMAIN kids : IsHash(kids[j])})

\* The last hash of a group counts.
HashTable(pairs) ==
  [n \in {pairs[i].num : i \in DOMAIN pairs} |-> pairs[Max({i \in DOMAIN pairs : pairs[i].num = n})].hash]

\* _parse_lds_security_object: the first sequence names the digest, those after
\* it hold the hashes.
LdsFrom(sequences) ==
  LET entries == FlattenSeq([i \in DOMAIN sequences |-> IF i = 1 THEN <<>> ELSE HashesOf(sequences[i].kids)])
  IN  [digest |-> IF sequences = <<>> THEN None ELSE AlgName(Head(sequences)),
       hashes |-> HashTable([i \in DOMAIN entries |-> HashOf(entries[i])])]

LdsObject(der) ==
  LET object == IF der # <<>> /\ Head(der).tag = TagOctets THEN Head(der).kids ELSE der
  IN  IF object = <<>> \/ Head(object).tag # TagSequence
      THEN Refused
      ELSE LdsFrom(Tagged(Head(object).kids, {TagSequence}))

\* _extract_lds_so_from_attrs: the octet string of the first attribute of that
\* type which has one.
LdsInAttrs(attrs) ==
  LET all    == Tagged(attrs.kids, {TagSequence})
      typed  == Picked(all, {i \in DOMAIN all : FirstValue(all[i].kids, TagOid) = LdsSecurityObject})
      values == [i \in DOMAIN typed |->
                   FlattenSeq([j \in DOMAIN Tagged(typed[i].kids, {TagSet}) |->
                                 Tagged(Tagged(typed[i].kids, {TagSet})[j].kids, {TagOctets})])]
  IN  FlattenSeq(values)

-----------------------------------------------------------------------------
\* Only the last length byte of the [0] attributes follows the SET tag in
\* signed_attrs_raw.  It is their length when that has one byte; 128 says that they
\* go on to an end mark, which is not there, and so to the end; any other value
\* cuts them somewhere, or takes their first bytes for a length.
Retagged(attrs) ==
  LET length == LengthBytes(attrs.val)
  IN  IF Len(length) = 1 \/ Last(length) = 128 THEN Holds(TagSet, attrs.kids) ELSE Garbled

NoAttrs == Leaf(<<>>, None)
NoSigner == [digest |-> None, sigAlg |-> None, signature |-> None, attrs |-> NoAttrs]

\* The signer's fields with the signature algorithm at place n.
Signer(fields, n) ==
  LET attrs == Tagged(fields, {TagCtx0})
      at(i, tag) == i <= Len(fields) /\ fields[i].tag = tag
  IN  [digest    |-> IF Len(fields) < 3 THEN None ELSE AlgName(fields[3]),
       sigAlg    |-> IF at(n, TagSequence) THEN AlgName(fields[n]) ELSE None,
       signature |-> IF at(n + 1, TagOctets) THEN fields[n + 1].val ELSE None,
       attrs     |-> IF attrs = <<>> THEN NoAttrs ELSE Retagged(Last(attrs))]

\* Mutant of SignerOf: the places of a signer with signed attributes, always.
SignerOfAttrs(fields) == Signer(fields, 5)

\* _parse_signer_info on the first signer: signed attributes shift the places.
SignerOf(fields) == Signer(fields, IF Tagged(fields, {TagCtx0}) = <<>> THEN 4 ELSE 5)

\* The fields of the SignedData, out of the wrappers there are.
SignedFields(data) ==
  LET outer == Unwrapped(Unwrapped(data, TagSod), TagSequence)
  IN  IF Len(outer) >= 2 /\ outer[1].tag = TagOid /\ outer[2].tag = TagCtx0
      THEN Unwrapped(outer[2].kids, TagSequence) ELSE outer

\* The signers are in the second set.
FirstSigner(signed) ==
  LET sets    == Tagged(signed, {TagSet})
      signers == IF Len(sets) < 2 THEN <<>> ELSE Tagged(sets[2].kids, {TagSequence})
  IN  IF signers = <<>> THEN NoSigner ELSE SignerOf(Head(signers).kids)

FirstCert(signed) ==
  LET fields == Tagged(signed, {TagCtx0})
      certs  == IF fields = <<>> THEN <<>> ELSE Tagged(Head(fields).kids, {TagSequence})
  IN  IF certs = <<>> THEN None ELSE Head(certs).val

\* The LDS object of the eContent.
LdsInBody(signed) ==
  LET encap   == Tagged(signed, {TagSequence})
      content == IF encap = <<>> THEN <<>> ELSE Tagged(Head(encap).kids, {TagCtx0, TagSequence})
  IN  IF content = <<>> THEN <<>> ELSE <<LdsObject(Head(content).kids)>>

\* With no hashes in the eContent the signed attributes are searched, and bytes
\* that do not parse there end the parsing.
LdsSigned(attrs, inBody) ==
  LET found == IF (\E i \in DOMAIN inBody : inBody[i].hashes # <<>>) \/ attrs \in {NoAttrs, Garbled}
               THEN <<>> ELSE LdsInAttrs(attrs)
  IN  IF found = <<>> THEN <<>> ELSE <<LdsObject(Head(found).kids)>>

\* parse_sod.  The digest of the last LDS object read replaces the signer's.
ParseSod(data) ==
  LET signed  == SignedFields(data)
      signer  == FirstSigner(signed)
      inBody  == LdsInBody(signed)
      objects == inBody \o LdsSigned(signer.attrs, inBody)
      parsed  == {i \in DOMAIN objects : objects[i] # Refused}
      lds     == IF parsed = {} THEN [digest |-> signer.digest, hashes |-> <<>>] ELSE objects[Max(parsed)]
  IN  [hashes |-> lds.hashes, digest |-> lds.digest,
       sigAlg |-> signer.sigAlg, signature |-> signer.signature, attrs |-> signer.attrs,
       cert   |-> FirstCert(signed), error |-> lds.hashes = <<>>]

=============================================================================
