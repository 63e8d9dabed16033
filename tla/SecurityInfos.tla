--------------------------- MODULE SecurityInfos ---------------------------
(***************************************************************************)
(* What the reader takes out of the chip's SecurityInfos: the Chip         *)
(* Authentication key of EF.DG14 with its curve and cipher suite, and the  *)
(* PACE variant and curve of EF.CardAccess.  The inputs are the trees      *)
(* module Tlv's parser makes of the files; object identifiers are named,   *)
(* integers are numbers, and a public key is its bytes' count and a name.  *)
(***************************************************************************)
EXTENDS Tlv

TagDg14 == <<110>>
PointTags == {<<129>>, <<134>>}
KeyOids == {"id-PK-DH", "id-PK-ECDH"}
SuiteOids == {"CA-3DES", "CA-CMAC-128", "CA-CMAC-256"}
NamedCurves == [prime256v1 |-> 12, brainpoolP256r1 |-> 13, secp384r1 |-> 16, secp521r1 |-> 17]
Curves == [id \in {12, 13, 16, 17} |->
             CASE id = 12 -> "P-256" [] id = 13 -> "brainpoolP256r1" [] id = 16 -> "P-384" [] id = 17 -> "P-521"]
DefaultCurve == "P-256"

NoParam == 0
NoKeyId == -1
NoPoint == [size |-> 0, key |-> None]
NoKey == [point |-> NoPoint, keyId |-> NoKeyId, param |-> NoParam, oid |-> None]

\* chip_authentication and _read_worker: the curve of a parameter id.
CurveOf(param) == IF param \in DOMAIN Curves THEN Curves[param] ELSE DefaultCurve

-----------------------------------------------------------------------------
IsPoint(val) == val.size = 65

\* _extract_spki: the first parameter id of an AlgorithmIdentifier, by number or
\* by curve name, and the point of the bit string.
AlgParams(alg) ==
  LET named(n) == n.tag = TagOid /\ n.val \in DOMAIN NamedCurves
      id(n) == CASE n.tag = TagInteger -> n.val
                 [] named(n)           -> NamedCurves[n.val]
                 [] n.tag # TagInteger /\ ~named(n) -> NoParam
      ids == [i \in DOMAIN alg.kids |-> id(alg.kids[i])]
  IN  Picked(ids, {i \in DOMAIN ids : ids[i] # NoParam})

Spki(kids) ==
  LET params == FlattenSeq([i \in DOMAIN Tagged(kids, {TagSequence}) |->
                              AlgParams(Tagged(kids, {TagSequence})[i])])
      points == {i \in DOMAIN kids : kids[i].tag = TagBits /\ IsPoint(kids[i].val)}
  IN  [point |-> IF points = {} THEN NoPoint ELSE kids[Max(points)].val,
       param |-> IF params = <<>> THEN NoParam ELSE Head(params)]

\* _parse_security_info: a SecurityInfo that is a chip key, or NoKey.  The point
\* is in a SubjectPublicKeyInfo or under a tag of its own; the last one counts.
KeyOf(kids) ==
  LET oids   == {i \in DOMAIN kids : kids[i].tag = TagOid /\ kids[i].val \in KeyOids}
      ids    == {i \in DOMAIN kids : kids[i].tag = TagInteger}
      params == {i \in DOMAIN kids : kids[i].tag = TagSequence /\ Spki(kids[i].kids).param # NoParam}
      found(n) == CASE n.tag = TagSequence         -> Spki(n.kids).point
                    [] n.tag \in PointTags         -> n.val
                    [] n.tag \notin PointTags \cup {TagSequence} -> NoPoint
      points == {i \in DOMAIN kids : IsPoint(found(kids[i]))}
  IN  IF oids = {} \/ points = {}
      THEN NoKey
      ELSE [point |-> found(kids[Max(points)]),
            keyId |-> IF ids = {} THEN NoKeyId ELSE kids[Min(ids)].val,
            param |-> IF params = {} THEN NoParam ELSE Spki(kids[Max(params)].kids).param,
            oid   |-> kids[Max(oids)].val]

\* _ca_agreement_fields and _ca_key_bits_of: the suite a SecurityInfo names.
SuiteOf(kids) ==
  LET oids == {i \in DOMAIN kids : kids[i].tag = TagOid /\ kids[i].val \in SuiteOids}
  IN  IF oids = {} THEN None ELSE kids[Max(oids)].val

\* Mutant of UnwrapInfos: a file is always wrapped.
UnwrapInfosAlways(nodes) == IF nodes = <<>> THEN nodes ELSE Head(nodes).kids

\* _unwrap_security_infos: one object that holds a sequence is taken for the
\* enclosing SET OF, which one flat key is too.
UnwrapInfos(nodes) ==
  IF /\ Len(nodes) = 1 /\ Head(nodes).tag \in {TagSet, TagSequence}
     /\ Tagged(Head(nodes).kids, {TagSequence}) # <<>>
  THEN Head(nodes).kids
  ELSE nodes

\* parse_chip_auth_data: the first key and the first suite, looking into the
\* sequences of an info before the info.  (ca_key_bits follows the suite.)
ParseChipAuthData(data) ==
  LET file   == IF data # <<>> /\ Head(data).tag = TagDg14 THEN Head(data).kids ELSE data
      infos  == Tagged(UnwrapInfos(file), {TagSequence})
      bodies == FlattenSeq([i \in DOMAIN infos |-> Tagged(infos[i].kids, {TagSequence}) \o <<infos[i]>>])
      keys   == {i \in DOMAIN bodies : KeyOf(bodies[i].kids) # NoKey}
      suites == {i \in DOMAIN bodies : SuiteOf(bodies[i].kids) # None}
      key    == KeyOf(bodies[Min(keys)].kids)
  IN  IF keys = {} THEN NoKey
      ELSE [key EXCEPT !.oid = IF suites = {} THEN @ ELSE SuiteOf(bodies[Min(suites)].kids)]

\* ca_suite: a key's own identifier names none, and the default is for 256 bits.
SuiteFor(oid) == IF oid \in SuiteOids THEN oid ELSE "CA-CMAC-256"

\* _do_ca_exchange: the key reference sent is the first byte of the integer.
ReferenceSent(keyId) == CASE keyId = NoKeyId      -> 0
                          [] keyId \in 0 .. 127   -> keyId
                          [] keyId > 127          -> keyId \div 256

\* What chip_authentication runs with; it raises without a key.
ChipAuthSetup(data) ==
  LET found == ParseChipAuthData(data)
  IN  [key |-> found.point.key, reference |-> ReferenceSent(found.keyId),
       curve |-> CurveOf(found.param), suite |-> SuiteFor(found.oid)]

-----------------------------------------------------------------------------
PaceEcdhOids == {"GM-AES-128", "GM-AES-192", "GM-AES-256", "GM-3DES",
                 "IM-AES-128", "IM-AES-192", "IM-AES-256", "IM-3DES"}
PaceDhOids == {"DH-GM-AES-128", "DH-GM-AES-192", "DH-GM-AES-256",
               "DH-IM-AES-128", "DH-IM-AES-192", "DH-IM-AES-256"}
DefaultPace == [oid |-> "GM-AES-128", curve |-> DefaultCurve]
NoPace == [oid |-> None, param |-> NoParam]

\* _parse_pace_info: the last integer of 6 or more is the parameter id, since
\* the version is below.
PaceInfo(kids) ==
  LET oids == {i \in DOMAIN kids : kids[i].tag = TagOid}
      ids  == {i \in DOMAIN kids : kids[i].tag = TagInteger /\ kids[i].val >= 6}
      oid  == kids[Max(oids)].val
  IN  IF oids = {} \/ oid \notin PaceEcdhOids \cup PaceDhOids
      THEN NoPace
      ELSE [oid |-> oid, param |-> IF ids = {} THEN NoParam ELSE kids[Max(ids)].val]

\* parse_card_access: the first PACEInfo by ECDH, else the first.
ParseCardAccess(data) ==
  LET sets  == Tagged(data, {TagSet, TagSequence})
      infos == FlattenSeq([i \in DOMAIN sets |-> Tagged(sets[i].kids, {TagSequence})])
      found(i) == PaceInfo(infos[i].kids)
      pace  == {i \in DOMAIN infos : found(i) # NoPace}
      ecdh  == {i \in pace : found(i).oid \in PaceEcdhOids}
  IN  CASE pace = {}              -> NoPace
        [] pace # {} /\ ecdh = {} -> found(Min(pace))
        [] ecdh # {}              -> found(Min(ecdh))

\* Mutant of PaceSetup: the identifier is taken over and the curve left.
PaceSetupOid(data) ==
  LET found == ParseCardAccess(data)
  IN  IF found = NoPace THEN DefaultPace ELSE [DefaultPace EXCEPT !.oid = found.oid]

\* _read_worker: pace_oid and pace_curve of the reader; a reader has defaults.
PaceSetup(data) ==
  LET found == ParseCardAccess(data)
  IN  IF found = NoPace THEN DefaultPace ELSE [oid |-> found.oid, curve |-> CurveOf(found.param)]

=============================================================================
