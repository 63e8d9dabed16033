---------------------------- MODULE MCEncodings ----------------------------
(* Bounded families of inputs for the model checker: byte strings of the      *)
(* lengths where the form of the length changes and objects held two levels   *)
(* deep, every layout of EF.SOD and EF.DG14, up to three PACEInfos, and       *)
(* numbers of every length.                                                   *)
EXTENDS Encodings

Node(tag, form, val, kids) ==
  LET n == [tag |-> tag, form |-> form, val |-> val, kids |-> kids, bytes |-> <<>>]
  IN  [n EXCEPT !.bytes = Encoded(n)]

Counted(n) == [i \in 1 .. n |-> (i + 6) % 256]

\* One value looks like an end mark.
Primitives == {Node(t, "definite", v, <<>>) :
                 t \in {<<4>>, <<95, 44>>}, v \in {<<0, 0>>} \cup {Counted(n) : n \in {0, 1, 127, 128}}}
              \cup {Node(<<95, 165, 33>>, "definite", Counted(n), <<>>) : n \in {255, 256, 300}}

Holders(kidLists, tags) ==
  {Node(t, f, <<>>, k) : t \in tags, f \in {"definite", "indefinite"}, k \in kidLists}

Pairs(set) == {<<x, y>> : x, y \in set}
Inner == Holders({<<>>} \cup {<<p>> : p \in Primitives}, {<<48>>, <<127, 73>>})
Outer == Holders({<<i>> : i \in Inner} \cup Pairs({p \in Primitives : Len(p.val) < 3}), {<<160>>})
         \cup Holders({<<i, p>> : i \in {i \in Inner : i.tag = <<48>>},
                                  p \in {p \in Primitives : Len(p.val) = 1}}, {<<48>>})
Other == Node(<<131>>, "definite", <<128, 1>>, <<>>)
Trees == Primitives \cup Inner \cup Outer \cup {Other}

Answers == [template: FciTemplates \cup {<<>>}, size: {<<7>>, <<1, 0>>, <<128, 2>>}, others: {<<>>, <<Other>>}]

SodLayouts ==
  {d \in [file: BOOLEAN, info: BOOLEAN, ber: BOOLEAN, certs: BOOLEAN, crls: BOOLEAN,
          signers: 1 .. 2, attrs: {0, 72, 127, 128, 129, 300}, unsigned: BOOLEAN,
          place: {"content", "attributes"}, groups: {<<1>>, <<1, 2, 14>>}] :
     d.place = "attributes" => d.attrs > 0}

Dg14Layouts ==
  [wrapper: {"set", "sequence", "none"}, deep: BOOLEAN, keyId: {NoKeyId, 1, 127},
   param: {NoParam, 12, 13}, byName: BOOLEAN, place: {"SPKI", "tag 81"},
   infos: {s \in UNION {[1 .. n -> SuiteOids \cup {"key", "other"}] : n \in 1 .. 3} :
             Cardinality({i \in DOMAIN s : s[i] = "key"}) = 1}]

InfoLists ==
  UNION {[1 .. n -> [oid: {"GM-AES-128", "IM-AES-256"}, param: {12, 13, 16, NoParam}]
                    \cup [oid: {"DH-GM-AES-128", "other"}, param: {2}]] : n \in 0 .. 3}

Holdings == [number: UNION {[1 .. n -> {8, 30}] : n \in 1 .. 9},
             dob: {<<9, 9, 0, 9, 2, 2>>}, expiry: {<<2, 2, 1, 2, 3, 1>>}]
=============================================================================
