-------------------------- MODULE Encodings_proofs --------------------------
(***************************************************************************)
(* The parsers give back what the issuer meant, for every description of a *)
(* file, not only for the families the model checker enumerates.           *)
(*                                                                         *)
(* The invariant of the specification is small (CallsMade: a call is made  *)
(* on one of the descriptions); the work is in the lemmas on the operators *)
(* the parsers are built from: the elements picked from a list, those of a *)
(* list of lists, the children with a tag, the first of several that has   *)
(* what is looked for.  Where a fact holds of every length it is shown of  *)
(* the least length that would break it.                                   *)
(***************************************************************************)
EXTENDS Encodings, FiniteSetTheorems, FunctionTheorems, SequenceTheorems, WellFoundedInduction, TLAPS

-----------------------------------------------------------------------------
(* Numbers and lists.                                                      *)

LEMMA Least ==
  ASSUME NEW T, T \subseteq Nat, T # {}
  PROVE  \E x \in T : \A y \in T : x <= y
<1> DEFINE below == {ss \in Nat \X Nat : ss[1] < ss[2]}
<1>1. IsWellFoundedOn(below, Nat)
  BY NatLessThanWellFounded DEF OpToRel
<1> HIDE DEF below
<1>2. PICK x \in T : \A y \in T : <<y, x>> \notin below
  BY <1>1, WFMin
<1>3. \A y \in T : ~(y < x)
  BY <1>2 DEF below
<1> QED BY <1>2, <1>3

LEMMA MinOf ==
  ASSUME NEW T, T \subseteq Nat, T # {}
  PROVE  Min(T) \in T /\ \A y \in T : Min(T) <= y
BY Least DEF Min

Rank(places, i) == Cardinality({j \in places : j < i})

LEMMA RanksGrow ==
  ASSUME NEW n \in Nat, NEW P, P \subseteq 1 .. n
  PROVE  /\ IsFiniteSet(P) /\ Cardinality(P) \in 0 .. n
         /\ \A i \in P : Rank(P, i) \in 0 .. Cardinality(P) - 1
         /\ \A i, j \in P : i < j => Rank(P, i) < Rank(P, j)
<1>1. IsFiniteSet(1 .. n) /\ Cardinality(1 .. n) = IF 1 > n THEN 0 ELSE n - 1 + 1
  BY FS_Interval
<1>2. Cardinality(1 .. n) = n
  BY <1>1
<1>3. IsFiniteSet(P) /\ Cardinality(P) \in Nat /\ Cardinality(P) <= n
  BY <1>1, <1>2, FS_Subset, FS_CardinalityType
<1>4. ASSUME NEW i \in P, NEW Q, Q \subseteq P, i \in Q, \A j \in P : j < i => j \in Q
      PROVE  Rank(P, i) \in Nat /\ Rank(P, i) + 1 <= Cardinality(Q)
  <2> DEFINE R == {j \in P : j < i}
  <2>1. IsFiniteSet(Q) /\ IsFiniteSet(R)
    BY <1>3, <1>4, FS_Subset
  <2>2. i \notin R
    OBVIOUS
  <2>3. Cardinality(R \cup {i}) = Cardinality(R) + 1 /\ Cardinality(R) \in Nat
    BY <2>1, <2>2, FS_AddElement, FS_CardinalityType
  <2>4. R \cup {i} \subseteq Q
    BY <1>4
  <2>5. Cardinality(R \cup {i}) <= Cardinality(Q)
    BY <2>1, <2>4, FS_Subset
  <2> QED BY <2>3, <2>5 DEF Rank
<1>5. \A i \in P : Rank(P, i) \in 0 .. Cardinality(P) - 1
  <2> SUFFICES ASSUME NEW i \in P PROVE Rank(P, i) \in 0 .. Cardinality(P) - 1
    OBVIOUS
  <2>1. Rank(P, i) \in Nat /\ Rank(P, i) + 1 <= Cardinality(P)
    BY <1>4
  <2> QED BY <1>3, <2>1
<1>6. ASSUME NEW i \in P, NEW j \in P, i < j PROVE Rank(P, i) < Rank(P, j)
  <2> DEFINE Q == {k \in P : k < j}
  <2>1. Rank(P, i) \in Nat /\ Rank(P, i) + 1 <= Cardinality(Q)
    BY <1>4, <1>6
  <2>2. Cardinality(Q) = Rank(P, j) /\ Rank(P, j) \in Nat
    BY <1>4 DEF Rank
  <2> QED BY <2>1, <2>2
<1> QED BY <1>3, <1>5, <1>6

\* Every rank below the number of places is taken.
LEMMA RanksTaken ==
  \A n \in Nat : \A P \in SUBSET (1 .. n) : \A k \in 1 .. Cardinality(P) : \E i \in P : Rank(P, i) = k - 1
<1> DEFINE Bad(n) == \E P \in SUBSET (1 .. n) : ~\A k \in 1 .. Cardinality(P) : \E i \in P : Rank(P, i) = k - 1
           T == {n \in Nat : Bad(n)}
<1> SUFFICES ASSUME T # {} PROVE FALSE
  OBVIOUS
<1>1. PICK n \in T : \A m \in T : n <= m
  BY Least
<1>2. PICK P \in SUBSET (1 .. n) : \E k \in 1 .. Cardinality(P) : \A i \in P : Rank(P, i) # k - 1
  BY <1>1
<1>2a. PICK k \in 1 .. Cardinality(P) : \A i \in P : Rank(P, i) # k - 1
  BY <1>2
<1>3. n \in Nat /\ IsFiniteSet(P) /\ Cardinality(P) \in 0 .. n
  BY <1>1, RanksGrow
<1>4. n # 0 /\ n - 1 \in Nat /\ n - 1 \notin T
  BY <1>1, <1>3, SMTT(20)
<1>5. \A Q \in SUBSET (1 .. (n - 1)) : \A l \in 1 .. Cardinality(Q) : \E i \in Q : Rank(Q, i) = l - 1
  BY <1>4
<1>6. CASE n \notin P
  <2>1. P \in SUBSET (1 .. (n - 1))
    BY <1>3, <1>6
  <2> QED BY <1>2a, <1>5, <2>1
<1>7. CASE n \in P
  <2> DEFINE Q == P \ {n}
  <2>1. Q \in SUBSET (1 .. (n - 1)) /\ Cardinality(Q) = Cardinality(P) - 1
    <3>1. \A i \in Q : i \in 1 .. n /\ i # n
      OBVIOUS
    <3>2. \A i \in Q : i \in 1 .. (n - 1)
      BY <1>3, <1>4, <3>1
    <3> QED BY <1>3, <1>7, <3>2, FS_RemoveElement
  <2>2. \A i \in Q : Rank(P, i) = Rank(Q, i)
    <3> SUFFICES ASSUME NEW i \in Q PROVE Rank(P, i) = Rank(Q, i)
      OBVIOUS
    <3>1. {j \in P : j < i} = {j \in Q : j < i}
      BY <1>3, <2>1
    <3> QED BY <3>1 DEF Rank
  <2>3. Rank(P, n) = Cardinality(P) - 1
    <3>0. \A j \in P : j \in 1 .. n
      OBVIOUS
    <3>1. \A j \in P : j < n <=> j # n
      BY <1>3, <3>0
    <3>2. {j \in P : j < n} = Q
      BY <3>1
    <3> QED BY <2>1, <3>2 DEF Rank
  <2>4. k # Cardinality(P)
    BY <1>2a, <1>7, <2>3
  <2>5. k \in 1 .. Cardinality(Q)
    BY <1>2a, <1>3, <2>1, <2>4
  <2> QED BY <1>2a, <1>5, <2>1, <2>2, <2>5
<1> QED BY <1>6, <1>7

\* The k-th place is the one of that rank.
LEMMA PlaceIs ==
  ASSUME NEW n \in Nat, NEW P, P \subseteq 1 .. n
  PROVE  /\ Cardinality(P) \in 0 .. n
         /\ \A k \in 1 .. Cardinality(P) : Place(P, k) \in P /\ Rank(P, Place(P, k)) = k - 1
         /\ \A i \in P : \A k \in 1 .. Cardinality(P) : Rank(P, i) = k - 1 => Place(P, k) = i
         /\ \A i \in P : \E k \in 1 .. Cardinality(P) : Place(P, k) = i
<1>1. /\ Cardinality(P) \in 0 .. n
      /\ \A i \in P : Rank(P, i) \in 0 .. Cardinality(P) - 1
      /\ \A i, j \in P : i < j => Rank(P, i) < Rank(P, j)
  BY RanksGrow
<1>2. \A k \in 1 .. Cardinality(P) : Place(P, k) \in P /\ Rank(P, Place(P, k)) = k - 1
  <2> SUFFICES ASSUME NEW k \in 1 .. Cardinality(P) PROVE Place(P, k) \in P /\ Rank(P, Place(P, k)) = k - 1
    OBVIOUS
  <2>1. \E i \in P : Rank(P, i) = k - 1
    BY RanksTaken
  <2>2. Place(P, k) = CHOOSE i \in P : Rank(P, i) = k - 1
    BY DEF Place, Rank
  <2> QED BY <2>1, <2>2
<1>3. \A i \in P : \A k \in 1 .. Cardinality(P) : Rank(P, i) = k - 1 => Place(P, k) = i
  <2> SUFFICES ASSUME NEW i \in P, NEW k \in 1 .. Cardinality(P), Rank(P, i) = k - 1, Place(P, k) # i PROVE FALSE
    OBVIOUS
  <2>1. Place(P, k) \in P /\ Rank(P, Place(P, k)) = k - 1
    BY <1>2
  <2>2. i < Place(P, k) \/ Place(P, k) < i
    <3>0. P \subseteq Nat
      OBVIOUS
    <3>1. i \in Nat /\ Place(P, k) \in Nat
      BY <2>1, <3>0
    <3> QED BY <3>1
  <2>3. Rank(P, i) < Rank(P, Place(P, k)) \/ Rank(P, Place(P, k)) < Rank(P, i)
    BY <1>1, <2>1, <2>2
  <2>4. Rank(P, i) = Rank(P, Place(P, k)) /\ Rank(P, i) \in Nat
    BY <1>1, <2>1
  <2> QED BY <2>3, <2>4
<1>4. \A i \in P : \E k \in 1 .. Cardinality(P) : Place(P, k) = i
  <2> SUFFICES ASSUME NEW i \in P PROVE \E k \in 1 .. Cardinality(P) : Place(P, k) = i
    OBVIOUS
  <2>1. Rank(P, i) + 1 \in 1 .. Cardinality(P) /\ Rank(P, i) = (Rank(P, i) + 1) - 1
    BY <1>1
  <2> QED BY <1>3, <2>1
<1> QED BY <1>1, <1>2, <1>3, <1>4

\* What a map onto the first m numbers says of their count.
LEMMA CountOf ==
  ASSUME NEW m \in Nat, NEW P, NEW g \in [1 .. m -> P],
         \A k, l \in 1 .. m : g[k] = g[l] => k = l,
         \A i \in P : \E k \in 1 .. m : g[k] = i
  PROVE  Cardinality(P) = m
<1>1. g \in Bijection(1 .. m, P)
  BY Fun_IsBij
<1>2. IsFiniteSet(1 .. m) /\ Cardinality(1 .. m) = IF 1 > m THEN 0 ELSE m - 1 + 1
  BY FS_Interval
<1>3. ExistsBijection(1 .. m, P)
  BY <1>1 DEF ExistsBijection
<1>4. Cardinality(P) = Cardinality(1 .. m)
  BY <1>2, <1>3, FS_Bijection
<1> QED BY <1>2, <1>4

UpTo(n, P) == n \in Nat /\ P \subseteq 1 .. n

Enumerates(g, m, P) ==
  /\ m \in Nat /\ g \in [1 .. m -> P]
  /\ \A k, l \in 1 .. m : k < l => g[k] < g[l]
  /\ \A i \in P : \E k \in 1 .. m : g[k] = i

LEMMA Placed ==
  ASSUME NEW n, NEW P, UpTo(n, P)
  PROVE  /\ Cardinality(P) \in 0 .. n
         /\ \A k \in 1 .. Cardinality(P) : Place(P, k) \in P
         /\ \A i \in P : \E k \in 1 .. Cardinality(P) : Place(P, k) = i
BY PlaceIs DEF UpTo

\* A rising enumeration of the places is the one picked by.
LEMMA PlacesAre ==
  ASSUME NEW n, NEW P, UpTo(n, P), NEW m, NEW g, Enumerates(g, m, P)
  PROVE  Cardinality(P) = m /\ \A k \in 1 .. m : Place(P, k) = g[k]
<1>0. /\ n \in Nat /\ P \subseteq 1 .. n /\ m \in Nat /\ g \in [1 .. m -> P]
      /\ \A k, l \in 1 .. m : k < l => g[k] < g[l]
      /\ \A i \in P : \E k \in 1 .. m : g[k] = i
  BY DEF UpTo, Enumerates
<1>1. P \subseteq Nat
  BY <1>0
<1>2. \A k \in 1 .. m : g[k] \in P /\ g[k] \in Nat
  BY <1>0, <1>1
<1>3. \A k, l \in 1 .. m : g[k] = g[l] => k = l
  <2> SUFFICES ASSUME NEW k \in 1 .. m, NEW l \in 1 .. m, g[k] = g[l], k # l PROVE FALSE
    OBVIOUS
  <2>1. k < l \/ l < k
    BY <1>0
  <2>2. g[k] < g[l] \/ g[l] < g[k]
    BY <1>0, <2>1
  <2> QED BY <1>2, <2>2
<1>4. Cardinality(P) = m
  BY <1>0, <1>3, CountOf
<1>5. ASSUME NEW k \in 1 .. m PROVE Place(P, k) = g[k]
  <2> DEFINE Q == {j \in P : j < g[k]}
             h == [l \in 1 .. (k - 1) |-> g[l]]
  <2>1. k - 1 \in Nat /\ \A l \in 1 .. (k - 1) : l \in 1 .. m /\ l < k
    BY <1>0
  <2>2. h \in [1 .. (k - 1) -> Q]
    BY <1>0, <1>2, <2>1
  <2>3. \A l, o \in 1 .. (k - 1) : h[l] = h[o] => l = o
    BY <1>3, <2>1
  <2>4. \A i \in Q : \E l \in 1 .. (k - 1) : h[l] = i
    <3> SUFFICES ASSUME NEW i \in Q PROVE \E l \in 1 .. (k - 1) : h[l] = i
      OBVIOUS
    <3>1. PICK l \in 1 .. m : g[l] = i
      BY <1>0
    <3>2. l < k
      <4> SUFFICES ASSUME ~(l < k) PROVE FALSE
        OBVIOUS
      <4>1. l = k \/ k < l
        BY <1>0
      <4>2. g[l] = g[k] \/ g[k] < g[l]
        BY <1>0, <4>1
      <4>3. g[l] < g[k]
        BY <3>1
      <4> QED BY <1>2, <4>2, <4>3
    <3>3. l \in 1 .. (k - 1)
      BY <1>0, <3>2
    <3> QED BY <3>1, <3>3
  <2>5. Cardinality(Q) = k - 1
    <3> HIDE DEF Q, h
    <3> QED BY <2>1, <2>2, <2>3, <2>4, CountOf
  <2>6. Rank(P, g[k]) = k - 1
    BY <2>5 DEF Rank
  <2>7. \A i \in P : \A l \in 1 .. Cardinality(P) : Rank(P, i) = l - 1 => Place(P, l) = i
    BY <1>0, PlaceIs
  <2>8. g[k] \in P /\ k \in 1 .. Cardinality(P)
    BY <1>2, <1>4
  <2> QED BY <2>6, <2>7, <2>8
<1> QED BY <1>4, <1>5

LEMMA Rising ==
  ASSUME NEW n \in Nat, NEW P, P \subseteq 1 .. n
  PROVE  \A k, l \in 1 .. Cardinality(P) : k < l => Place(P, k) < Place(P, l)
<1> SUFFICES ASSUME NEW k \in 1 .. Cardinality(P), NEW l \in 1 .. Cardinality(P), k < l,
                    ~(Place(P, k) < Place(P, l))
             PROVE  FALSE
  OBVIOUS
<1>1. /\ Cardinality(P) \in 0 .. n
      /\ Place(P, k) \in P /\ Rank(P, Place(P, k)) = k - 1
      /\ Place(P, l) \in P /\ Rank(P, Place(P, l)) = l - 1
  BY PlaceIs
<1>2. P \subseteq Nat
  OBVIOUS
<1>3. Place(P, k) = Place(P, l) \/ Place(P, l) < Place(P, k)
  <2>1. Place(P, k) \in Nat /\ Place(P, l) \in Nat
    BY <1>1, <1>2
  <2> QED BY <2>1
<1>4. Rank(P, Place(P, k)) = Rank(P, Place(P, l)) \/ Rank(P, Place(P, l)) < Rank(P, Place(P, k))
  BY <1>1, <1>3, RanksGrow
<1> QED BY <1>1, <1>4

LEMMA PickedIs ==
  ASSUME NEW S, NEW s \in Seq(S), NEW P, P \subseteq DOMAIN s
  PROVE  /\ Picked(s, P) \in Seq(S)
         /\ Len(Picked(s, P)) = Cardinality(P)
         /\ \A k \in 1 .. Len(Picked(s, P)) : Place(P, k) \in P /\ Picked(s, P)[k] = s[Place(P, k)]
         /\ \A i \in P : \E k \in 1 .. Len(Picked(s, P)) : Picked(s, P)[k] = s[i] /\ Place(P, k) = i
<1>1. Len(s) \in Nat /\ DOMAIN s = 1 .. Len(s) /\ P \subseteq 1 .. Len(s)
  OBVIOUS
<1>2. /\ Cardinality(P) \in 0 .. Len(s)
      /\ \A k \in 1 .. Cardinality(P) : Place(P, k) \in P
      /\ \A i \in P : \E k \in 1 .. Cardinality(P) : Place(P, k) = i
  BY <1>1, PlaceIs
<1> DEFINE p == [k \in 1 .. Cardinality(P) |-> s[Place(P, k)]]
<1>3. p = Picked(s, P)
  BY DEF Picked
<1>4. \A k \in 1 .. Cardinality(P) : s[Place(P, k)] \in S
  BY <1>1, <1>2
<1>5. p \in Seq(S) /\ Len(p) = Cardinality(P)
  BY <1>2, <1>4
<1>6. \A k \in 1 .. Cardinality(P) : p[k] = s[Place(P, k)]
  OBVIOUS
<1> HIDE DEF p
<1> QED BY <1>2, <1>3, <1>5, <1>6

LEMMA PickedNone == ASSUME NEW s PROVE Picked(s, {}) = <<>>
<1>1. Cardinality({}) = 0
  BY FS_EmptySet
<1> QED BY <1>1 DEF Picked

LEMMA PickedAll == ASSUME NEW S, NEW s \in Seq(S), NEW P, P = DOMAIN s PROVE Picked(s, P) = s
<1>1. Len(s) \in Nat /\ P = 1 .. Len(s)
  OBVIOUS
<1> DEFINE g == [k \in 1 .. Len(s) |-> k]
<1>2. g \in [1 .. Len(s) -> P]
  BY <1>1
<1>3. Cardinality(P) = Len(s) /\ \A k \in 1 .. Len(s) : Place(P, k) = g[k]
  <2>1. UpTo(Len(s), P) /\ Enumerates(g, Len(s), P)
    BY <1>1, <1>2 DEF UpTo, Enumerates
  <2> HIDE DEF g
  <2> QED BY <2>1, PlacesAre
<1>4. \A k \in 1 .. Len(s) : Place(P, k) = k
  BY <1>3
<1>5. Picked(s, P) \in Seq(S) /\ Len(Picked(s, P)) = Len(s) /\ \A k \in 1 .. Len(s) : Picked(s, P)[k] = s[k]
  BY <1>3, <1>4, PickedIs
<1> QED BY <1>5, SeqEqual

\* The places in two lists of the places in their concatenation.
Parts(P, n, m, P1, P2) ==
  /\ P \subseteq 1 .. n + m
  /\ \A i : i \in P1 <=> i \in 1 .. n /\ i \in P
  /\ \A j : j \in P2 <=> j \in 1 .. m /\ n + j \in P

LEMMA PickedConcat ==
  ASSUME NEW S, NEW s \in Seq(S), NEW t \in Seq(S), NEW P, NEW P1, NEW P2, Parts(P, Len(s), Len(t), P1, P2)
  PROVE  Picked(s \o t, P) = Picked(s, P1) \o Picked(t, P2)
<1>0. /\ P \subseteq 1 .. Len(s) + Len(t)
      /\ \A i : i \in P1 <=> i \in 1 .. Len(s) /\ i \in P
      /\ \A j : j \in P2 <=> j \in 1 .. Len(t) /\ Len(s) + j \in P
  BY DEF Parts
<1> DEFINE c1 == Cardinality(P1)  c2 == Cardinality(P2)
<1>1. Len(s) \in Nat /\ Len(t) \in Nat /\ P1 \subseteq 1 .. Len(s) /\ P2 \subseteq 1 .. Len(t)
  BY <1>0
<1>a. UpTo(Len(s), P1) /\ UpTo(Len(t), P2)
  BY <1>1 DEF UpTo
<1>2. /\ c1 \in 0 .. Len(s) /\ \A k \in 1 .. c1 : Place(P1, k) \in P1
      /\ \A i \in P1 : \E k \in 1 .. c1 : Place(P1, k) = i
  BY <1>a, Placed
<1>3. /\ c2 \in 0 .. Len(t) /\ \A k \in 1 .. c2 : Place(P2, k) \in P2
      /\ \A i \in P2 : \E k \in 1 .. c2 : Place(P2, k) = i
  BY <1>a, Placed
<1>4. /\ \A k, l \in 1 .. c1 : k < l => Place(P1, k) < Place(P1, l)
      /\ \A k, l \in 1 .. c2 : k < l => Place(P2, k) < Place(P2, l)
  BY <1>1, Rising
<1>5. c1 \in Nat /\ c2 \in Nat
  <2> HIDE DEF c1, c2
  <2> QED BY <1>1, <1>2, <1>3
<1> HIDE DEF c1, c2
<1> DEFINE g == [k \in 1 .. c1 + c2 |-> IF k <= c1 THEN Place(P1, k) ELSE Len(s) + Place(P2, k - c1)]
<1>6. \A k \in 1 .. c1 : Place(P1, k) \in 1 .. Len(s) /\ Place(P1, k) \in P
  BY <1>0, <1>2
<1>7. \A k \in 1 .. c2 : Place(P2, k) \in 1 .. Len(t) /\ Len(s) + Place(P2, k) \in P
  BY <1>0, <1>3
<1>8. \A k \in 1 .. c1 + c2 : IF k <= c1 THEN k \in 1 .. c1 ELSE k - c1 \in 1 .. c2
  BY <1>5
<1>9. g \in [1 .. c1 + c2 -> P]
  BY <1>6, <1>7, <1>8
<1>10. ASSUME NEW k \in 1 .. c1 + c2, NEW l \in 1 .. c1 + c2, k < l PROVE g[k] < g[l]
  <2>1. CASE l <= c1
    <3>1. k \in 1 .. c1 /\ l \in 1 .. c1
      BY <1>5, <1>10, <2>1
    <3> QED BY <1>4, <1>5, <1>10, <2>1, <3>1
  <2>2. CASE k <= c1 /\ ~(l <= c1)
    <3>1. g[k] \in 1 .. Len(s) /\ g[k] = Place(P1, k)
      BY <1>6, <1>8, <2>2
    <3>2. g[l] = Len(s) + Place(P2, l - c1) /\ Place(P2, l - c1) \in 1 .. Len(t)
      BY <1>7, <1>8, <2>2
    <3> QED BY <1>1, <3>1, <3>2
  <2>3. CASE ~(k <= c1)
    <3>1. k - c1 \in 1 .. c2 /\ l - c1 \in 1 .. c2 /\ k - c1 < l - c1 /\ ~(l <= c1)
      BY <1>5, <1>10, <2>3
    <3>2. Place(P2, k - c1) < Place(P2, l - c1)
      BY <1>4, <3>1
    <3>3. g[k] = Len(s) + Place(P2, k - c1) /\ g[l] = Len(s) + Place(P2, l - c1)
      BY <2>3, <3>1
    <3>4. Place(P2, k - c1) \in Nat /\ Place(P2, l - c1) \in Nat
      <4>1. Place(P2, k - c1) \in 1 .. Len(t) /\ Place(P2, l - c1) \in 1 .. Len(t)
        BY <1>7, <3>1
      <4> QED BY <4>1
    <3> HIDE DEF g
    <3> QED BY <1>1, <3>2, <3>3, <3>4
  <2> QED BY <2>1, <2>2, <2>3
<1>11. ASSUME NEW i \in P PROVE \E k \in 1 .. c1 + c2 : g[k] = i
  <2>0. i \in 1 .. Len(s) + Len(t)
    BY <1>0
  <2>1. CASE i <= Len(s)
    <3>1. i \in P1
      BY <1>0, <1>1, <2>0, <2>1
    <3>2. PICK k \in 1 .. c1 : Place(P1, k) = i
      BY <1>2, <3>1 DEF c1
    <3>3. k \in 1 .. c1 + c2 /\ k <= c1
      BY <1>5
    <3> QED BY <3>2, <3>3
  <2>2. CASE ~(i <= Len(s))
    <3>1. i - Len(s) \in 1 .. Len(t) /\ Len(s) + (i - Len(s)) = i
      BY <1>1, <2>0, <2>2
    <3>2. i - Len(s) \in P2
      BY <1>0, <3>1
    <3>3. PICK k \in 1 .. c2 : Place(P2, k) = i - Len(s)
      BY <1>3, <3>2 DEF c2
    <3>4. c1 + k \in 1 .. c1 + c2 /\ ~(c1 + k <= c1) /\ (c1 + k) - c1 = k
      BY <1>5
    <3>5. g[c1 + k] = Len(s) + Place(P2, (c1 + k) - c1)
      BY <3>4
    <3> QED BY <3>1, <3>3, <3>4, <3>5
  <2> QED BY <2>1, <2>2
<1>12. Cardinality(P) = c1 + c2 /\ \A k \in 1 .. c1 + c2 : Place(P, k) = g[k]
  <2> HIDE DEF g
  <2>1. Len(s) + Len(t) \in Nat /\ c1 + c2 \in Nat
    BY <1>1, <1>5
  <2>2. \A k, l \in 1 .. c1 + c2 : k < l => g[k] < g[l]
    BY <1>10
  <2>3. \A i \in P : \E k \in 1 .. c1 + c2 : g[k] = i
    BY <1>11
  <2>4. UpTo(Len(s) + Len(t), P) /\ Enumerates(g, c1 + c2, P)
    BY <1>0, <1>9, <2>1, <2>2, <2>3 DEF UpTo, Enumerates
  <2> QED BY <2>4, PlacesAre
<1> DEFINE u == s \o t  a == Picked(s, P1)  b == Picked(t, P2)  w == Picked(u, P)
<1>13. /\ u \in Seq(S) /\ Len(u) = Len(s) + Len(t)
       /\ \A i \in 1 .. Len(s) + Len(t) : u[i] = IF i <= Len(s) THEN s[i] ELSE t[i - Len(s)]
  BY ConcatProperties
<1> HIDE DEF u
<1>14. a \in Seq(S) /\ Len(a) = c1 /\ \A k \in 1 .. c1 : a[k] = s[Place(P1, k)]
  <2>1. P1 \subseteq DOMAIN s
    BY <1>1
  <2>2. a \in Seq(S) /\ Len(a) = Cardinality(P1) /\ \A k \in 1 .. Len(a) : a[k] = s[Place(P1, k)]
    BY <2>1, PickedIs
  <2> HIDE DEF a
  <2> QED BY <2>2 DEF c1
<1>15. b \in Seq(S) /\ Len(b) = c2 /\ \A k \in 1 .. c2 : b[k] = t[Place(P2, k)]
  <2>1. P2 \subseteq DOMAIN t
    BY <1>1
  <2>2. b \in Seq(S) /\ Len(b) = Cardinality(P2) /\ \A k \in 1 .. Len(b) : b[k] = t[Place(P2, k)]
    BY <2>1, PickedIs
  <2> HIDE DEF b
  <2> QED BY <2>2 DEF c2
<1>16. w \in Seq(S) /\ Len(w) = c1 + c2 /\ \A k \in 1 .. c1 + c2 : w[k] = u[Place(P, k)]
  <2>1. P \subseteq DOMAIN u
    BY <1>0, <1>13
  <2> QED BY <1>12, <1>13, <2>1, PickedIs
<1> HIDE DEF a, b, w
<1>17. /\ a \o b \in Seq(S) /\ Len(a \o b) = c1 + c2
       /\ \A k \in 1 .. c1 + c2 : (a \o b)[k] = IF k <= c1 THEN a[k] ELSE b[k - c1]
  <2>1. /\ a \o b \in Seq(S) /\ Len(a \o b) = Len(a) + Len(b)
        /\ \A k \in 1 .. Len(a) + Len(b) : (a \o b)[k] = IF k <= Len(a) THEN a[k] ELSE b[k - Len(a)]
    <3>1. a \in Seq(S) /\ b \in Seq(S)
      BY <1>14, <1>15
    <3> QED BY <3>1, ConcatProperties
  <2> QED BY <1>14, <1>15, <2>1
<1>18. ASSUME NEW k \in 1 .. c1 + c2 PROVE w[k] = (a \o b)[k]
  <2>1. w[k] = u[g[k]]
    BY <1>12, <1>16
  <2>2. CASE k <= c1
    <3>1. k \in 1 .. c1 /\ g[k] = Place(P1, k) /\ Place(P1, k) \in 1 .. Len(s)
      BY <1>6, <1>8, <2>2
    <3>2. u[Place(P1, k)] = s[Place(P1, k)]
      BY <1>1, <1>13, <3>1
    <3> QED BY <1>14, <1>17, <2>1, <2>2, <3>1, <3>2
  <2>3. CASE ~(k <= c1)
    <3> DEFINE q == Place(P2, k - c1)
    <3>1. k - c1 \in 1 .. c2 /\ g[k] = Len(s) + q /\ q \in 1 .. Len(t)
      BY <1>7, <1>8, <2>3
    <3> HIDE DEF q, g
    <3>2. u[Len(s) + q] = t[q]
      BY <1>1, <1>13, <3>1
    <3>3. b[k - c1] = t[q]
      BY <1>15, <3>1 DEF q
    <3> QED BY <1>17, <2>1, <2>3, <3>1, <3>2, <3>3
  <2> QED BY <2>2, <2>3
<1>19. w = a \o b
  <2> DEFINE ab == a \o b
  <2> HIDE DEF ab
  <2>1. ab \in Seq(S) /\ Len(ab) = c1 + c2
    BY <1>17 DEF ab
  <2>2. \A k \in 1 .. Len(w) : w[k] = ab[k]
    BY <1>16, <1>18 DEF ab
  <2>3. w = ab
    BY <1>16, <2>1, <2>2, SeqEqual
  <2> QED BY <2>3 DEF ab
<1> QED BY <1>19 DEF w, a, b, u

-----------------------------------------------------------------------------
\* A list of anything.
List(s) == \E S : s \in Seq(S)

LEMMA ListConcat ==
  ASSUME NEW s, NEW t, List(s), List(t)
  PROVE  /\ List(s \o t) /\ Len(s \o t) = Len(s) + Len(t) /\ Len(s) \in Nat
         /\ \A i \in 1 .. Len(s) + Len(t) : (s \o t)[i] = IF i <= Len(s) THEN s[i] ELSE t[i - Len(s)]
<1>1. PICK S : s \in Seq(S)
  BY DEF List
<1>2. PICK T : t \in Seq(T)
  BY DEF List
<1> DEFINE U == S \cup T
<1>3. s \in Seq(U) /\ t \in Seq(U)
  BY <1>1, <1>2, SeqMonotonic
<1> HIDE DEF U
<1> QED BY <1>3, ConcatProperties DEF List

LEMMA ListIs == ASSUME NEW s, List(s) PROVE Len(s) \in Nat /\ DOMAIN s = 1 .. Len(s) /\ s = [i \in 1 .. Len(s) |-> s[i]]
<1>1. PICK S : s \in Seq(S)
  BY DEF List
<1> QED BY <1>1

LEMMA ListMade == ASSUME NEW n \in Nat, NEW s, s = [i \in 1 .. n |-> s[i]] PROVE List(s) /\ Len(s) = n
<1> DEFINE U == {s[i] : i \in 1 .. n}
<1>0. \A i \in 1 .. n : s[i] \in U
  OBVIOUS
<1> HIDE DEF U
<1>1. s \in [1 .. n -> U]
  BY <1>0
<1>2. s \in Seq(U) /\ Len(s) = n
  BY <1>1
<1> QED BY <1>2 DEF List

LEMMA SameList ==
  ASSUME NEW s, NEW t, List(s), List(t), Len(s) = Len(t), \A i \in 1 .. Len(s) : s[i] = t[i]
  PROVE  s = t
<1>1. s = [i \in 1 .. Len(s) |-> s[i]] /\ t = [i \in 1 .. Len(t) |-> t[i]]
  BY ListIs
<1>2. [i \in 1 .. Len(s) |-> s[i]] = [i \in 1 .. Len(t) |-> t[i]]
  OBVIOUS
<1> QED BY <1>1, <1>2

LEMMA ListOne == ASSUME NEW a PROVE List(<<a>>) /\ Len(<<a>>) = 1
<1> DEFINE U == {a}
<1>1. <<a>> \in Seq(U) /\ Len(<<a>>) = 1
  OBVIOUS
<1> QED BY <1>1 DEF List

LEMMA ListTwo == ASSUME NEW a, NEW b PROVE List(<<a, b>>) /\ Len(<<a, b>>) = 2
<1> DEFINE U == {a, b}
<1>1. <<a, b>> \in Seq(U) /\ Len(<<a, b>>) = 2
  OBVIOUS
<1> QED BY <1>1 DEF List

LEMMA ListThree == ASSUME NEW a, NEW b, NEW c PROVE List(<<a, b, c>>) /\ Len(<<a, b, c>>) = 3
<1> DEFINE U == {a, b, c}
<1>1. <<a, b, c>> \in Seq(U) /\ Len(<<a, b, c>>) = 3
  OBVIOUS
<1> QED BY <1>1 DEF List

LEMMA ListFour == ASSUME NEW a, NEW b, NEW c, NEW d PROVE List(<<a, b, c, d>>) /\ Len(<<a, b, c, d>>) = 4
<1> DEFINE U == {a, b, c, d}
<1>1. <<a, b, c, d>> \in Seq(U) /\ Len(<<a, b, c, d>>) = 4
  OBVIOUS
<1> QED BY <1>1 DEF List

LEMMA ListEmpty == List(<<>>) /\ Len(<<>>) = 0 /\ \A s : List(s) /\ Len(s) = 0 => s = <<>>
<1>1. List(<<>>) /\ Len(<<>>) = 0
  <2>1. <<>> \in Seq({}) /\ Len(<<>>) = 0
    BY EmptySeq
  <2> QED BY <2>1 DEF List
<1>2. ASSUME NEW s, List(s), Len(s) = 0 PROVE s = <<>>
  BY <1>1, <1>2, SameList
<1> QED BY <1>1, <1>2

LEMMA ConcatAssoc ==
  ASSUME NEW s, NEW t, NEW u, List(s), List(t), List(u)
  PROVE  (s \o t) \o u = s \o (t \o u)
<1>1. PICK S : s \in Seq(S)
  BY DEF List
<1>2. PICK T : t \in Seq(T)
  BY DEF List
<1>3. PICK U : u \in Seq(U)
  BY DEF List
<1> DEFINE W == S \cup T \cup U
<1>4. s \in Seq(W) /\ t \in Seq(W) /\ u \in Seq(W)
  BY <1>1, <1>2, <1>3, SeqMonotonic
<1> HIDE DEF W
<1> QED BY <1>4, ConcatAssociative

LEMMA ConcatNone == ASSUME NEW s, List(s) PROVE s \o <<>> = s /\ <<>> \o s = s
BY ConcatEmptySeq DEF List

LEMMA TupleTwo == ASSUME NEW a, NEW b PROVE <<a, b>> = <<a>> \o <<b>>
<1>1. List(<<a>>) /\ List(<<b>>) /\ List(<<a, b>>)
  BY ListOne, ListTwo, ListThree, ListFour
<1>2. List(<<a>> \o <<b>>) /\ Len(<<a>> \o <<b>>) = 2 /\ \A i \in 1 .. 2 : (<<a>> \o <<b>>)[i] = <<a, b>>[i]
  <2> DEFINE s == <<a>>  t == <<b>>
  <2>1. /\ List(s \o t) /\ Len(s \o t) = Len(s) + Len(t)
        /\ \A i \in 1 .. Len(s) + Len(t) : (s \o t)[i] = IF i <= Len(s) THEN s[i] ELSE t[i - Len(s)]
    <3> HIDE DEF s, t
    <3> QED BY <1>1, ListConcat DEF s, t
  <2> QED BY <2>1
<1> QED BY <1>1, <1>2, SameList

LEMMA TupleThree == ASSUME NEW a, NEW b, NEW c PROVE <<a, b, c>> = <<a>> \o <<b, c>>
<1>1. List(<<a>>) /\ List(<<b, c>>) /\ List(<<a, b, c>>)
  BY ListOne, ListTwo, ListThree, ListFour
<1>2. List(<<a>> \o <<b, c>>) /\ Len(<<a>> \o <<b, c>>) = 3 /\ \A i \in 1 .. 3 : (<<a>> \o <<b, c>>)[i] = <<a, b, c>>[i]
  <2> DEFINE s == <<a>>  t == <<b, c>>
  <2>1. /\ List(s \o t) /\ Len(s \o t) = Len(s) + Len(t)
        /\ \A i \in 1 .. Len(s) + Len(t) : (s \o t)[i] = IF i <= Len(s) THEN s[i] ELSE t[i - Len(s)]
    <3> HIDE DEF s, t
    <3> QED BY <1>1, ListConcat DEF s, t
  <2> QED BY <2>1
<1> QED BY <1>1, <1>2, SameList

LEMMA TupleFour == ASSUME NEW a, NEW b, NEW c, NEW d PROVE <<a, b, c, d>> = <<a>> \o <<b, c, d>>
<1>1. List(<<a>>) /\ List(<<b, c, d>>) /\ List(<<a, b, c, d>>)
  BY ListOne, ListTwo, ListThree, ListFour
<1>2. List(<<a>> \o <<b, c, d>>) /\ Len(<<a>> \o <<b, c, d>>) = 4 /\ \A i \in 1 .. 4 : (<<a>> \o <<b, c, d>>)[i] = <<a, b, c, d>>[i]
  <2> DEFINE s == <<a>>  t == <<b, c, d>>
  <2>1. /\ List(s \o t) /\ Len(s \o t) = Len(s) + Len(t)
        /\ \A i \in 1 .. Len(s) + Len(t) : (s \o t)[i] = IF i <= Len(s) THEN s[i] ELSE t[i - Len(s)]
    <3> HIDE DEF s, t
    <3> QED BY <1>1, ListConcat DEF s, t
  <2> QED BY <2>1
<1> QED BY <1>1, <1>2, SameList

LEMMA AppendIs == ASSUME NEW s, List(s), NEW x PROVE Append(s, x) = s \o <<x>>
<1>1. PICK S : s \in Seq(S)
  BY DEF List
<1> DEFINE U == S \cup {x}
<1>2. s \in Seq(U) /\ x \in U
  BY <1>1, SeqMonotonic
<1> HIDE DEF U
<1>3. /\ Append(s, x) \in Seq(U) /\ Len(Append(s, x)) = Len(s) + 1
      /\ \A i \in 1 .. Len(s) + 1 : Append(s, x)[i] = IF i <= Len(s) THEN s[i] ELSE x
  BY <1>2
<1>4. List(<<x>>) /\ Len(<<x>>) = 1 /\ <<x>>[1] = x
  BY ListOne
<1>5. /\ List(s \o <<x>>) /\ Len(s \o <<x>>) = Len(s) + 1 /\ Len(s) \in Nat
      /\ \A i \in 1 .. Len(s) + 1 : (s \o <<x>>)[i] = IF i <= Len(s) THEN s[i] ELSE <<x>>[i - Len(s)]
  BY <1>4, ListConcat
<1>6. \A i \in 1 .. Len(s) + 1 : (s \o <<x>>)[i] = IF i <= Len(s) THEN s[i] ELSE x
  <2> SUFFICES ASSUME NEW i \in 1 .. Len(s) + 1 PROVE (s \o <<x>>)[i] = IF i <= Len(s) THEN s[i] ELSE x
    OBVIOUS
  <2>1. ~(i <= Len(s)) => i - Len(s) = 1
    BY <1>5
  <2> QED BY <1>4, <1>5, <2>1
<1>7. List(Append(s, x))
  BY <1>3 DEF List
<1> QED BY <1>3, <1>5, <1>6, <1>7, SameList

\* A list that is not empty is its front and its last element, or its first and the rest.
LEMMA SplitLast ==
  ASSUME NEW q, List(q), q # <<>>
  PROVE  \E f, x : List(f) /\ q = f \o <<x>> /\ Len(q) = Len(f) + 1 /\ x = q[Len(q)]
                  /\ \A i \in 1 .. Len(f) : f[i] = q[i]
<1>1. Len(q) \in Nat \ {0}
  BY ListIs, ListEmpty
<1> DEFINE n == Len(q) - 1  f == [i \in 1 .. n |-> q[i]]
<1>2. n \in Nat /\ Len(q) = n + 1
  BY <1>1
<1>3. List(f) /\ Len(f) = n
  <2>1. f = [i \in 1 .. n |-> f[i]]
    OBVIOUS
  <2> HIDE DEF f, n
  <2> QED BY <1>2, <2>1, ListMade
<1>4. /\ List(f \o <<q[n + 1]>>) /\ Len(f \o <<q[n + 1]>>) = n + 1
      /\ \A i \in 1 .. n + 1 : (f \o <<q[n + 1]>>)[i] = q[i]
  <2>0. \A i \in 1 .. n : f[i] = q[i]
    OBVIOUS
  <2> HIDE DEF f, n
  <2> DEFINE x == q[n + 1]
  <2>1. List(<<x>>) /\ Len(<<x>>) = 1 /\ <<x>>[1] = x
    BY ListOne
  <2>2. /\ List(f \o <<x>>) /\ Len(f \o <<x>>) = n + 1
        /\ \A i \in 1 .. n + 1 : (f \o <<x>>)[i] = IF i <= n THEN f[i] ELSE <<x>>[i - n]
    BY <1>3, <2>1, ListConcat
  <2>3. ASSUME NEW i \in 1 .. n + 1 PROVE (f \o <<x>>)[i] = q[i]
    <3>1. i <= n \/ i = n + 1
      BY <1>2
    <3>2. CASE i <= n
      BY <2>0, <2>2, <1>2, <3>2
    <3>3. CASE i = n + 1
      <4>1. i - n = 1 /\ ~(i <= n)
        BY <1>2, <3>3
      <4> QED BY <2>1, <2>2, <3>3, <4>1
    <3> QED BY <3>1, <3>2, <3>3
  <2> QED BY <2>2, <2>3
<1>5. \A i \in 1 .. Len(f) : f[i] = q[i]
  BY <1>3
<1> HIDE DEF f, n
<1>6. q = f \o <<q[n + 1]>>
  BY <1>2, <1>4, SameList
<1> QED BY <1>2, <1>3, <1>5, <1>6

-----------------------------------------------------------------------------
LEMMA TaggedList == ASSUME NEW s, List(s), NEW T PROVE List(Tagged(s, T))
<1>1. PICK S : s \in Seq(S)
  BY DEF List
<1> DEFINE P == {i \in DOMAIN s : s[i].tag \in T}
<1>2. P \subseteq DOMAIN s
  OBVIOUS
<1> HIDE DEF P
<1>3. Picked(s, P) \in Seq(S)
  BY <1>1, <1>2, PickedIs
<1> QED BY <1>3 DEF Tagged, P, List

LEMMA TaggedIn ==
  ASSUME NEW s, List(s), NEW T
  PROVE  \A k \in 1 .. Len(Tagged(s, T)) : \E i \in 1 .. Len(s) : Tagged(s, T)[k] = s[i] /\ s[i].tag \in T
<1>1. PICK S : s \in Seq(S)
  BY DEF List
<1> DEFINE P == {i \in DOMAIN s : s[i].tag \in T}
<1>2. P \subseteq DOMAIN s /\ \A i \in P : i \in 1 .. Len(s) /\ s[i].tag \in T
  BY <1>1
<1>3. Tagged(s, T) = Picked(s, P)
  BY DEF Tagged
<1> HIDE DEF P
<1>4. \A k \in 1 .. Len(Picked(s, P)) : Place(P, k) \in P /\ Picked(s, P)[k] = s[Place(P, k)]
  BY <1>1, <1>2, PickedIs
<1> QED BY <1>2, <1>3, <1>4

LEMMA TaggedNone == ASSUME NEW s, List(s), NEW T, \A i \in 1 .. Len(s) : s[i].tag \notin T PROVE Tagged(s, T) = <<>>
<1>1. {i \in DOMAIN s : s[i].tag \in T} = {}
  BY ListIs
<1> QED BY <1>1, PickedNone DEF Tagged

LEMMA TaggedAll == ASSUME NEW s, List(s), NEW T, \A i \in 1 .. Len(s) : s[i].tag \in T PROVE Tagged(s, T) = s
<1>1. PICK S : s \in Seq(S)
  BY DEF List
<1> DEFINE P == {i \in DOMAIN s : s[i].tag \in T}
<1>2. P = DOMAIN s
  BY ListIs
<1> HIDE DEF P
<1>3. Picked(s, P) = s
  BY <1>1, <1>2, PickedAll
<1> QED BY <1>3 DEF Tagged, P

LEMMA TaggedEmpty == ASSUME NEW T PROVE Tagged(<<>>, T) = <<>>
<1>1. \A i \in 1 .. Len(<<>>) : <<>>[i].tag \notin T
  OBVIOUS
<1> QED BY <1>1, ListEmpty, TaggedNone

LEMMA TaggedOne == ASSUME NEW x, NEW T PROVE Tagged(<<x>>, T) = IF x.tag \in T THEN <<x>> ELSE <<>>
<1> DEFINE s == <<x>>
<1>1. List(s) /\ \A i \in 1 .. Len(s) : s[i] = x
  BY ListOne
<1> HIDE DEF s
<1>2. CASE x.tag \in T
  BY <1>1, <1>2, TaggedAll DEF s
<1>3. CASE x.tag \notin T
  BY <1>1, <1>3, TaggedNone DEF s
<1> QED BY <1>2, <1>3

LEMMA TaggedConcat ==
  ASSUME NEW s, NEW t, List(s), List(t), NEW T
  PROVE  Tagged(s \o t, T) = Tagged(s, T) \o Tagged(t, T)
<1>1. PICK S1 : s \in Seq(S1)
  BY DEF List
<1>2. PICK S2 : t \in Seq(S2)
  BY DEF List
<1> DEFINE S == S1 \cup S2  u == s \o t
           P == {i \in DOMAIN u : u[i].tag \in T}
           P1 == {i \in DOMAIN s : s[i].tag \in T}
           P2 == {i \in DOMAIN t : t[i].tag \in T}
<1>3. s \in Seq(S) /\ t \in Seq(S)
  BY <1>1, <1>2, SeqMonotonic
<1>4. /\ List(u) /\ Len(u) = Len(s) + Len(t) /\ Len(s) \in Nat /\ Len(t) \in Nat
      /\ \A i \in 1 .. Len(s) + Len(t) : u[i] = IF i <= Len(s) THEN s[i] ELSE t[i - Len(s)]
  BY ListConcat, ListIs
<1>5. DOMAIN u = 1 .. Len(s) + Len(t) /\ DOMAIN s = 1 .. Len(s) /\ DOMAIN t = 1 .. Len(t)
  BY <1>4, ListIs
<1> HIDE DEF S, u
<1>6. P \subseteq 1 .. Len(s) + Len(t)
  BY <1>5
<1>7. \A i : i \in P1 <=> i \in 1 .. Len(s) /\ i \in P
  <2> SUFFICES ASSUME NEW i \in 1 .. Len(s) PROVE i \in P1 <=> i \in P
    BY <1>5
  <2>1. i \in 1 .. Len(s) + Len(t) /\ i <= Len(s)
    BY <1>4
  <2>2. u[i] = s[i]
    BY <1>4, <2>1
  <2> QED BY <1>5, <2>1, <2>2
<1>8. \A j : j \in P2 <=> j \in 1 .. Len(t) /\ Len(s) + j \in P
  <2> SUFFICES ASSUME NEW j \in 1 .. Len(t) PROVE j \in P2 <=> Len(s) + j \in P
    BY <1>5
  <2>1. Len(s) + j \in 1 .. Len(s) + Len(t) /\ ~(Len(s) + j <= Len(s)) /\ (Len(s) + j) - Len(s) = j
    BY <1>4
  <2>2. u[Len(s) + j] = t[j]
    BY <1>4, <2>1
  <2> QED BY <1>5, <2>1, <2>2
<1>9. Tagged(u, T) = Picked(u, P) /\ Tagged(s, T) = Picked(s, P1) /\ Tagged(t, T) = Picked(t, P2)
  BY DEF Tagged
<1> HIDE DEF P, P1, P2
<1>10. Picked(s \o t, P) = Picked(s, P1) \o Picked(t, P2)
  <2>1. Parts(P, Len(s), Len(t), P1, P2)
    BY <1>6, <1>7, <1>8 DEF Parts
  <2> QED BY <1>3, <2>1, PickedConcat
<1>11. u = s \o t
  BY DEF u
<1>12. Tagged(s \o t, T) = Picked(s \o t, P)
  BY <1>9, <1>11
<1> QED BY <1>9, <1>10, <1>12

-----------------------------------------------------------------------------
\* Lists of lists.
Lists1(q) == List(q) /\ \A i \in 1 .. Len(q) : List(q[i])

\* The lists flattened up to each place.
Flattens(f, q) == f = [i \in 1 .. Len(q) |-> IF i = 1 THEN q[i] ELSE f[i - 1] \o q[i]]

LEMMA FlattenDef == ASSUME NEW q, Len(q) # 0 PROVE FlattenSeq(q) = (CHOOSE g : Flattens(g, q))[Len(q)]
BY DEF FlattenSeq, Flattens

\* The list flattened one place further.
Longer(f, p, q) ==
  [i \in 1 .. Len(q) |->
     IF i <= Len(p) THEN f[i] ELSE IF Len(p) = 0 THEN q[Len(q)] ELSE f[Len(p)] \o q[Len(q)]]

LEMMA FlattenStep ==
  ASSUME NEW p, NEW q, NEW f, List(p), List(q), Len(q) = Len(p) + 1,
         \A i \in 1 .. Len(p) : p[i] = q[i], Flattens(f, p)
  PROVE  Flattens(Longer(f, p, q), q)
<1> DEFINE n == Len(p)  m == Len(q)  x == q[m]  y == IF n = 0 THEN x ELSE f[n] \o x
           g == [i \in 1 .. m |-> IF i <= n THEN f[i] ELSE y]
<1>1. n \in Nat /\ m = n + 1
  BY ListIs
<1>2. \A i \in 1 .. n : f[i] = IF i = 1 THEN p[i] ELSE f[i - 1] \o p[i]
  BY DEF Flattens
<1>3. ASSUME NEW i \in 1 .. m PROVE g[i] = IF i = 1 THEN q[i] ELSE g[i - 1] \o q[i]
  <2>1. CASE i <= n
    <3>1. i \in 1 .. n /\ (i # 1 => i - 1 \in 1 .. m /\ i - 1 <= n)
      BY <1>1, <2>1
    <3>2. g[i] = f[i] /\ (i # 1 => g[i - 1] = f[i - 1])
      BY <2>1, <3>1
    <3>3. p[i] = q[i]
      BY <3>1
    <3> HIDE DEF g
    <3> QED BY <1>2, <3>1, <3>2, <3>3
  <2>2. CASE ~(i <= n)
    <3>1. i = m /\ (n # 0 => i # 1 /\ i - 1 = n /\ n \in 1 .. m) /\ (n = 0 => i = 1)
      BY <1>1, <2>2
    <3>2. g[i] = y /\ (n # 0 => g[n] = f[n])
      BY <1>1, <2>2, <3>1
    <3>3. q[i] = x
      BY <3>1
    <3> HIDE DEF g
    <3> QED BY <3>1, <3>2, <3>3
  <2> QED BY <2>1, <2>2
<1>4. g = [i \in 1 .. m |-> IF i = 1 THEN q[i] ELSE g[i - 1] \o q[i]]
  <2>1. g = [i \in 1 .. m |-> g[i]]
    OBVIOUS
  <2> HIDE DEF g
  <2> QED BY <1>3, <2>1
<1> HIDE DEF g
<1>5. Flattens(g, q)
  BY <1>4 DEF Flattens
<1>6. g = Longer(f, p, q)
  BY DEF g, Longer
<1> QED BY <1>5, <1>6

LEMMA FlattenExists == \A q : Lists1(q) => \E f : Flattens(f, q) /\ \A i \in 1 .. Len(q) : List(f[i])
<1> DEFINE Good(q) == \E f : Flattens(f, q) /\ \A i \in 1 .. Len(q) : List(f[i])
           T == {n \in Nat : \E q : Lists1(q) /\ Len(q) = n /\ ~Good(q)}
<1> SUFFICES ASSUME T # {} PROVE FALSE
  BY ListIs DEF Lists1
<1>1. PICK n \in T : \A m \in T : n <= m
  BY Least
<1>2. PICK q : Lists1(q) /\ Len(q) = n /\ ~Good(q)
  OBVIOUS
<1>3. n \in Nat /\ List(q) /\ \A i \in 1 .. Len(q) : List(q[i])
  BY <1>2 DEF Lists1
<1>4. q # <<>>
  <2> SUFFICES ASSUME q = <<>> PROVE FALSE
    OBVIOUS
  <2> DEFINE f == [i \in 1 .. Len(q) |-> IF i = 1 THEN q[i] ELSE <<>> \o q[i]]
  <2>1. Len(q) = 0
    OBVIOUS
  <2>2. Flattens(f, q) /\ \A i \in 1 .. Len(q) : List(f[i])
    <3>1. 1 .. Len(q) = {}
      BY <2>1
    <3>2. f = [i \in 1 .. Len(q) |-> IF i = 1 THEN q[i] ELSE f[i - 1] \o q[i]]
      BY <3>1
    <3> QED BY <3>1, <3>2 DEF Flattens
  <2> QED BY <1>2, <2>2
<1>5. PICK p, x : List(p) /\ q = p \o <<x>> /\ Len(q) = Len(p) + 1 /\ x = q[Len(q)] /\ \A i \in 1 .. Len(p) : p[i] = q[i]
  BY <1>3, <1>4, SplitLast
<1>6. Len(p) \in Nat /\ Len(p) < n /\ List(x) /\ Lists1(p)
  <2>1. Len(p) \in Nat
    BY <1>5, ListIs
  <2>2. \A i \in 1 .. Len(p) : i \in 1 .. Len(q)
    BY <1>5, <2>1
  <2>3. Len(q) \in 1 .. Len(q)
    BY <1>5, <2>1
  <2> QED BY <1>2, <1>3, <1>5, <2>1, <2>2, <2>3 DEF Lists1
<1>7. Len(p) \notin T
  BY <1>1, <1>6
<1>8. PICK f : Flattens(f, p) /\ \A i \in 1 .. Len(p) : List(f[i])
  BY <1>6, <1>7
<1> DEFINE y == IF Len(p) = 0 THEN x ELSE f[Len(p)] \o x
           g == Longer(f, p, q)
<1>9. Flattens(g, q)
  BY <1>3, <1>5, <1>8, FlattenStep
<1>10. List(y)
  <2>1. CASE Len(p) = 0
    BY <1>6, <2>1
  <2>2. CASE Len(p) # 0
    <3>1. List(f[Len(p)])
      BY <1>6, <1>8, <2>2
    <3> QED BY <1>6, <2>2, <3>1, ListConcat
  <2> QED BY <2>1, <2>2
<1>11. \A i \in 1 .. Len(q) : List(g[i])
  <2> SUFFICES ASSUME NEW i \in 1 .. Len(q) PROVE List(g[i])
    OBVIOUS
  <2>1. g[i] = IF i <= Len(p) THEN f[i] ELSE y
    BY <1>5 DEF Longer
  <2>2. i <= Len(p) => i \in 1 .. Len(p)
    BY <1>6
  <2> HIDE DEF g, y
  <2> QED BY <1>8, <1>10, <2>1, <2>2
<1> HIDE DEF g
<1> QED BY <1>2, <1>9, <1>11

LEMMA FlattensSame ==
  ASSUME NEW p, NEW q, NEW f, NEW g, List(p), List(q), Len(p) <= Len(q), \A i \in 1 .. Len(p) : p[i] = q[i],
         Flattens(f, p), Flattens(g, q)
  PROVE  \A i \in 1 .. Len(p) : f[i] = g[i]
<1> DEFINE T == {i \in 1 .. Len(p) : f[i] # g[i]}
<1> SUFFICES ASSUME T # {} PROVE FALSE
  OBVIOUS
<1>0. Len(p) \in Nat /\ Len(q) \in Nat
  BY ListIs
<1>0a. T \subseteq Nat
  OBVIOUS
<1>1. PICK i \in T : \A j \in T : i <= j
  <2> HIDE DEF T
  <2> QED BY <1>0a, Least
<1>2. i \in 1 .. Len(p) /\ i \in 1 .. Len(q)
  BY <1>0
<1>3. /\ f[i] = IF i = 1 THEN p[i] ELSE f[i - 1] \o p[i]
      /\ g[i] = IF i = 1 THEN q[i] ELSE g[i - 1] \o q[i]
  BY <1>2 DEF Flattens
<1>4. i # 1
  BY <1>2, <1>3
<1>5. i - 1 \in 1 .. Len(p) /\ ~(i <= i - 1)
  BY <1>0, <1>2, <1>4
<1>6. f[i - 1] = g[i - 1]
  BY <1>1, <1>5
<1> QED BY <1>2, <1>3, <1>4, <1>6

LEMMA FlattenEmpty == FlattenSeq(<<>>) = <<>>
BY DEF FlattenSeq

LEMMA FlattenBy ==
  ASSUME NEW q, Lists1(q), Len(q) # 0, NEW f, Flattens(f, q)
  PROVE  FlattenSeq(q) = f[Len(q)]
<1>1. Flattens(CHOOSE g : Flattens(g, q), q)
  BY Zenon
<1> DEFINE g == CHOOSE g : Flattens(g, q)
<1> HIDE DEF g
<1>2. Len(q) \in 1 .. Len(q) /\ List(q) /\ Len(q) <= Len(q)
  BY ListIs DEF Lists1
<1>3. Flattens(g, q)
  BY <1>1 DEF g
<1>4. f[Len(q)] = g[Len(q)]
  BY <1>2, <1>3, FlattensSame
<1> QED BY <1>4, FlattenDef DEF g

LEMMA FlattenList == ASSUME NEW q, Lists1(q) PROVE List(FlattenSeq(q))
<1>0. Len(q) \in Nat /\ List(q)
  BY ListIs DEF Lists1
<1>1. CASE Len(q) = 0
  BY <1>0, <1>1, FlattenEmpty, ListEmpty
<1>2. CASE Len(q) # 0
  <2>1. PICK f : Flattens(f, q) /\ \A i \in 1 .. Len(q) : List(f[i])
    BY FlattenExists
  <2>2. FlattenSeq(q) = f[Len(q)]
    BY <1>2, <2>1, FlattenBy
  <2> QED BY <1>0, <1>2, <2>1, <2>2
<1> QED BY <1>1, <1>2

LEMMA ListsConcat ==
  ASSUME NEW p, NEW q, Lists1(p), Lists1(q)
  PROVE  Lists1(p \o q)
<1>1. List(p) /\ List(q) /\ Len(p) \in Nat /\ Len(q) \in Nat
  BY ListIs DEF Lists1
<1>2. /\ List(p \o q) /\ Len(p \o q) = Len(p) + Len(q)
      /\ \A i \in 1 .. Len(p) + Len(q) : (p \o q)[i] = IF i <= Len(p) THEN p[i] ELSE q[i - Len(p)]
  BY <1>1, ListConcat
<1>3. ASSUME NEW i \in 1 .. Len(p) + Len(q) PROVE List((p \o q)[i])
  <2>1. IF i <= Len(p) THEN i \in 1 .. Len(p) ELSE i - Len(p) \in 1 .. Len(q)
    BY <1>1
  <2> QED BY <1>2, <2>1 DEF Lists1
<1> QED BY <1>2, <1>3 DEF Lists1

LEMMA ListsOne == ASSUME NEW x, List(x) PROVE Lists1(<<x>>)
<1> DEFINE q == <<x>>
<1>1. List(q) /\ Len(q) = 1 /\ q[1] = x
  BY ListOne
<1>2. \A i \in 1 .. Len(q) : i = 1
  BY <1>1
<1> HIDE DEF q
<1>3. Lists1(q)
  BY <1>1, <1>2 DEF Lists1
<1> QED BY <1>3 DEF q

LEMMA FlattenAppend ==
  ASSUME NEW p, Lists1(p), NEW x, List(x)
  PROVE  FlattenSeq(p \o <<x>>) = FlattenSeq(p) \o x
<1> DEFINE q == p \o <<x>>
<1>1. List(p) /\ Len(p) \in Nat /\ List(<<x>>) /\ Len(<<x>>) = 1 /\ <<x>>[1] = x
  BY ListOne, ListIs DEF Lists1
<1>2. /\ List(q) /\ Len(q) = Len(p) + 1
      /\ \A i \in 1 .. Len(p) + 1 : q[i] = IF i <= Len(p) THEN p[i] ELSE <<x>>[i - Len(p)]
  BY <1>1, ListConcat
<1>3. Lists1(q)
  BY ListsConcat, ListsOne
<1>4. PICK f : Flattens(f, p)
  BY FlattenExists
<1> HIDE DEF q
<1>5. \A i \in 1 .. Len(p) : p[i] = q[i]
  <2> SUFFICES ASSUME NEW i \in 1 .. Len(p) PROVE p[i] = q[i]
    OBVIOUS
  <2>1. i \in 1 .. Len(p) + 1 /\ i <= Len(p)
    BY <1>1
  <2> QED BY <1>2, <2>1
<1>6. q[Len(q)] = x
  <2>1. Len(p) + 1 \in 1 .. Len(p) + 1 /\ ~(Len(p) + 1 <= Len(p)) /\ (Len(p) + 1) - Len(p) = 1
    BY <1>1
  <2> QED BY <1>1, <1>2, <2>1
<1> DEFINE y == IF Len(p) = 0 THEN x ELSE f[Len(p)] \o x
           g == Longer(f, p, q)
<1>7. Flattens(g, q)
  BY <1>1, <1>2, <1>4, <1>5, FlattenStep
<1>8. g[Len(q)] = y
  <2>1. Len(q) \in 1 .. Len(q) /\ ~(Len(q) <= Len(p))
    BY <1>1, <1>2
  <2> QED BY <1>6, <2>1 DEF Longer
<1>9. FlattenSeq(q) = y
  <2> HIDE DEF g, y
  <2>1. Len(q) # 0
    BY <1>1, <1>2
  <2> QED BY <1>3, <1>7, <1>8, <2>1, FlattenBy
<1>10. CASE Len(p) = 0
  <2>1. FlattenSeq(p) = <<>>
    BY <1>1, <1>10, ListEmpty, FlattenEmpty
  <2>2. <<>> \o x = x
    BY ConcatNone
  <2> QED BY <1>9, <1>10, <2>1, <2>2 DEF q
<1>11. CASE Len(p) # 0
  <2>1. FlattenSeq(p) = f[Len(p)]
    BY <1>4, <1>11, FlattenBy
  <2> QED BY <1>9, <1>11, <2>1 DEF q
<1> QED BY <1>10, <1>11

LEMMA FlattenOne == ASSUME NEW x, List(x) PROVE FlattenSeq(<<x>>) = x
<1>1. Lists1(<<>>)
  BY ListEmpty DEF Lists1
<1>2. <<>> \o <<x>> = <<x>> /\ <<>> \o x = x
  BY ListOne, ConcatNone
<1>3. FlattenSeq(<<>> \o <<x>>) = FlattenSeq(<<>>) \o x
  BY <1>1, FlattenAppend
<1> QED BY <1>2, <1>3, FlattenEmpty

LEMMA FlattenConcat == \A p, q : Lists1(p) /\ Lists1(q) => FlattenSeq(p \o q) = FlattenSeq(p) \o FlattenSeq(q)
<1> DEFINE Good(p, q) == FlattenSeq(p \o q) = FlattenSeq(p) \o FlattenSeq(q)
           T == {n \in Nat : \E p, q : Lists1(p) /\ Lists1(q) /\ Len(q) = n /\ ~Good(p, q)}
<1> SUFFICES ASSUME T # {} PROVE FALSE
  BY ListIs DEF Lists1
<1>1. PICK n \in T : \A m \in T : n <= m
  BY Least
<1>2. PICK p, q : Lists1(p) /\ Lists1(q) /\ Len(q) = n /\ ~Good(p, q)
  OBVIOUS
<1>2a. n \in Nat /\ \A m \in Nat : m < n => \A u, v : Lists1(u) /\ Lists1(v) /\ Len(v) = m => Good(u, v)
  BY <1>1, SMTT(20)
<1> HIDE DEF T
<1>3. n \in Nat /\ List(p) /\ List(q) /\ \A i \in 1 .. Len(q) : List(q[i])
  BY <1>2, <1>2a DEF Lists1
<1>3a. List(FlattenSeq(p))
  BY <1>2, FlattenList
<1>4. q # <<>>
  <2> SUFFICES ASSUME q = <<>> PROVE FALSE
    OBVIOUS
  <2>1. p \o q = p /\ FlattenSeq(p) \o <<>> = FlattenSeq(p)
    BY <1>3, <1>3a, ConcatNone
  <2> QED BY <1>2, <2>1, FlattenEmpty
<1>5. PICK f, x : List(f) /\ q = f \o <<x>> /\ Len(q) = Len(f) + 1 /\ x = q[Len(q)] /\ \A i \in 1 .. Len(f) : f[i] = q[i]
  BY <1>3, <1>4, SplitLast
<1>6. Len(f) \in Nat /\ Len(f) < n /\ List(x) /\ Lists1(f)
  <2>1. Len(f) \in Nat
    BY <1>5, ListIs
  <2>2. \A i \in 1 .. Len(f) : i \in 1 .. Len(q)
    BY <1>5, <2>1
  <2>3. Len(q) \in 1 .. Len(q)
    BY <1>5, <2>1
  <2> QED BY <1>2, <1>3, <1>5, <2>1, <2>2, <2>3 DEF Lists1
<1>8. FlattenSeq(p \o f) = FlattenSeq(p) \o FlattenSeq(f)
  BY <1>2, <1>2a, <1>6
<1>9. Lists1(p \o f) /\ p \o (f \o <<x>>) = (p \o f) \o <<x>>
  <2>1. List(p) /\ List(f) /\ List(<<x>>)
    BY <1>3, <1>5, ListOne
  <2>2. p \o (f \o <<x>>) = (p \o f) \o <<x>>
    BY <2>1, ConcatAssoc
  <2> QED BY <1>2, <1>6, <2>2, ListsConcat
<1>10. FlattenSeq(p \o q) = FlattenSeq(p \o f) \o x
  BY <1>5, <1>6, <1>9, FlattenAppend
<1>11. FlattenSeq(q) = FlattenSeq(f) \o x
  BY <1>5, <1>6, FlattenAppend
<1>12. (FlattenSeq(p) \o FlattenSeq(f)) \o x = FlattenSeq(p) \o (FlattenSeq(f) \o x)
  <2>1. List(FlattenSeq(f))
    BY <1>6, FlattenList
  <2> QED BY <1>3a, <1>6, <2>1, ConcatAssoc, SMTT(20)
<1> QED BY <1>2, <1>8, <1>10, <1>11, <1>12

-----------------------------------------------------------------------------
(* Check digits and the MRZ information.                                   *)

Term(s, i) == (IF s[i] = Filler THEN 0 ELSE s[i]) * <<7, 3, 1>>[((i - 1) % 3) + 1]

SumsTo(f, s, n) == f = [i \in 0 .. n |-> IF i = 0 THEN 0 ELSE f[i - 1] + Term(s, i)]

LEMMA CheckDef == ASSUME NEW s PROVE CheckDigit(s) = (CHOOSE f : SumsTo(f, s, Len(s)))[Len(s)] % 10
BY DEF CheckDigit, SumsTo, Term

LEMMA TermIs ==
  ASSUME NEW s, NEW i \in Nat \ {0}, s[i] \in Nat
  PROVE  Term(s, i) \in Nat /\ (s[i] = Filler => Term(s, i) = 0)
<1> DEFINE w == <<7, 3, 1>>[((i - 1) % 3) + 1]
<1>1. (i - 1) % 3 \in {0, 1, 2}
  OBVIOUS
<1>2. w \in {7, 3, 1}
  <2> DEFINE m == (i - 1) % 3
  <2> HIDE DEF m
  <2>1. m \in {0, 1, 2}
    BY <1>1 DEF m
  <2>2. <<7, 3, 1>>[m + 1] \in {7, 3, 1}
    BY <2>1
  <2> QED BY <2>2 DEF m
<1> HIDE DEF w
<1>3. Term(s, i) = (IF s[i] = Filler THEN 0 ELSE s[i]) * w
  BY DEF Term, w
<1>4. \A a \in Nat : a * w \in Nat /\ 0 * w = 0
  BY <1>2
<1> QED BY <1>3, <1>4

LEMMA SumsExist == ASSUME NEW s, NEW n \in Nat PROVE \E f : SumsTo(f, s, n)
<1> DEFINE T == {m \in Nat : ~\E f : SumsTo(f, s, m)}
<1> SUFFICES ASSUME T # {} PROVE FALSE
  OBVIOUS
<1>1. PICK m \in T : \A k \in T : m <= k
  BY Least
<1>2. m \in Nat
  OBVIOUS
<1>3. CASE m = 0
  <2> DEFINE f == [i \in 0 .. m |-> 0]
  <2>1. 0 .. m = {0}
    BY <1>3
  <2>2. f = [i \in 0 .. m |-> IF i = 0 THEN 0 ELSE f[i - 1] + Term(s, i)]
    BY <2>1
  <2> HIDE DEF f
  <2> QED BY <2>2 DEF SumsTo
<1>4. CASE m # 0
  <2>1. m - 1 \in Nat /\ m - 1 \notin T
    BY <1>1, <1>2, <1>4
  <2>2. PICK f : SumsTo(f, s, m - 1)
    BY <2>1
  <2>3. \A i \in 0 .. m - 1 : f[i] = IF i = 0 THEN 0 ELSE f[i - 1] + Term(s, i)
    BY <2>2 DEF SumsTo
  <2> DEFINE g == [i \in 0 .. m |-> IF i = m THEN f[m - 1] + Term(s, m) ELSE f[i]]
  <2>4. ASSUME NEW i \in 0 .. m PROVE g[i] = IF i = 0 THEN 0 ELSE g[i - 1] + Term(s, i)
    <3>1. i # 0 => i - 1 \in 0 .. m /\ i - 1 # m
      BY <1>2
    <3>2. g[i] = (IF i = m THEN f[m - 1] + Term(s, m) ELSE f[i]) /\ (i # 0 => g[i - 1] = f[i - 1])
      BY <3>1
    <3>3. i # m => i \in 0 .. m - 1
      BY <1>2
    <3> HIDE DEF g
    <3> QED BY <1>4, <2>3, <3>2, <3>3
  <2>5. g = [i \in 0 .. m |-> g[i]]
    OBVIOUS
  <2> HIDE DEF g
  <2>6. SumsTo(g, s, m)
    BY <2>4, <2>5 DEF SumsTo
  <2> QED BY <2>6
<1> QED BY <1>3, <1>4

LEMMA SumsSame ==
  ASSUME NEW s, NEW n \in Nat, NEW f, SumsTo(f, s, n), NEW g, SumsTo(g, s, n)
  PROVE  f[n] = g[n]
<1> DEFINE T == {i \in 0 .. n : f[i] # g[i]}
<1> SUFFICES ASSUME T # {} PROVE FALSE
  OBVIOUS
<1>0. T \subseteq Nat
  OBVIOUS
<1>1. PICK i \in T : \A j \in T : i <= j
  <2> HIDE DEF T
  <2> QED BY <1>0, Least
<1>2. /\ f[i] = IF i = 0 THEN 0 ELSE f[i - 1] + Term(s, i)
      /\ g[i] = IF i = 0 THEN 0 ELSE g[i - 1] + Term(s, i)
  BY DEF SumsTo
<1>3. i # 0
  BY <1>2
<1>4. i - 1 \in 0 .. n /\ ~(i <= i - 1)
  BY <1>3
<1>5. f[i - 1] = g[i - 1]
  BY <1>1, <1>4
<1> QED BY <1>2, <1>3, <1>5

LEMMA CheckBy == ASSUME NEW s, Len(s) \in Nat, NEW f, SumsTo(f, s, Len(s)) PROVE CheckDigit(s) = f[Len(s)] % 10
<1> DEFINE g == CHOOSE g : SumsTo(g, s, Len(s))
<1>1. SumsTo(g, s, Len(s))
  BY Zenon
<1>2. CheckDigit(s) = g[Len(s)] % 10
  BY CheckDef
<1> HIDE DEF g
<1>3. f[Len(s)] = g[Len(s)]
  BY <1>1, SumsSame
<1> QED BY <1>2, <1>3

LEMMA FillersIs == ASSUME NEW n \in Nat PROVE List(Fillers(n)) /\ Len(Fillers(n)) = n /\ \A i \in 1 .. n : Fillers(n)[i] = Filler
<1>1. Fillers(n) = [i \in 1 .. n |-> Filler]
  BY DEF Fillers
<1>2. \A i \in 1 .. n : Fillers(n)[i] = Filler
  BY <1>1
<1>3. Fillers(n) = [i \in 1 .. n |-> Fillers(n)[i]]
  BY <1>1
<1>4. List(Fillers(n)) /\ Len(Fillers(n)) = n
  BY <1>3, ListMade
<1> QED BY <1>2, <1>4

\* A text without fillers.
Chars(s) == List(s) /\ \A i \in 1 .. Len(s) : s[i] \in Nat /\ s[i] # Filler

\* Fillers at the end leave the check digit as it is.
LEMMA CheckFilled ==
  ASSUME NEW s, Chars(s), NEW n \in Nat
  PROVE  CheckDigit(s \o Fillers(n)) = CheckDigit(s)
<1> DEFINE t == s \o Fillers(n)  l == Len(s)
<1>1. List(s) /\ l \in Nat /\ \A i \in 1 .. l : s[i] \in Nat
  BY ListIs DEF Chars
<1>2. /\ Len(t) = l + n
      /\ \A i \in 1 .. l + n : t[i] = IF i <= l THEN s[i] ELSE Fillers(n)[i - l]
  BY <1>1, FillersIs, ListConcat
<1> HIDE DEF t, l
<1>3. \A i \in 1 .. l + n : t[i] = IF i <= l THEN s[i] ELSE Filler
  <2> SUFFICES ASSUME NEW i \in 1 .. l + n PROVE t[i] = IF i <= l THEN s[i] ELSE Filler
    OBVIOUS
  <2>1. ~(i <= l) => i - l \in 1 .. n
    BY <1>1
  <2> QED BY <1>2, <2>1, FillersIs
<1>4. PICK f : SumsTo(f, s, l)
  BY <1>1, SumsExist
<1>5. \A i \in 0 .. l : f[i] = IF i = 0 THEN 0 ELSE f[i - 1] + Term(s, i)
  BY <1>4 DEF SumsTo
<1>6. \A i \in 1 .. l : Term(s, i) \in Nat /\ Term(t, i) = Term(s, i)
  <2> SUFFICES ASSUME NEW i \in 1 .. l PROVE Term(s, i) \in Nat /\ Term(t, i) = Term(s, i)
    OBVIOUS
  <2>0a. s[i] \in Nat
    BY <1>1
  <2>0b. i \in Nat \ {0} /\ i \in 1 .. l + n /\ i <= l
    BY <1>1
  <2>1. s[i] \in Nat /\ i \in Nat \ {0} /\ i \in 1 .. l + n /\ i <= l
    BY <2>0a, <2>0b
  <2>2. t[i] = s[i]
    BY <1>3, <2>1
  <2>3. Term(t, i) = Term(s, i)
    BY <2>2 DEF Term
  <2>4. Term(s, i) \in Nat
    BY <1>1, <2>1, TermIs
  <2> QED BY <2>3, <2>4
<1>7. \A i \in 1 .. l + n : ~(i <= l) => Term(t, i) = 0
  <2> SUFFICES ASSUME NEW i \in 1 .. l + n, ~(i <= l) PROVE Term(t, i) = 0
    OBVIOUS
  <2>1. t[i] = Filler /\ t[i] \in Nat /\ i \in Nat \ {0}
    BY <1>1, <1>3 DEF Filler
  <2> QED BY <2>1, TermIs
<1>8. f[l] \in Nat
  <2> DEFINE T == {i \in 0 .. l : f[i] \notin Nat}
  <2> SUFFICES ASSUME T # {} PROVE FALSE
    BY <1>1
  <2>0. T \subseteq Nat
    OBVIOUS
  <2>1. PICK i \in T : \A j \in T : i <= j
    <3> HIDE DEF T
    <3> QED BY <2>0, Least
  <2>2. i # 0
    BY <1>5
  <2>3. i - 1 \in 0 .. l /\ ~(i <= i - 1) /\ i \in 1 .. l
    BY <1>1, <2>2
  <2>4. f[i - 1] \in Nat
    BY <2>1, <2>3
  <2> QED BY <1>5, <1>6, <2>2, <2>3, <2>4
<1> DEFINE g == [i \in 0 .. l + n |-> IF i <= l THEN f[i] ELSE f[l]]
<1>9. ASSUME NEW i \in 0 .. l + n PROVE g[i] = IF i = 0 THEN 0 ELSE g[i - 1] + Term(t, i)
  <2>1. i # 0 => i - 1 \in 0 .. l + n
    BY <1>1
  <2>2. g[i] = (IF i <= l THEN f[i] ELSE f[l]) /\ (i # 0 => g[i - 1] = IF i - 1 <= l THEN f[i - 1] ELSE f[l])
    BY <2>1
  <2> HIDE DEF g
  <2>3. CASE i <= l
    <3>1. i \in 0 .. l /\ (i # 0 => i \in 1 .. l /\ i - 1 <= l)
      BY <1>1, <2>3
    <3> QED BY <1>5, <1>6, <2>2, <2>3, <3>1
  <2>4. CASE ~(i <= l)
    <3>1. i \in 1 .. l + n /\ i # 0 /\ (i - 1 <= l => i - 1 = l)
      BY <1>1, <2>4
    <3>2. g[i] = f[l] /\ g[i - 1] = f[l] /\ Term(t, i) = 0
      BY <1>7, <2>2, <2>4, <3>1
    <3> QED BY <1>8, <3>1, <3>2
  <2> QED BY <2>3, <2>4
<1>10. SumsTo(g, t, Len(t))
  <2>1. g = [i \in 0 .. l + n |-> g[i]]
    OBVIOUS
  <2> HIDE DEF g
  <2> QED BY <1>2, <1>9, <2>1 DEF SumsTo
<1>11. g[Len(t)] = f[l]
  BY <1>1, <1>2
<1> HIDE DEF g
<1>12. CheckDigit(t) = f[l] % 10
  <2>1. Len(t) \in Nat
    BY <1>1, <1>2
  <2> QED BY <1>10, <1>11, <2>1, CheckBy
<1>13. CheckDigit(s) = f[l] % 10
  <2>1. Len(s) \in Nat /\ SumsTo(f, s, Len(s)) /\ l = Len(s)
    BY <1>1, <1>4 DEF l
  <2> QED BY <1>1, <2>1, CheckBy
<1> QED BY <1>12, <1>13 DEF t

LEMMA CharsPlain == ASSUME NEW D, D \subseteq 0 .. 35, NEW s \in Seq(D) PROVE Chars(s) /\ s \in Seq(Nat)
<1>1. List(s)
  BY DEF List
<1>2. \A i \in 1 .. Len(s) : s[i] \in D
  BY ElementOfSeq
<1>3. \A x \in D : x \in Nat /\ x # Filler
  BY DEF Filler
<1>4. s \in Seq(Nat)
  <2>1. D \subseteq Nat
    BY <1>3
  <2> QED BY <2>1, SeqMonotonic
<1>5. \A i \in 1 .. Len(s) : s[i] \in Nat /\ s[i] # Filler
  BY <1>2, <1>3
<1> QED BY <1>1, <1>4, <1>5 DEF Chars

LEMMA ToSetIs == ASSUME NEW s, List(s) PROVE \A x : x \in ToSet(s) <=> \E i \in 1 .. Len(s) : s[i] = x
<1>1. DOMAIN s = 1 .. Len(s)
  BY ListIs
<1> QED BY <1>1 DEF ToSet

LEMMA SubList ==
  ASSUME NEW s, List(s), NEW m \in Nat \ {0}, NEW n \in Nat, n <= Len(s), m <= n + 1
  PROVE  /\ List(SubSeq(s, m, n)) /\ Len(SubSeq(s, m, n)) = n - m + 1
         /\ \A i \in 1 .. n - m + 1 : SubSeq(s, m, n)[i] = s[m + i - 1]
<1>1. PICK S : s \in Seq(S)
  BY DEF List
<1>2. Len(s) \in Nat /\ \A i \in 1 .. Len(s) : s[i] \in S
  BY <1>1
<1>3. m \in Int /\ n \in Int /\ \A i \in m .. n : s[i] \in S
  BY <1>2
<1> DEFINE u == SubSeq(s, m, n)
<1>4. u \in Seq(S) /\ Len(u) = (IF m <= n THEN n - m + 1 ELSE 0) /\ \A i \in 1 .. n - m + 1 : u[i] = s[m + i - 1]
  BY <1>3, SubSeqProperties
<1> HIDE DEF u
<1>5. Len(u) = n - m + 1
  BY <1>4
<1>6. List(u)
  BY <1>4 DEF List
<1> QED BY <1>4, <1>5, <1>6 DEF u

\* What u is, when it is s of m elements and then t of n.
Joins(u, s, m, t, n) ==
  /\ List(u) /\ Len(u) = m + n /\ m \in Nat /\ n \in Nat
  /\ \A i \in 1 .. m : u[i] = s[i]
  /\ \A i \in 1 .. n : u[m + i] = t[i]

LEMMA JoinIs ==
  ASSUME NEW s, NEW t, NEW u, u = s \o t, List(s), List(t), NEW m, m = Len(s), NEW n, n = Len(t)
  PROVE  Joins(u, s, m, t, n)
<1>1. /\ List(u) /\ Len(u) = m + n /\ m \in Nat
      /\ \A i \in 1 .. m + n : u[i] = IF i <= m THEN s[i] ELSE t[i - m]
  BY ListConcat
<1>2. n \in Nat
  BY ListIs
<1>3. \A i \in 1 .. m : u[i] = s[i]
  <2> SUFFICES ASSUME NEW i \in 1 .. m PROVE u[i] = s[i]
    OBVIOUS
  <2>1. i \in 1 .. m + n /\ i <= m
    BY <1>1, <1>2
  <2> QED BY <1>1, <2>1
<1>4. \A i \in 1 .. n : u[m + i] = t[i]
  <2> SUFFICES ASSUME NEW i \in 1 .. n PROVE u[m + i] = t[i]
    OBVIOUS
  <2>1. m + i \in 1 .. m + n /\ ~(m + i <= m) /\ (m + i) - m = i
    BY <1>1, <1>2
  <2> QED BY <1>1, <2>1
<1>5. Joins(u, s, m, t, n)
  BY <1>1, <1>2, <1>3, <1>4 DEF Joins
<1> QED BY <1>5

\* A part of a list, told by its elements.
Reads(s, k, t, a, b) ==
  /\ a = k + 1 /\ b = k + Len(t)
  /\ List(s) /\ List(t) /\ k \in Nat /\ k + Len(t) <= Len(s) /\ \A i \in 1 .. Len(t) : s[k + i] = t[i]

LEMMA PartIs ==
  ASSUME NEW s, NEW k, NEW t, NEW a, NEW b, Reads(s, k, t, a, b)
  PROVE  SubSeq(s, a, b) = t
<1> DEFINE n == Len(t)
<1>0. /\ List(s) /\ List(t) /\ k \in Nat /\ n \in Nat /\ k + n <= Len(s) /\ \A i \in 1 .. n : s[k + i] = t[i]
      /\ n = Len(t) /\ b = k + n /\ a = k + 1
  BY ListIs DEF Reads
<1> HIDE DEF n
<1> DEFINE u == SubSeq(s, k + 1, k + n)
<1>1. k + 1 \in Nat \ {0} /\ k + n \in Nat /\ k + 1 <= (k + n) + 1 /\ (k + n) - (k + 1) + 1 = n
  BY <1>0
<1>2. /\ List(u) /\ Len(u) = (k + n) - (k + 1) + 1
      /\ \A i \in 1 .. (k + n) - (k + 1) + 1 : u[i] = s[(k + 1) + i - 1]
  BY <1>0, <1>1, SubList
<1> HIDE DEF u
<1>3. \A i \in 1 .. n : u[i] = t[i]
  <2> SUFFICES ASSUME NEW i \in 1 .. n PROVE u[i] = t[i]
    OBVIOUS
  <2>1. i \in 1 .. (k + n) - (k + 1) + 1 /\ (k + 1) + i - 1 = k + i
    BY <1>0, <1>1
  <2> QED BY <1>0, <1>2, <2>1
<1>4. u = t
  BY <1>0, <1>1, <1>2, <1>3, SameList
<1> QED BY <1>0, <1>4 DEF u

LEMMA CheckedEnds == ASSUME NEW s, List(s) PROVE Checked(s) = s \o <<CheckDigit(s)>>
BY AppendIs DEF Checked

LEMMA CheckedIs ==
  ASSUME NEW s, List(s)
  PROVE  /\ List(Checked(s)) /\ Len(Checked(s)) = Len(s) + 1
         /\ \A i \in 1 .. Len(s) : Checked(s)[i] = s[i]
<1> DEFINE c == CheckDigit(s)  t == <<c>>
<1>1. Checked(s) = s \o t
  BY CheckedEnds
<1>2. List(t) /\ Len(t) = 1
  BY ListOne
<1> HIDE DEF t, c
<1>3. /\ List(s \o t) /\ Len(s \o t) = Len(s) + 1 /\ Len(s) \in Nat
      /\ \A i \in 1 .. Len(s) + 1 : (s \o t)[i] = IF i <= Len(s) THEN s[i] ELSE t[i - Len(s)]
  BY <1>2, ListConcat
<1>4. \A i \in 1 .. Len(s) : (s \o t)[i] = s[i]
  <2> SUFFICES ASSUME NEW i \in 1 .. Len(s) PROVE (s \o t)[i] = s[i]
    OBVIOUS
  <2>1. i \in 1 .. Len(s) + 1 /\ i <= Len(s)
    BY <1>3
  <2> QED BY <1>3, <2>1
<1> QED BY <1>1, <1>3, <1>4 DEF c, t

Three(a, b, c) == <<a, b, c>>

LEMMA FlattenThree == ASSUME NEW a, NEW b, NEW c, List(a), List(b), List(c) PROVE FlattenSeq(Three(a, b, c)) = a \o b \o c
<1>1. Lists1(<<a>>) /\ Lists1(<<b>>) /\ Lists1(<<c>>)
  BY ListsOne
<1>2. Lists1(<<b>> \o <<c>>)
  BY <1>1, ListsConcat
<1>3. FlattenSeq(<<b>> \o <<c>>) = FlattenSeq(<<b>>) \o FlattenSeq(<<c>>)
  BY <1>1, FlattenConcat
<1>4. FlattenSeq(<<a>> \o (<<b>> \o <<c>>)) = FlattenSeq(<<a>>) \o FlattenSeq(<<b>> \o <<c>>)
  BY <1>1, <1>2, FlattenConcat
<1>5. FlattenSeq(<<a>>) = a /\ FlattenSeq(<<b>>) = b /\ FlattenSeq(<<c>>) = c
  BY FlattenOne
<1>6. Three(a, b, c) = <<a>> \o (<<b>> \o <<c>>)
  <2>1. <<b, c>> = <<b>> \o <<c>>
    BY TupleTwo
  <2>2. <<a, b, c>> = <<a>> \o <<b, c>>
    BY TupleThree
  <2> QED BY <2>1, <2>2 DEF Three
<1>7. (a \o b) \o c = a \o (b \o c)
  BY ConcatAssoc
<1> QED BY <1>3, <1>4, <1>5, <1>6, <1>7

\* A document number in its field, and how it may be typed.
LEMMA FilledIs ==
  ASSUME NEW s, Chars(s), Len(s) \in 1 .. 9
  PROVE  /\ List(Filled(s)) /\ Len(Filled(s)) = 9 /\ CheckDigit(Filled(s)) = CheckDigit(s)
         /\ \A i \in 1 .. 9 : Filled(s)[i] = IF i <= Len(s) THEN s[i] ELSE Filler
<1>1. Chars(s) /\ List(s)
  BY DEF Chars
<1> DEFINE l == Len(s)  n == 9 - l
<1>3. Filled(s) = s \o Fillers(n)
  BY DEF Filled
<1>k. l \in 1 .. 9
  OBVIOUS
<1>m. l = Len(s)
  OBVIOUS
<1> HIDE DEF l
<1>2. n \in Nat /\ l + n = 9 /\ l \in Nat
  BY <1>k
<1> HIDE DEF n
<1>4. CheckDigit(Filled(s)) = CheckDigit(s)
  BY <1>1, <1>2, <1>3, CheckFilled
<1>5. /\ List(s \o Fillers(n)) /\ Len(s \o Fillers(n)) = l + n
      /\ \A i \in 1 .. l + n : (s \o Fillers(n))[i] = IF i <= l THEN s[i] ELSE Fillers(n)[i - l]
  BY <1>1, <1>2, <1>m, FillersIs, ListConcat
<1>6. \A i \in 1 .. 9 : (s \o Fillers(n))[i] = IF i <= l THEN s[i] ELSE Filler
  <2> SUFFICES ASSUME NEW i \in 1 .. 9 PROVE (s \o Fillers(n))[i] = IF i <= l THEN s[i] ELSE Filler
    OBVIOUS
  <2>1. i \in 1 .. l + n /\ (~(i <= l) => i - l \in 1 .. n)
    BY <1>2
  <2>2. ~(i <= l) => Fillers(n)[i - l] = Filler
    BY <1>2, <2>1, FillersIs
  <2> QED BY <1>5, <2>1, <2>2
<1> QED BY <1>2, <1>3, <1>4, <1>5, <1>6, <1>m

LEMMA NumberFieldIs ==
  ASSUME NEW s, Chars(s), Len(s) \in 1 .. 9, NEW doc \in {s, Filled(s), Checked(Filled(s))}
  PROVE  NumberField(doc) = Checked(Filled(s))
<1>1. List(Filled(s)) /\ Len(Filled(s)) = 9 /\ CheckDigit(Filled(s)) = CheckDigit(s)
  BY FilledIs
<1>2. Checked(Filled(s)) = Filled(s) \o <<CheckDigit(s)>> /\ Len(Checked(Filled(s))) = 10
  <2>1. Len(Checked(Filled(s))) = Len(Filled(s)) + 1
    BY <1>1, CheckedIs
  <2>2. Checked(Filled(s)) = Filled(s) \o <<CheckDigit(Filled(s))>>
    BY <1>1, CheckedEnds
  <2> QED BY <1>1, <2>1, <2>2
<1>3. CASE doc = s
  <2>1. NumberField(s) = s \o Fillers(9 - Len(s)) \o <<CheckDigit(s)>>
    <3> DEFINE l == Len(s)
    <3>0. l \in 1 .. 9
      OBVIOUS
    <3> HIDE DEF l
    <3>2. l < 10 /\ ~(l = 10) /\ ~(l > 10)
      BY <3>0
    <3>1. Len(s) < 10 /\ ~(Len(s) = 10) /\ ~(Len(s) > 10)
      BY <3>2 DEF l
    <3> QED BY <3>1 DEF NumberField
  <2> QED BY <1>2, <1>3, <2>1 DEF Filled
<1>4. CASE doc = Filled(s)
  <2> DEFINE f == Filled(s)
  <2> HIDE DEF f
  <2>1. List(f) /\ Len(f) = 9 /\ CheckDigit(f) = CheckDigit(s)
    BY <1>1 DEF f
  <2>2. NumberField(f) = f \o Fillers(0) \o <<CheckDigit(f)>>
    BY <2>1 DEF NumberField
  <2>3. Fillers(0) = <<>>
    BY FillersIs, ListEmpty
  <2>4. f \o <<>> = f
    BY <2>1, ConcatNone
  <2>5. NumberField(f) = f \o <<CheckDigit(s)>>
    BY <2>1, <2>2, <2>3, <2>4
  <2> QED BY <1>2, <1>4, <2>5 DEF f
<1>5. CASE doc = Checked(Filled(s))
  BY <1>2, <1>5 DEF NumberField
<1> QED BY <1>3, <1>4, <1>5

Date(t) == List(t) /\ Len(t) = 6 /\ IsDigits(t)

LEMMA DatePlain == ASSUME NEW D, D \subseteq 0 .. 9, NEW t \in [1 .. 6 -> D] PROVE Date(t)
<1>1. t = [i \in 1 .. 6 |-> t[i]]
  OBVIOUS
<1>2. List(t) /\ Len(t) = 6
  BY <1>1, ListMade
<1>3. \A x \in D : x < 10
  OBVIOUS
<1>4. \A i \in DOMAIN t : t[i] \in D
  OBVIOUS
<1>5. IsDigits(t)
  BY <1>3, <1>4 DEF IsDigits
<1> QED BY <1>1, <1>2, <1>5 DEF Date

LEMMA DateIs ==
  ASSUME NEW t, Date(t)
  PROVE  List(t) /\ Len(t) = 6 /\ IsDigits(t) /\ Len(Checked(t)) = 7 /\ List(Checked(t))
<1>1. List(t) /\ Len(t) = 6 /\ IsDigits(t)
  BY DEF Date
<1>2. List(Checked(t)) /\ Len(Checked(t)) = Len(t) + 1
  BY <1>1, CheckedIs
<1> QED BY <1>1, <1>2

LEMMA DateFieldIs ==
  ASSUME NEW t, Date(t), NEW date \in {t, Checked(t)}
  PROVE  DateField(date) = Checked(t)
<1>1. List(t) /\ Len(t) = 6 /\ IsDigits(t) /\ Len(Checked(t)) = 7
  BY DateIs
<1> HIDE DEF Checked
<1>2. CASE date = t
  BY <1>1, <1>2 DEF DateField
<1>3. CASE date = Checked(t)
  <2>1. Len(date) = 7 /\ Len(date) # 6
    BY <1>1, <1>3
  <2> QED BY <1>3, <2>1 DEF DateField
<1> QED BY <1>2, <1>3

LEMMA DocumentIs == ASSUME NEW d \in Documents PROVE /\ Chars(d.number) /\ d.number \in Seq(Nat) /\ Len(d.number) \in 1 .. 9
                                                     /\ Date(d.dob) /\ Date(d.expiry)
<1>1. /\ d.number \in Seq(0 .. 35) /\ Len(d.number) \in 1 .. 9
      /\ {d.dob, d.expiry} \subseteq [1 .. 6 -> 0 .. 9]
  BY DocumentsAssumption, Zenon
<1>2. d.dob \in [1 .. 6 -> 0 .. 9] /\ d.expiry \in [1 .. 6 -> 0 .. 9]
  BY <1>1, Zenon
<1> DEFINE D == 0 .. 35  E == 0 .. 9
<1>3. D \subseteq 0 .. 35 /\ E \subseteq 0 .. 9 /\ d.number \in Seq(D)
      /\ d.dob \in [1 .. 6 -> E] /\ d.expiry \in [1 .. 6 -> E]
  BY <1>1, <1>2, Zenon
<1> HIDE DEF D, E
<1>4. Chars(d.number) /\ d.number \in Seq(Nat)
  BY <1>3, CharsPlain
<1>5. Date(d.dob) /\ Date(d.expiry)
  BY <1>3, DatePlain
<1> QED BY <1>1, <1>4, <1>5, Zenon

LEMMA InfoBuilt ==
  ASSUME NEW d \in Documents, NEW f \in Typed(d)
  PROVE  BuildMrzInfo(f) = DocumentInfo(d)
<1>1. Chars(d.number) /\ Len(d.number) \in 1 .. 9 /\ Date(d.dob) /\ Date(d.expiry)
  BY DocumentIs
<1>2. /\ f.doc \in {d.number, Filled(d.number), Checked(Filled(d.number))}
      /\ f.dob \in {d.dob, Checked(d.dob)} /\ f.expiry \in {d.expiry, Checked(d.expiry)}
  BY DEF Typed
<1> DEFINE a == Checked(Filled(d.number))  b == Checked(d.dob)  c == Checked(d.expiry)
<1>3. NumberField(f.doc) = a /\ DateField(f.dob) = b /\ DateField(f.expiry) = c
  BY <1>1, <1>2, NumberFieldIs, DateFieldIs
<1>4. List(a) /\ List(b) /\ List(c) /\ Len(a) = 10 /\ Len(b) = 7 /\ Len(c) = 7
  <2>1. List(Filled(d.number)) /\ Len(Filled(d.number)) = 9
    BY <1>1, FilledIs
  <2>2. List(a) /\ Len(a) = 10
    <3> DEFINE f1 == Filled(d.number)
    <3>1. List(f1) /\ Len(f1) = 9
      BY <2>1
    <3> HIDE DEF f1
    <3>2. List(Checked(f1)) /\ Len(Checked(f1)) = Len(f1) + 1
      BY <3>1, CheckedIs
    <3> QED BY <3>1, <3>2 DEF f1
  <2> QED BY <1>1, <2>2, DateIs
<1>5. DocumentInfo(d) = a \o b \o c
  BY DEF DocumentInfo
<1> HIDE DEF a, b, c
<1>6. a # <<>> /\ b # <<>> /\ c # <<>>
  BY <1>4, SMTT(20)
<1>7. BuildMrzInfo(f) = IF NotAccepted \in ToSet(<<a, b, c>>) THEN NotAccepted ELSE FlattenSeq(<<a, b, c>>)
  BY <1>3 DEF BuildMrzInfo
<1>8. NotAccepted \notin ToSet(<<a, b, c>>)
  <2> DEFINE q == <<a, b, c>>
  <2>0. List(q)
    BY ListThree
  <2>1. Len(q) = 3 /\ q[1] = a /\ q[2] = b /\ q[3] = c
    OBVIOUS
  <2> HIDE DEF q
  <2>2. \A i \in 1 .. 3 : q[i] # <<>>
    BY <1>6, <2>1
  <2> QED BY <2>0, <2>1, <2>2, ToSetIs DEF NotAccepted, q
<1>9a. List(a) /\ List(b) /\ List(c)
  BY <1>4
<1>9. FlattenSeq(Three(a, b, c)) = a \o b \o c
  BY <1>9a, FlattenThree
<1>10. BuildMrzInfo(f) = FlattenSeq(<<a, b, c>>)
  BY <1>7, <1>8
<1> QED BY <1>5, <1>9, <1>10 DEF Three

\* The MRZ holds the number and the dates at the places they are taken from.
LEMMA LineIs ==
  ASSUME NEW d \in Documents
  PROVE  LET l == Line2(d) IN
         /\ List(l) /\ Len(l) = 44
         /\ \A i \in 1 .. 9 : l[i] = Filled(d.number)[i]
         /\ \A i \in 1 .. 6 : l[13 + i] = d.dob[i] /\ l[21 + i] = d.expiry[i]
<1>1. Chars(d.number) /\ Len(d.number) \in 1 .. 9 /\ Date(d.dob) /\ Date(d.expiry)
  BY DocumentIs
<1> DEFINE a == Checked(Filled(d.number))  x == <<29, 28, 13>>  b == Checked(d.dob)  y == <<Filler>>
           c == Checked(d.expiry)  z == Fillers(16)
           p2 == a \o x  p3 == p2 \o b  p4 == p3 \o y  p5 == p4 \o c  p6 == p5 \o z
<1>2. Line2(d) = p6
  BY DEF Line2
<1>3. List(a) /\ Len(a) = 10 /\ \A i \in 1 .. 9 : a[i] = Filled(d.number)[i]
  <2> DEFINE f1 == Filled(d.number)
  <2>1. List(f1) /\ Len(f1) = 9
    BY <1>1, FilledIs
  <2> HIDE DEF f1
  <2>2. List(Checked(f1)) /\ Len(Checked(f1)) = Len(f1) + 1 /\ \A i \in 1 .. Len(f1) : Checked(f1)[i] = f1[i]
    BY <2>1, CheckedIs
  <2> QED BY <2>1, <2>2 DEF f1
<1>4. List(x) /\ Len(x) = 3 /\ List(y) /\ Len(y) = 1 /\ List(z) /\ Len(z) = 16
  <2>1. List(x) /\ Len(x) = 3
    BY ListThree
  <2>2. List(y) /\ Len(y) = 1
    BY ListOne
  <2> QED BY <2>1, <2>2, FillersIs
<1>5. ASSUME NEW t, Date(t) PROVE List(Checked(t)) /\ Len(Checked(t)) = 7 /\ \A i \in 1 .. 6 : Checked(t)[i] = t[i]
  BY <1>5, CheckedIs, DateIs
<1>6. /\ List(b) /\ Len(b) = 7 /\ \A i \in 1 .. 6 : b[i] = d.dob[i]
      /\ List(c) /\ Len(c) = 7 /\ \A i \in 1 .. 6 : c[i] = d.expiry[i]
  BY <1>1, <1>5
<1> HIDE DEF a, x, b, y, c, z
<1>p. p2 = a \o x /\ p3 = p2 \o b /\ p4 = p3 \o y /\ p5 = p4 \o c /\ p6 = p5 \o z
  OBVIOUS
<1> HIDE DEF p2, p3, p4, p5, p6
<1>7. Joins(p2, a, 10, x, 3)
  BY <1>p, <1>3, <1>4, JoinIs
<1>7a. List(p2) /\ Len(p2) = 13 /\ \A i \in 1 .. 10 : p2[i] = a[i]
  BY <1>7 DEF Joins
<1>8. Joins(p3, p2, 13, b, 7)
  BY <1>p, <1>6, <1>7a, JoinIs
<1>8a. List(p3) /\ Len(p3) = 20 /\ (\A i \in 1 .. 13 : p3[i] = p2[i]) /\ \A i \in 1 .. 7 : p3[13 + i] = b[i]
  BY <1>8 DEF Joins
<1>9. Joins(p4, p3, 20, y, 1)
  BY <1>p, <1>4, <1>8a, JoinIs
<1>9a. List(p4) /\ Len(p4) = 21 /\ \A i \in 1 .. 20 : p4[i] = p3[i]
  BY <1>9 DEF Joins
<1>10. Joins(p5, p4, 21, c, 7)
  BY <1>p, <1>6, <1>9a, JoinIs
<1>10a. List(p5) /\ Len(p5) = 28 /\ (\A i \in 1 .. 21 : p5[i] = p4[i]) /\ \A i \in 1 .. 7 : p5[21 + i] = c[i]
  BY <1>10 DEF Joins
<1>11. Joins(p6, p5, 28, z, 16)
  BY <1>p, <1>4, <1>10a, JoinIs, ZenonT(30)
<1>11a. List(p6) /\ Len(p6) = 44 /\ \A i \in 1 .. 28 : p6[i] = p5[i]
  BY <1>11 DEF Joins
<1>12. \A i \in 1 .. 9 : p6[i] = Filled(d.number)[i]
  BY <1>3, <1>7a, <1>8a, <1>9a, <1>10a, <1>11a
<1>13. ASSUME NEW i \in 1 .. 6 PROVE p6[13 + i] = d.dob[i] /\ p6[21 + i] = d.expiry[i]
  <2>1. 13 + i \in 1 .. 20 /\ 13 + i \in 1 .. 21 /\ 13 + i \in 1 .. 28 /\ 21 + i \in 1 .. 28 /\ i \in 1 .. 7
    OBVIOUS
  <2>2. p6[13 + i] = p3[13 + i] /\ p6[21 + i] = p5[21 + i]
    BY <1>9a, <1>10a, <1>11a, <2>1
  <2> QED BY <1>6, <1>8a, <1>10a, <2>1, <2>2
<1> QED BY <1>2, <1>11a, <1>12, <1>13

LEMMA LineAccepted ==
  ASSUME NEW d \in Documents
  PROVE  MrzToFields(Line2(d)) = <<[doc |-> d.number, dob |-> d.dob, expiry |-> d.expiry]>>
<1> DEFINE l == Line2(d)  s == d.number  m == Len(s)  n == 9 - m  v == Filled(s)
           P == {i \in 1 .. 9 : l[i] # Filler}
<1>1. Chars(s) /\ s \in Seq(Nat) /\ Len(s) \in 1 .. 9 /\ Date(d.dob) /\ Date(d.expiry)
  BY DocumentIs
<1>2. /\ List(l) /\ Len(l) = 44 /\ \A i \in 1 .. 9 : l[i] = v[i]
      /\ \A i \in 1 .. 6 : l[13 + i] = d.dob[i] /\ l[21 + i] = d.expiry[i]
  BY LineIs
<1>3. List(v) /\ Len(v) = 9 /\ \A i \in 1 .. 9 : v[i] = IF i <= Len(s) THEN s[i] ELSE Filler
  BY <1>1, FilledIs
<1>4. v = s \o Fillers(n) /\ MrzToFields(l) =
         LET fields == [doc |-> Picked(SubSeq(l, 1, 9), P), dob |-> SubSeq(l, 14, 19), expiry |-> SubSeq(l, 22, 27)]
         IN  IF fields.doc = <<>> \/ ~IsDigits(fields.dob) \/ ~IsDigits(fields.expiry) THEN NotAccepted ELSE <<fields>>
  BY DEF MrzToFields, Filled
<1> HIDE DEF l, v
<1>5. m \in 1 .. 9
  BY <1>1
<1>6. s = [i \in 1 .. m |-> s[i]]
  BY <1>1, ListIs DEF Chars
<1> HIDE DEF m
<1>7. n \in Nat /\ m + n = 9
  BY <1>5
<1>8. SubSeq(l, 1, 9) = v
  <2>1. \A i \in 1 .. 9 : 0 + i = i
    OBVIOUS
  <2>2. Reads(l, 0, v, 1, 9)
    BY <1>2, <1>3, <2>1 DEF Reads
  <2> QED BY <2>2, PartIs
<1>9. ASSUME NEW k \in {13, 21}, NEW t, Date(t), \A i \in 1 .. 6 : l[k + i] = t[i] PROVE SubSeq(l, k + 1, k + 6) = t
  <2>1. k \in Nat /\ k + 6 <= 44
    OBVIOUS
  <2>2. List(t) /\ Len(t) = 6
    BY <1>9 DEF Date
  <2>3. Reads(l, k, t, k + 1, k + 6)
    BY <1>2, <1>9, <2>1, <2>2 DEF Reads
  <2> QED BY <2>3, PartIs
<1>10. SubSeq(l, 14, 19) = d.dob /\ SubSeq(l, 22, 27) = d.expiry
  <2>1. SubSeq(l, 13 + 1, 13 + 6) = d.dob
    BY <1>1, <1>2, <1>9
  <2>2. SubSeq(l, 21 + 1, 21 + 6) = d.expiry
    BY <1>1, <1>2, <1>9
  <2> QED BY <2>1, <2>2
<1>11. P = 1 .. m
  <2>1. \A i \in 1 .. m : s[i] # Filler
    BY <1>1 DEF Chars, m
  <2>2. \A i \in 1 .. 9 : l[i] # Filler <=> i \in 1 .. m
    BY <1>2, <1>3, <1>5, <2>1, SMTT(20) DEF m
  <2>3. \A i \in 1 .. m : i \in 1 .. 9
    BY <1>5
  <2> QED BY <2>2, <2>3
<1>12. Picked(v, P) = s
  <2> HIDE DEF P, n
  <2> DEFINE t == Fillers(n)
  <2>1. t \in Seq(Nat) /\ Len(t) = n
    BY <1>7 DEF Fillers, Filler
  <2> HIDE DEF t
  <2>2. Parts(P, Len(s), Len(t), 1 .. Len(s), {})
    BY <1>5, <1>7, <1>11, <2>1 DEF Parts, m
  <2>3. Picked(s \o t, P) = Picked(s, 1 .. Len(s)) \o Picked(t, {})
    BY <1>1, <2>1, <2>2, PickedConcat
  <2>4. Picked(s, 1 .. Len(s)) = s
    <3>1. DOMAIN s = 1 .. Len(s)
      BY <1>1
    <3> QED BY <1>1, <3>1, PickedAll
  <2>5. Picked(t, {}) = <<>>
    BY PickedNone
  <2>6. s \o <<>> = s
    BY <1>1, ConcatNone DEF Chars
  <2> QED BY <1>4, <2>3, <2>4, <2>5, <2>6 DEF t
<1>13. s # <<>> /\ IsDigits(d.dob) /\ IsDigits(d.expiry)
  <2>1. Len(s) # 0
    BY <1>5 DEF m
  <2>2. s # <<>>
    BY <2>1
  <2> QED BY <1>1, <2>2 DEF Date
<1> QED BY <1>4, <1>8, <1>10, <1>12, <1>13 DEF l

LEMMA SignedNumber ==
  ASSUME NEW s, Chars(s), Len(s) \in 1 .. 9, NEW doc \in {s, Filled(s), Checked(Filled(s))}, Len(doc) >= 9
  PROVE  IdIc(doc) = Checked(Filled(s))
<1> DEFINE v == Filled(s)
<1>1. List(v) /\ Len(v) = 9 /\ \A i \in 1 .. 9 : v[i] = IF i <= Len(s) THEN s[i] ELSE Filler
  BY FilledIs
<1>2. List(Checked(v)) /\ Len(Checked(v)) = 10
  <2> HIDE DEF v
  <2>1. List(Checked(v)) /\ Len(Checked(v)) = Len(v) + 1
    BY <1>1, CheckedIs
  <2> QED BY <1>1, <2>1
<1>3. CASE doc = s
  <2> HIDE DEF v
  <2> DEFINE m == Len(s)
  <2>0. m \in 1 .. 9 /\ m >= 9
    BY <1>3
  <2> HIDE DEF m
  <2>1. m = 9
    BY <2>0
  <2>2. List(s) /\ Len(s) = 9
    BY <2>1 DEF m, Chars
  <2>3. \A i \in 1 .. 9 : v[i] = s[i]
    BY <1>1, <2>2
  <2>4. v = s
    BY <1>1, <2>2, <2>3, SameList
  <2> QED BY <1>3, <2>2, <2>4 DEF IdIc, v
<1>4. CASE doc = v
  <2> HIDE DEF v
  <2> QED BY <1>1, <1>4 DEF IdIc, v
<1>5. CASE doc = Checked(v)
  <2> HIDE DEF v
  <2>0. Len(doc) = 10
    <3>1. Len(Checked(v)) = 10
      BY <1>2
    <3> QED BY <1>5, <3>1, Zenon
  <2>1. Len(doc) # 9
    BY <2>0
  <2> QED BY <1>5, <2>1 DEF IdIc, v
<1> QED BY <1>3, <1>4, <1>5

LEMMA Fits ==
  ASSUME NEW d \in Documents
  PROVE  /\ MrzToFields(Line2(d)) # NotAccepted
         /\ BuildMrzInfo(Head(MrzToFields(Line2(d)))) = DocumentInfo(d)
         /\ \A f \in Typed(d) :
              /\ BuildMrzInfo(f) = DocumentInfo(d)
              /\ Len(f.doc) >= 9 => IdIc(f.doc) = Checked(Filled(d.number))
<1> DEFINE g == [doc |-> d.number, dob |-> d.dob, expiry |-> d.expiry]
<1>1. MrzToFields(Line2(d)) = <<g>>
  BY LineAccepted
<1>2. g \in Typed(d)
  BY DEF Typed
<1> HIDE DEF g
<1>3. <<g>> # NotAccepted /\ Head(<<g>>) = g
  BY DEF NotAccepted
<1>4. ASSUME NEW f \in Typed(d), Len(f.doc) >= 9 PROVE IdIc(f.doc) = Checked(Filled(d.number))
  <2> DEFINE s == d.number  doc == f.doc
  <2>1. Chars(s) /\ Len(s) \in 1 .. 9
    BY DocumentIs
  <2>2. doc \in {s, Filled(s), Checked(Filled(s))}
    BY DEF Typed
  <2>3. Len(doc) >= 9
    BY <1>4
  <2> HIDE DEF s, doc
  <2>4. IdIc(doc) = Checked(Filled(s))
    BY <2>1, <2>2, <2>3, SignedNumber
  <2> QED BY <2>4 DEF s, doc
<1> QED BY <1>1, <1>2, <1>3, <1>4, InfoBuilt

-----------------------------------------------------------------------------
\* What is called is called on an input of its kind.
Calls ==
  {Idle}
  \cup [of: {"parse_tlvs"}, input: Objects] \cup [of: {"parse_fci_size"}, input: FciCases]
  \cup [of: {"parse_sod"}, input: SodCases] \cup [of: {"parse_chip_auth_data"}, input: Dg14Cases]
  \cup [of: {"parse_card_access"}, input: AccessCases] \cup [of: {"build_mrz_info"}, input: Documents]

\* A parser is called on one of the descriptions (parse_tlvs, parse_fci_size,
\* parse_sod, parse_chip_auth_data, parse_card_access and build_mrz_info).
THEOREM CallsMade == Spec => [](call \in Calls)
<1>1. Init => call \in Calls
  BY DEF Init, Calls
<1>2. call \in Calls /\ [Next]_call => (call \in Calls)'
  <2> SUFFICES ASSUME call \in Calls, [Next]_call PROVE call' \in Calls
    OBVIOUS
  <2>1. CASE CallParseTlvs
    BY <2>1 DEF CallParseTlvs, Call, Calls
  <2>2. CASE CallParseFciSize
    BY <2>2 DEF CallParseFciSize, Call, Calls
  <2>3. CASE CallParseSod
    BY <2>3 DEF CallParseSod, Call, Calls
  <2>4. CASE CallParseChipAuth
    BY <2>4 DEF CallParseChipAuth, Call, Calls
  <2>5. CASE CallParseCardAccess
    BY <2>5 DEF CallParseCardAccess, Call, Calls
  <2>6. CASE CallBuildMrzInfo
    BY <2>6 DEF CallBuildMrzInfo, Call, Calls
  <2>7. CASE Return
    BY <2>7 DEF Return, Calls
  <2>8. CASE UNCHANGED call
    BY <2>8
  <2> QED BY <2>1, <2>2, <2>3, <2>4, <2>5, <2>6, <2>7, <2>8 DEF Next
<1> QED BY <1>1, <1>2, PTL DEF Spec

LEMMA InputOf ==
  ASSUME call \in Calls
  PROVE  /\ call.of = "parse_tlvs" => call.input \in Objects
         /\ call.of = "parse_fci_size" => call.input \in FciCases
         /\ call.of = "parse_sod" => call.input \in SodCases
         /\ call.of = "parse_chip_auth_data" => call.input \in Dg14Cases
         /\ call.of = "parse_card_access" => call.input \in AccessCases
         /\ call.of = "build_mrz_info" => call.input \in Documents
BY DEF Calls, Idle

\* The key material fits the document, however its number reaches the reader
\* (mrz.py, epassport_gui.py).
THEOREM CredentialsAlwaysFit == Spec => []CredentialsFit
<1>1. call \in Calls => CredentialsFit
  <2> SUFFICES ASSUME call.of = "build_mrz_info", call.input \in Documents PROVE CredentialsFit
    BY InputOf DEF CredentialsFit
  <2> DEFINE d == call.input
  <2>1. /\ MrzToFields(Line2(d)) # NotAccepted
        /\ BuildMrzInfo(Head(MrzToFields(Line2(d)))) = DocumentInfo(d)
        /\ \A f \in Typed(d) :
             /\ BuildMrzInfo(f) = DocumentInfo(d)
             /\ Len(f.doc) >= 9 => IdIc(f.doc) = Checked(Filled(d.number))
    BY Fits
  <2> QED BY <2>1 DEF CredentialsFit
<1> QED BY <1>1, CallsMade, PTL

-----------------------------------------------------------------------------
(* Trees.                                                                  *)

\* The tags differ in their first byte.
LEMMA TagBytes ==
  /\ TagSequence[1] = 48 /\ TagSet[1] = 49 /\ TagInteger[1] = 2 /\ TagBits[1] = 3 /\ TagOctets[1] = 4
  /\ TagOid[1] = 6 /\ TagCtx0[1] = 160 /\ TagCtx1[1] = 161 /\ EndMark.tag[1] = 0
BY DEF TagSequence, TagSet, TagInteger, TagBits, TagOctets, TagOid, TagCtx0, TagCtx1, EndMark, Leaf

LEMMA LeafIs == ASSUME NEW t, NEW v PROVE Leaf(t, v).tag = t /\ Leaf(t, v).val = v /\ Leaf(t, v).kids = <<>>
BY DEF Leaf

LEMMA HoldsIs == ASSUME NEW t, NEW k PROVE Holds(t, k).tag = t /\ Holds(t, k).kids = k
BY DEF Holds

LEMMA MaxOne == ASSUME NEW x \in Int PROVE Max({x}) = x /\ Min({x}) = x
BY DEF Max, Min

LEMMA TupleIs2 == ASSUME NEW a, NEW b, NEW q, q = <<a, b>> PROVE List(q) /\ Len(q) = 2 /\ q[1] = a /\ q[2] = b
<1>1. List(<<a, b>>)
  BY ListTwo
<1> QED BY <1>1

\* A list with one element more.
Added(q, s, m, x) ==
  List(q) /\ Len(q) = m + 1 /\ (\A i \in 1 .. m : q[i] = s[i]) /\ q[m + 1] = x /\ m \in Nat

LEMMA AddOne ==
  ASSUME NEW s, List(s), NEW m, m = Len(s), NEW x, NEW q, q = s \o <<x>>
  PROVE  Added(q, s, m, x)
<1> DEFINE t == <<x>>
<1>1. List(t) /\ Len(t) = 1
  BY ListOne
<1>2. t[1] = x
  OBVIOUS
<1>3. q = s \o t
  OBVIOUS
<1> HIDE DEF t
<1>4. Joins(q, s, m, t, 1)
  BY <1>1, <1>3, JoinIs
<1>5. List(q) /\ Len(q) = m + 1 /\ m \in Nat /\ (\A i \in 1 .. m : q[i] = s[i]) /\ \A i \in 1 .. 1 : q[m + i] = t[i]
  BY <1>4 DEF Joins
<1> QED BY <1>2, <1>5 DEF Added

\* A list of one list.
LEMMA FlattenMade ==
  ASSUME NEW x, List(x), NEW q, DOMAIN q = {1}, q = [i \in DOMAIN q |-> q[i]], q[1] = x
  PROVE  FlattenSeq(q) = x
<1> DEFINE t == <<x>>
<1>1. List(t) /\ Len(t) = 1
  BY ListOne
<1>2. t[1] = x
  OBVIOUS
<1> HIDE DEF t
<1>3. DOMAIN q = 1 .. 1
  OBVIOUS
<1>4. List(q) /\ Len(q) = 1
  BY <1>3, ListMade
<1>5. q = t
  <2>1. \A i \in 1 .. 1 : q[i] = t[i]
    BY <1>2
  <2> QED BY <1>1, <1>4, <2>1, SameList
<1>6. FlattenSeq(t) = x
  BY FlattenOne DEF t
<1> QED BY <1>5, <1>6

-----------------------------------------------------------------------------
(* PACE.                                                                   *)

InfoStart(i) == <<Leaf(TagOid, i.oid), Leaf(TagInteger, 2)>>
InfoEnd(i) == IF i.param = NoParam THEN <<>> ELSE <<Leaf(TagInteger, i.param)>>
InfoOf(i) == Holds(TagSequence, InfoStart(i) \o InfoEnd(i))

LEMMA InfoTag == ASSUME NEW i PROVE InfoOf(i).tag = TagSequence /\ InfoOf(i).kids = InfoStart(i) \o InfoEnd(i)
BY HoldsIs DEF InfoOf

\* A list of two elements, and of a third unless c.
TwoOrThree(q, a, b, c, x) ==
  /\ List(q) /\ Len(q) = (IF c THEN 2 ELSE 3) /\ q[1] = a /\ q[2] = b /\ (c \/ q[3] = x)
  /\ DOMAIN q = IF c THEN {1, 2} ELSE {1, 2, 3}

LEMMA TwoOrThreeIs ==
  ASSUME NEW a, NEW b, NEW x, NEW c \in BOOLEAN, NEW s, s = <<a, b>>, NEW e, e = IF c THEN <<>> ELSE <<x>>,
         NEW q, q = s \o e
  PROVE  TwoOrThree(q, a, b, c, x)
<1>1. List(s) /\ Len(s) = 2 /\ s[1] = a /\ s[2] = b
  BY TupleIs2
<1>2. CASE c
  <2>1. e = <<>>
    BY <1>2
  <2>2. q = s
    BY <1>1, <2>1, ConcatNone
  <2>3. DOMAIN q = 1 .. 2
    BY <1>1, <2>2, ListIs
  <2> QED BY <1>1, <1>2, <2>2, <2>3 DEF TwoOrThree
<1>3. CASE ~c
  <2>1. e = <<x>>
    BY <1>3
  <2>2. q = s \o <<x>>
    BY <2>1
  <2> DEFINE m == Len(s)
  <2>3. m = 2 /\ m = Len(s) /\ List(s)
    BY <1>1
  <2> HIDE DEF m
  <2>4. Added(q, s, m, x)
    BY <2>2, <2>3, AddOne
  <2>5. List(q) /\ Len(q) = 3
    BY <2>3, <2>4 DEF Added
  <2>6. q[1] = s[1] /\ q[2] = s[2] /\ q[3] = x
    BY <2>3, <2>4 DEF Added
  <2>7. DOMAIN q = 1 .. 3
    BY <2>5, ListIs
  <2> QED BY <1>1, <1>3, <2>5, <2>6, <2>7 DEF TwoOrThree
<1> QED BY <1>2, <1>3

LEMMA InfoKids ==
  ASSUME NEW i, NEW kids, kids = InfoOf(i).kids
  PROVE  TwoOrThree(kids, Leaf(TagOid, i.oid), Leaf(TagInteger, 2), i.param = NoParam, Leaf(TagInteger, i.param))
<1> DEFINE s == InfoStart(i)  e == InfoEnd(i)  c == (i.param = NoParam)
           x == Leaf(TagInteger, i.param)  a == Leaf(TagOid, i.oid)  b == Leaf(TagInteger, 2)
<1>1. kids = s \o e
  BY InfoTag
<1>2. s = <<a, b>> /\ e = IF c THEN <<>> ELSE <<x>>
  BY DEF InfoStart, InfoEnd
<1>3. c \in BOOLEAN
  OBVIOUS
<1> HIDE DEF s, e, c, x, a, b
<1>4. TwoOrThree(kids, a, b, c, x)
  BY <1>1, <1>2, <1>3, TwoOrThreeIs
<1> QED BY <1>4 DEF c, x, a, b

LEMMA PaceInfoIs ==
  ASSUME NEW i, i.param \in Nat, NEW kids, kids = InfoOf(i).kids
  PROVE  PaceInfo(kids) =
           IF i.oid \notin PaceEcdhOids \cup PaceDhOids THEN NoPace
           ELSE [oid |-> i.oid, param |-> IF i.param >= 6 THEN i.param ELSE NoParam]
<1> DEFINE oids == {j \in DOMAIN kids : kids[j].tag = TagOid}
           ids == {j \in DOMAIN kids : kids[j].tag = TagInteger /\ kids[j].val >= 6}
<1>1. /\ DOMAIN kids = (IF i.param = NoParam THEN 1 .. 2 ELSE 1 .. 3)
      /\ kids[1].tag = TagOid /\ kids[1].val = i.oid /\ kids[2].tag = TagInteger /\ kids[2].val = 2
      /\ i.param # NoParam => kids[3].tag = TagInteger /\ kids[3].val = i.param
  <2>0. TwoOrThree(kids, Leaf(TagOid, i.oid), Leaf(TagInteger, 2), i.param = NoParam, Leaf(TagInteger, i.param))
    BY InfoKids
  <2>1. /\ kids[1] = Leaf(TagOid, i.oid) /\ kids[2] = Leaf(TagInteger, 2)
        /\ i.param # NoParam => kids[3] = Leaf(TagInteger, i.param)
    BY <2>0 DEF TwoOrThree
  <2>2. DOMAIN kids = IF i.param = NoParam THEN 1 .. 2 ELSE 1 .. 3
    BY <2>0 DEF TwoOrThree
  <2>3. kids[1].tag = TagOid /\ kids[1].val = i.oid
    BY <2>1, LeafIs
  <2>4. kids[2].tag = TagInteger /\ kids[2].val = 2
    BY <2>1, LeafIs
  <2>5. i.param # NoParam => kids[3].tag = TagInteger /\ kids[3].val = i.param
    BY <2>1, LeafIs
  <2> HIDE DEF oids, ids
  <2> QED BY <2>1, <2>2, <2>3, <2>4, <2>5
<1>0. \A j \in DOMAIN kids : j = 1 \/ j = 2 \/ (j = 3 /\ i.param # NoParam)
  <2> HIDE DEF oids, ids
  <2>1. CASE i.param = NoParam
    <3>1. DOMAIN kids = 1 .. 2
      BY <1>1, <2>1
    <3> QED BY <3>1
  <2>2. CASE i.param # NoParam
    <3>1. DOMAIN kids = 1 .. 3
      BY <1>1, <2>2
    <3> QED BY <2>2, <3>1
  <2> QED BY <2>1, <2>2
<1>2. TagOid # TagInteger
  BY TagBytes
<1>3. oids = {1}
  <2>1. \A j \in DOMAIN kids : j = 1 \/ j = 2 \/ (j = 3 /\ i.param # NoParam)
    BY <1>0
  <2>2. 1 \in DOMAIN kids
    BY <1>1
  <2> QED BY <1>1, <1>2, <2>1, <2>2
<1>4. ids = IF i.param >= 6 THEN {3} ELSE {}
  <2>1. \A j \in DOMAIN kids : j = 1 \/ j = 2 \/ (j = 3 /\ i.param # NoParam)
    BY <1>0
  <2>2. i.param >= 6 => i.param # NoParam /\ 3 \in DOMAIN kids
    BY <1>1 DEF NoParam
  <2>3. \A j \in DOMAIN kids : kids[j].tag = TagInteger /\ kids[j].val >= 6 <=> j = 3 /\ i.param >= 6
    BY <1>1, <1>2, <2>1
  <2> QED BY <2>2, <2>3
<1>5. PaceInfo(kids) =
        IF oids = {} \/ kids[Max(oids)].val \notin PaceEcdhOids \cup PaceDhOids THEN NoPace
        ELSE [oid |-> kids[Max(oids)].val, param |-> IF ids = {} THEN NoParam ELSE kids[Max(ids)].val]
  BY DEF PaceInfo
<1>6. Max({1}) = 1 /\ Max({3}) = 3
  BY MaxOne
<1> HIDE DEF oids, ids
<1>7. oids # {} /\ kids[Max(oids)].val = i.oid
  BY <1>1, <1>3, <1>6
<1>8. (IF ids = {} THEN NoParam ELSE kids[Max(ids)].val) = IF i.param >= 6 THEN i.param ELSE NoParam
  <2>1. CASE i.param >= 6
    <3>1. ids = {3} /\ i.param # NoParam
      BY <1>4, <2>1 DEF NoParam
    <3> QED BY <1>1, <1>6, <2>1, <3>1
  <2>2. CASE ~(i.param >= 6)
    BY <1>4, <2>2
  <2> QED BY <2>1, <2>2
<1> QED BY <1>5, <1>7, <1>8

LEMMA CurveAbove == ASSUME NEW n \in Nat PROVE CurveOf(IF n >= 6 THEN n ELSE NoParam) = CurveOf(n)
<1>1. DOMAIN Curves = {12, 13, 16, 17}
  BY DEF Curves
<1>2. CASE n >= 6
  BY <1>2
<1>3. CASE ~(n >= 6)
  <2>1. n \notin DOMAIN Curves /\ NoParam \notin DOMAIN Curves
    BY <1>1, <1>3 DEF NoParam
  <2> QED BY <1>3, <2>1 DEF CurveOf
<1> QED BY <1>2, <1>3

LEMMA AccessInfos ==
  ASSUME NEW d \in AccessCases
  PROVE  /\ List(d) /\ \A i \in 1 .. Len(d) : d[i].param \in Nat /\ d[i].oid \in PaceEcdhOids \cup PaceDhOids \cup {"other"}
         /\ ParseCardAccess(CardAccessOf(d)) =
              LET found(i) == PaceInfo(InfoOf(d[i]).kids)
                  pace == {i \in 1 .. Len(d) : found(i) # NoPace}
                  ecdh == {i \in pace : found(i).oid \in PaceEcdhOids}
              IN  CASE pace = {}              -> NoPace
                    [] pace # {} /\ ecdh = {} -> found(Min(pace))
                    [] ecdh # {}              -> found(Min(ecdh))
<1> DEFINE P == [oid: PaceEcdhOids \cup PaceDhOids \cup {"other"}, param: Nat]
           kids == [i \in DOMAIN d |-> InfoOf(d[i])]
           x == Holds(TagSet, kids)
           data == CardAccessOf(d)
           sets == Tagged(data, {TagSet, TagSequence})
           lists == [i \in DOMAIN sets |-> Tagged(sets[i].kids, {TagSequence})]
           infos == FlattenSeq(lists)
<1>1. d \in Seq(P)
  BY AccessAssumption
<1>2. List(d)
  BY <1>1 DEF List
<1>3. DOMAIN d = 1 .. Len(d) /\ Len(d) \in Nat
  BY <1>2, ListIs
<1>4. \A i \in 1 .. Len(d) : d[i] \in P
  BY <1>1, ElementOfSeq
<1>5. \A i \in 1 .. Len(d) : d[i].param \in Nat /\ d[i].oid \in PaceEcdhOids \cup PaceDhOids \cup {"other"}
  <2>1. \A p \in P : p.param \in Nat /\ p.oid \in PaceEcdhOids \cup PaceDhOids \cup {"other"}
    OBVIOUS
  <2> HIDE DEF P
  <2> QED BY <1>4, <2>1
<1>6. List(kids) /\ Len(kids) = Len(d)
  <2>1. kids = [i \in 1 .. Len(d) |-> kids[i]]
    BY <1>3
  <2> HIDE DEF kids
  <2> QED BY <1>3, <2>1, ListMade
<1>7. \A i \in 1 .. Len(d) : kids[i] = InfoOf(d[i])
  BY <1>3
<1>8. data = <<x>>
  BY DEF CardAccessOf, InfoOf, InfoStart, InfoEnd
<1>9. x.tag = TagSet /\ x.kids = kids
  BY HoldsIs
<1> HIDE DEF kids, x, data
<1>10. sets = <<x>>
  BY <1>8, <1>9, TaggedOne
<1>11. Tagged(kids, {TagSequence}) = kids
  <2>1. \A i \in 1 .. Len(kids) : kids[i].tag \in {TagSequence}
    BY <1>6, <1>7, InfoTag
  <2> QED BY <1>6, <2>1, TaggedAll
<1>12. infos = kids
  <2>1. DOMAIN sets = {1} /\ sets[1] = x
    BY <1>10
  <2>2. DOMAIN lists = {1} /\ lists[1] = kids
    BY <1>9, <1>11, <2>1
  <2>3. lists = [i \in DOMAIN lists |-> lists[i]]
    OBVIOUS
  <2> HIDE DEF lists, sets
  <2> QED BY <1>6, <2>2, <2>3, FlattenMade
<1> DEFINE foundIn(i) == PaceInfo(infos[i].kids)
           paceIn == {i \in DOMAIN infos : foundIn(i) # NoPace}
           ecdhIn == {i \in paceIn : foundIn(i).oid \in PaceEcdhOids}
           found(i) == PaceInfo(InfoOf(d[i]).kids)
           pace == {i \in 1 .. Len(d) : found(i) # NoPace}
           ecdh == {i \in pace : found(i).oid \in PaceEcdhOids}
<1>13. ParseCardAccess(data) =
         CASE paceIn = {}                -> NoPace
           [] paceIn # {} /\ ecdhIn = {} -> foundIn(Min(paceIn))
           [] ecdhIn # {}                -> foundIn(Min(ecdhIn))
  BY DEF ParseCardAccess
<1>14. DOMAIN infos = 1 .. Len(d) /\ \A i \in 1 .. Len(d) : foundIn(i) = found(i)
  BY <1>6, <1>7, <1>12, ListIs
<1> HIDE DEF infos, foundIn, found
<1>15. paceIn = pace /\ ecdhIn = ecdh
  BY <1>14
<1>16. pace \subseteq Nat /\ ecdh \subseteq Nat /\ pace \subseteq 1 .. Len(d) /\ ecdh \subseteq pace
  OBVIOUS
<1> HIDE DEF paceIn, ecdhIn, pace, ecdh
<1>17. (pace # {} => foundIn(Min(pace)) = found(Min(pace))) /\ (ecdh # {} => foundIn(Min(ecdh)) = found(Min(ecdh)))
  BY <1>14, <1>16, MinOf
<1>18. ParseCardAccess(data) =
         CASE pace = {}              -> NoPace
           [] pace # {} /\ ecdh = {} -> found(Min(pace))
           [] ecdh # {}              -> found(Min(ecdh))
  BY <1>13, <1>15, <1>16, <1>17
<1> QED BY <1>2, <1>5, <1>18 DEF data, pace, ecdh, found

FoundIn(d, i) == PaceInfo(InfoOf(d[i]).kids)

LEMMA FoundInIs ==
  ASSUME NEW d \in AccessCases, NEW i \in 1 .. Len(d)
  PROVE  /\ d[i].oid = "other" => FoundIn(d, i) = NoPace
         /\ d[i].oid # "other" => /\ FoundIn(d, i) # NoPace
                                  /\ FoundIn(d, i).oid = d[i].oid
                                  /\ CurveOf(FoundIn(d, i).param) = CurveOf(d[i].param)
<1> DEFINE n == d[i].param
<1>1. n \in Nat /\ d[i].oid \in PaceEcdhOids \cup PaceDhOids \cup {"other"}
  BY AccessInfos
<1>2. "other" \notin PaceEcdhOids \cup PaceDhOids /\ None \notin PaceEcdhOids \cup PaceDhOids
  BY DEF PaceEcdhOids, PaceDhOids, None
<1>3. FoundIn(d, i) = IF d[i].oid \notin PaceEcdhOids \cup PaceDhOids THEN NoPace
                      ELSE [oid |-> d[i].oid, param |-> IF n >= 6 THEN n ELSE NoParam]
  BY <1>1, PaceInfoIs DEF FoundIn
<1>4. CurveOf(IF n >= 6 THEN n ELSE NoParam) = CurveOf(n)
  BY <1>1, CurveAbove
<1>5. NoPace.oid = None
  BY DEF NoPace
<1> QED BY <1>1, <1>2, <1>3, <1>4, <1>5

LEMMA PaceIs ==
  ASSUME NEW d \in AccessCases
  PROVE  LET pace == {i \in ToSet(d) : i.oid # "other"}
             ecdh == {i \in pace : i.oid \in PaceEcdhOids}
             setup(i) == [oid |-> i.oid, curve |-> CurveOf(i.param)]
         IN  PaceSetup(CardAccessOf(d)) \in
               CASE ecdh # {}                -> {setup(i) : i \in ecdh}
                 [] ecdh = {} /\ pace # {}   -> {setup(i) : i \in pace}
                 [] pace = {}                -> {DefaultPace}
<1> DEFINE pace == {i \in ToSet(d) : i.oid # "other"}
           ecdh == {i \in pace : i.oid \in PaceEcdhOids}
           setup(i) == [oid |-> i.oid, curve |-> CurveOf(i.param)]
           atPace == {i \in 1 .. Len(d) : FoundIn(d, i) # NoPace}
           atEcdh == {i \in atPace : FoundIn(d, i).oid \in PaceEcdhOids}
           found == ParseCardAccess(CardAccessOf(d))
<1>1. List(d)
  BY AccessInfos
<1>2. ToSet(d) = {d[i] : i \in 1 .. Len(d)}
  BY <1>1, ToSetIs, ListIs
<1>3. \A i \in 1 .. Len(d) : i \in atPace <=> d[i].oid # "other"
  BY FoundInIs
<1>4. \A i \in atPace : i \in atEcdh <=> d[i].oid \in PaceEcdhOids
  BY <1>3, FoundInIs
<1>5. \A i \in atPace : FoundIn(d, i) # NoPace /\ FoundIn(d, i).oid = d[i].oid
                        /\ CurveOf(FoundIn(d, i).param) = CurveOf(d[i].param)
  BY <1>3, FoundInIs
<1>6. found = CASE atPace = {}                  -> NoPace
                [] atPace # {} /\ atEcdh = {} -> FoundIn(d, Min(atPace))
                [] atEcdh # {}                -> FoundIn(d, Min(atEcdh))
  BY AccessInfos DEF FoundIn
<1>7. PaceSetup(CardAccessOf(d)) = IF found = NoPace THEN DefaultPace ELSE [oid |-> found.oid, curve |-> CurveOf(found.param)]
  BY DEF PaceSetup
<1>8. atPace \subseteq 1 .. Len(d) /\ atEcdh \subseteq atPace /\ atPace \subseteq Nat /\ atEcdh \subseteq Nat
  OBVIOUS
<1>9. pace = {d[i] : i \in atPace}
  BY <1>2, <1>3, <1>8
<1>10. ecdh = {d[i] : i \in atEcdh}
  <2>1. \A x : x \in ecdh <=> x \in pace /\ x.oid \in PaceEcdhOids
    OBVIOUS
  <2> HIDE DEF ecdh, pace, atEcdh, atPace
  <2> QED BY <1>4, <1>8, <1>9, <2>1
<1> HIDE DEF found, atPace, atEcdh, pace, ecdh
<1>11. CASE atPace = {}
  <2>1. pace = {} /\ ecdh = {} /\ found = NoPace
    BY <1>6, <1>8, <1>9, <1>10, <1>11
  <2> QED BY <1>7, <2>1 DEF pace, ecdh
<1>12. CASE atPace # {} /\ atEcdh = {}
  <2> DEFINE k == Min(atPace)
  <2>1. k \in atPace
    BY <1>8, <1>12, MinOf
  <2>2. found = FoundIn(d, k)
    BY <1>6, <1>12
  <2>3. ecdh = {} /\ pace # {} /\ d[k] \in pace
    BY <1>9, <1>10, <1>12, <2>1
  <2> HIDE DEF k
  <2>4. PaceSetup(CardAccessOf(d)) = setup(d[k])
    BY <1>5, <1>7, <2>1, <2>2
  <2> QED BY <2>3, <2>4 DEF pace, ecdh
<1>13. CASE atEcdh # {}
  <2> DEFINE k == Min(atEcdh)
  <2>1. k \in atEcdh
    BY <1>8, <1>13, MinOf
  <2>2. found = FoundIn(d, k)
    BY <1>6, <1>8, <1>13
  <2>3. ecdh # {} /\ d[k] \in ecdh
    BY <1>9, <1>10, <1>13, <2>1
  <2> HIDE DEF k
  <2>4. PaceSetup(CardAccessOf(d)) = setup(d[k])
    BY <1>5, <1>7, <1>8, <2>1, <2>2
  <2> QED BY <2>3, <2>4 DEF pace, ecdh
<1> QED BY <1>11, <1>12, <1>13

\* PACE runs with the variant and the curve of one PACEInfo of EF.CardAccess,
\* however long the list (parse_card_access, PassportGUI._read_worker).
THEOREM PaceAlwaysAsListed == Spec => []PaceAsListed
<1>1. call \in Calls => PaceAsListed
  <2> SUFFICES ASSUME call \in Calls, call.of = "parse_card_access" PROVE PaceAsListed
    BY DEF PaceAsListed
  <2>1. call.input \in AccessCases
    BY InputOf
  <2> QED BY <2>1, PaceIs DEF PaceAsListed
<1> QED BY <1>1, CallsMade, PTL

-----------------------------------------------------------------------------
(* The first of several lists' elements.                                   *)

\* An element of one of the lists.
From(x, q) == \E i \in 1 .. Len(q) : \E j \in 1 .. Len(q[i]) : q[i][j] = x

LEMMA FlattenFrom == \A q : Lists1(q) => \A k \in 1 .. Len(FlattenSeq(q)) : From(FlattenSeq(q)[k], q)
<1> DEFINE Good(q) == \A k \in 1 .. Len(FlattenSeq(q)) : From(FlattenSeq(q)[k], q)
           T == {n \in Nat : \E q : Lists1(q) /\ Len(q) = n /\ ~Good(q)}
<1> SUFFICES ASSUME T # {} PROVE FALSE
  BY ListIs DEF Lists1
<1>1. PICK n \in T : \A m \in T : n <= m
  BY Least
<1>2. PICK q : Lists1(q) /\ Len(q) = n /\ ~Good(q)
  OBVIOUS
<1>3. n \in Nat /\ \A m \in Nat : m < n => \A v : Lists1(v) /\ Len(v) = m => Good(v)
  BY <1>1
<1> HIDE DEF T
<1>4. n \in Nat /\ List(q) /\ \A i \in 1 .. Len(q) : List(q[i])
  BY <1>2, <1>3 DEF Lists1
<1>5. q # <<>>
  <2> SUFFICES ASSUME q = <<>> PROVE FALSE
    OBVIOUS
  <2>1. FlattenSeq(q) = <<>>
    BY FlattenEmpty
  <2>2. Len(FlattenSeq(q)) = 0
    BY <2>1, ListEmpty
  <2> QED BY <1>2, <2>2
<1>6. PICK f, x : List(f) /\ q = f \o <<x>> /\ Len(q) = Len(f) + 1 /\ x = q[Len(q)] /\ \A i \in 1 .. Len(f) : f[i] = q[i]
  BY <1>4, <1>5, SplitLast
<1>7. Len(f) \in Nat /\ Len(f) < n /\ List(x) /\ Lists1(f)
  <2>1. Len(f) \in Nat
    BY <1>6, ListIs
  <2>2. \A i \in 1 .. Len(f) : i \in 1 .. Len(q)
    BY <1>6, <2>1
  <2>3. Len(q) \in 1 .. Len(q)
    BY <1>6, <2>1
  <2> QED BY <1>2, <1>4, <1>6, <2>1, <2>2, <2>3 DEF Lists1
<1> DEFINE a == FlattenSeq(f)  b == FlattenSeq(q)
<1>8. b = a \o x
  BY <1>6, <1>7, FlattenAppend
<1>9. Good(f)
  BY <1>3, <1>7
<1>10. List(a)
  BY <1>7, FlattenList
<1>11. \A k \in 1 .. Len(a) : From(a[k], f)
  BY <1>9
<1>12. \E k \in 1 .. Len(b) : ~From(b[k], q)
  BY <1>2
<1> HIDE DEF a, b, Good
<1> DEFINE m == Len(a)  l == Len(x)
<1>13. m = Len(a) /\ l = Len(x)
  OBVIOUS
<1> HIDE DEF m, l
<1>14. Joins(b, a, m, x, l)
  BY <1>7, <1>8, <1>10, <1>13, JoinIs
<1>15. PICK k \in 1 .. Len(b) : ~From(b[k], q)
  BY <1>12
<1>16. Len(b) = m + l /\ m \in Nat /\ l \in Nat /\ (\A i \in 1 .. m : b[i] = a[i]) /\ \A i \in 1 .. l : b[m + i] = x[i]
  BY <1>14 DEF Joins
<1>17. CASE k <= m
  <2>1. k \in 1 .. m /\ b[k] = a[k] /\ From(a[k], f)
    BY <1>11, <1>13, <1>16, <1>17
  <2>2. PICK i \in 1 .. Len(f) : \E j \in 1 .. Len(f[i]) : f[i][j] = a[k]
    BY <2>1 DEF From
  <2>3. i \in 1 .. Len(q) /\ q[i] = f[i]
    BY <1>6, <1>7
  <2> QED BY <1>15, <2>1, <2>2, <2>3 DEF From
<1>18. CASE ~(k <= m)
  <2> DEFINE j == k - m
  <2>1. j \in 1 .. l /\ k = m + j
    BY <1>15, <1>16, <1>18
  <2> HIDE DEF j
  <2>2. b[k] = x[j]
    BY <1>16, <2>1
  <2>3. Len(q) \in 1 .. Len(q)
    BY <1>6, <1>7
  <2> QED BY <1>6, <1>13, <1>15, <2>1, <2>2, <2>3 DEF From
<1> QED BY <1>17, <1>18

\* The elements of the list at one place among the others.
LEMMA SplitAt ==
  ASSUME NEW q, List(q), NEW k \in 1 .. Len(q)
  PROVE  \E f, t : List(f) /\ List(t) /\ q = (f \o <<q[k]>>) \o t /\ Len(f) = k - 1
                   /\ (\A i \in 1 .. Len(f) : f[i] = q[i]) /\ Len(t) = Len(q) - k /\ \A i \in 1 .. Len(t) : t[i] = q[k + i]
<1> DEFINE n == Len(q) - k  m == k - 1
           f == [i \in 1 .. m |-> q[i]]  t == [i \in 1 .. n |-> q[k + i]]  x == q[k]  o == <<x>>
<1>1. n \in Nat /\ m \in Nat /\ k = m + 1 /\ Len(q) = k + n
  BY ListIs
<1>2. List(f) /\ Len(f) = m
  <2>1. f = [i \in 1 .. m |-> f[i]]
    OBVIOUS
  <2> HIDE DEF f, m
  <2> QED BY <1>1, <2>1, ListMade
<1>3. List(t) /\ Len(t) = n
  <2>1. t = [i \in 1 .. n |-> t[i]]
    OBVIOUS
  <2> HIDE DEF t, n
  <2> QED BY <1>1, <2>1, ListMade
<1>4. \A i \in 1 .. m : f[i] = q[i]
  OBVIOUS
<1>5. \A i \in 1 .. n : t[i] = q[k + i]
  OBVIOUS
<1> DEFINE g == f \o o  u == g \o t
<1>6. List(o) /\ Len(o) = 1 /\ o[1] = x
  BY ListOne
<1>7. m = Len(f) /\ n = Len(t) /\ g = f \o o /\ u = g \o t /\ x = q[k]
  BY <1>2, <1>3
<1> HIDE DEF n, m, f, t, o, x, g, u
<1>8. Joins(g, f, m, o, 1)
  BY <1>2, <1>6, <1>7, JoinIs
<1>9. List(g) /\ Len(g) = m + 1 /\ (\A i \in 1 .. m : g[i] = f[i]) /\ \A i \in 1 .. 1 : g[m + i] = o[i]
  BY <1>8 DEF Joins
<1>10. Len(g) = k /\ g[k] = x
  BY <1>1, <1>6, <1>9
<1>11. Joins(u, g, k, t, n)
  BY <1>3, <1>7, <1>9, <1>10, JoinIs
<1>12. List(u) /\ Len(u) = k + n /\ (\A i \in 1 .. k : u[i] = g[i]) /\ \A i \in 1 .. n : u[k + i] = t[i]
  BY <1>11 DEF Joins
<1>13. \A i \in 1 .. k : u[i] = q[i]
  <2> SUFFICES ASSUME NEW i \in 1 .. k PROVE u[i] = q[i]
    OBVIOUS
  <2>1. CASE i = k
    BY <1>7, <1>10, <1>12, <2>1
  <2>2. CASE i # k
    <3>1. i \in 1 .. m
      BY <1>1, <2>2
    <3> QED BY <1>4, <1>9, <1>12, <3>1
  <2> QED BY <2>1, <2>2
<1>14. \A i \in 1 .. Len(u) : u[i] = q[i]
  <2> SUFFICES ASSUME NEW i \in 1 .. Len(u), ~(i <= k) PROVE u[i] = q[i]
    BY <1>1, <1>12, <1>13
  <2> DEFINE j == i - k
  <2>1. j \in 1 .. n /\ i = k + j
    BY <1>1, <1>12
  <2> HIDE DEF j
  <2> QED BY <1>5, <1>12, <2>1
<1>15. u = q
  BY <1>1, <1>12, <1>14, SameList
<1>16. q = (f \o <<q[k]>>) \o t
  BY <1>7, <1>15 DEF o
<1>17. Len(f) = k - 1 /\ Len(t) = Len(q) - k
  BY <1>1, <1>2, <1>3
<1> QED BY <1>2, <1>3, <1>4, <1>5, <1>16, <1>17

\* The first element of H is in the first list that has one.
HitIn(x, H) == \E j \in 1 .. Len(x) : x[j] \in H
Places(s, H) == {k \in 1 .. Len(s) : s[k] \in H}
FirstIn(q, H, n) == n \in 1 .. Len(q) /\ HitIn(q[n], H) /\ \A i \in 1 .. n - 1 : ~HitIn(q[i], H)
TakenFrom(s, H, x) == Places(s, H) # {} /\ \E j \in 1 .. Len(x) : x[j] \in H /\ s[Min(Places(s, H))] = x[j]

LEMMA FirstHit ==
  ASSUME NEW q, Lists1(q), NEW H, NEW n, FirstIn(q, H, n), NEW s, s = FlattenSeq(q)
  PROVE  TakenFrom(s, H, q[n])
<1>0. n \in 1 .. Len(q) /\ HitIn(q[n], H) /\ \A i \in 1 .. n - 1 : ~HitIn(q[i], H)
  BY DEF FirstIn
<1>1. List(q) /\ \A i \in 1 .. Len(q) : List(q[i])
  BY DEF Lists1
<1>2. PICK f, t : List(f) /\ List(t) /\ q = (f \o <<q[n]>>) \o t /\ Len(f) = n - 1
                   /\ (\A i \in 1 .. Len(f) : f[i] = q[i]) /\ Len(t) = Len(q) - n /\ \A i \in 1 .. Len(t) : t[i] = q[n + i]
  BY <1>0, <1>1, SplitAt
<1> DEFINE x == q[n]
<1>3. List(x) /\ HitIn(x, H)
  BY <1>0, <1>1
<1>4. Len(q) \in Nat /\ n \in Nat \ {0} /\ n <= Len(q)
  BY <1>0, <1>1, ListIs
<1>5. Lists1(f)
  <2>1. \A i \in 1 .. Len(f) : i \in 1 .. Len(q)
    BY <1>2, <1>4
  <2> QED BY <1>1, <1>2, <2>1 DEF Lists1
<1>6. Lists1(t)
  <2>1. \A i \in 1 .. Len(t) : n + i \in 1 .. Len(q)
    BY <1>2, <1>4
  <2> QED BY <1>1, <1>2, <2>1 DEF Lists1
<1>7. \A i \in 1 .. Len(f) : ~HitIn(f[i], H)
  BY <1>0, <1>2
<1>8. q = (f \o <<x>>) \o t
  BY <1>2
<1> HIDE DEF x
<1> DEFINE a == FlattenSeq(f)  b == FlattenSeq(t)  g == f \o <<x>>  c == FlattenSeq(g)
<1>9. List(a) /\ List(b)
  BY <1>5, <1>6, FlattenList
<1>10. c = a \o x
  BY <1>3, <1>5, FlattenAppend
<1>11. Lists1(g)
  BY <1>3, <1>5, ListsOne, ListsConcat
<1>12. s = c \o b
  <2>1. q = g \o t
    BY <1>8
  <2> HIDE DEF g
  <2> QED BY <1>6, <1>11, <2>1, FlattenConcat
<1>13. \A k \in 1 .. Len(a) : a[k] \notin H
  <2> SUFFICES ASSUME NEW k \in 1 .. Len(a) PROVE a[k] \notin H
    OBVIOUS
  <2>1. From(a[k], f)
    BY <1>5, FlattenFrom
  <2>2. PICK i \in 1 .. Len(f) : \E j \in 1 .. Len(f[i]) : f[i][j] = a[k]
    BY <2>1 DEF From
  <2> HIDE DEF a
  <2> QED BY <1>7, <2>2 DEF HitIn
<1>14. List(c)
  BY <1>11, FlattenList
<1> DEFINE m == Len(a)  l == Len(x)  o == Len(b)  p == Len(c)
<1>15. m = Len(a) /\ l = Len(x) /\ o = Len(b) /\ p = Len(c)
  OBVIOUS
<1> HIDE DEF a, b, c, g, m, l, o, p
<1>16. Joins(c, a, m, x, l) /\ Joins(s, c, p, b, o)
  BY <1>3, <1>9, <1>10, <1>12, <1>14, <1>15, JoinIs
<1>17. /\ List(c) /\ Len(c) = m + l /\ m \in Nat /\ l \in Nat
       /\ (\A i \in 1 .. m : c[i] = a[i]) /\ \A i \in 1 .. l : c[m + i] = x[i]
  BY <1>16 DEF Joins
<1>18. List(s) /\ Len(s) = p + o /\ o \in Nat /\ p = m + l /\ \A i \in 1 .. p : s[i] = c[i]
  BY <1>15, <1>16, <1>17 DEF Joins
<1>19. PICK j \in 1 .. l : x[j] \in H
  BY <1>3, <1>15 DEF HitIn
<1> DEFINE P == Places(s, H)  k == Min(P)
<1>20. m + j \in P /\ s[m + j] = x[j]
  <2>1. m + j \in 1 .. p /\ m + j \in 1 .. Len(s)
    BY <1>17, <1>18
  <2>2. s[m + j] = x[j]
    BY <1>17, <1>18, <2>1
  <2> QED BY <1>19, <2>1, <2>2 DEF Places
<1>21. P \subseteq Nat /\ P # {} /\ \A i \in P : i \in 1 .. Len(s) /\ s[i] \in H
  BY <1>20 DEF Places
<1> HIDE DEF P
<1>22. k \in P /\ k <= m + j
  BY <1>20, <1>21, MinOf
<1> HIDE DEF k
<1>23. k \in 1 .. p /\ ~(k <= m)
  <2>1. k \in 1 .. p
    BY <1>17, <1>18, <1>21, <1>22
  <2>2. ASSUME k <= m PROVE FALSE
    <3>1. k \in 1 .. m
      BY <1>17, <2>1, <2>2
    <3>2. s[k] = a[k]
      BY <1>17, <1>18, <2>1, <3>1
    <3> QED BY <1>13, <1>15, <1>21, <1>22, <3>1, <3>2
  <2> QED BY <2>1, <2>2
<1> DEFINE i == k - m
<1>24. i \in 1 .. l /\ k = m + i
  BY <1>17, <1>18, <1>23
<1> HIDE DEF i
<1>25. s[k] = x[i] /\ x[i] \in H
  BY <1>17, <1>18, <1>21, <1>22, <1>23, <1>24
<1> QED BY <1>15, <1>21, <1>22, <1>24, <1>25 DEF k, P, x, TakenFrom

LEMMA NoHit ==
  ASSUME NEW q, Lists1(q), NEW H, \A i \in 1 .. Len(q) : ~HitIn(q[i], H), NEW s, s = FlattenSeq(q)
  PROVE  Places(s, H) = {}
<1>1. \A k \in 1 .. Len(s) : From(s[k], q)
  BY FlattenFrom
<1> QED BY <1>1 DEF From, HitIn, Places

-----------------------------------------------------------------------------
(* EF.DG14: the key.                                                       *)

ChipPoint == [size |-> 65, key |-> "chip"]
ParamNodes(d) == CASE d.param = NoParam              -> <<>>
                   [] d.param # NoParam /\ d.byName  -> <<Leaf(TagOid, CurveName(d.param))>>
                   [] d.param # NoParam /\ ~d.byName -> <<Leaf(TagInteger, d.param)>>
AlgNode(d) == Holds(TagSequence, <<Leaf(TagOid, "ecPublicKey")>> \o ParamNodes(d))
SpkiKids(d) == <<AlgNode(d), Leaf(TagBits, ChipPoint)>>
PointNode(d) == IF d.place = "SPKI" THEN Holds(TagSequence, SpkiKids(d)) ELSE Leaf(<<129>>, ChipPoint)
KeyStart(d) == <<Leaf(TagOid, "id-PK-ECDH"), PointNode(d)>>
KeyEnd(d) == IF d.keyId = NoKeyId THEN <<>> ELSE <<Leaf(TagInteger, d.keyId)>>

LEMMA KeyNodeIs == ASSUME NEW d PROVE KeyNode(d).tag = TagSequence /\ KeyNode(d).kids = KeyStart(d) \o KeyEnd(d)
<1>1. KeyNode(d) = Holds(TagSequence, KeyStart(d) \o KeyEnd(d))
  BY DEF KeyNode, KeyStart, KeyEnd, PointNode, SpkiKids, AlgNode, ParamNodes, ChipPoint
<1> QED BY <1>1, HoldsIs, ZenonT(30)

LEMMA KeyKids ==
  ASSUME NEW d, NEW kids, kids = KeyNode(d).kids
  PROVE  TwoOrThree(kids, Leaf(TagOid, "id-PK-ECDH"), PointNode(d), d.keyId = NoKeyId, Leaf(TagInteger, d.keyId))
<1> DEFINE s == KeyStart(d)  e == KeyEnd(d)  c == (d.keyId = NoKeyId)
           x == Leaf(TagInteger, d.keyId)  a == Leaf(TagOid, "id-PK-ECDH")  b == PointNode(d)
<1>1. kids = s \o e
  BY KeyNodeIs
<1>2. s = <<a, b>> /\ e = IF c THEN <<>> ELSE <<x>>
  BY DEF KeyStart, KeyEnd
<1>3. c \in BOOLEAN
  OBVIOUS
<1> HIDE DEF s, e, c, x, a, b
<1>4. TwoOrThree(kids, a, b, c, x)
  BY <1>1, <1>2, <1>3, TwoOrThreeIs
<1> QED BY <1>4 DEF c, x, a, b

LEMMA CurveNamed == ASSUME NEW p \in {12, 13, 16, 17} PROVE CurveName(p) \in DOMAIN NamedCurves /\ NamedCurves[CurveName(p)] = p
<1>1. \E c \in DOMAIN NamedCurves : NamedCurves[c] = p
  <2>1. /\ DOMAIN NamedCurves = {"prime256v1", "brainpoolP256r1", "secp384r1", "secp521r1"}
        /\ NamedCurves["prime256v1"] = 12 /\ NamedCurves["brainpoolP256r1"] = 13
        /\ NamedCurves["secp384r1"] = 16 /\ NamedCurves["secp521r1"] = 17
    BY DEF NamedCurves
  <2> QED BY <2>1
<1> QED BY <1>1 DEF CurveName

\* What a parameter's node says.
IdOf(n) ==
  LET named(m) == m.tag = TagOid /\ m.val \in DOMAIN NamedCurves
  IN  CASE n.tag = TagInteger -> n.val
        [] named(n)           -> NamedCurves[n.val]
        [] n.tag # TagInteger /\ ~named(n) -> NoParam

IsDg14(d) ==
  /\ d.wrapper \in {"set", "sequence", "none"} /\ d.deep \in BOOLEAN /\ d.byName \in BOOLEAN
  /\ d.keyId \in {NoKeyId} \cup 0 .. 127
  /\ d.param \in Nat /\ (d.byName => d.param \in {NoParam, 12, 13, 16, 17})
  /\ d.place \in {"SPKI", "tag 81"}

LEMMA ParamSaid ==
  ASSUME NEW d, IsDg14(d)
  PROVE  /\ d.param = NoParam => ParamNodes(d) = <<>>
         /\ d.param # NoParam => \E n : ParamNodes(d) = <<n>> /\ IdOf(n) = d.param
<1>1. CASE d.param # NoParam /\ d.byName
  <2> DEFINE n == Leaf(TagOid, CurveName(d.param))
  <2>1. d.param \in {12, 13, 16, 17}
    BY <1>1 DEF IsDg14
  <2>2. n.tag = TagOid /\ n.val = CurveName(d.param)
    BY LeafIs
  <2>3. ParamNodes(d) = <<n>>
    BY <1>1 DEF ParamNodes
  <2>4. TagOid # TagInteger
    BY TagBytes
  <2>5. n.val \in DOMAIN NamedCurves /\ NamedCurves[n.val] = d.param
    BY <2>1, <2>2, CurveNamed
  <2> HIDE DEF n
  <2>6. IdOf(n) = d.param
    BY <2>2, <2>4, <2>5 DEF IdOf
  <2> QED BY <1>1, <2>3, <2>6
<1>2. CASE d.param # NoParam /\ ~d.byName
  <2> DEFINE n == Leaf(TagInteger, d.param)
  <2>1. n.tag = TagInteger /\ n.val = d.param
    BY LeafIs
  <2>2. ParamNodes(d) = <<n>>
    BY <1>2 DEF ParamNodes
  <2>3. TagOid # TagInteger
    BY TagBytes
  <2> HIDE DEF n
  <2>4. IdOf(n) = d.param
    BY <2>1, <2>3 DEF IdOf
  <2> QED BY <1>2, <2>2, <2>4
<1>3. CASE d.param = NoParam
  BY <1>3 DEF ParamNodes
<1>4. d.byName \in BOOLEAN
  BY DEF IsDg14
<1> QED BY <1>1, <1>2, <1>3, <1>4

\* A list that starts with the number, or is empty for none.
Starts(u, p) == List(u) /\ (p = NoParam => u = <<>>) /\ (p # NoParam => u # <<>> /\ u[1] = p)

LEMMA AlgParamsAre == ASSUME NEW d, IsDg14(d) PROVE Starts(AlgParams(AlgNode(d)), d.param)
<1> DEFINE o == Leaf(TagOid, "ecPublicKey")  s == <<o>>  kids == s \o ParamNodes(d)
           ids == [i \in DOMAIN kids |-> IdOf(kids[i])]  P == {i \in DOMAIN ids : ids[i] # NoParam}
<1>1. AlgNode(d).kids = kids
  BY HoldsIs DEF AlgNode
<1>2. AlgParams(AlgNode(d)) = Picked(ids, P)
  BY <1>1 DEF AlgParams, IdOf
<1>3. IdOf(o) = NoParam
  <2>1. o.tag = TagOid /\ o.val = "ecPublicKey"
    BY LeafIs
  <2>2. "ecPublicKey" \notin DOMAIN NamedCurves
    BY DEF NamedCurves
  <2>3. TagOid # TagInteger
    BY TagBytes
  <2> HIDE DEF o
  <2> QED BY <2>1, <2>2, <2>3 DEF IdOf
<1>4. List(s) /\ Len(s) = 1 /\ s[1] = o
  BY ListOne
<1>5. ids = [i \in DOMAIN kids |-> ids[i]] /\ DOMAIN ids = DOMAIN kids
  OBVIOUS
<1>6. \A i \in DOMAIN kids : ids[i] = IdOf(kids[i])
  OBVIOUS
<1>7. P \subseteq DOMAIN ids /\ \A i \in DOMAIN ids : i \in P <=> ids[i] # NoParam
  OBVIOUS
<1>8. kids = s \o ParamNodes(d)
  OBVIOUS
<1> HIDE DEF o, s, kids, ids, P
<1>9. CASE d.param = NoParam
  <2>1. ParamNodes(d) = <<>>
    BY <1>9, ParamSaid
  <2>2. kids = s
    BY <1>4, <1>8, <2>1, ConcatNone
  <2>3. DOMAIN kids = 1 .. 1
    BY <1>4, <2>2, ListIs
  <2>4. P = {}
    BY <1>3, <1>4, <1>5, <1>6, <1>7, <2>2, <2>3
  <2>5. Picked(ids, P) = <<>>
    BY <2>4, PickedNone
  <2> QED BY <1>2, <1>9, <2>5, ListEmpty DEF Starts
<1>10. CASE d.param # NoParam
  <2>1. PICK n : ParamNodes(d) = <<n>> /\ IdOf(n) = d.param
    BY <1>10, ParamSaid
  <2> DEFINE m == Len(s)
  <2>2. m = 1 /\ m = Len(s) /\ List(s) /\ kids = s \o <<n>>
    BY <1>4, <1>8, <2>1
  <2> HIDE DEF m
  <2>3. Added(kids, s, m, n)
    BY <2>2, AddOne
  <2>4. List(kids) /\ Len(kids) = 2 /\ kids[1] = s[1] /\ kids[2] = n
    BY <2>2, <2>3 DEF Added
  <2>5. DOMAIN kids = 1 .. 2
    BY <2>4, ListIs
  <2>6. List(ids) /\ Len(ids) = 2
    BY <1>5, <2>5, ListMade
  <2>7. P = {2} /\ ids[2] = d.param
    BY <1>3, <1>4, <1>5, <1>6, <1>7, <1>10, <2>1, <2>4, <2>5
  <2>8. PICK S : ids \in Seq(S)
    BY <2>6 DEF List
  <2> DEFINE u == Picked(ids, P)
  <2>9. u \in Seq(S) /\ Len(u) = Cardinality(P) /\ \A k \in 1 .. Len(u) : Place(P, k) \in P /\ u[k] = ids[Place(P, k)]
    BY <1>7, <2>8, PickedIs
  <2>10. Cardinality(P) = 1
    BY <2>7, FS_Singleton
  <2> HIDE DEF u
  <2>11. List(u)
    BY <2>9 DEF List
  <2>12. Place(P, 1) \in P /\ u[1] = ids[Place(P, 1)]
    BY <2>9, <2>10
  <2>13. u[1] = d.param /\ u # <<>>
    BY <2>7, <2>9, <2>10, <2>12, ListEmpty
  <2> QED BY <1>2, <1>10, <2>11, <2>13 DEF u, Starts
<1> QED BY <1>9, <1>10

LEMMA SpkiIs ==
  ASSUME NEW d, IsDg14(d)
  PROVE  Spki(SpkiKids(d)) = [point |-> ChipPoint, param |-> d.param]
<1> DEFINE a == AlgNode(d)  b == Leaf(TagBits, ChipPoint)  kids == SpkiKids(d)
           t == Tagged(kids, {TagSequence})
           lists == [i \in DOMAIN t |-> AlgParams(t[i])]
           params == FlattenSeq(lists)
           points == {i \in DOMAIN kids : kids[i].tag = TagBits /\ IsPoint(kids[i].val)}
<1>1. a.tag = TagSequence /\ b.tag = TagBits /\ b.val = ChipPoint /\ TagSequence # TagBits
  BY HoldsIs, LeafIs, TagBytes DEF AlgNode
<1>2. kids = <<a, b>>
  BY DEF SpkiKids
<1>3. Spki(kids) = [point |-> IF points = {} THEN NoPoint ELSE kids[Max(points)].val,
                    param |-> IF params = <<>> THEN NoParam ELSE Head(params)]
  BY DEF Spki
<1> HIDE DEF a, b, kids
<1>4. List(kids) /\ Len(kids) = 2 /\ kids[1] = a /\ kids[2] = b
  BY <1>2, TupleIs2
<1>5. DOMAIN kids = 1 .. 2
  BY <1>4, ListIs
<1>6. t = <<a>>
  <2> DEFINE u == <<a>>  v == <<b>>
  <2>1. kids = u \o v
    BY <1>2, TupleTwo
  <2>2. List(u) /\ List(v)
    BY ListOne
  <2>4. Tagged(u, {TagSequence}) = u /\ Tagged(v, {TagSequence}) = <<>>
    BY <1>1, TaggedOne
  <2> HIDE DEF u, v
  <2>3. t = Tagged(u, {TagSequence}) \o Tagged(v, {TagSequence})
    BY <2>1, <2>2, TaggedConcat
  <2>5. t = u
    <3> HIDE DEF t
    <3> QED BY <2>2, <2>3, <2>4, ConcatNone
  <2> QED BY <2>5 DEF u
<1>7. List(AlgParams(a))
  <2>1. Starts(AlgParams(a), d.param)
    BY AlgParamsAre DEF a
  <2> QED BY <2>1 DEF Starts
<1>8. params = AlgParams(a)
  <2>1. DOMAIN t = {1} /\ t[1] = a
    BY <1>6
  <2>2. DOMAIN lists = {1} /\ lists[1] = AlgParams(a) /\ lists = [i \in DOMAIN lists |-> lists[i]]
    BY <2>1
  <2> HIDE DEF lists, t
  <2> QED BY <1>7, <2>2, FlattenMade
<1>9. points = {2}
  <2>1. IsPoint(b.val)
    BY <1>1 DEF IsPoint, ChipPoint
  <2> QED BY <1>1, <1>4, <1>5, <2>1
<1>10. Max({2}) = 2
  BY MaxOne
<1> HIDE DEF params, points
<1>11. (IF params = <<>> THEN NoParam ELSE Head(params)) = d.param
  <2>0. Starts(params, d.param)
    BY <1>8, AlgParamsAre DEF a
  <2>1. d.param = NoParam => params = <<>>
    BY <2>0 DEF Starts
  <2>2. d.param # NoParam => params # <<>> /\ params[1] = d.param
    BY <2>0 DEF Starts
  <2>3. CASE d.param = NoParam
    BY <2>1, <2>3
  <2>4. CASE d.param # NoParam
    <3>1. Head(params) = params[1]
      OBVIOUS
    <3>2. params # <<>> /\ Head(params) = d.param
      BY <2>2, <2>4, <3>1
    <3> QED BY <3>2
  <2> QED BY <2>3, <2>4
<1>12. (IF points = {} THEN NoPoint ELSE kids[Max(points)].val) = ChipPoint
  BY <1>1, <1>4, <1>9, <1>10
<1> QED BY <1>3, <1>11, <1>12 DEF kids

ChipKey(d) == [point |-> ChipPoint, keyId |-> d.keyId,
               param |-> IF d.place = "SPKI" THEN d.param ELSE NoParam, oid |-> "id-PK-ECDH"]

LEMMA PointNodeIs ==
  ASSUME NEW d, IsDg14(d)
  PROVE  /\ d.place = "SPKI" => PointNode(d).tag = TagSequence /\ PointNode(d).kids = SpkiKids(d)
         /\ d.place # "SPKI" => PointNode(d).tag = <<129>> /\ PointNode(d).val = ChipPoint
<1>1. CASE d.place = "SPKI"
  BY <1>1, HoldsIs DEF PointNode
<1>2. CASE d.place # "SPKI"
  BY <1>2, LeafIs DEF PointNode
<1> QED BY <1>1, <1>2

\* What a node says of the point.
FoundPoint(n) == CASE n.tag = TagSequence         -> Spki(n.kids).point
                   [] n.tag \in PointTags         -> n.val
                   [] n.tag \notin PointTags \cup {TagSequence} -> NoPoint

LEMMA TagsApart ==
  /\ TagSequence \notin PointTags /\ TagOid \notin PointTags \cup {TagSequence} /\ TagInteger \notin PointTags \cup {TagSequence}
  /\ <<129>> \in PointTags /\ <<129>> # TagSequence /\ <<129>> # TagOid /\ <<129>> # TagInteger
  /\ TagOid # TagInteger
<1> DEFINE p == <<129>>  q == <<134>>
<1>1. p[1] = 129 /\ q[1] = 134 /\ PointTags = {p, q}
  BY DEF PointTags
<1> HIDE DEF p, q
<1>2. TagSequence # p /\ TagSequence # q /\ TagOid # p /\ TagOid # q /\ TagInteger # p /\ TagInteger # q
  BY <1>1, TagBytes
<1>3. TagOid # TagInteger /\ TagOid # TagSequence /\ TagInteger # TagSequence
  BY TagBytes
<1> QED BY <1>1, <1>2, <1>3 DEF p

LEMMA NoPointIs == ~IsPoint(NoPoint) /\ IsPoint(ChipPoint) /\ NoPoint # ChipPoint
BY DEF IsPoint, NoPoint, ChipPoint

LEMMA KeyFoundIn ==
  ASSUME NEW d, IsDg14(d), NEW kids, kids = KeyNode(d).kids
  PROVE  KeyOf(kids) = ChipKey(d)
<1> DEFINE oids == {i \in DOMAIN kids : kids[i].tag = TagOid /\ kids[i].val \in KeyOids}
           ids == {i \in DOMAIN kids : kids[i].tag = TagInteger}
           params == {i \in DOMAIN kids : kids[i].tag = TagSequence /\ Spki(kids[i].kids).param # NoParam}
           points == {i \in DOMAIN kids : IsPoint(FoundPoint(kids[i]))}
           c == d.keyId = NoKeyId
           a == Leaf(TagOid, "id-PK-ECDH")  b == PointNode(d)  x == Leaf(TagInteger, d.keyId)
<1>1. KeyOf(kids) =
        IF oids = {} \/ points = {} THEN NoKey
        ELSE [point |-> FoundPoint(kids[Max(points)]),
              keyId |-> IF ids = {} THEN NoKeyId ELSE kids[Min(ids)].val,
              param |-> IF params = {} THEN NoParam ELSE Spki(kids[Max(params)].kids).param,
              oid   |-> kids[Max(oids)].val]
  BY DEF KeyOf, FoundPoint
<1>2. a.tag = TagOid /\ a.val = "id-PK-ECDH" /\ x.tag = TagInteger /\ x.val = d.keyId
  BY LeafIs
<1>3. TwoOrThree(kids, a, b, c, x)
  BY KeyKids
<1> DEFINE s == Spki(b.kids)
<1>4. d.place = "SPKI" => b.tag = TagSequence /\ s = [point |-> ChipPoint, param |-> d.param]
  BY PointNodeIs, SpkiIs
<1>5. d.place # "SPKI" => b.tag = <<129>> /\ b.val = ChipPoint
  BY PointNodeIs
<1>6. d.place \in {"SPKI", "tag 81"} /\ c \in BOOLEAN
  BY DEF IsDg14
<1> HIDE DEF a, b, c, x
<1>7. /\ kids[1] = a /\ kids[2] = b /\ (c \/ kids[3] = x)
      /\ DOMAIN kids = IF c THEN {1, 2} ELSE {1, 2, 3}
  BY <1>3 DEF TwoOrThree
<1>8. FoundPoint(b) = ChipPoint
  <2>1. CASE d.place = "SPKI"
    <3>1. s.point = ChipPoint
      BY <1>4, <2>1
    <3> QED BY <1>4, <2>1, <3>1, TagsApart DEF FoundPoint
  <2>2. CASE d.place # "SPKI"
    BY <1>5, <2>2, TagsApart DEF FoundPoint
  <2> QED BY <2>1, <2>2
<1>9. FoundPoint(a) = NoPoint /\ FoundPoint(x) = NoPoint
  BY <1>2, TagsApart DEF FoundPoint
<1>10. b.tag # TagOid /\ b.tag # TagInteger
  BY <1>4, <1>5, TagsApart
<1>11. a.val \in KeyOids
  BY <1>2 DEF KeyOids
<1>12. points = {2}
  <2>1. \A i \in DOMAIN kids : i = 1 \/ i = 2 \/ (i = 3 /\ ~c)
    BY <1>7
  <2>2. \A i \in DOMAIN kids : IsPoint(FoundPoint(kids[i])) <=> i = 2
    BY <1>7, <1>8, <1>9, <2>1, NoPointIs
  <2>3. 2 \in DOMAIN kids
    BY <1>7
  <2> QED BY <2>2, <2>3
<1>13. oids = {1}
  <2>1. \A i \in DOMAIN kids : i = 1 \/ i = 2 \/ (i = 3 /\ ~c)
    BY <1>7
  <2>2. \A i \in DOMAIN kids : kids[i].tag = TagOid /\ kids[i].val \in KeyOids <=> i = 1
    BY <1>2, <1>7, <1>10, <1>11, <2>1, TagsApart
  <2> QED BY <1>7, <2>2
<1>14. ids = IF c THEN {} ELSE {3}
  <2>1. \A i \in DOMAIN kids : i = 1 \/ i = 2 \/ (i = 3 /\ ~c)
    BY <1>7
  <2>2. \A i \in DOMAIN kids : kids[i].tag = TagInteger <=> i = 3 /\ ~c
    BY <1>2, <1>7, <1>10, <2>1, TagsApart
  <2> QED BY <1>7, <2>2
<1>15. params = IF d.place = "SPKI" /\ d.param # NoParam THEN {2} ELSE {}
  <2>1. \A i \in DOMAIN kids : i = 1 \/ i = 2 \/ (i = 3 /\ ~c)
    BY <1>7
  <2>2. b.tag = TagSequence <=> d.place = "SPKI"
    BY <1>4, <1>5, TagsApart
  <2>3. d.place = "SPKI" => s.param = d.param
    BY <1>4
  <2>4. \A i \in DOMAIN kids : i = 2 <=> i # 1 /\ ~(i = 3 /\ ~c)
    BY <2>1
  <2>5. \A i \in DOMAIN kids : kids[i].tag = TagSequence <=> i = 2 /\ d.place = "SPKI"
    BY <1>2, <1>7, <2>1, <2>2, TagsApart
  <2>6. \A i \in DOMAIN kids : kids[i].tag = TagSequence /\ Spki(kids[i].kids).param # NoParam
                               <=> i = 2 /\ d.place = "SPKI" /\ d.param # NoParam
    BY <1>7, <2>3, <2>5
  <2> QED BY <1>7, <2>6
<1>16. Max({1}) = 1 /\ Max({2}) = 2 /\ Min({3}) = 3
  BY MaxOne
<1> HIDE DEF oids, ids, params, points
<1>17. KeyOf(kids) = [point |-> FoundPoint(kids[Max(points)]),
                      keyId |-> IF ids = {} THEN NoKeyId ELSE kids[Min(ids)].val,
                      param |-> IF params = {} THEN NoParam ELSE Spki(kids[Max(params)].kids).param,
                      oid   |-> kids[Max(oids)].val]
  BY <1>1, <1>12, <1>13
<1>18. FoundPoint(kids[Max(points)]) = ChipPoint
  BY <1>7, <1>8, <1>12, <1>16
<1>19. (IF ids = {} THEN NoKeyId ELSE kids[Min(ids)].val) = d.keyId
  <2>1. CASE c
    <3>1. ids = {} /\ d.keyId = NoKeyId
      BY <1>14, <2>1 DEF c
    <3> QED BY <3>1
  <2>2. CASE ~c
    <3>1. ids = {3} /\ kids[3] = x
      BY <1>7, <1>14, <2>2
    <3> QED BY <1>2, <1>16, <3>1
  <2> QED BY <2>1, <2>2
<1>20. (IF params = {} THEN NoParam ELSE Spki(kids[Max(params)].kids).param)
       = IF d.place = "SPKI" THEN d.param ELSE NoParam
  <2>1. CASE d.place = "SPKI" /\ d.param # NoParam
    <3>1. params = {2} /\ kids[Max(params)] = b
      BY <1>7, <1>15, <1>16, <2>1
    <3>2. s.param = d.param
      BY <1>4, <2>1
    <3> QED BY <2>1, <3>1, <3>2
  <2>2. CASE ~(d.place = "SPKI" /\ d.param # NoParam)
    <3>1. params = {}
      BY <1>15, <2>2
    <3> QED BY <2>2, <3>1
  <2> QED BY <2>1, <2>2
<1>21. kids[Max(oids)].val = "id-PK-ECDH"
  BY <1>2, <1>7, <1>13, <1>16
<1> QED BY <1>17, <1>18, <1>19, <1>20, <1>21 DEF ChipKey

\* A body without an identifier says nothing.
NoOids(kids) == \A i \in DOMAIN kids : kids[i].tag # TagOid

LEMMA NothingSaid == ASSUME NEW kids, NoOids(kids) PROVE KeyOf(kids) = NoKey /\ SuiteOf(kids) = None
<1>1. {i \in DOMAIN kids : kids[i].tag = TagOid /\ kids[i].val \in KeyOids} = {}
  BY DEF NoOids
<1>2. {i \in DOMAIN kids : kids[i].tag = TagOid /\ kids[i].val \in SuiteOids} = {}
  BY DEF NoOids
<1> QED BY <1>1, <1>2 DEF KeyOf, SuiteOf

\* The infos.
Info(d, n) ==
  IF n = "key" THEN KeyNode(d)
  ELSE Holds(TagSequence, <<Leaf(TagOid, n), Leaf(TagInteger, 1), Leaf(TagInteger, 2)>>)

LEMMA KeySuite == ASSUME NEW d, IsDg14(d) PROVE SuiteOf(KeyNode(d).kids) = None /\ KeyOf(KeyNode(d).kids) = ChipKey(d)
<1> DEFINE kids == KeyNode(d).kids  c == d.keyId = NoKeyId
           a == Leaf(TagOid, "id-PK-ECDH")  b == PointNode(d)  x == Leaf(TagInteger, d.keyId)
           oids == {i \in DOMAIN kids : kids[i].tag = TagOid /\ kids[i].val \in SuiteOids}
<1>1. TwoOrThree(kids, a, b, c, x)
  BY KeyKids
<1>2. a.tag = TagOid /\ a.val = "id-PK-ECDH" /\ x.tag = TagInteger
  BY LeafIs
<1>3. b.tag # TagOid
  BY PointNodeIs, TagsApart
<1>4. KeyOf(kids) = ChipKey(d)
  BY KeyFoundIn
<1> HIDE DEF kids, a, b, c, x
<1>5. /\ kids[1] = a /\ kids[2] = b /\ (c \/ kids[3] = x)
      /\ DOMAIN kids = IF c THEN {1, 2} ELSE {1, 2, 3}
  BY <1>1 DEF TwoOrThree
<1>6. "id-PK-ECDH" \notin SuiteOids
  BY DEF SuiteOids
<1>7. oids = {}
  <2>1. \A i \in DOMAIN kids : i = 1 \/ i = 2 \/ (i = 3 /\ ~c)
    BY <1>5
  <2> QED BY <1>2, <1>3, <1>5, <1>6, <2>1, TagsApart
<1> QED BY <1>4, <1>7 DEF SuiteOf, kids

LEMMA OtherSuite ==
  ASSUME NEW d, NEW n \in SuiteOids \cup {"other"}
  PROVE  /\ KeyOf(Info(d, n).kids) = NoKey
         /\ SuiteOf(Info(d, n).kids) = IF n \in SuiteOids THEN n ELSE None
<1> DEFINE a == Leaf(TagOid, n)  b == Leaf(TagInteger, 1)  x == Leaf(TagInteger, 2)  kids == <<a, b, x>>
<1>0. "key" \notin SuiteOids /\ SuiteOids \cap KeyOids = {} /\ "other" \notin KeyOids
  BY DEF SuiteOids, KeyOids
<1>1. Info(d, n).kids = kids
  <2>1. n # "key"
    BY <1>0
  <2>2. Info(d, n) = Holds(TagSequence, kids)
    BY <2>1 DEF Info
  <2> HIDE DEF kids
  <2> QED BY <2>2, HoldsIs
<1>2. a.tag = TagOid /\ a.val = n /\ b.tag = TagInteger /\ x.tag = TagInteger
  BY LeafIs
<1>3. DOMAIN kids = 1 .. 3 /\ kids[1] = a /\ kids[2] = b /\ kids[3] = x
  OBVIOUS
<1> HIDE DEF a, b, x, kids
<1>4. \A i \in DOMAIN kids : kids[i].tag = TagOid => i = 1
  BY <1>2, <1>3, TagsApart
<1>5. KeyOf(kids) = NoKey
  <2>1. {i \in DOMAIN kids : kids[i].tag = TagOid /\ kids[i].val \in KeyOids} = {}
    BY <1>0, <1>2, <1>3, <1>4
  <2> QED BY <2>1 DEF KeyOf
<1> DEFINE oids == {i \in DOMAIN kids : kids[i].tag = TagOid /\ kids[i].val \in SuiteOids}
<1>6. oids = IF n \in SuiteOids THEN {1} ELSE {}
  BY <1>2, <1>3, <1>4
<1>7. SuiteOf(kids) = IF oids = {} THEN None ELSE kids[Max(oids)].val
  BY DEF SuiteOf
<1>8. Max({1}) = 1
  BY MaxOne
<1> HIDE DEF oids
<1>9. SuiteOf(kids) = IF n \in SuiteOids THEN n ELSE None
  BY <1>2, <1>3, <1>6, <1>7, <1>8
<1> QED BY <1>1, <1>5, <1>9

\* The infos in the order of the file, each in a sequence of its own if deep.
Item(d, deep, n) == IF deep THEN Holds(TagSequence, <<Info(d, n)>>) ELSE Info(d, n)
Items(d, deep) == [i \in DOMAIN d.infos |-> Item(d, deep, d.infos[i])]

OneKey(s) == List(s) /\ (\E i \in 1 .. Len(s) : \A j \in 1 .. Len(s) : s[j] = "key" <=> j = i)
             /\ \A i \in 1 .. Len(s) : s[i] \in SuiteOids \cup {"key", "other"}

LEMMA Dg14Is == ASSUME NEW d \in Dg14Cases PROVE IsDg14(d) /\ OneKey(d.infos)
<1> DEFINE S == SuiteOids \cup {"key", "other"}  s == d.infos
<1>1. s \in Seq(S) /\ \E i \in DOMAIN s : \A j \in DOMAIN s : s[j] = "key" <=> j = i
  BY Dg14Assumption
<1>2. IsDg14(d)
  <2>1. d.deep \in BOOLEAN /\ d.byName \in BOOLEAN
    BY Dg14Assumption
  <2> QED BY <2>1, Dg14Assumption DEF IsDg14
<1> HIDE DEF S, s
<1>3. List(s)
  BY <1>1 DEF List
<1>4. DOMAIN s = 1 .. Len(s)
  BY <1>3, ListIs
<1>5. \A i \in 1 .. Len(s) : s[i] \in S
  BY <1>1, ElementOfSeq
<1>6. \E i \in 1 .. Len(s) : \A j \in 1 .. Len(s) : s[j] = "key" <=> j = i
  BY <1>1, <1>4
<1>7. \A i \in 1 .. Len(s) : s[i] \in SuiteOids \cup {"key", "other"}
  BY <1>5 DEF S
<1>8. OneKey(s)
  BY <1>3, <1>6, <1>7 DEF OneKey
<1> QED BY <1>2, <1>8 DEF s

LEMMA ItemTag ==
  ASSUME NEW d, NEW deep \in BOOLEAN, NEW n
  PROVE  /\ Item(d, deep, n).tag = TagSequence /\ Info(d, n).tag = TagSequence
         /\ deep => Item(d, deep, n).kids = <<Info(d, n)>>
         /\ ~deep => Item(d, deep, n) = Info(d, n)
<1>1. Info(d, n).tag = TagSequence
  <2> DEFINE u == <<Leaf(TagOid, n), Leaf(TagInteger, 1), Leaf(TagInteger, 2)>>
  <2>1. CASE n = "key"
    BY <2>1, KeyNodeIs DEF Info
  <2>2. CASE n # "key"
    <3>1. Info(d, n) = Holds(TagSequence, u)
      BY <2>2 DEF Info
    <3> HIDE DEF u
    <3> QED BY <3>1, HoldsIs
  <2> QED BY <2>1, <2>2
<1>2. CASE deep
  <2> DEFINE o == <<Info(d, n)>>
  <2>1. Item(d, deep, n) = Holds(TagSequence, o)
    BY <1>2 DEF Item
  <2> HIDE DEF o
  <2>2. Item(d, deep, n).tag = TagSequence /\ Item(d, deep, n).kids = o
    BY <2>1, HoldsIs
  <2> QED BY <1>1, <1>2, <2>2 DEF o
<1>3. CASE ~deep
  BY <1>1, <1>3 DEF Item
<1> QED BY <1>2, <1>3

AreItems(q, d, deep) ==
  List(q) /\ Len(q) = Len(d.infos) /\ \A i \in 1 .. Len(d.infos) : q[i] = Item(d, deep, d.infos[i])

LEMMA ItemsAre == ASSUME NEW d, OneKey(d.infos), NEW deep PROVE AreItems(Items(d, deep), d, deep)
<1> DEFINE q == Items(d, deep)
<1>1. DOMAIN d.infos = 1 .. Len(d.infos) /\ Len(d.infos) \in Nat
  BY ListIs DEF OneKey
<1>2. q = [i \in 1 .. Len(d.infos) |-> q[i]] /\ \A i \in 1 .. Len(d.infos) : q[i] = Item(d, deep, d.infos[i])
  BY <1>1 DEF Items
<1> HIDE DEF q
<1>3. List(q) /\ Len(q) = Len(d.infos)
  BY <1>1, <1>2, ListMade
<1> QED BY <1>2, <1>3 DEF q, AreItems

\* The file, and what is left of it without its wrapper.
Wrapped(d) ==
  CASE d.wrapper = "none"     -> Items(d, d.deep)
    [] d.wrapper = "set"      -> <<Holds(TagSet, Items(d, d.deep))>>
    [] d.wrapper = "sequence" -> <<Holds(TagSequence, Items(d, d.deep))>>

LEMMA FileIs == ASSUME NEW d PROVE Dg14Of(d) = <<Holds(TagDg14, Wrapped(d))>>
BY DEF Dg14Of, Wrapped, Items, Item, Info

LEMMA KeyBare == ASSUME NEW d, IsDg14(d), d.place # "SPKI" PROVE Tagged(KeyNode(d).kids, {TagSequence}) = <<>>
<1> DEFINE kids == KeyNode(d).kids  c == d.keyId = NoKeyId
           a == Leaf(TagOid, "id-PK-ECDH")  b == PointNode(d)  x == Leaf(TagInteger, d.keyId)
<1>1. TwoOrThree(kids, a, b, c, x)
  BY KeyKids
<1>2. a.tag = TagOid /\ x.tag = TagInteger
  BY LeafIs
<1>3. b.tag = <<129>>
  BY PointNodeIs
<1> HIDE DEF kids, a, b, c, x
<1>4. List(kids)
  BY <1>1 DEF TwoOrThree
<1>5. \A i \in 1 .. Len(kids) : kids[i].tag \notin {TagSequence}
  <2>1. /\ kids[1] = a /\ kids[2] = b /\ (c \/ kids[3] = x)
        /\ DOMAIN kids = IF c THEN {1, 2} ELSE {1, 2, 3}
    BY <1>1 DEF TwoOrThree
  <2>2. DOMAIN kids = 1 .. Len(kids)
    BY <1>4, ListIs
  <2>3. \A i \in DOMAIN kids : i = 1 \/ i = 2 \/ (i = 3 /\ ~c)
    BY <2>1
  <2>4. \A i \in DOMAIN kids : kids[i].tag # TagSequence
    BY <1>2, <1>3, <2>1, <2>3, TagsApart
  <2> QED BY <2>2, <2>4
<1>6. Tagged(kids, {TagSequence}) = <<>>
  BY <1>4, <1>5, TaggedNone
<1> QED BY <1>6 DEF kids

LEMMA Unwrapped14 ==
  ASSUME NEW d, IsDg14(d), OneKey(d.infos), ~(d.wrapper = "none" /\ Len(d.infos) = 1 /\ ~d.deep /\ d.place = "SPKI")
  PROVE  \E deep \in BOOLEAN : UnwrapInfos(Wrapped(d)) = Items(d, deep)
<1> DEFINE w == Wrapped(d)  q == Items(d, d.deep)
<1>1. List(q) /\ Len(q) = Len(d.infos) /\ \A i \in 1 .. Len(d.infos) : q[i] = Item(d, d.deep, d.infos[i])
  BY ItemsAre DEF AreItems
<1>2. Len(d.infos) # 0 /\ Len(d.infos) \in Nat /\ d.deep \in BOOLEAN
  <2>1. Len(d.infos) \in Nat
    BY ListIs DEF OneKey
  <2>2. \E i : i \in 1 .. Len(d.infos)
    BY DEF OneKey
  <2>3. d.deep \in BOOLEAN
    BY DEF IsDg14
  <2>4. Len(d.infos) # 0
    BY <2>1, <2>2
  <2> QED BY <2>1, <2>3, <2>4
<1>3. Tagged(q, {TagSequence}) = q
  <2>1. \A i \in 1 .. Len(q) : q[i].tag \in {TagSequence}
    <3>1. \A n : Item(d, d.deep, n).tag = TagSequence
      BY <1>2, ItemTag
    <3> HIDE DEF q
    <3> QED BY <1>1, <3>1
  <2> HIDE DEF q
  <2> QED BY <1>1, <2>1, TaggedAll
<1>4. q # <<>>
  <2> HIDE DEF q
  <2> QED BY <1>1, <1>2, ListEmpty
<1>5. ASSUME NEW t \in {TagSet, TagSequence}, w = <<Holds(t, q)>> PROVE UnwrapInfos(w) = q
  <2> DEFINE x == Holds(t, q)
  <2>1. x.tag = t /\ x.kids = q
    BY HoldsIs
  <2>2. w = <<x>>
    BY <1>5
  <2> HIDE DEF x, q, w
  <2>3. Len(w) = 1 /\ Head(w) = x
    BY <2>2
  <2> QED BY <1>3, <1>4, <2>1, <2>3 DEF UnwrapInfos
<1>6. CASE d.wrapper = "set"
  BY <1>2, <1>5, <1>6 DEF Wrapped
<1>7. CASE d.wrapper = "sequence"
  BY <1>2, <1>5, <1>7 DEF Wrapped
<1>8. CASE d.wrapper = "none"
  <2>1. w = q
    BY <1>8 DEF Wrapped
  <2>2. CASE Len(d.infos) # 1
    <3>1. Len(w) # 1
      <4> HIDE DEF q, w
      <4> QED BY <1>1, <2>1, <2>2
    <3>2. UnwrapInfos(w) = w
      <4> HIDE DEF q, w
      <4> QED BY <3>1 DEF UnwrapInfos
    <3> QED BY <1>2, <2>1, <3>2
  <2>3. CASE Len(d.infos) = 1
    <3>1. d.infos[1] = "key"
      BY <2>3 DEF OneKey
    <3> DEFINE k == Info(d, "key")  x == Item(d, d.deep, "key")
    <3>2. q[1] = x /\ Len(q) = 1 /\ x.tag = TagSequence
      <4>1. q[1] = x /\ Len(q) = 1
        BY <1>1, <2>3, <3>1
      <4>2. x.tag = TagSequence
        BY <1>2, ItemTag
      <4> HIDE DEF q, x
      <4> QED BY <4>1, <4>2
    <3>3. CASE d.deep
      <4>1. x.kids = <<k>>
        BY <3>3, ItemTag
      <4>2. k.tag = TagSequence
        BY <1>2, ItemTag
      <4> HIDE DEF k
      <4>3. Tagged(<<k>>, {TagSequence}) = <<k>>
        BY <4>2, TaggedOne
      <4>4. <<k>> # <<>>
        OBVIOUS
      <4>5. UnwrapInfos(w) = <<k>>
        <5> HIDE DEF x, q, w
        <5> QED BY <2>1, <3>2, <4>1, <4>3, <4>4 DEF UnwrapInfos
      <4> DEFINE p == Items(d, FALSE)  o == <<k>>
      <4>6. List(p) /\ Len(p) = 1
        BY <2>3, ItemsAre DEF AreItems
      <4>7. p[1] = k
        <5>0. AreItems(p, d, FALSE)
          BY ItemsAre
        <5>1. p[1] = Item(d, FALSE, "key")
          <6> HIDE DEF p
          <6>1. 1 \in 1 .. Len(d.infos)
            BY <2>3
          <6>2. p[1] = Item(d, FALSE, d.infos[1])
            BY ONLY <5>0, <6>1, Zenon DEF AreItems
          <6> QED BY ONLY <3>1, <6>2, Zenon
        <5>2. Item(d, FALSE, "key") = Info(d, "key")
          BY DEF Item
        <5> QED BY <5>1, <5>2 DEF k
      <4>8. List(o) /\ Len(o) = 1 /\ o[1] = k
        BY ListOne
      <4> HIDE DEF p, o
      <4>9. p = o
        <5>1. \A i \in 1 .. 1 : p[i] = o[i]
          BY <4>7, <4>8
        <5> QED BY <4>6, <4>8, <5>1, SameList
      <4> QED BY <4>5, <4>9 DEF p, o
    <3>4. CASE ~d.deep
      <4>1. x = KeyNode(d)
        BY <1>2, <3>4, ItemTag DEF Info
      <4>2. d.place # "SPKI"
        BY <1>8, <2>3, <3>4
      <4>3. Tagged(x.kids, {TagSequence}) = <<>>
        BY <4>1, <4>2, KeyBare
      <4>4. UnwrapInfos(w) = w
        <5> HIDE DEF x, q, w
        <5> QED BY <2>1, <3>2, <4>3 DEF UnwrapInfos
      <4>5. UnwrapInfos(Wrapped(d)) = Items(d, d.deep)
        BY <2>1, <4>4
      <4> QED BY <1>2, <4>5
    <3> QED BY <1>2, <3>3, <3>4
  <2> QED BY <2>2, <2>3
<1> QED BY <1>6, <1>7, <1>8 DEF IsDg14

\* What an info's body and the bodies in it are.
BodyList(x) == Tagged(x.kids, {TagSequence}) \o <<x>>

Bodies(l, x) ==
  List(l) /\ (\E j \in 1 .. Len(l) : l[j] = x) /\ \A j \in 1 .. Len(l) : l[j] = x \/ NoOids(l[j].kids)

LEMMA SpkiQuiet == ASSUME NEW d PROVE NoOids(SpkiKids(d))
<1> DEFINE a == AlgNode(d)  b == Leaf(TagBits, ChipPoint)  kids == SpkiKids(d)
<1>1. a.tag = TagSequence /\ b.tag = TagBits /\ TagSequence # TagOid /\ TagBits # TagOid
  BY HoldsIs, LeafIs, TagBytes DEF AlgNode
<1>2. kids = <<a, b>>
  BY DEF SpkiKids
<1> HIDE DEF a, b, kids
<1>3. List(kids) /\ Len(kids) = 2 /\ kids[1] = a /\ kids[2] = b
  BY <1>2, TupleIs2
<1>4. DOMAIN kids = 1 .. 2
  BY <1>3, ListIs
<1>5. NoOids(kids)
  BY <1>1, <1>3, <1>4 DEF NoOids
<1> QED BY <1>5 DEF kids

LEMMA InfoQuiet ==
  ASSUME NEW d, IsDg14(d), NEW n, NEW kids, kids = Info(d, n).kids
  PROVE  List(kids) /\ \A i \in 1 .. Len(kids) : kids[i].tag = TagSequence => NoOids(kids[i].kids)
<1>1. CASE n = "key"
  <2> DEFINE c == d.keyId = NoKeyId
             a == Leaf(TagOid, "id-PK-ECDH")  b == PointNode(d)  x == Leaf(TagInteger, d.keyId)
  <2>1. kids = KeyNode(d).kids
    BY <1>1 DEF Info
  <2>2. TwoOrThree(kids, a, b, c, x)
    BY <2>1, KeyKids
  <2>3. a.tag = TagOid /\ x.tag = TagInteger
    BY LeafIs
  <2>4. b.tag = TagSequence => NoOids(b.kids)
    <3>1. CASE d.place = "SPKI"
      BY <3>1, PointNodeIs, SpkiQuiet
    <3>2. CASE d.place # "SPKI"
      BY <3>2, PointNodeIs, TagsApart
    <3> QED BY <3>1, <3>2
  <2> HIDE DEF a, b, c, x
  <2>5. List(kids)
    BY <2>2 DEF TwoOrThree
  <2>6. /\ kids[1] = a /\ kids[2] = b /\ (c \/ kids[3] = x)
        /\ DOMAIN kids = IF c THEN {1, 2} ELSE {1, 2, 3}
    BY <2>2 DEF TwoOrThree
  <2>7. \A i \in DOMAIN kids : i = 1 \/ i = 2 \/ (i = 3 /\ ~c)
    BY <2>6
  <2>8. \A i \in DOMAIN kids : kids[i].tag = TagSequence => NoOids(kids[i].kids)
    BY <2>3, <2>4, <2>6, <2>7, TagsApart
  <2>9. DOMAIN kids = 1 .. Len(kids)
    BY <2>5, ListIs
  <2> QED BY <2>5, <2>8, <2>9
<1>2. CASE n # "key"
  <2> DEFINE a == Leaf(TagOid, n)  b == Leaf(TagInteger, 1)  x == Leaf(TagInteger, 2)  u == <<a, b, x>>
  <2>1. kids = u
    <3>1. Info(d, n) = Holds(TagSequence, u)
      BY <1>2 DEF Info
    <3> HIDE DEF u
    <3> QED BY <3>1, HoldsIs
  <2>2. a.tag = TagOid /\ b.tag = TagInteger /\ x.tag = TagInteger
    BY LeafIs
  <2>3. DOMAIN u = 1 .. 3 /\ u[1] = a /\ u[2] = b /\ u[3] = x
    OBVIOUS
  <2>4. List(u)
    BY ListThree
  <2> HIDE DEF a, b, x, u
  <2>5. \A i \in DOMAIN u : u[i].tag # TagSequence
    BY <2>2, <2>3, TagsApart
  <2>6. DOMAIN u = 1 .. Len(u)
    BY <2>4, ListIs
  <2> QED BY <2>1, <2>4, <2>5, <2>6
<1> QED BY <1>1, <1>2

LEMMA BodiesOf ==
  ASSUME NEW d, IsDg14(d), NEW deep \in BOOLEAN, NEW n, NEW l, l = BodyList(Item(d, deep, n))
  PROVE  Bodies(l, Info(d, n))
<1> DEFINE x == Item(d, deep, n)  o == <<x>>  k == Info(d, n)  t == Tagged(x.kids, {TagSequence})
<1>1. l = t \o o
  BY DEF BodyList
<1>2. List(o) /\ Len(o) = 1 /\ o[1] = x
  BY ListOne
<1>3. k.tag = TagSequence
  BY ItemTag
<1>4. CASE deep
  <2> DEFINE u == <<k>>
  <2>1. x.kids = u
    BY <1>4, ItemTag
  <2>2. t = u
    BY <1>3, <2>1, TaggedOne
  <2>3. List(u) /\ Len(u) = 1 /\ u[1] = k
    BY ListOne
  <2>4. l = u \o o
    BY <1>1, <2>2
  <2> HIDE DEF x, o, k, t, u
  <2>5. Joins(l, u, 1, o, 1)
    BY <1>2, <2>3, <2>4, JoinIs
  <2>6. List(l) /\ Len(l) = 2 /\ l[1] = k /\ l[2] = x
    <3>1. List(l) /\ Len(l) = 1 + 1 /\ (\A i \in 1 .. 1 : l[i] = u[i]) /\ \A i \in 1 .. 1 : l[1 + i] = o[i]
      BY <2>5 DEF Joins
    <3> QED BY <1>2, <2>3, <3>1
  <2>7. NoOids(x.kids)
    <3>1. DOMAIN u = 1 .. 1
      BY <2>3, ListIs
    <3>2. TagSequence # TagOid
      BY TagsApart
    <3> QED BY <1>3, <2>1, <2>3, <3>1, <3>2 DEF NoOids
  <2>8. \A j \in 1 .. Len(l) : l[j] = k \/ NoOids(l[j].kids)
    BY <2>6, <2>7
  <2>9. 1 \in 1 .. Len(l)
    BY <2>6
  <2> QED BY <2>6, <2>8, <2>9 DEF Bodies, k
<1>5. CASE ~deep
  <2>1. x = k
    BY <1>5, ItemTag
  <2> DEFINE kids == k.kids
  <2>2. List(kids) /\ \A i \in 1 .. Len(kids) : kids[i].tag = TagSequence => NoOids(kids[i].kids)
    BY InfoQuiet
  <2>3. t = Tagged(kids, {TagSequence})
    BY <2>1
  <2> HIDE DEF x, o, k, t, kids
  <2>4. List(t)
    BY <2>2, <2>3, TaggedList
  <2>5. \A i \in 1 .. Len(t) : NoOids(t[i].kids)
    <3>1. \A i \in 1 .. Len(t) : \E j \in 1 .. Len(kids) : t[i] = kids[j] /\ kids[j].tag \in {TagSequence}
      BY <2>2, <2>3, TaggedIn
    <3> QED BY <2>2, <3>1
  <2> DEFINE m == Len(t)
  <2>6. m = Len(t)
    OBVIOUS
  <2> HIDE DEF m
  <2>7. Joins(l, t, m, o, 1)
    BY <1>1, <1>2, <2>4, <2>6, JoinIs
  <2>8. /\ List(l) /\ Len(l) = m + 1 /\ m \in Nat
        /\ (\A i \in 1 .. m : l[i] = t[i]) /\ \A i \in 1 .. 1 : l[m + i] = o[i]
    BY <2>7 DEF Joins
  <2>9. l[m + 1] = k
    BY <1>2, <2>1, <2>8
  <2>10. \A j \in 1 .. Len(l) : l[j] = k \/ NoOids(l[j].kids)
    <3> SUFFICES ASSUME NEW j \in 1 .. Len(l) PROVE l[j] = k \/ NoOids(l[j].kids)
      OBVIOUS
    <3>1. j = m + 1 \/ j \in 1 .. m
      BY <2>8
    <3> QED BY <2>5, <2>6, <2>8, <2>9, <3>1
  <2>11. m + 1 \in 1 .. Len(l)
    BY <2>8
  <2> QED BY <2>8, <2>9, <2>10, <2>11 DEF Bodies, k
<1> QED BY <1>4, <1>5

Elements(q) == UNION {{q[i][j] : j \in 1 .. Len(q[i])} : i \in 1 .. Len(q)}

LEMMA ElementsFrom == ASSUME NEW q PROVE \A x : x \in Elements(q) <=> From(x, q)
BY DEF Elements, From

LEMMA InfoSays ==
  ASSUME NEW d, IsDg14(d), NEW n \in SuiteOids \cup {"key", "other"}
  PROVE  /\ KeyOf(Info(d, n).kids) = IF n = "key" THEN ChipKey(d) ELSE NoKey
         /\ SuiteOf(Info(d, n).kids) = IF n \in SuiteOids THEN n ELSE None
         /\ n \in SuiteOids => n # None /\ n # "key"
         /\ ChipKey(d) # NoKey
<1>1. "key" \notin SuiteOids /\ None \notin SuiteOids
  BY DEF SuiteOids, None
<1>2. ChipKey(d).point = ChipPoint /\ NoKey.point = NoPoint
  BY DEF ChipKey, NoKey
<1>3. ChipKey(d) # NoKey
  BY <1>2, NoPointIs
<1>4. CASE n = "key"
  <2>1. Info(d, n) = KeyNode(d)
    BY <1>4 DEF Info
  <2> QED BY <1>1, <1>3, <1>4, <2>1, KeySuite
<1>5. CASE n # "key"
  <2>1. n \in SuiteOids \cup {"other"}
    BY <1>5
  <2> QED BY <1>1, <1>3, <1>5, <2>1, OtherSuite
<1> QED BY <1>4, <1>5

\* The bodies with a key, and with a suite.
KeysIn(q) == {x \in Elements(q) : KeyOf(x.kids) # NoKey}
SuitesIn(q) == {x \in Elements(q) : SuiteOf(x.kids) # None}

LEMMA ListHits ==
  ASSUME NEW d, IsDg14(d), NEW q, NEW i \in 1 .. Len(q), NEW n \in SuiteOids \cup {"key", "other"},
         Bodies(q[i], Info(d, n))
  PROVE  /\ HitIn(q[i], KeysIn(q)) <=> n = "key"
         /\ HitIn(q[i], SuitesIn(q)) <=> n \in SuiteOids
         /\ \A j \in 1 .. Len(q[i]) : q[i][j] \in KeysIn(q) => KeyOf(q[i][j].kids) = ChipKey(d)
         /\ \A j \in 1 .. Len(q[i]) : q[i][j] \in SuitesIn(q) => SuiteOf(q[i][j].kids) = n
<1> DEFINE k == Info(d, n)  l == q[i]
<1>1. /\ KeyOf(k.kids) = IF n = "key" THEN ChipKey(d) ELSE NoKey
      /\ SuiteOf(k.kids) = IF n \in SuiteOids THEN n ELSE None
      /\ n \in SuiteOids => n # None /\ n # "key"
      /\ ChipKey(d) # NoKey
  BY InfoSays
<1>2. \A j \in 1 .. Len(l) : l[j] \in Elements(q)
  BY DEF Elements
<1>3. (\E j \in 1 .. Len(l) : l[j] = k) /\ \A j \in 1 .. Len(l) : l[j] = k \/ NoOids(l[j].kids)
  BY DEF Bodies
<1>4. \A j \in 1 .. Len(l) : l[j] = k \/ (KeyOf(l[j].kids) = NoKey /\ SuiteOf(l[j].kids) = None)
  BY <1>3, NothingSaid
<1> HIDE DEF k, l
<1>5. \A j \in 1 .. Len(l) : l[j] \in KeysIn(q) <=> l[j] = k /\ n = "key"
  BY <1>1, <1>2, <1>4 DEF KeysIn
<1>6. \A j \in 1 .. Len(l) : l[j] \in SuitesIn(q) <=> l[j] = k /\ n \in SuiteOids
  BY <1>1, <1>2, <1>4 DEF SuitesIn
<1>7. HitIn(l, KeysIn(q)) <=> n = "key"
  BY <1>3, <1>5 DEF HitIn
<1>8. HitIn(l, SuitesIn(q)) <=> n \in SuiteOids
  BY <1>3, <1>6 DEF HitIn
<1>9. \A j \in 1 .. Len(l) : l[j] \in KeysIn(q) => KeyOf(l[j].kids) = ChipKey(d)
  BY <1>1, <1>5
<1>10. \A j \in 1 .. Len(l) : l[j] \in SuitesIn(q) => SuiteOf(l[j].kids) = n
  BY <1>1, <1>6
<1> QED BY <1>7, <1>8, <1>9, <1>10 DEF l

FileInfos(data) == Tagged(UnwrapInfos(IF data # <<>> /\ Head(data).tag = TagDg14 THEN Head(data).kids ELSE data), {TagSequence})
BodiesIn(data) == FlattenSeq([i \in DOMAIN FileInfos(data) |-> BodyList(FileInfos(data)[i])])

KeysAt(s) == {i \in 1 .. Len(s) : KeyOf(s[i].kids) # NoKey}
SuitesAt(s) == {i \in 1 .. Len(s) : SuiteOf(s[i].kids) # None}
Chosen(s) ==
  LET key == KeyOf(s[Min(KeysAt(s))].kids)
  IN  IF KeysAt(s) = {} THEN NoKey
      ELSE [key EXCEPT !.oid = IF SuitesAt(s) = {} THEN @ ELSE SuiteOf(s[Min(SuitesAt(s))].kids)]

LEMMA ParsedIs ==
  ASSUME NEW data, NEW s, s = BodiesIn(data), List(s)
  PROVE  ParseChipAuthData(data) = Chosen(s)
<1>1. DOMAIN s = 1 .. Len(s)
  BY ListIs
<1> QED BY <1>1 DEF ParseChipAuthData, BodiesIn, FileInfos, BodyList, Chosen, KeysAt, SuitesAt

LEMMA InfosRead ==
  ASSUME NEW d, IsDg14(d), OneKey(d.infos), ~(d.wrapper = "none" /\ Len(d.infos) = 1 /\ ~d.deep /\ d.place = "SPKI")
  PROVE  \E deep \in BOOLEAN : FileInfos(Dg14Of(d)) = Items(d, deep)
<1> DEFINE w == Wrapped(d)  x == Holds(TagDg14, w)  data == <<x>>
<1>1. Dg14Of(d) = data
  BY FileIs
<1>2. x.tag = TagDg14 /\ x.kids = w
  BY HoldsIs
<1> HIDE DEF x, w
<1>3. data # <<>> /\ Head(data) = x
  OBVIOUS
<1>4. FileInfos(Dg14Of(d)) = Tagged(UnwrapInfos(w), {TagSequence})
  BY <1>1, <1>2, <1>3 DEF FileInfos
<1>5. PICK deep \in BOOLEAN : UnwrapInfos(w) = Items(d, deep)
  BY Unwrapped14 DEF w
<1> DEFINE q == Items(d, deep)
<1>6. AreItems(q, d, deep)
  BY ItemsAre
<1>7. \A n : Item(d, deep, n).tag = TagSequence
  BY ItemTag
<1> HIDE DEF q
<1>8. \A i \in 1 .. Len(q) : q[i].tag \in {TagSequence}
  BY <1>6, <1>7 DEF AreItems
<1>9. List(q)
  BY <1>6 DEF AreItems
<1>10. Tagged(q, {TagSequence}) = q
  BY <1>8, <1>9, TaggedAll
<1> QED BY <1>4, <1>5, <1>10 DEF q

LEMMA KeyRead ==
  ASSUME NEW d, IsDg14(d), OneKey(d.infos), ~(d.wrapper = "none" /\ Len(d.infos) = 1 /\ ~d.deep /\ d.place = "SPKI"),
         NEW listed, listed = {i \in 1 .. Len(d.infos) : d.infos[i] \in SuiteOids}
  PROVE  ParseChipAuthData(Dg14Of(d)) =
           [ChipKey(d) EXCEPT !.oid = IF listed = {} THEN @ ELSE d.infos[Min(listed)]]
<1> DEFINE data == Dg14Of(d)  infos == FileInfos(data)  q == [i \in DOMAIN infos |-> BodyList(infos[i])]
           s == FlattenSeq(q)  m == Len(d.infos)
<1>1. PICK deep \in BOOLEAN : infos = Items(d, deep)
  BY InfosRead
<1>2. AreItems(infos, d, deep)
  BY <1>1, ItemsAre
<1>3. s = BodiesIn(data)
  BY DEF BodiesIn
<1>4. List(infos) /\ Len(infos) = m /\ DOMAIN infos = 1 .. m /\ m \in Nat
  <2> HIDE DEF data, infos, m
  <2>1. List(infos) /\ Len(infos) = m
    BY <1>2 DEF AreItems, m
  <2> QED BY <2>1, ListIs
<1>5. q = [i \in 1 .. m |-> q[i]] /\ \A i \in 1 .. m : q[i] = BodyList(infos[i])
  BY <1>4
<1>6. \A i \in 1 .. m : infos[i] = Item(d, deep, d.infos[i])
  BY <1>2 DEF AreItems
<1>7. ParseChipAuthData(data) = ParseChipAuthData(Dg14Of(d))
  OBVIOUS
<1> HIDE DEF data, infos, q, s
<1>8. \A i \in 1 .. m : d.infos[i] \in SuiteOids \cup {"key", "other"}
  BY DEF OneKey
<1>9. PICK ki \in 1 .. m : \A j \in 1 .. m : d.infos[j] = "key" <=> j = ki
  BY DEF OneKey
<1> HIDE DEF m
<1>10. \A i \in 1 .. m : Bodies(q[i], Info(d, d.infos[i]))
  <2> SUFFICES ASSUME NEW i \in 1 .. m PROVE Bodies(q[i], Info(d, d.infos[i]))
    OBVIOUS
  <2>1. q[i] = BodyList(Item(d, deep, d.infos[i]))
    BY <1>5, <1>6
  <2> QED BY <2>1, BodiesOf
<1>11. List(q) /\ Len(q) = m
  BY <1>4, <1>5, ListMade
<1>12. Lists1(q)
  <2>1. \A i \in 1 .. m : List(q[i])
    BY <1>10 DEF Bodies
  <2> QED BY <1>11, <2>1 DEF Lists1
<1>13. List(s)
  BY <1>12, FlattenList DEF s
<1> DEFINE HK == KeysIn(q)  HS == SuitesIn(q)
<1>14. \A i \in 1 .. m :
         /\ HitIn(q[i], HK) <=> d.infos[i] = "key"
         /\ HitIn(q[i], HS) <=> d.infos[i] \in SuiteOids
         /\ \A j \in 1 .. Len(q[i]) : q[i][j] \in HK => KeyOf(q[i][j].kids) = ChipKey(d)
         /\ \A j \in 1 .. Len(q[i]) : q[i][j] \in HS => SuiteOf(q[i][j].kids) = d.infos[i]
  <2> SUFFICES ASSUME NEW i \in 1 .. m
               PROVE  /\ HitIn(q[i], HK) <=> d.infos[i] = "key"
                      /\ HitIn(q[i], HS) <=> d.infos[i] \in SuiteOids
                      /\ \A j \in 1 .. Len(q[i]) : q[i][j] \in HK => KeyOf(q[i][j].kids) = ChipKey(d)
                      /\ \A j \in 1 .. Len(q[i]) : q[i][j] \in HS => SuiteOf(q[i][j].kids) = d.infos[i]
    BY Zenon
  <2> DEFINE n == d.infos[i]
  <2>1. n \in SuiteOids \cup {"key", "other"} /\ Bodies(q[i], Info(d, n))
    BY <1>8, <1>10
  <2>2. i \in 1 .. Len(q)
    BY <1>11
  <2> HIDE DEF n
  <2>3. /\ HitIn(q[i], HK) <=> n = "key"
        /\ HitIn(q[i], HS) <=> n \in SuiteOids
        /\ \A j \in 1 .. Len(q[i]) : q[i][j] \in HK => KeyOf(q[i][j].kids) = ChipKey(d)
        /\ \A j \in 1 .. Len(q[i]) : q[i][j] \in HS => SuiteOf(q[i][j].kids) = n
    BY <2>1, <2>2, ListHits
  <2> QED BY <2>3 DEF n
<1>15. \A k \in 1 .. Len(s) : s[k] \in Elements(q)
  BY <1>12, FlattenFrom, ElementsFrom DEF s
<1>16. Places(s, HK) = {k \in 1 .. Len(s) : KeyOf(s[k].kids) # NoKey}
  BY <1>15 DEF Places, KeysIn
<1>17. Places(s, HS) = {k \in 1 .. Len(s) : SuiteOf(s[k].kids) # None}
  BY <1>15 DEF Places, SuitesIn
<1> DEFINE keys == Places(s, HK)  suites == Places(s, HS)  key == KeyOf(s[Min(keys)].kids)
<1>18. ParseChipAuthData(data) =
         IF keys = {} THEN NoKey ELSE [key EXCEPT !.oid = IF suites = {} THEN @ ELSE SuiteOf(s[Min(suites)].kids)]
  <2>1. KeysAt(s) = keys /\ SuitesAt(s) = suites
    BY <1>16, <1>17 DEF KeysAt, SuitesAt
  <2>2. ParseChipAuthData(data) = Chosen(s)
    BY <1>3, <1>13, ParsedIs
  <2>3. key = KeyOf(s[Min(keys)].kids)
    OBVIOUS
  <2> HIDE DEF keys, suites, key
  <2> QED BY <2>1, <2>2, <2>3 DEF Chosen
<1>19. keys # {} /\ key = ChipKey(d)
  <2>1. HitIn(q[ki], HK) /\ \A i \in 1 .. ki - 1 : ~HitIn(q[i], HK)
    <3>1. \A i \in 1 .. ki - 1 : i \in 1 .. m /\ i # ki
      BY <1>4
    <3> HIDE DEF HK
    <3> QED BY <1>9, <1>14, <3>1
  <2>2. ki \in 1 .. Len(q)
    BY <1>11
  <2> HIDE DEF HK
  <2>3. keys # {} /\ \E j \in 1 .. Len(q[ki]) : q[ki][j] \in HK /\ s[Min(keys)] = q[ki][j]
    <3>1. FirstIn(q, HK, ki)
      BY <2>1, <2>2 DEF FirstIn
    <3>2. s = FlattenSeq(q)
      BY DEF s
    <3>3. TakenFrom(s, HK, q[ki])
      BY ONLY <1>12, <3>1, <3>2, FirstHit
    <3> QED BY ONLY <3>3 DEF TakenFrom, keys
  <2> HIDE DEF keys
  <2> QED BY <1>14, <2>3
<1>20. CASE listed = {}
  <2>1. \A i \in 1 .. Len(q) : ~HitIn(q[i], HS)
    BY <1>11, <1>14, <1>20 DEF m
  <2> HIDE DEF HS
  <2>2. suites = {}
    BY <1>12, <2>1, NoHit DEF s
  <2> HIDE DEF suites, keys, key
  <2> QED BY <1>18, <1>19, <1>20, <2>2 DEF data
<1>21. CASE listed # {}
  <2> DEFINE n == Min(listed)
  <2>1. listed \subseteq Nat /\ \A i : i \in listed <=> i \in 1 .. m /\ d.infos[i] \in SuiteOids
    BY <1>4 DEF m
  <2>2. n \in listed /\ \A y \in listed : n <= y
    BY <1>21, <2>1, MinOf
  <2> HIDE DEF n
  <2>3. n \in 1 .. m /\ d.infos[n] \in SuiteOids
    BY <2>1, <2>2
  <2>4. HitIn(q[n], HS)
    BY <1>14, <2>3
  <2>5. \A i \in 1 .. n - 1 : ~HitIn(q[i], HS)
    <3>1. \A i \in 1 .. n - 1 : i \in 1 .. m /\ i \notin listed
      BY <1>4, <2>2, <2>3
    <3>2. \A i \in 1 .. n - 1 : d.infos[i] \notin SuiteOids
      BY <2>1, <3>1
    <3> HIDE DEF HS
    <3> QED BY <1>14, <3>1, <3>2
  <2>6. n \in 1 .. Len(q)
    BY <1>11, <2>3
  <2> HIDE DEF HS
  <2>7. suites # {} /\ \E j \in 1 .. Len(q[n]) : q[n][j] \in HS /\ s[Min(suites)] = q[n][j]
    <3>1. FirstIn(q, HS, n)
      BY <2>4, <2>5, <2>6 DEF FirstIn
    <3>2. s = FlattenSeq(q)
      BY DEF s
    <3>3. TakenFrom(s, HS, q[n])
      BY ONLY <1>12, <3>1, <3>2, FirstHit
    <3> QED BY ONLY <3>3 DEF TakenFrom, suites
  <2>8. SuiteOf(s[Min(suites)].kids) = d.infos[n]
    <3> HIDE DEF suites
    <3> QED BY <1>14, <2>3, <2>7
  <2> HIDE DEF suites, keys, key
  <2> QED BY <1>18, <1>19, <1>21, <2>7, <2>8 DEF data, n
<1> QED BY <1>20, <1>21

LEMMA SetupIs ==
  ASSUME NEW d \in Dg14Cases
  PROVE  LET listed == {i \in DOMAIN d.infos : d.infos[i] \in SuiteOids}
         IN  \/ d.wrapper = "none" /\ Len(d.infos) = 1 /\ ~d.deep /\ d.place = "SPKI"
             \/ ChipAuthSetup(Dg14Of(d)) =
                  [key |-> "chip", reference |-> IF d.keyId = NoKeyId THEN 0 ELSE d.keyId,
                   curve |-> IF d.place = "SPKI" THEN CurveOf(d.param) ELSE DefaultCurve,
                   suite |-> IF listed = {} THEN "CA-CMAC-256" ELSE d.infos[Min(listed)]]
<1> DEFINE listed == {i \in DOMAIN d.infos : d.infos[i] \in SuiteOids}
           found == ParseChipAuthData(Dg14Of(d))
           oid == IF listed = {} THEN "id-PK-ECDH" ELSE d.infos[Min(listed)]
<1> SUFFICES ASSUME ~(d.wrapper = "none" /\ Len(d.infos) = 1 /\ ~d.deep /\ d.place = "SPKI")
             PROVE  ChipAuthSetup(Dg14Of(d)) =
                  [key |-> "chip", reference |-> IF d.keyId = NoKeyId THEN 0 ELSE d.keyId,
                   curve |-> IF d.place = "SPKI" THEN CurveOf(d.param) ELSE DefaultCurve,
                   suite |-> IF listed = {} THEN "CA-CMAC-256" ELSE d.infos[Min(listed)]]
  BY Zenon
<1>1. IsDg14(d) /\ OneKey(d.infos)
  BY Dg14Is
<1>2. DOMAIN d.infos = 1 .. Len(d.infos) /\ Len(d.infos) \in Nat
  BY <1>1, ListIs DEF OneKey
<1>3. listed = {i \in 1 .. Len(d.infos) : d.infos[i] \in SuiteOids}
  BY <1>2
<1> HIDE DEF found, listed
<1>4. found = [ChipKey(d) EXCEPT !.oid = IF listed = {} THEN @ ELSE d.infos[Min(listed)]]
  BY <1>1, <1>3, KeyRead DEF found
<1>5. /\ ChipKey(d).point = ChipPoint /\ ChipKey(d).keyId = d.keyId /\ ChipKey(d).oid = "id-PK-ECDH"
      /\ ChipKey(d).param = IF d.place = "SPKI" THEN d.param ELSE NoParam
  BY DEF ChipKey
<1>6. /\ found.point = ChipPoint /\ found.keyId = d.keyId /\ found.oid = oid
      /\ found.param = IF d.place = "SPKI" THEN d.param ELSE NoParam
  <2>1. found = [point |-> ChipPoint, keyId |-> d.keyId,
                 param |-> IF d.place = "SPKI" THEN d.param ELSE NoParam, oid |-> oid]
    BY <1>4 DEF ChipKey
  <2> HIDE DEF oid
  <2> QED BY <2>1
<1>7. ChipPoint.key = "chip"
  BY DEF ChipPoint
<1>8. ReferenceSent(d.keyId) = IF d.keyId = NoKeyId THEN 0 ELSE d.keyId
  <2>1. d.keyId \in {NoKeyId} \cup 0 .. 127
    BY <1>1 DEF IsDg14
  <2>2. NoKeyId \notin 0 .. 127
    BY DEF NoKeyId
  <2>3. CASE d.keyId = NoKeyId
    BY <2>3 DEF ReferenceSent, NoKeyId
  <2>4. CASE d.keyId \in 0 .. 127
    BY <2>2, <2>4 DEF ReferenceSent
  <2> QED BY <2>1, <2>3, <2>4
<1>9. CurveOf(NoParam) = DefaultCurve
  BY DEF CurveOf, Curves, NoParam
<1>10. SuiteFor(oid) = IF listed = {} THEN "CA-CMAC-256" ELSE d.infos[Min(listed)]
  <2>1. CASE listed = {}
    <3>1. "id-PK-ECDH" \notin SuiteOids
      BY DEF SuiteOids
    <3> QED BY <2>1, <3>1 DEF SuiteFor
  <2>2. CASE listed # {}
    <3>1. listed \subseteq Nat /\ \A i \in listed : d.infos[i] \in SuiteOids
      BY <1>2, <1>3
    <3>2. Min(listed) \in listed
      BY <2>2, <3>1, MinOf
    <3> QED BY <2>2, <3>1, <3>2 DEF SuiteFor
  <2> QED BY <2>1, <2>2
<1> HIDE DEF oid
<1>11. ChipAuthSetup(Dg14Of(d)) =
         [key |-> found.point.key, reference |-> ReferenceSent(found.keyId),
          curve |-> CurveOf(found.param), suite |-> SuiteFor(found.oid)]
  BY DEF ChipAuthSetup, found
<1>12. CurveOf(found.param) = IF d.place = "SPKI" THEN CurveOf(d.param) ELSE DefaultCurve
  <2>1. CASE d.place = "SPKI"
    BY <1>6, <2>1
  <2>2. CASE d.place # "SPKI"
    BY <1>6, <1>9, <2>2
  <2> QED BY <2>1, <2>2
<1>13. found.point.key = "chip" /\ ReferenceSent(found.keyId) = (IF d.keyId = NoKeyId THEN 0 ELSE d.keyId)
       /\ SuiteFor(found.oid) = IF listed = {} THEN "CA-CMAC-256" ELSE d.infos[Min(listed)]
  BY <1>6, <1>7, <1>8, <1>10
<1> QED BY <1>11, <1>12, <1>13

\* Chip Authentication runs with the document's own key and a suite it lists,
\* whatever is listed beside them (parse_chip_auth_data, chip_authentication).
THEOREM KeyAlwaysFound == Spec => []KeyFound
<1>1. call \in Calls => KeyFound
  <2> SUFFICES ASSUME call \in Calls, call.of = "parse_chip_auth_data" PROVE KeyFound
    BY DEF KeyFound
  <2>1. call.input \in Dg14Cases
    BY InputOf
  <2> QED BY <2>1, SetupIs DEF KeyFound
<1> QED BY <1>1, CallsMade, PTL

-----------------------------------------------------------------------------
(* EF.SOD.                                                                 *)

Ber(d, k) == IF d.ber THEN Append(k, EndMark) ELSE k

\* Four lists in a row.
InRow(s, a, b, c, e) == s = ((a \o b) \o c) \o e /\ List(a) /\ List(b) /\ List(c) /\ List(e)

LEMMA TaggedRow ==
  ASSUME NEW s, NEW a, NEW b, NEW c, NEW e, InRow(s, a, b, c, e), NEW T
  PROVE  Tagged(s, T) = ((Tagged(a, T) \o Tagged(b, T)) \o Tagged(c, T)) \o Tagged(e, T)
<1>1. List(a) /\ List(b) /\ List(c) /\ List(e) /\ s = ((a \o b) \o c) \o e
  BY DEF InRow
<1> DEFINE u == a \o b  v == u \o c
<1>2. List(u)
  BY <1>1, ListConcat
<1>3. Tagged(u, T) = Tagged(a, T) \o Tagged(b, T)
  BY <1>1, TaggedConcat
<1>4. s = v \o e
  BY <1>1
<1> HIDE DEF u
<1>5. List(v)
  BY <1>1, <1>2, ListConcat
<1>6. Tagged(v, T) = Tagged(u, T) \o Tagged(c, T)
  BY <1>1, <1>2, TaggedConcat
<1> HIDE DEF v
<1>7. Tagged(s, T) = Tagged(v, T) \o Tagged(e, T)
  BY <1>1, <1>4, <1>5, TaggedConcat
<1> QED BY <1>3, <1>6, <1>7

LEMMA RowList ==
  ASSUME NEW s, NEW a, NEW b, NEW c, NEW e, InRow(s, a, b, c, e)
  PROVE  List(s)
<1>1. List(a) /\ List(b) /\ List(c) /\ List(e) /\ s = ((a \o b) \o c) \o e
  BY DEF InRow
<1> DEFINE u == a \o b  v == u \o c
<1>2. List(u)
  BY <1>1, ListConcat
<1>3. s = v \o e
  BY <1>1
<1> HIDE DEF u
<1>4. List(v)
  BY <1>1, <1>2, ListConcat
<1> HIDE DEF v
<1> QED BY <1>1, <1>3, <1>4, ListConcat

\* A list of one object, as it is sifted.
LEMMA TaggedMaybe ==
  ASSUME NEW x, NEW s, s = <<x>>, NEW T
  PROVE  List(s) /\ (x.tag \in T => Tagged(s, T) = s) /\ (x.tag \notin T => Tagged(s, T) = <<>>)
<1>1. List(s)
  BY ListOne
<1> QED BY <1>1, TaggedOne

\* The end mark at the end of a list is not seen.
Starting(u, k) == List(u) /\ List(k) /\ Len(u) >= Len(k) /\ \A i \in 1 .. Len(k) : u[i] = k[i]

LEMMA BerIs ==
  ASSUME NEW d, NEW k, List(k), NEW u, u = Ber(d, k)
  PROVE  Starting(u, k)
<1>0. Len(k) \in Nat
  BY ListIs
<1>1. CASE d.ber
  <2>1. u = k \o <<EndMark>>
    BY <1>1, AppendIs DEF Ber
  <2> DEFINE m == Len(k)  e == EndMark
  <2>2. m = Len(k) /\ u = k \o <<e>>
    BY <2>1
  <2> HIDE DEF m, e
  <2>3. Added(u, k, m, e)
    BY <2>2, AddOne
  <2>4. List(u) /\ Len(u) = m + 1 /\ m \in Nat /\ \A i \in 1 .. m : u[i] = k[i]
    BY <2>3 DEF Added
  <2>5. Len(u) >= Len(k)
    BY <2>2, <2>4
  <2> QED BY <2>2, <2>4, <2>5 DEF Starting
<1>2. CASE ~d.ber
  <2>1. u = k
    BY <1>2 DEF Ber
  <2>2. Len(u) >= Len(k)
    BY <1>0, <2>1
  <2> QED BY <2>1, <2>2 DEF Starting
<1> QED BY <1>1, <1>2

LEMMA BerTagged ==
  ASSUME NEW d, NEW k, List(k), NEW T, EndMark.tag \notin T
  PROVE  Tagged(Ber(d, k), T) = Tagged(k, T)
<1>1. CASE d.ber
  <2> DEFINE o == <<EndMark>>
  <2>1. Ber(d, k) = k \o o
    BY <1>1, AppendIs DEF Ber
  <2>2. List(o)
    BY ListOne
  <2>3. Tagged(o, T) = <<>>
    BY TaggedOne
  <2> HIDE DEF o
  <2>4. Tagged(Ber(d, k), T) = Tagged(k, T) \o Tagged(o, T)
    BY <2>1, <2>2, TaggedConcat
  <2>5. List(Tagged(k, T))
    BY TaggedList
  <2> DEFINE t == Tagged(k, T)
  <2>6. t \o <<>> = t
    <3> HIDE DEF t
    <3> QED BY <2>5, ConcatNone DEF t
  <2> QED BY <2>3, <2>4, <2>6
<1>2. CASE ~d.ber
  BY <1>2 DEF Ber
<1> QED BY <1>1, <1>2

LEMMA EndTag ==
  /\ EndMark.tag # TagSequence /\ EndMark.tag # TagSet /\ EndMark.tag # TagInteger /\ EndMark.tag # TagOctets
  /\ EndMark.tag # TagOid /\ EndMark.tag # TagCtx0 /\ EndMark.tag # TagCtx1
BY TagBytes

LEMMA TagsDiffer ==
  /\ TagSequence \notin {TagSet, TagInteger, TagOctets, TagOid, TagCtx0, TagCtx1, TagSod}
  /\ TagSet \notin {TagInteger, TagOctets, TagOid, TagCtx0, TagCtx1}
  /\ TagInteger \notin {TagOctets, TagOid, TagCtx0, TagCtx1}
  /\ TagOctets \notin {TagOid, TagCtx0, TagCtx1}
  /\ TagOid \notin {TagCtx0, TagCtx1} /\ TagCtx0 # TagCtx1
<1>1. TagSod[1] = 119
  BY DEF TagSod
<1> QED BY <1>1, TagBytes

-----------------------------------------------------------------------------
(* The LDS object.                                                         *)

HashNode(g) == Holds(TagSequence, <<Leaf(TagInteger, g), Leaf(TagOctets, Hash(g))>>)

LEMMA HashNodeIs ==
  ASSUME NEW g
  PROVE  IsHash(HashNode(g)) /\ HashOf(HashNode(g)) = [num |-> g, hash |-> Hash(g)]
<1> DEFINE a == Leaf(TagInteger, g)  b == Leaf(TagOctets, Hash(g))  kids == <<a, b>>  u == <<a>>  v == <<b>>
           x == HashNode(g)
<1>1. x.tag = TagSequence /\ x.kids = kids
  <2> HIDE DEF kids
  <2>1. x = Holds(TagSequence, kids)
    BY DEF HashNode, kids
  <2> HIDE DEF x
  <2> QED BY <2>1, HoldsIs
<1>2. a.tag = TagInteger /\ a.val = g /\ b.tag = TagOctets /\ b.val = Hash(g)
  BY LeafIs
<1>3. kids = u \o v
  BY TupleTwo
<1>4. List(u) /\ List(v) /\ Len(u) = 1 /\ Len(v) = 1
  BY ListOne
<1>5. u[1] = a /\ v[1] = b
  OBVIOUS
<1>6. Tagged(u, {TagInteger}) = u /\ Tagged(v, {TagInteger}) = <<>> /\ Tagged(u, {TagOctets}) = <<>> /\ Tagged(v, {TagOctets}) = v
  BY <1>2, TaggedOne, TagsDiffer
<1> HIDE DEF a, b, kids, u, v, x
<1>7. Tagged(kids, {TagInteger}) = u /\ Tagged(kids, {TagOctets}) = v
  <2>1. \A T : Tagged(kids, T) = Tagged(u, T) \o Tagged(v, T)
    BY <1>3, <1>4, TaggedConcat
  <2> QED BY <1>4, <1>6, <2>1, ConcatNone
<1>8. u # <<>> /\ v # <<>>
  BY <1>4, ListEmpty
<1>9. IsHash(x)
  BY <1>1, <1>7, <1>8 DEF IsHash
<1>10. HashOf(x) = [num |-> g, hash |-> Hash(g)]
  BY <1>1, <1>2, <1>4, <1>5, <1>7 DEF HashOf, Last
<1> QED BY <1>9, <1>10 DEF x

LEMMA AlgIs ==
  ASSUME NEW oid
  PROVE  Alg(oid).tag = TagSequence /\ FirstValue(Alg(oid).kids, TagOid) = oid
<1> DEFINE a == Leaf(TagOid, oid)  u == <<a>>
<1>1. Alg(oid).tag = TagSequence /\ Alg(oid).kids = u
  BY HoldsIs DEF Alg
<1>2. a.tag = TagOid /\ a.val = oid
  BY LeafIs
<1>3. Tagged(u, {TagOid}) = u
  BY <1>2, TaggedOne
<1>4. u # <<>> /\ Head(u) = a
  OBVIOUS
<1> HIDE DEF u, a
<1> QED BY <1>1, <1>2, <1>3, <1>4 DEF FirstValue

LEMMA AlgNames ==
  AlgName(Alg("sha256")) = "SHA-256" /\ AlgName(Alg("sha512Rsa")) = "SHA-512"
<1>1. /\ "sha256" \in DOMAIN DigestNames /\ "sha512Rsa" \in DOMAIN DigestNames
      /\ DigestNames["sha256"] = "SHA-256" /\ DigestNames["sha512Rsa"] = "SHA-512"
  BY DEF DigestNames
<1> QED BY <1>1, AlgIs DEF AlgName

IsGroups(g) == List(g) /\ g # <<>> /\ \A i, j \in 1 .. Len(g) : g[i] = g[j] => i = j

LEMMA SodAssumed ==
  ASSUME NEW d \in SodCases
  PROVE  /\ d.file \in BOOLEAN /\ d.info \in BOOLEAN /\ d.ber \in BOOLEAN /\ d.certs \in BOOLEAN
         /\ d.crls \in BOOLEAN /\ d.unsigned \in BOOLEAN
         /\ d.signers \in Nat \ {0} /\ d.attrs \in Nat
         /\ IsGroups(d.groups)
         /\ d.place \in {"content", "attributes"} /\ (d.place = "attributes" => d.attrs > 0)
<1>1. /\ {d.file, d.info, d.ber, d.certs, d.crls, d.unsigned} \subseteq BOOLEAN
      /\ d.signers \in Nat \ {0} /\ d.attrs \in Nat
      /\ d.groups \in Seq(Nat) /\ d.groups # <<>> /\ IsInjective(d.groups)
      /\ d.place \in {"content", "attributes"} /\ (d.place = "attributes" => d.attrs > 0)
  BY SodAssumption
<1> DEFINE g == d.groups
<1>2. List(g)
  BY <1>1 DEF List
<1>3. DOMAIN g = 1 .. Len(g)
  BY <1>2, ListIs
<1>4. IsGroups(g)
  BY <1>1, <1>2, <1>3 DEF IsGroups, IsInjective
<1> QED BY <1>1, <1>4

Groups(d) == [i \in DOMAIN d.groups |-> HashNode(d.groups[i])]

LEMMA GroupsAre ==
  ASSUME NEW d, IsGroups(d.groups), NEW q, q = Groups(d)
  PROVE  List(q) /\ Len(q) = Len(d.groups) /\ \A i \in 1 .. Len(d.groups) : q[i] = HashNode(d.groups[i])
<1>1. DOMAIN d.groups = 1 .. Len(d.groups) /\ Len(d.groups) \in Nat
  BY ListIs DEF IsGroups
<1>2. q = [i \in 1 .. Len(d.groups) |-> q[i]] /\ \A i \in 1 .. Len(d.groups) : q[i] = HashNode(d.groups[i])
  BY <1>1 DEF Groups
<1>3. List(q) /\ Len(q) = Len(d.groups)
  BY <1>1, <1>2, ListMade
<1> QED BY <1>2, <1>3

Version == <<Leaf(<<19>>, "0108"), Leaf(<<19>>, "040000")>>
LdsKids(d) == <<Leaf(TagInteger, 1), Alg("sha256"), Holds(TagSequence, Groups(d)), Holds(TagSequence, Version)>>

LEMMA LdsIs == ASSUME NEW d PROVE LdsOf(d).tag = TagSequence /\ LdsOf(d).kids = LdsKids(d)
<1>1. LdsOf(d) = Holds(TagSequence, LdsKids(d))
  BY DEF LdsOf, LdsKids, Groups, Version, HashNode
<1> QED BY <1>1, HoldsIs

LEMMA VersionIs ==
  Picked(Version, {j \in DOMAIN Version : IsHash(Version[j])}) = <<>>
<1> DEFINE a == Leaf(<<19>>, "0108")  b == Leaf(<<19>>, "040000")  v == Version
<1>1. v = <<a, b>>
  BY DEF Version
<1>2. a.tag[1] = 19 /\ b.tag[1] = 19
  BY LeafIs
<1> HIDE DEF a, b, v
<1>3. List(v) /\ Len(v) = 2 /\ v[1] = a /\ v[2] = b
  BY <1>1, TupleIs2
<1>4. DOMAIN v = 1 .. 2
  BY <1>3, ListIs
<1>5. a.tag # TagSequence /\ b.tag # TagSequence
  BY <1>2, TagBytes
<1>6. \A j \in DOMAIN v : ~IsHash(v[j])
  BY <1>3, <1>4, <1>5 DEF IsHash
<1>7. {j \in DOMAIN v : IsHash(v[j])} = {}
  BY <1>6
<1> QED BY <1>7, PickedNone DEF v

LEMMA GroupsPicked ==
  ASSUME NEW d, IsGroups(d.groups), NEW q, q = Groups(d)
  PROVE  Picked(q, {j \in DOMAIN q : IsHash(q[j])}) = q
<1>1. List(q) /\ Len(q) = Len(d.groups) /\ \A i \in 1 .. Len(d.groups) : q[i] = HashNode(d.groups[i])
  BY GroupsAre
<1>2. DOMAIN q = 1 .. Len(q)
  BY <1>1, ListIs
<1>3. \A i \in DOMAIN q : IsHash(q[i])
  BY <1>1, <1>2, HashNodeIs
<1>4. PICK S : q \in Seq(S)
  BY <1>1 DEF List
<1> DEFINE P == {j \in DOMAIN q : IsHash(q[j])}
<1>5. P = DOMAIN q
  BY <1>3
<1> HIDE DEF P
<1>6. Picked(q, P) = q
  BY <1>4, <1>5, PickedAll
<1> QED BY <1>6 DEF P

\* The sequences of an LDS object, and what is read of each.
Sequences(object) == Tagged(Head(object).kids, {TagSequence})
Entries(s) == [i \in DOMAIN s |-> IF i = 1 THEN <<>> ELSE HashesOf(s[i].kids)]
Pairs(q) == [i \in DOMAIN q |-> HashOf(q[i])]
HashesIn(q) == HashTable(Pairs(q))

LEMMA SequencesIn ==
  ASSUME NEW d, NEW s, s = Sequences(<<LdsOf(d)>>)
  PROVE  /\ DOMAIN s = {1, 2, 3} /\ s[1] = Alg("sha256")
         /\ s[2].kids = Groups(d) /\ s[3].kids = Version
<1> DEFINE x == LdsOf(d)  a == Leaf(TagInteger, 1)  b == Alg("sha256")  c == Holds(TagSequence, Groups(d))
           e == Holds(TagSequence, Version)  kids == LdsKids(d)  u == <<a>>  v == <<b, c, e>>
<1>1. x.kids = kids
  BY LdsIs
<1>2. kids = <<a, b, c, e>>
  BY DEF LdsKids
<1>3. a.tag = TagInteger /\ b.tag = TagSequence /\ c.tag = TagSequence /\ e.tag = TagSequence
      /\ c.kids = Groups(d) /\ e.kids = Version
  BY LeafIs, HoldsIs, AlgIs
<1>4. Head(<<x>>) = x
  OBVIOUS
<1> HIDE DEF x, a, b, c, e, kids
<1>5. kids = u \o v
  BY <1>2, TupleFour
<1>6. List(u) /\ List(v) /\ Len(v) = 3
  BY ListOne, ListThree
<1>7. v[1] = b /\ v[2] = c /\ v[3] = e
  OBVIOUS
<1>8. Tagged(u, {TagSequence}) = <<>>
  BY <1>3, TaggedOne, TagsDiffer
<1> HIDE DEF u, v
<1>9. \A i \in 1 .. Len(v) : v[i].tag \in {TagSequence}
  <2>1. \A i \in 1 .. 3 : i = 1 \/ i = 2 \/ i = 3
    OBVIOUS
  <2> QED BY <1>3, <1>6, <1>7, <2>1
<1>10. Tagged(v, {TagSequence}) = v
  BY <1>6, <1>9, TaggedAll
<1>11. Tagged(kids, {TagSequence}) = v
  <2>1. Tagged(kids, {TagSequence}) = Tagged(u, {TagSequence}) \o Tagged(v, {TagSequence})
    BY <1>5, <1>6, TaggedConcat
  <2> QED BY <1>6, <1>8, <1>10, <2>1, ConcatNone
<1>12. s = v
  BY <1>1, <1>4, <1>11 DEF Sequences, x
<1>13. DOMAIN v = {1, 2, 3}
  <2>1. DOMAIN v = 1 .. 3
    BY <1>6, ListIs
  <2> QED BY <2>1
<1> QED BY <1>3, <1>7, <1>12, <1>13 DEF b

LEMMA EntriesIn ==
  ASSUME NEW d, IsGroups(d.groups), NEW s, s = Sequences(<<LdsOf(d)>>), NEW q, q = Groups(d)
  PROVE  FlattenSeq(Entries(s)) = q
<1> DEFINE n == <<>>  f == Entries(s)  t == Three(n, q, n)
<1>1. /\ DOMAIN s = {1, 2, 3} /\ s[1] = Alg("sha256") /\ s[2].kids = q /\ s[3].kids = Version
  BY SequencesIn
<1>2. HashesOf(q) = q
  BY GroupsPicked DEF HashesOf
<1>3. HashesOf(Version) = n
  BY VersionIs DEF HashesOf
<1>4. f[1] = n
  BY <1>1 DEF Entries
<1>5. f[2] = q
  BY <1>1, <1>2 DEF Entries
<1>6. f[3] = n
  BY <1>1, <1>3 DEF Entries
<1>7. f = [i \in 1 .. 3 |-> f[i]]
  <2>1. DOMAIN s = 1 .. 3
    BY <1>1
  <2> QED BY <2>1 DEF Entries
<1>8. List(n)
  BY ListEmpty
<1>9. List(q)
  BY GroupsAre
<1>10. t[1] = n /\ t[2] = q /\ t[3] = n
  BY DEF Three
<1>11. List(t) /\ Len(t) = 3
  BY ListThree DEF Three
<1> HIDE DEF n, f, t
<1>12. List(f) /\ Len(f) = 3
  BY <1>7, ListMade
<1>13. f = t
  <2>1. \A i \in 1 .. 3 : i = 1 \/ i = 2 \/ i = 3
    OBVIOUS
  <2>2. \A i \in 1 .. 3 : f[i] = t[i]
    BY <1>4, <1>5, <1>6, <1>10, <2>1
  <2> QED BY <1>11, <1>12, <2>2, SameList
<1>14. FlattenSeq(t) = (n \o q) \o n
  <2>1. List(n) /\ List(q)
    BY <1>8, <1>9
  <2>2. FlattenSeq(Three(n, q, n)) = (n \o q) \o n
    BY ONLY <2>1, FlattenThree
  <2> QED BY <2>2 DEF t
<1>15. (n \o q) \o n = q
  BY <1>9, ConcatNone DEF n
<1> QED BY <1>13, <1>14, <1>15 DEF f

LEMMA HashesAre ==
  ASSUME NEW d, IsGroups(d.groups), NEW q, q = Groups(d)
  PROVE  HashesIn(q) = [n \in ToSet(d.groups) |-> Hash(n)] /\ HashesIn(q) # <<>>
<1> DEFINE g == d.groups  m == Len(g)
<1>1. List(q) /\ Len(q) = m /\ \A i \in 1 .. m : q[i] = HashNode(g[i])
  BY GroupsAre
<1>2. DOMAIN q = 1 .. m
  BY <1>1, ListIs
<1>3. \A i \in 1 .. m : HashOf(q[i]) = [num |-> g[i], hash |-> Hash(g[i])]
  BY <1>1, HashNodeIs
<1>4. \A i \in 1 .. m : HashOf(q[i]).num = g[i] /\ HashOf(q[i]).hash = Hash(g[i])
  <2> SUFFICES ASSUME NEW i \in 1 .. m PROVE HashOf(q[i]).num = g[i] /\ HashOf(q[i]).hash = Hash(g[i])
    OBVIOUS
  <2> DEFINE h == HashOf(q[i])
  <2>1. h = [num |-> g[i], hash |-> Hash(g[i])]
    BY <1>3
  <2> HIDE DEF h
  <2>2. h.num = g[i] /\ h.hash = Hash(g[i])
    BY <2>1
  <2> QED BY <2>2 DEF h
<1>5. List(g) /\ m \in Nat /\ m # 0 /\ \A i, j \in 1 .. m : g[i] = g[j] => i = j
  <2>1. List(g) /\ g # <<>> /\ \A i, j \in 1 .. m : g[i] = g[j] => i = j
    BY DEF IsGroups
  <2> HIDE DEF g
  <2>2. m \in Nat
    BY <2>1, ListIs
  <2>3. m # 0
    BY <2>1, ListEmpty
  <2> QED BY <2>1, <2>2, <2>3
<1>6. \A n : n \in ToSet(g) <=> \E i \in 1 .. m : g[i] = n
  BY <1>5, ToSetIs
<1> HIDE DEF g, m
<1> DEFINE p == Pairs(q)  D == {p[i].num : i \in DOMAIN p}
<1>p. DOMAIN p = 1 .. m /\ \A i \in 1 .. m : p[i].num = g[i] /\ p[i].hash = Hash(g[i])
  <2>1. DOMAIN p = 1 .. m /\ \A i \in 1 .. m : p[i] = HashOf(q[i])
    BY <1>2 DEF Pairs
  <2> HIDE DEF p
  <2> QED BY <1>4, <2>1
<1>q. HashesIn(q) = [n \in D |-> p[Max({i \in DOMAIN p : p[i].num = n})].hash]
  BY DEF HashesIn, HashTable
<1> HIDE DEF p
<1>7. D = ToSet(g)
  <2>1. \A n : n \in D <=> \E i \in 1 .. m : g[i] = n
    BY <1>p
  <2> HIDE DEF D
  <2> QED BY <1>6, <2>1
<1>8. \A n \in D : p[Max({i \in DOMAIN p : p[i].num = n})].hash = Hash(n)
  <2> SUFFICES ASSUME NEW n \in D PROVE p[Max({i \in DOMAIN p : p[i].num = n})].hash = Hash(n)
    OBVIOUS
  <2>1. PICK k \in 1 .. m : g[k] = n
    BY <1>p
  <2>2. {i \in DOMAIN p : p[i].num = n} = {k}
    BY <1>p, <1>5, <2>1
  <2>3. Max({k}) = k
    <3>1. k \in Int
      BY <1>5
    <3> QED BY <3>1, MaxOne
  <2> QED BY <1>p, <2>1, <2>2, <2>3
<1>9. HashesIn(q) = [n \in D |-> Hash(n)]
  BY <1>8, <1>q
<1>10. HashesIn(q) # <<>>
  <2>1. g[1] \in D
    BY <1>p, <1>5
  <2> HIDE DEF D
  <2>2. DOMAIN HashesIn(q) # {}
    BY <1>9, <2>1
  <2> QED BY <2>2
<1> HIDE DEF D
<1> QED BY <1>7, <1>9, <1>10 DEF g

LEMMA LdsRead ==
  ASSUME NEW d, IsGroups(d.groups), NEW der, NEW x, x = LdsOf(d),
         der = <<x>> \/ (der # <<>> /\ Head(der).tag = TagOctets /\ Head(der).kids = <<x>>)
  PROVE  LdsObject(der) = [digest |-> "SHA-256", hashes |-> [n \in ToSet(d.groups) |-> Hash(n)]]
         /\ LdsObject(der) # Refused /\ [n \in ToSet(d.groups) |-> Hash(n)] # <<>>
<1> DEFINE object == IF der # <<>> /\ Head(der).tag = TagOctets THEN Head(der).kids ELSE der
           o == <<x>>  s == Sequences(o)  q == Groups(d)
<1>1. x.tag = TagSequence
  BY LdsIs
<1>2. o # <<>> /\ Head(o) = x
  OBVIOUS
<1>3. object = o
  BY <1>1, <1>2, TagsDiffer
<1>4. DOMAIN s = {1, 2, 3} /\ s[1] = Alg("sha256")
  BY SequencesIn
<1>5. FlattenSeq(Entries(s)) = q
  BY EntriesIn
<1>6. HashesIn(q) = [n \in ToSet(d.groups) |-> Hash(n)] /\ HashesIn(q) # <<>>
  BY HashesAre
<1>7. Sequences(object) = s
  BY <1>3
<1>8. LdsObject(der) =
        IF object = <<>> \/ Head(object).tag # TagSequence THEN Refused ELSE LdsFrom(Sequences(object))
  BY DEF LdsObject, Sequences
<1>8a. LdsFrom(s) = [digest |-> IF s = <<>> THEN None ELSE AlgName(Head(s)),
                     hashes |-> HashesIn(FlattenSeq(Entries(s)))]
  <2> HIDE DEF s
  <2> QED BY DEF LdsFrom, HashesIn, Pairs, Entries
<1> HIDE DEF object, s, o, q
<1>9. s # <<>> /\ Head(s) = Alg("sha256")
  <2>1. s # <<>>
    BY <1>4
  <2>2. Head(s) = s[1]
    OBVIOUS
  <2> QED BY <1>4, <2>1, <2>2
<1>10. LdsObject(der) = [digest |-> "SHA-256", hashes |-> HashesIn(q)]
  BY <1>1, <1>2, <1>3, <1>5, <1>7, <1>8, <1>8a, <1>9, AlgNames
<1>11. LdsObject(der).digest = "SHA-256" /\ Refused.digest = "raised"
  BY <1>10 DEF Refused
<1> QED BY <1>6, <1>10, <1>11

-----------------------------------------------------------------------------
(* The signer.                                                             *)

SignerStart == <<Leaf(TagInteger, 1), Holds(TagSequence, <<Leaf(TagInteger, 9)>>), Alg("sha1")>>
AttrsNode(d) == [Holds(TagCtx0, AttrsOf(d)) EXCEPT !.val = d.attrs]
SignerAttrs(d) == IF d.attrs > 0 THEN <<AttrsNode(d)>> ELSE <<>>
SignerSigned(sig) == <<Alg("sha512Rsa"), Leaf(TagOctets, sig)>>
SignerRest(d) == IF d.unsigned THEN <<Holds(TagCtx1, <<Leaf(TagOid, "other")>>)>> ELSE <<>>
SignerKids(d, sig) == ((SignerStart \o SignerAttrs(d)) \o SignerSigned(sig)) \o SignerRest(d)

LEMMA SignerNodeIs ==
  ASSUME NEW d, NEW sig
  PROVE  SignerNode(d, sig).tag = TagSequence /\ SignerNode(d, sig).kids = SignerKids(d, sig)
<1>1. SignerNode(d, sig) = Holds(TagSequence, SignerKids(d, sig))
  BY DEF SignerNode, SignerKids, SignerStart, SignerAttrs, SignerSigned, SignerRest, AttrsNode
<1> QED BY <1>1, HoldsIs

LEMMA AttrsNodeIs ==
  ASSUME NEW d
  PROVE  AttrsNode(d).tag = TagCtx0 /\ AttrsNode(d).val = d.attrs /\ AttrsNode(d).kids = AttrsOf(d)
<1> DEFINE k == AttrsOf(d)
<1> DEFINE h == Holds(TagCtx0, k)  v == d.attrs
<1>1. h = [tag |-> TagCtx0, val |-> "", kids |-> k]
  BY DEF Holds
<1>2. AttrsNode(d) = [h EXCEPT !.val = v]
  BY DEF AttrsNode
<1> HIDE DEF k, h, v
<1>3. [h EXCEPT !.val = v].tag = TagCtx0 /\ [h EXCEPT !.val = v].val = v /\ [h EXCEPT !.val = v].kids = k
  BY <1>1
<1> QED BY <1>2, <1>3 DEF k, v

LEMMA StartIs ==
  List(SignerStart) /\ Len(SignerStart) = 3 /\ Tagged(SignerStart, {TagCtx0}) = <<>>
<1> DEFINE a == Leaf(TagInteger, 1)  b == Holds(TagSequence, <<Leaf(TagInteger, 9)>>)  c == Alg("sha1")  s == <<a, b, c>>
<1>1. a.tag = TagInteger /\ b.tag = TagSequence /\ c.tag = TagSequence
  BY LeafIs, HoldsIs, AlgIs
<1>2. SignerStart = s
  BY DEF SignerStart
<1>3. List(s) /\ Len(s) = 3
  BY ListThree
<1>4. s[1] = a /\ s[2] = b /\ s[3] = c
  OBVIOUS
<1> HIDE DEF a, b, c, s
<1>5. \A i \in 1 .. Len(s) : s[i].tag \notin {TagCtx0}
  <2>1. \A i \in 1 .. 3 : i = 1 \/ i = 2 \/ i = 3
    OBVIOUS
  <2> QED BY <1>1, <1>3, <1>4, <2>1, TagsDiffer
<1>6. Tagged(s, {TagCtx0}) = <<>>
  BY <1>3, <1>5, TaggedNone
<1> QED BY <1>2, <1>3, <1>6

LEMMA SignedIs ==
  ASSUME NEW sig, NEW s, s = SignerSigned(sig)
  PROVE  /\ List(s) /\ Len(s) = 2 /\ s[1] = Alg("sha512Rsa") /\ s[2].tag = TagOctets /\ s[2].val = sig
         /\ Tagged(s, {TagCtx0}) = <<>>
<1> DEFINE a == Alg("sha512Rsa")  b == Leaf(TagOctets, sig)
<1>1. a.tag = TagSequence /\ b.tag = TagOctets /\ b.val = sig
  BY LeafIs, AlgIs
<1>2. s = <<a, b>>
  BY DEF SignerSigned
<1> HIDE DEF a, b
<1>3. List(s) /\ Len(s) = 2 /\ s[1] = a /\ s[2] = b
  BY <1>2, TupleIs2
<1>4. \A i \in 1 .. Len(s) : s[i].tag \notin {TagCtx0}
  <2>1. \A i \in 1 .. 2 : i = 1 \/ i = 2
    OBVIOUS
  <2> QED BY <1>1, <1>3, <2>1, TagsDiffer
<1>5. Tagged(s, {TagCtx0}) = <<>>
  BY <1>3, <1>4, TaggedNone
<1> QED BY <1>1, <1>3, <1>5 DEF a

LEMMA RestIs ==
  ASSUME NEW d
  PROVE  List(SignerRest(d)) /\ Tagged(SignerRest(d), {TagCtx0}) = <<>>
<1> DEFINE x == Holds(TagCtx1, <<Leaf(TagOid, "other")>>)  s == <<x>>
<1>1. x.tag = TagCtx1
  BY HoldsIs
<1> HIDE DEF x
<1>2. List(s) /\ Tagged(s, {TagCtx0}) = <<>>
  BY <1>1, TaggedMaybe, TagsDiffer
<1>3. CASE d.unsigned
  <2>1. SignerRest(d) = s
    BY <1>3 DEF SignerRest, x
  <2> QED BY <1>2, <2>1
<1>4. CASE ~d.unsigned
  <2>1. SignerRest(d) = <<>>
    BY <1>4 DEF SignerRest
  <2> QED BY <2>1, ListEmpty, TaggedEmpty
<1> QED BY <1>3, <1>4

LEMMA SignerAttrsAre ==
  ASSUME NEW d, d.attrs \in Nat, NEW a, a = SignerAttrs(d)
  PROVE  /\ List(a) /\ Tagged(a, {TagCtx0}) = a
         /\ (d.attrs > 0 => Len(a) = 1 /\ a[1] = AttrsNode(d)) /\ (~(d.attrs > 0) => a = <<>>)
<1> DEFINE x == AttrsNode(d)  s == <<x>>
<1>1. x.tag = TagCtx0
  BY AttrsNodeIs
<1> HIDE DEF x
<1>2. Tagged(s, {TagCtx0}) = s
  BY <1>1, TaggedMaybe
<1>3. List(s) /\ Len(s) = 1
  BY ListOne
<1>4. s[1] = x
  OBVIOUS
<1> HIDE DEF s
<1>5. CASE d.attrs > 0
  <2>1. a = s
    BY <1>5 DEF SignerAttrs, x, s
  <2> QED BY <1>2, <1>3, <1>4, <1>5, <2>1 DEF x
<1>6. CASE ~(d.attrs > 0)
  <2>1. a = <<>>
    BY <1>6 DEF SignerAttrs
  <2> QED BY <1>6, <2>1, ListEmpty, TaggedEmpty
<1> QED BY <1>5, <1>6

\* The signature and its algorithm where the attributes leave them.
LEMMA SignerRead ==
  ASSUME NEW d, d.attrs \in Nat, NEW sig, NEW kids, kids = SignerKids(d, sig)
  PROVE  LET found == SignerOf(kids)
         IN  /\ found.sigAlg = "SHA-512" /\ found.signature = sig
             /\ found.attrs = IF d.attrs > 0 THEN Retagged(AttrsNode(d)) ELSE NoAttrs
<1> DEFINE p == SignerStart  a == SignerAttrs(d)  q == SignerSigned(sig)  r == SignerRest(d)  g == p \o a  h == g \o q
<1>1. List(p) /\ Len(p) = 3 /\ Tagged(p, {TagCtx0}) = <<>>
  BY StartIs
<1>2. /\ List(a) /\ Tagged(a, {TagCtx0}) = a
      /\ (d.attrs > 0 => Len(a) = 1 /\ a[1] = AttrsNode(d)) /\ (~(d.attrs > 0) => a = <<>>)
  BY SignerAttrsAre
<1>3. List(q) /\ Len(q) = 2 /\ q[1] = Alg("sha512Rsa") /\ q[2].tag = TagOctets /\ q[2].val = sig /\ Tagged(q, {TagCtx0}) = <<>>
  BY SignedIs
<1>4. List(r) /\ Tagged(r, {TagCtx0}) = <<>>
  BY RestIs
<1>5. kids = h \o r
  BY DEF SignerKids
<1> DEFINE m == Len(a)  l == Len(g)  k == Len(h)  n == Len(r)
<1>6. m = Len(a) /\ l = Len(g) /\ k = Len(h) /\ n = Len(r) /\ g = p \o a /\ h = g \o q
  OBVIOUS
<1> HIDE DEF p, a, q, r, g, h, m, l, k, n
<1>7. Joins(g, p, 3, a, m)
  BY <1>1, <1>2, <1>6, JoinIs
<1>8. List(g) /\ l = 3 + m /\ m \in Nat
  BY <1>6, <1>7 DEF Joins
<1>9. Joins(h, g, l, q, 2)
  BY <1>3, <1>6, <1>8, JoinIs
<1>10. List(h) /\ k = l + 2 /\ \A i \in 1 .. 2 : h[l + i] = q[i]
  BY <1>6, <1>9 DEF Joins
<1>11. Joins(kids, h, k, r, n)
  BY <1>4, <1>5, <1>6, <1>10, JoinIs
<1>12. List(kids) /\ Len(kids) = k + n /\ n \in Nat /\ \A i \in 1 .. k : kids[i] = h[i]
  BY <1>11 DEF Joins
<1>13. kids[l + 1] = Alg("sha512Rsa") /\ kids[l + 2] = q[2] /\ l + 2 <= Len(kids) /\ l + 1 <= Len(kids)
  <2>1. l + 1 \in 1 .. k /\ l + 2 \in 1 .. k
    BY <1>8, <1>10
  <2>2. h[l + 1] = q[1] /\ h[l + 2] = q[2]
    BY <1>10
  <2> QED BY <1>3, <1>8, <1>10, <1>12, <2>1, <2>2
<1>14. Tagged(kids, {TagCtx0}) = a
  <2>1. InRow(kids, p, a, q, r)
    BY <1>1, <1>2, <1>3, <1>4, <1>5, <1>6 DEF InRow
  <2>2. Tagged(kids, {TagCtx0})
        = ((Tagged(p, {TagCtx0}) \o Tagged(a, {TagCtx0})) \o Tagged(q, {TagCtx0})) \o Tagged(r, {TagCtx0})
    BY <2>1, TaggedRow
  <2> QED BY <1>1, <1>2, <1>3, <1>4, <2>2, ConcatNone
<1> DEFINE w == IF Tagged(kids, {TagCtx0}) = <<>> THEN 4 ELSE 5
<1>15. w = l + 1
  <2>1. CASE d.attrs > 0
    <3>1. a # <<>> /\ m = 1
      BY <1>2, <1>6, <2>1, ListEmpty
    <3> QED BY <1>8, <1>14, <3>1
  <2>2. CASE ~(d.attrs > 0)
    <3>1. a = <<>> /\ m = 0
      BY <1>2, <1>6, <2>2, ListEmpty
    <3> QED BY <1>8, <1>14, <3>1
  <2> QED BY <2>1, <2>2
<1> DEFINE found == Signer(kids, w)
<1>16. SignerOf(kids) = found
  BY DEF SignerOf
<1> HIDE DEF w
<1>17. found.sigAlg = "SHA-512"
  <2>1. w <= Len(kids) /\ kids[w] = Alg("sha512Rsa")
    BY <1>13, <1>15
  <2>2. Alg("sha512Rsa").tag = TagSequence
    BY AlgIs
  <2> QED BY <2>1, <2>2, AlgNames DEF Signer
<1>18. found.signature = sig
  <2>1. w + 1 <= Len(kids) /\ kids[w + 1] = q[2]
    BY <1>8, <1>13, <1>15
  <2> QED BY <1>3, <2>1 DEF Signer
<1>19. found.attrs = IF d.attrs > 0 THEN Retagged(AttrsNode(d)) ELSE NoAttrs
  <2>1. found.attrs = IF a = <<>> THEN NoAttrs ELSE Retagged(Last(a))
    BY <1>14 DEF Signer
  <2>2. CASE d.attrs > 0
    <3>1. a # <<>> /\ Last(a) = AttrsNode(d)
      BY <1>2, <2>2, ListEmpty DEF Last
    <3> QED BY <2>1, <2>2, <3>1
  <2>3. CASE ~(d.attrs > 0)
    BY <1>2, <2>1, <2>3
  <2> QED BY <2>2, <2>3
<1> HIDE DEF found
<1> QED BY <1>16, <1>17, <1>18, <1>19

\* Attributes shorter than 128 bytes keep their contents, and so do those whose
\* last length byte is 128.
LEMMA AttrsRetagged ==
  ASSUME NEW d, d.attrs \in Nat
  PROVE  LastByteServes(d.attrs) => Retagged(AttrsNode(d)) = Holds(TagSet, AttrsOf(d))
<1> DEFINE n == d.attrs  x == AttrsNode(d)
<1>1. x.val = n /\ x.kids = AttrsOf(d)
  BY AttrsNodeIs
<1> HIDE DEF x
<1>2. n < 128 => Len(LengthBytes(n)) = 1
  BY DEF LengthBytes
<1>3. ~(n < 128) /\ n % 256 = 128 => Last(LengthBytes(n)) = 128
  <2>1. CASE n \in 128 .. 255 /\ n % 256 = 128
    <3>1. LengthBytes(n) = <<129, n>>
      BY <2>1 DEF LengthBytes
    <3>2. n = 128
      BY <2>1
    <3> QED BY <3>1, <3>2 DEF Last
  <2>2. CASE n > 255 /\ n % 256 = 128
    <3>1. LengthBytes(n) = <<130, (n \div 256) % 256, n % 256>>
      BY <2>2 DEF LengthBytes
    <3> QED BY <2>2, <3>1 DEF Last
  <2> QED BY <2>1, <2>2
<1>4. n < 128 \/ n % 256 = 128 => Retagged(x) = Holds(TagSet, AttrsOf(d))
  BY <1>1, <1>2, <1>3 DEF Retagged
<1> QED BY <1>4 DEF x, LastByteServes

-----------------------------------------------------------------------------
(* The SignedData in its wrappers.                                         *)

ContentField(d) == IF d.place = "content" THEN <<Holds(TagCtx0, Ber(d, <<Holds(TagOctets, <<LdsOf(d)>>)>>))>> ELSE <<>>
Encap(d) == Holds(TagSequence, Ber(d, <<Leaf(TagOid, LdsSecurityObject)>> \o ContentField(d)))
DigestSet(d) == Holds(TagSet, Ber(d, <<Alg("sha1")>>))
CertOne == [Holds(TagSequence, <<Leaf(TagInteger, 1)>>) EXCEPT !.val = "signer"]
CertTwo == [Holds(TagSequence, <<Leaf(TagInteger, 2)>>) EXCEPT !.val = "other"]
CertField(d) == IF d.certs THEN <<Holds(TagCtx0, Ber(d, <<CertOne, CertTwo>>))>> ELSE <<>>
CrlField(d) == IF d.crls THEN <<Holds(TagCtx1, Ber(d, <<Leaf(TagInteger, 1)>>))>> ELSE <<>>
Signers(d) == [i \in 1 .. d.signers |-> SignerNode(d, IF i = 1 THEN "first" ELSE "other")]
SignerSet(d) == Holds(TagSet, Ber(d, Signers(d)))
FieldStart(d) == <<Leaf(TagInteger, 3), DigestSet(d), Encap(d)>>
Fields(d) == ((FieldStart(d) \o CertField(d)) \o CrlField(d)) \o <<SignerSet(d)>>
Signed(d) == Holds(TagSequence, Ber(d, Fields(d)))
InfoPair(d) == <<Leaf(TagOid, "signedData"), Holds(TagCtx0, Ber(d, <<Signed(d)>>))>>
Object(d) == IF d.info THEN Holds(TagSequence, Ber(d, InfoPair(d))) ELSE Signed(d)

LEMMA SodIs ==
  ASSUME NEW d
  PROVE  SodOf(d) = IF d.file THEN <<Holds(TagSod, <<Object(d)>>)>> ELSE <<Object(d)>>
BY DEF SodOf, Object, InfoPair, Signed, Fields, FieldStart, SignerSet, Signers, CrlField, CertField, CertOne, CertTwo,
       DigestSet, Encap, ContentField, Ber

Maybe(x, T) == IF x.tag \in T THEN <<x>> ELSE <<>>

LEMMA MaybeIs == ASSUME NEW x, NEW T PROVE List(Maybe(x, T)) /\ Tagged(<<x>>, T) = Maybe(x, T)
BY ListOne, ListEmpty, TaggedOne DEF Maybe

LEMMA TaggedThree ==
  ASSUME NEW a, NEW b, NEW c, NEW T
  PROVE  Tagged(Three(a, b, c), T) = Maybe(a, T) \o (Maybe(b, T) \o Maybe(c, T))
<1> DEFINE p == <<a>>  q == <<b>>  r == <<c>>  u == <<b, c>>  s == Three(a, b, c)
<1>1. s = p \o u /\ u = q \o r
  BY TupleThree, TupleTwo DEF Three
<1>2. List(p) /\ List(q) /\ List(r) /\ List(u)
  BY ListOne, ListTwo
<1>3. Tagged(p, T) = Maybe(a, T) /\ Tagged(q, T) = Maybe(b, T) /\ Tagged(r, T) = Maybe(c, T)
  BY MaybeIs
<1> HIDE DEF p, q, r, u, s
<1>4. Tagged(s, T) = Tagged(p, T) \o Tagged(u, T)
  BY <1>1, <1>2, TaggedConcat
<1>5. Tagged(u, T) = Tagged(q, T) \o Tagged(r, T)
  BY <1>1, <1>2, TaggedConcat
<1> QED BY <1>3, <1>4, <1>5 DEF s

LEMMA ObjectIs ==
  ASSUME NEW d
  PROVE  Object(d).tag = TagSequence /\ Object(d).kids = (IF d.info THEN Ber(d, InfoPair(d)) ELSE Ber(d, Fields(d)))
<1>1. CASE d.info
  <2>1. Object(d) = Holds(TagSequence, Ber(d, InfoPair(d)))
    BY <1>1 DEF Object
  <2> QED BY <1>1, <2>1, HoldsIs
<1>2. CASE ~d.info
  <2>1. Object(d) = Holds(TagSequence, Ber(d, Fields(d)))
    BY <1>2 DEF Object, Signed
  <2> QED BY <1>2, <2>1, HoldsIs
<1> QED BY <1>1, <1>2

LEMMA Unwraps == ASSUME NEW x, NEW t PROVE Unwrapped(<<x>>, t) = IF x.tag = t THEN x.kids ELSE <<x>>
<1> DEFINE u == <<x>>
<1>1. u # <<>> /\ Head(u) = x
  OBVIOUS
<1> HIDE DEF u
<1> QED BY <1>1 DEF Unwrapped, u

LEMMA OuterIs ==
  ASSUME NEW d
  PROVE  Unwrapped(Unwrapped(SodOf(d), TagSod), TagSequence) = Object(d).kids
<1> DEFINE x == Object(d)  o == <<x>>  w == Holds(TagSod, o)  v == <<w>>
<1>1. x.tag = TagSequence
  BY ObjectIs
<1>2. TagSequence # TagSod
  BY TagsDiffer
<1>3. SodOf(d) = IF d.file THEN v ELSE o
  BY SodIs
<1>4. w.tag = TagSod /\ w.kids = o
  <2> HIDE DEF o
  <2> QED BY HoldsIs
<1> HIDE DEF x, w
<1>5. Unwrapped(v, TagSod) = o
  BY <1>4, Unwraps
<1>6. Unwrapped(o, TagSod) = o /\ Unwrapped(o, TagSequence) = x.kids
  BY <1>1, <1>2, Unwraps
<1> HIDE DEF o, v
<1>7. Unwrapped(SodOf(d), TagSod) = o
  <2>1. CASE d.file
    BY <1>3, <1>5, <2>1
  <2>2. CASE ~d.file
    BY <1>3, <1>6, <2>2
  <2> QED BY <2>1, <2>2
<1> QED BY <1>6, <1>7 DEF x

LEMMA FieldsRow ==
  ASSUME NEW d, NEW f, f = Fields(d), NEW g, g = <<SignerSet(d)>>
  PROVE  InRow(f, FieldStart(d), CertField(d), CrlField(d), g)
<1>1. List(g)
  BY ListOne
<1>2. List(FieldStart(d))
  BY ListThree DEF FieldStart
<1>3. List(CertField(d))
  <2>1. CASE d.certs
    BY <2>1, ListOne DEF CertField
  <2>2. CASE ~d.certs
    BY <2>2, ListEmpty DEF CertField
  <2> QED BY <2>1, <2>2
<1>4. List(CrlField(d))
  <2>1. CASE d.crls
    BY <2>1, ListOne DEF CrlField
  <2>2. CASE ~d.crls
    BY <2>2, ListEmpty DEF CrlField
  <2> QED BY <2>1, <2>2
<1>5. f = ((FieldStart(d) \o CertField(d)) \o CrlField(d)) \o g
  BY DEF Fields
<1> QED BY <1>1, <1>2, <1>3, <1>4, <1>5 DEF InRow

LEMMA FieldTags ==
  ASSUME NEW d
  PROVE  /\ DigestSet(d).tag = TagSet /\ Encap(d).tag = TagSequence /\ SignerSet(d).tag = TagSet
         /\ SignerSet(d).kids = Ber(d, Signers(d))
         /\ Encap(d).kids = Ber(d, <<Leaf(TagOid, LdsSecurityObject)>> \o ContentField(d))
<1> DEFINE a == Ber(d, <<Alg("sha1")>>)  b == Ber(d, Signers(d))  c == Ber(d, <<Leaf(TagOid, LdsSecurityObject)>> \o ContentField(d))
<1>1. DigestSet(d) = Holds(TagSet, a) /\ SignerSet(d) = Holds(TagSet, b) /\ Encap(d) = Holds(TagSequence, c)
  BY DEF DigestSet, SignerSet, Encap
<1> HIDE DEF a, b, c
<1>2. /\ DigestSet(d).tag = TagSet /\ Encap(d).tag = TagSequence /\ SignerSet(d).tag = TagSet
      /\ SignerSet(d).kids = b /\ Encap(d).kids = c
  BY <1>1, HoldsIs
<1> QED BY <1>2 DEF b, c

\* The first field is neither an OID nor of another kind looked for.
LEMMA FirstField ==
  ASSUME NEW d, NEW f, f = Fields(d)
  PROVE  List(f) /\ Len(f) >= 1 /\ f[1].tag = TagInteger
<1> DEFINE p == FieldStart(d)  b == CertField(d)  c == CrlField(d)  g == <<SignerSet(d)>>  u == p \o b  v == u \o c
<1>1. InRow(f, p, b, c, g)
  BY FieldsRow
<1>2. p[1] = Leaf(TagInteger, 3)
  BY DEF FieldStart
<1>3. List(p) /\ Len(p) = 3
  BY ListThree DEF FieldStart
<1>4. Leaf(TagInteger, 3).tag = TagInteger
  BY LeafIs
<1> HIDE DEF p, b, c, g
<1>5. List(f)
  BY <1>1, RowList
<1>6. List(b) /\ List(c) /\ List(g) /\ f = v \o g
  BY <1>1 DEF InRow
<1> DEFINE m == Len(b)  l == Len(u)  k == Len(v)  n == Len(c)  o == Len(g)
<1>7. m = Len(b) /\ l = Len(u) /\ k = Len(v) /\ n = Len(c) /\ o = Len(g) /\ u = p \o b /\ v = u \o c
  OBVIOUS
<1> HIDE DEF u, v, m, l, k, n, o
<1>8. Joins(u, p, 3, b, m)
  BY <1>3, <1>6, <1>7, JoinIs
<1>9. List(u) /\ l = 3 + m /\ m \in Nat /\ \A i \in 1 .. 3 : u[i] = p[i]
  BY <1>7, <1>8 DEF Joins
<1>10. Joins(v, u, l, c, n)
  BY <1>6, <1>7, <1>9, JoinIs
<1>11. List(v) /\ k = l + n /\ n \in Nat /\ \A i \in 1 .. l : v[i] = u[i]
  BY <1>7, <1>10 DEF Joins
<1>12. Joins(f, v, k, g, o)
  BY <1>6, <1>7, <1>11, JoinIs
<1>13. Len(f) = k + o /\ o \in Nat /\ \A i \in 1 .. k : f[i] = v[i]
  BY <1>12 DEF Joins
<1>14. f[1] = p[1] /\ Len(f) >= 1
  <2>1. 1 \in 1 .. k /\ 1 \in 1 .. l /\ 1 \in 1 .. 3
    BY <1>9, <1>11
  <2>2. f[1] = v[1] /\ v[1] = u[1] /\ u[1] = p[1]
    BY <1>9, <1>11, <1>13, <2>1
  <2>3. Len(f) >= 1
    BY <1>9, <1>11, <1>13
  <2> QED BY <2>2, <2>3
<1> QED BY <1>2, <1>4, <1>5, <1>14

LEMMA SignedFieldsAre ==
  ASSUME NEW d
  PROVE  SignedFields(SodOf(d)) = Ber(d, Fields(d))
<1> DEFINE outer == Unwrapped(Unwrapped(SodOf(d), TagSod), TagSequence)
           wrapped == Len(outer) >= 2 /\ outer[1].tag = TagOid /\ outer[2].tag = TagCtx0
           k == Ber(d, Fields(d))
<1>1. SignedFields(SodOf(d)) = IF wrapped THEN Unwrapped(outer[2].kids, TagSequence) ELSE outer
  BY DEF SignedFields
<1>2. outer = IF d.info THEN Ber(d, InfoPair(d)) ELSE k
  BY OuterIs, ObjectIs
<1> HIDE DEF outer
<1>3. CASE d.info
  <2> DEFINE x == Signed(d)  o == <<x>>  b == Ber(d, o)  a == Leaf(TagOid, "signedData")  c == Holds(TagCtx0, b)  p == InfoPair(d)
  <2>1. p = <<a, c>>
    BY DEF InfoPair
  <2>2. a.tag = TagOid /\ c.tag = TagCtx0 /\ c.kids = b
    <3> HIDE DEF b
    <3> QED BY LeafIs, HoldsIs
  <2>3. x.tag = TagSequence /\ x.kids = k
    <3> HIDE DEF k
    <3>1. x = Holds(TagSequence, k)
      BY DEF Signed, k
    <3> HIDE DEF x
    <3> QED BY <3>1, HoldsIs
  <2>4. List(o) /\ Len(o) = 1
    BY ListOne
  <2>5. o[1] = x
    OBVIOUS
  <2> HIDE DEF x, o, a, c, p, k
  <2>6. List(p) /\ Len(p) = 2 /\ p[1] = a /\ p[2] = c
    BY <2>1, TupleIs2
  <2>7. outer = Ber(d, p)
    BY <1>2, <1>3 DEF p
  <2>8. Starting(outer, p)
    BY <2>6, <2>7, BerIs
  <2>9. Len(outer) >= 2 /\ outer[1] = a /\ outer[2] = c
    <3>1. 1 \in 1 .. 2 /\ 2 \in 1 .. 2
      OBVIOUS
    <3> QED BY <2>6, <2>8, <3>1 DEF Starting
  <2>10. Starting(b, o)
    BY <2>4, BerIs
  <2> HIDE DEF b
  <2>11. List(b) /\ Len(b) >= 1 /\ b[1] = x
    BY <2>4, <2>5, <2>10 DEF Starting
  <2>12. b # <<>> /\ Head(b) = x
    <3>1. b # <<>>
      BY <2>11, ListEmpty
    <3>2. Head(b) = b[1]
      OBVIOUS
    <3> QED BY <2>11, <3>1, <3>2
  <2>13. Unwrapped(b, TagSequence) = k
    BY <2>3, <2>12 DEF Unwrapped
  <2> HIDE DEF wrapped
  <2>14. wrapped
    BY <2>2, <2>9 DEF wrapped
  <2> QED BY <1>1, <2>2, <2>9, <2>13, <2>14 DEF k
<1>4. CASE ~d.info
  <2> DEFINE f == Fields(d)
  <2>1. List(f) /\ Len(f) >= 1 /\ f[1].tag = TagInteger
    BY FirstField
  <2> HIDE DEF f, k
  <2>2. k = Ber(d, f)
    BY DEF k, f
  <2>3. Starting(k, f)
    BY <2>1, <2>2, BerIs
  <2>4. k[1] = f[1]
    <3>1. 1 \in 1 .. Len(f)
      BY <2>1, ListIs
    <3> QED BY <2>3, <3>1 DEF Starting
  <2>5. outer = k
    BY <1>2, <1>4
  <2>6. outer[1].tag # TagOid
    BY <2>1, <2>4, <2>5, TagsDiffer
  <2> HIDE DEF wrapped
  <2>7. ~wrapped
    BY <2>6 DEF wrapped
  <2> QED BY <1>1, <2>5, <2>7 DEF k
<1> QED BY <1>3, <1>4

LEMMA FieldIs ==
  /\ \A d : List(CertField(d)) /\ (~d.certs => CertField(d) = <<>>)
  /\ \A d, T : TagCtx0 \in T => Tagged(CertField(d), T) = CertField(d)
  /\ \A d, T : TagCtx0 \notin T => Tagged(CertField(d), T) = <<>>
  /\ \A d, T : TagCtx1 \notin T => Tagged(CrlField(d), T) = <<>>
<1>1. ASSUME NEW d PROVE List(CertField(d)) /\ (~d.certs => CertField(d) = <<>>)
  BY ListOne, ListEmpty DEF CertField
<1>2. ASSUME NEW d, NEW T PROVE /\ TagCtx0 \in T => Tagged(CertField(d), T) = CertField(d)
                                /\ TagCtx0 \notin T => Tagged(CertField(d), T) = <<>>
  <2> DEFINE b == Ber(d, <<CertOne, CertTwo>>)  x == Holds(TagCtx0, b)  s == <<x>>
  <2>1. x.tag = TagCtx0
    <3> HIDE DEF b
    <3> QED BY HoldsIs
  <2>2. CertField(d) = IF d.certs THEN s ELSE <<>>
    BY DEF CertField
  <2> HIDE DEF x
  <2>3. Tagged(s, T) = IF TagCtx0 \in T THEN s ELSE <<>>
    BY <2>1, TaggedOne
  <2> HIDE DEF s
  <2>4. Tagged(<<>>, T) = <<>>
    BY TaggedEmpty
  <2>5. CASE d.certs
    BY <2>2, <2>3, <2>5
  <2>6. CASE ~d.certs
    BY <2>2, <2>4, <2>6
  <2> QED BY <2>5, <2>6
<1>3. ASSUME NEW d, NEW T, TagCtx1 \notin T PROVE Tagged(CrlField(d), T) = <<>>
  <2> DEFINE b == Ber(d, <<Leaf(TagInteger, 1)>>)  x == Holds(TagCtx1, b)  s == <<x>>
  <2>1. x.tag = TagCtx1
    <3> HIDE DEF b
    <3> QED BY HoldsIs
  <2>2. CrlField(d) = IF d.crls THEN s ELSE <<>>
    BY DEF CrlField
  <2> HIDE DEF x
  <2>3. Tagged(s, T) = <<>>
    BY <1>3, <2>1, TaggedOne
  <2> HIDE DEF s
  <2>4. Tagged(<<>>, T) = <<>>
    BY TaggedEmpty
  <2>5. CASE d.crls
    BY <2>2, <2>3, <2>5
  <2>6. CASE ~d.crls
    BY <2>2, <2>4, <2>6
  <2> QED BY <2>5, <2>6
<1> QED BY <1>1, <1>2, <1>3

LEMMA TaggedFields ==
  ASSUME NEW d, NEW T, EndMark.tag \notin T, TagCtx1 \notin T, TagInteger \notin T
  PROVE  Tagged(Ber(d, Fields(d)), T)
         = ((Maybe(DigestSet(d), T) \o Maybe(Encap(d), T)) \o Tagged(CertField(d), T)) \o Maybe(SignerSet(d), T)
<1> DEFINE f == Fields(d)  a == Leaf(TagInteger, 3)  b == DigestSet(d)  c == Encap(d)  x == SignerSet(d)
           p == FieldStart(d)  r == CertField(d)  q == CrlField(d)  g == <<x>>
           mb == Maybe(b, T)  mc == Maybe(c, T)  mx == Maybe(x, T)  tr == Tagged(r, T)
<1>1. InRow(f, p, r, q, g)
  BY FieldsRow
<1>2. p = Three(a, b, c)
  BY DEF FieldStart, Three
<1>3. a.tag = TagInteger
  BY LeafIs
<1>4. List(r) /\ Tagged(q, T) = <<>>
  BY FieldIs
<1> HIDE DEF a, b, c, x, p, r, q
<1>5. List(f)
  BY <1>1, RowList
<1> HIDE DEF f
<1>6. Tagged(Ber(d, f), T) = Tagged(f, T)
  BY <1>5, BerTagged
<1>7. Tagged(f, T) = ((Tagged(p, T) \o tr) \o Tagged(q, T)) \o Tagged(g, T)
  BY <1>1, TaggedRow, SMTT(20)
<1>8. Tagged(g, T) = mx
  BY MaybeIs
<1>9. Maybe(a, T) = <<>>
  BY <1>3 DEF Maybe
<1>10. Tagged(p, T) = Maybe(a, T) \o (mb \o mc)
  BY <1>2, TaggedThree
<1>11. List(mb) /\ List(mc) /\ List(mx)
  BY MaybeIs
<1>12. List(tr)
  BY <1>4, TaggedList
<1> HIDE DEF mb, mc, mx, tr
<1>13. List(mb \o mc)
  BY <1>11, ListConcat
<1>14. Tagged(p, T) = mb \o mc
  BY <1>9, <1>10, <1>13, ConcatNone
<1> DEFINE u == mb \o mc  v == u \o tr
<1>15. List(v)
  <2> HIDE DEF u
  <2> QED BY <1>12, <1>13, ListConcat DEF u
<1>16. v \o <<>> = v
  <2> HIDE DEF v
  <2> QED BY <1>15, ConcatNone
<1>17. Tagged(Ber(d, f), T) = v \o mx
  BY <1>4, <1>6, <1>7, <1>8, <1>14, <1>16
<1> QED BY <1>17 DEF f, mb, mc, mx, tr, b, c, x, r

\* The sets, the sequence and the certificates among the fields.
LEMMA FieldsFound ==
  ASSUME NEW d, NEW f, f = Ber(d, Fields(d))
  PROVE  /\ Tagged(f, {TagSet}) = <<DigestSet(d), SignerSet(d)>>
         /\ Tagged(f, {TagSequence}) = <<Encap(d)>>
         /\ Tagged(f, {TagCtx0}) = CertField(d)
<1> DEFINE b == DigestSet(d)  c == Encap(d)  x == SignerSet(d)  r == CertField(d)  ob == <<b>>  oc == <<c>>  ox == <<x>>
<1>1. b.tag = TagSet /\ c.tag = TagSequence /\ x.tag = TagSet
  BY FieldTags
<1>2. List(r)
  BY FieldIs
<1>3. ob \o ox = <<b, x>>
  BY TupleTwo
<1>4. List(ob) /\ List(oc) /\ List(ox)
  BY ListOne
<1>5. /\ Tagged(r, {TagCtx0}) = r /\ Tagged(r, {TagSet}) = <<>> /\ Tagged(r, {TagSequence}) = <<>>
  BY FieldIs, TagsDiffer
<1> HIDE DEF b, c, x, r
<1>6. Tagged(f, {TagSet}) = <<b, x>>
  <2>1. Maybe(b, {TagSet}) = ob /\ Maybe(c, {TagSet}) = <<>> /\ Maybe(x, {TagSet}) = ox
    BY <1>1, TagsDiffer DEF Maybe
  <2>2. EndMark.tag \notin {TagSet} /\ TagCtx1 \notin {TagSet} /\ TagInteger \notin {TagSet}
    BY EndTag, TagsDiffer
  <2>3. Tagged(f, {TagSet}) = ((Maybe(b, {TagSet}) \o Maybe(c, {TagSet})) \o Tagged(r, {TagSet})) \o Maybe(x, {TagSet})
    BY <2>2, TaggedFields DEF b, c, x, r
  <2> HIDE DEF ob, ox
  <2> QED BY <1>3, <1>4, <1>5, <2>1, <2>3, ConcatNone
<1>7. Tagged(f, {TagSequence}) = oc
  <2>1. Maybe(b, {TagSequence}) = <<>> /\ Maybe(c, {TagSequence}) = oc /\ Maybe(x, {TagSequence}) = <<>>
    BY <1>1, TagsDiffer DEF Maybe
  <2>2. EndMark.tag \notin {TagSequence} /\ TagCtx1 \notin {TagSequence} /\ TagInteger \notin {TagSequence}
    BY EndTag, TagsDiffer
  <2>3. Tagged(f, {TagSequence})
        = ((Maybe(b, {TagSequence}) \o Maybe(c, {TagSequence})) \o Tagged(r, {TagSequence})) \o Maybe(x, {TagSequence})
    BY <2>2, TaggedFields DEF b, c, x, r
  <2> HIDE DEF oc
  <2> QED BY <1>4, <1>5, <2>1, <2>3, ConcatNone
<1>8. Tagged(f, {TagCtx0}) = r
  <2>1. Maybe(b, {TagCtx0}) = <<>> /\ Maybe(c, {TagCtx0}) = <<>> /\ Maybe(x, {TagCtx0}) = <<>>
    BY <1>1, TagsDiffer DEF Maybe
  <2>2. EndMark.tag \notin {TagCtx0} /\ TagCtx1 \notin {TagCtx0} /\ TagInteger \notin {TagCtx0}
    BY EndTag, TagsDiffer
  <2>3. Tagged(f, {TagCtx0}) = ((Maybe(b, {TagCtx0}) \o Maybe(c, {TagCtx0})) \o Tagged(r, {TagCtx0})) \o Maybe(x, {TagCtx0})
    BY <2>2, TaggedFields DEF b, c, x, r
  <2>4. <<>> \o <<>> = <<>>
    BY ListEmpty, ConcatNone
  <2> QED BY <1>2, <1>5, <2>1, <2>3, <2>4, ConcatNone
<1> QED BY <1>6, <1>7, <1>8 DEF b, c, x, r

LEMMA SignersAre ==
  ASSUME NEW d, d.signers \in Nat \ {0}
  PROVE  /\ List(Signers(d)) /\ Tagged(Signers(d), {TagSequence}) = Signers(d)
         /\ Signers(d) # <<>> /\ Head(Signers(d)) = SignerNode(d, "first")
<1> DEFINE n == d.signers  s == Signers(d)
<1>1. s = [i \in 1 .. n |-> s[i]] /\ \A i \in 1 .. n : s[i] = SignerNode(d, IF i = 1 THEN "first" ELSE "other")
  BY DEF Signers
<1>2. n \in Nat /\ n # 0
  OBVIOUS
<1> HIDE DEF s, n
<1>3. List(s) /\ Len(s) = n
  BY <1>1, <1>2, ListMade
<1>4. \A i \in 1 .. Len(s) : s[i].tag \in {TagSequence}
  <2> SUFFICES ASSUME NEW i \in 1 .. n PROVE s[i].tag = TagSequence
    BY <1>3
  <2> DEFINE sig == IF i = 1 THEN "first" ELSE "other"
  <2>1. s[i] = SignerNode(d, sig)
    BY <1>1
  <2> HIDE DEF sig
  <2> QED BY <2>1, SignerNodeIs
<1>5. Tagged(s, {TagSequence}) = s
  BY <1>3, <1>4, TaggedAll
<1>6. s # <<>>
  BY <1>2, <1>3, ListEmpty
<1>7. s[1] = SignerNode(d, "first")
  <2>1. 1 \in 1 .. n
    BY <1>2
  <2> QED BY <1>1, <2>1
<1>8. Head(s) = s[1]
  OBVIOUS
<1> QED BY <1>3, <1>5, <1>6, <1>7, <1>8 DEF s

LEMMA FirstSignerIs ==
  ASSUME NEW d, d.signers \in Nat \ {0}, NEW f, f = Ber(d, Fields(d))
  PROVE  FirstSigner(f) = SignerOf(SignerKids(d, "first"))
<1> DEFINE b == DigestSet(d)  x == SignerSet(d)  sets == <<b, x>>  s == Signers(d)
<1>1. Tagged(f, {TagSet}) = sets
  BY FieldsFound
<1>2. x.kids = Ber(d, s)
  BY FieldTags
<1>3. List(s) /\ Tagged(s, {TagSequence}) = s /\ s # <<>> /\ Head(s) = SignerNode(d, "first")
  BY SignersAre
<1> HIDE DEF b, x, s
<1>4. Len(sets) = 2 /\ sets[2] = x
  OBVIOUS
<1>5. Tagged(Ber(d, s), {TagSequence}) = s
  <2>1. EndMark.tag \notin {TagSequence}
    BY EndTag
  <2>2. Tagged(Ber(d, s), {TagSequence}) = Tagged(s, {TagSequence})
    BY <1>3, <2>1, BerTagged
  <2> QED BY <1>3, <2>2
<1> HIDE DEF sets
<1> DEFINE signers == IF Len(sets) < 2 THEN <<>> ELSE Tagged(sets[2].kids, {TagSequence})
<1>6. FirstSigner(f) = IF signers = <<>> THEN NoSigner ELSE SignerOf(Head(signers).kids)
  BY <1>1 DEF FirstSigner
<1>7. signers = s
  BY <1>2, <1>4, <1>5
<1> HIDE DEF signers
<1>8. SignerNode(d, "first").kids = SignerKids(d, "first")
  BY SignerNodeIs
<1> QED BY <1>3, <1>6, <1>7, <1>8

LEMMA FirstCertIs ==
  ASSUME NEW d, NEW f, f = Ber(d, Fields(d))
  PROVE  (d.certs => FirstCert(f) = "signer") /\ (~d.certs => FirstCert(f) = None)
<1> DEFINE r == CertField(d)  certs == IF r = <<>> THEN <<>> ELSE Tagged(Head(r).kids, {TagSequence})
<1>1. FirstCert(f) = IF certs = <<>> THEN None ELSE Head(certs).val
  <2>1. Tagged(f, {TagCtx0}) = r
    BY FieldsFound
  <2> HIDE DEF r
  <2> QED BY <2>1 DEF FirstCert
<1>2. CASE ~d.certs
  <2>1. r = <<>>
    BY <1>2 DEF CertField
  <2> QED BY <1>1, <1>2, <2>1
<1>3. CASE d.certs
  <2> DEFINE a == CertOne  c == CertTwo  k == <<a, c>>  b == Ber(d, k)  x == Holds(TagCtx0, b)  o == <<x>>
  <2>1. r = o
    BY <1>3 DEF CertField
  <2>2. x.kids = b
    <3> HIDE DEF b
    <3> QED BY HoldsIs
  <2>3. a.tag = TagSequence /\ c.tag = TagSequence /\ a.val = "signer"
    BY DEF CertOne, CertTwo, Holds
  <2> HIDE DEF a, c
  <2>4. List(k) /\ Len(k) = 2 /\ k[1] = a /\ k[2] = c
    BY TupleIs2
  <2> HIDE DEF k
  <2>5. Tagged(k, {TagSequence}) = k
    <3>1. \A i \in 1 .. 2 : i = 1 \/ i = 2
      OBVIOUS
    <3>2. \A i \in 1 .. Len(k) : k[i].tag \in {TagSequence}
      BY <2>3, <2>4, <3>1
    <3> QED BY <2>4, <3>2, TaggedAll
  <2>6. Tagged(b, {TagSequence}) = k
    <3>1. EndMark.tag \notin {TagSequence}
      BY EndTag
    <3> QED BY <2>4, <2>5, <3>1, BerTagged
  <2> HIDE DEF b, x, r
  <2>7. r # <<>> /\ Head(r) = x
    BY <2>1
  <2> HIDE DEF o
  <2>8. certs = k
    BY <2>2, <2>6, <2>7
  <2> HIDE DEF certs
  <2>9. k # <<>> /\ Head(k) = k[1]
    <3>1. k # <<>>
      BY <2>4, ListEmpty
    <3> QED BY <3>1
  <2> QED BY <1>1, <1>3, <2>3, <2>4, <2>8, <2>9
<1> QED BY <1>2, <1>3

\* The eContent, and the object read in it.
LEMMA InBodyIs ==
  ASSUME NEW d, IsGroups(d.groups), d.place \in {"content", "attributes"}, NEW f, f = Ber(d, Fields(d))
  PROVE  /\ d.place = "content" => \E x : LdsInBody(f) = <<x>> /\ x.digest = "SHA-256" /\ x # Refused
                                         /\ x.hashes = [n \in ToSet(d.groups) |-> Hash(n)] /\ x.hashes # <<>>
         /\ d.place = "attributes" => LdsInBody(f) = <<>>
<1> DEFINE c == Encap(d)  a == Leaf(TagOid, LdsSecurityObject)  u == <<a>>  r == ContentField(d)  k == u \o r
           T == {TagCtx0, TagSequence}  content == Tagged(c.kids, T)
<1>1. LdsInBody(f) = IF content = <<>> THEN <<>> ELSE <<LdsObject(Head(content).kids)>>
  <2> DEFINE o == <<c>>
  <2>1. Tagged(f, {TagSequence}) = o
    BY FieldsFound
  <2> HIDE DEF c
  <2>2. o # <<>> /\ Head(o) = c
    OBVIOUS
  <2> HIDE DEF o
  <2> QED BY <2>1, <2>2 DEF LdsInBody
<1>2. c.kids = Ber(d, k)
  BY FieldTags
<1>3. a.tag = TagOid
  BY LeafIs
<1> HIDE DEF a, c
<1>4. List(u) /\ Tagged(u, T) = <<>>
  BY <1>3, TaggedMaybe, TagsDiffer, ListOne
<1>5. EndMark.tag \notin T
  BY EndTag
<1>6. CASE d.place = "attributes"
  <2>1. r = <<>>
    BY <1>6 DEF ContentField
  <2> HIDE DEF u, r
  <2>2. k = u
    BY <1>4, <2>1, ConcatNone
  <2> HIDE DEF k
  <2>3. content = <<>>
    BY <1>2, <1>4, <1>5, <2>2, BerTagged
  <2> QED BY <1>1, <1>6, <2>3
<1>7. CASE d.place = "content"
  <2> DEFINE x == LdsOf(d)  ox == <<x>>  h == Holds(TagOctets, ox)  oh == <<h>>  b == Ber(d, oh)  y == Holds(TagCtx0, b)  oy == <<y>>
  <2>1. r = oy
    BY <1>7 DEF ContentField
  <2>2. h.tag = TagOctets /\ h.kids = ox
    <3> HIDE DEF ox
    <3> QED BY HoldsIs
  <2>3. y.tag = TagCtx0 /\ y.kids = b
    <3> HIDE DEF b
    <3> QED BY HoldsIs
  <2> HIDE DEF x, h, y
  <2>4. List(oy) /\ Tagged(oy, T) = oy
    BY <2>3, TaggedMaybe, ListOne
  <2>5. oy # <<>> /\ Head(oy) = y
    OBVIOUS
  <2>6. List(oh) /\ Len(oh) = 1
    BY ListOne
  <2>7. oh[1] = h
    OBVIOUS
  <2> HIDE DEF oh, oy, r, u
  <2>8. Starting(b, oh)
    BY <2>6, BerIs
  <2> HIDE DEF b
  <2>9. List(b) /\ Len(b) >= 1 /\ b[1] = h
    BY <2>6, <2>7, <2>8 DEF Starting
  <2>10. b # <<>> /\ Head(b) = h
    <3>1. b # <<>>
      BY <2>9, ListEmpty
    <3>2. Head(b) = b[1]
      OBVIOUS
    <3> QED BY <2>9, <3>1, <3>2
  <2>11. List(k)
    BY <1>4, <2>1, <2>4, ListConcat
  <2>12. Tagged(k, T) = oy
    <3>1. Tagged(k, T) = Tagged(u, T) \o Tagged(r, T)
      BY <1>4, <2>1, <2>4, TaggedConcat
    <3> QED BY <1>4, <2>1, <2>4, <3>1, ConcatNone
  <2> HIDE DEF k
  <2>13. content = oy
    BY <1>2, <1>5, <2>11, <2>12, BerTagged
  <2> DEFINE z == LdsObject(b)
  <2>14. LdsInBody(f) = <<z>>
    BY <1>1, <2>3, <2>5, <2>13
  <2>15. /\ z = [digest |-> "SHA-256", hashes |-> [n \in ToSet(d.groups) |-> Hash(n)]]
         /\ z # Refused /\ [n \in ToSet(d.groups) |-> Hash(n)] # <<>>
    <3>1. b # <<>> /\ Head(b).tag = TagOctets /\ Head(b).kids = <<x>>
      BY <2>2, <2>10
    <3> QED BY <3>1, LdsRead DEF x
  <2> HIDE DEF z
  <2>16. z.digest = "SHA-256" /\ z.hashes = [n \in ToSet(d.groups) |-> Hash(n)]
    BY <2>15
  <2> QED BY <1>7, <2>14, <2>15, <2>16
<1> QED BY <1>6, <1>7

-----------------------------------------------------------------------------
(* The LDS object in the signed attributes.                                *)

LEMMA AttributeIs ==
  ASSUME NEW t, NEW v
  PROVE  /\ Attribute(t, v).tag = TagSequence /\ FirstValue(Attribute(t, v).kids, TagOid) = t
         /\ Tagged(Attribute(t, v).kids, {TagSet}) = <<Holds(TagSet, <<v>>)>>
<1> DEFINE a == Leaf(TagOid, t)  o == <<v>>  b == Holds(TagSet, o)  k == <<a, b>>  u == <<a>>  w == <<b>>
<1>1. Attribute(t, v) = Holds(TagSequence, k)
  BY DEF Attribute
<1>2. a.tag = TagOid /\ a.val = t /\ b.tag = TagSet
  <2> HIDE DEF o
  <2> QED BY LeafIs, HoldsIs
<1> HIDE DEF a, b
<1>3. k = u \o w
  BY TupleTwo
<1>4. List(u) /\ List(w)
  BY ListOne
<1>5. Tagged(u, {TagOid}) = u /\ Tagged(w, {TagOid}) = <<>> /\ Tagged(u, {TagSet}) = <<>> /\ Tagged(w, {TagSet}) = w
  BY <1>2, TaggedOne, TagsDiffer
<1>6. u # <<>> /\ Head(u) = a
  OBVIOUS
<1> HIDE DEF k
<1>7. Attribute(t, v).tag = TagSequence /\ Attribute(t, v).kids = k
  BY <1>1, HoldsIs
<1> HIDE DEF u, w
<1>8. Tagged(k, {TagOid}) = u /\ Tagged(k, {TagSet}) = w
  <2>1. \A T : Tagged(k, T) = Tagged(u, T) \o Tagged(w, T)
    BY <1>3, <1>4, TaggedConcat
  <2> QED BY <1>4, <1>5, <2>1, ConcatNone
<1>9. FirstValue(k, TagOid) = t
  BY <1>2, <1>6, <1>8 DEF FirstValue
<1> QED BY <1>7, <1>8, <1>9 DEF w, b

Types(all) == {i \in DOMAIN all : FirstValue(all[i].kids, TagOid) = LdsSecurityObject}
InSets(kids) == [j \in DOMAIN Tagged(kids, {TagSet}) |-> Tagged(Tagged(kids, {TagSet})[j].kids, {TagOctets})]
InTyped(typed) == [i \in DOMAIN typed |-> FlattenSeq(InSets(typed[i].kids))]

LEMMA InSetsIs ==
  ASSUME NEW t, NEW v, v.tag = TagOctets
  PROVE  FlattenSeq(InSets(Attribute(t, v).kids)) = <<v>>
<1> DEFINE k == Attribute(t, v).kids  o == <<v>>  s == Holds(TagSet, o)  w == <<s>>  q == InSets(k)
<1>1. Tagged(k, {TagSet}) = w
  BY AttributeIs
<1>2. s.kids = o
  <2> HIDE DEF o
  <2> QED BY HoldsIs
<1>3. List(o) /\ Tagged(o, {TagOctets}) = o
  BY ListOne, TaggedOne
<1> HIDE DEF k, o, s
<1>4. DOMAIN w = {1} /\ w[1] = s
  <2>1. Len(w) = 1 /\ List(w)
    BY ListOne
  <2>2. DOMAIN w = 1 .. 1
    BY <2>1, ListIs
  <2> QED BY <2>2
<1> HIDE DEF w
<1>5. DOMAIN q = {1} /\ q = [i \in DOMAIN q |-> q[i]] /\ q[1] = o
  BY <1>1, <1>2, <1>3, <1>4 DEF InSets
<1> HIDE DEF q
<1>6. FlattenSeq(q) = o
  BY <1>3, <1>5, FlattenMade
<1> QED BY <1>6 DEF q, k, o

LEMMA InAttrsIs ==
  ASSUME NEW d, d.place = "attributes"
  PROVE  LdsInAttrs(Holds(TagSet, AttrsOf(d))) = <<Holds(TagOctets, <<LdsOf(d)>>)>>
<1> DEFINE v == Holds(TagOctets, <<LdsOf(d)>>)  a == Attribute("contentType", Leaf(TagOid, LdsSecurityObject))
           b == Attribute("messageDigest", Leaf(TagOctets, "digest"))  c == Attribute(LdsSecurityObject, v)
           p == <<a, b>>  k == AttrsOf(d)
<1>1. k = p \o <<c>>
  BY DEF AttrsOf
<1>2. v.tag = TagOctets
  <2> DEFINE o == <<LdsOf(d)>>
  <2> HIDE DEF o
  <2> QED BY HoldsIs DEF o
<1>3. a.tag = TagSequence /\ b.tag = TagSequence /\ c.tag = TagSequence
  BY AttributeIs
<1>4. /\ FirstValue(a.kids, TagOid) # LdsSecurityObject /\ FirstValue(b.kids, TagOid) # LdsSecurityObject
      /\ FirstValue(c.kids, TagOid) = LdsSecurityObject
  <2>1. "contentType" # LdsSecurityObject /\ "messageDigest" # LdsSecurityObject
    BY DEF LdsSecurityObject
  <2>2. FirstValue(a.kids, TagOid) = "contentType" /\ FirstValue(b.kids, TagOid) = "messageDigest"
    BY AttributeIs
  <2>3. FirstValue(c.kids, TagOid) = LdsSecurityObject
    BY AttributeIs
  <2> QED BY <2>1, <2>2, <2>3
<1>5. FlattenSeq(InSets(c.kids)) = <<v>>
  BY <1>2, InSetsIs
<1> HIDE DEF v, a, b, c, k
<1>6. List(p) /\ Len(p) = 2 /\ p[1] = a /\ p[2] = b
  BY TupleIs2
<1> DEFINE m == 2
<1>7. m = Len(p)
  BY <1>6
<1> HIDE DEF p, m
<1>8. Added(k, p, m, c)
  BY <1>1, <1>6, <1>7, AddOne
<1>9. List(k) /\ Len(k) = 3 /\ k[1] = a /\ k[2] = b /\ k[3] = c
  BY <1>6, <1>8 DEF Added, m
<1>10. \A i \in 1 .. 3 : i = 1 \/ i = 2 \/ i = 3
  OBVIOUS
<1>11. Tagged(k, {TagSequence}) = k
  <2>1. \A i \in 1 .. Len(k) : k[i].tag \in {TagSequence}
    BY <1>3, <1>9, <1>10
  <2> QED BY <1>9, <2>1, TaggedAll
<1> DEFINE P == Types(k)  typed == Picked(k, P)  values == InTyped(typed)
<1>12. P = {3} /\ P \subseteq DOMAIN k
  <2>1. DOMAIN k = 1 .. 3
    BY <1>9, ListIs
  <2> QED BY <1>4, <1>9, <1>10, <2>1 DEF Types
<1>13. Cardinality(P) = 1
  BY <1>12, FS_Singleton
<1>14. PICK S : k \in Seq(S)
  BY <1>9 DEF List
<1> HIDE DEF P
<1>15. /\ typed \in Seq(S) /\ Len(typed) = 1
       /\ \A i \in 1 .. Len(typed) : Place(P, i) \in P /\ typed[i] = k[Place(P, i)]
  <2>1. /\ Picked(k, P) \in Seq(S)
        /\ Len(Picked(k, P)) = Cardinality(P)
        /\ \A i \in 1 .. Len(Picked(k, P)) : Place(P, i) \in P /\ Picked(k, P)[i] = k[Place(P, i)]
    BY <1>12, <1>14, PickedIs
  <2> QED BY <1>13, <2>1
<1>16. typed[1] = c
  <2>1. 1 \in 1 .. Len(typed)
    BY <1>15
  <2>2. Place(P, 1) = 3
    BY <1>12, <1>15, <2>1
  <2> QED BY <1>9, <1>15, <2>1, <2>2
<1>17. DOMAIN typed = {1}
  <2>1. DOMAIN typed = 1 .. Len(typed)
    BY <1>15
  <2> QED BY <1>15, <2>1
<1> HIDE DEF typed
<1> DEFINE o == <<v>>
<1>18. DOMAIN values = {1} /\ values = [i \in DOMAIN values |-> values[i]] /\ values[1] = o
  BY <1>5, <1>16, <1>17 DEF InTyped
<1>19. List(o)
  BY ListOne
<1> HIDE DEF values, o
<1>20. FlattenSeq(values) = o
  BY <1>18, <1>19, FlattenMade
<1> DEFINE h == Holds(TagSet, k)
<1>21. h.kids = k
  BY HoldsIs
<1> HIDE DEF h
<1>22. LdsInAttrs(h) = FlattenSeq(values)
  BY <1>11, <1>21 DEF LdsInAttrs, values, typed, P, Types, InTyped, InSets
<1> QED BY <1>20, <1>22 DEF h, o, v, k

-----------------------------------------------------------------------------
(* The whole file.                                                         *)

LdsGiven(x, d) ==
  x.digest = "SHA-256" /\ x # Refused /\ x.hashes = [n \in ToSet(d.groups) |-> Hash(n)] /\ x.hashes # <<>>

\* Where the object is read, it is the last of those read.
LEMMA LdsTaken ==
  ASSUME NEW d, NEW f, NEW attrs, NEW objects, objects = LdsInBody(f) \o LdsSigned(attrs, LdsInBody(f)),
         IsGroups(d.groups),
         \/ \E x : LdsInBody(f) = <<x>> /\ LdsGiven(x, d)
         \/ LdsInBody(f) = <<>> /\ attrs = Holds(TagSet, AttrsOf(d)) /\ d.place = "attributes"
  PROVE  LET parsed == {i \in DOMAIN objects : objects[i] # Refused}
         IN  parsed # {} /\ LdsGiven(objects[Max(parsed)], d)
<1> DEFINE body == LdsInBody(f)  sig == LdsSigned(attrs, body)  parsed == {i \in DOMAIN objects : objects[i] # Refused}
<1>1. \E x : objects = <<x>> /\ LdsGiven(x, d)
  <2>1. CASE \E x : LdsInBody(f) = <<x>> /\ LdsGiven(x, d)
    <3>1. PICK x : body = <<x>> /\ LdsGiven(x, d)
      BY <2>1
    <3> DEFINE o == <<x>>
    <3>2. DOMAIN o = {1} /\ o[1] = x
      <4>1. Len(o) = 1 /\ List(o)
        BY ListOne
      <4>2. DOMAIN o = 1 .. 1
        BY <4>1, ListIs
      <4> QED BY <4>2
    <3>3. List(o)
      BY ListOne
    <3> HIDE DEF o, body
    <3>4. body = o
      BY <3>1 DEF o
    <3>5. \E i \in DOMAIN body : body[i].hashes # <<>>
      BY <3>1, <3>2, <3>4 DEF LdsGiven
    <3>6. sig = <<>>
      BY <3>5 DEF LdsSigned
    <3>7. objects = o
      BY <3>3, <3>4, <3>6, ConcatNone DEF body
    <3> QED BY <3>1, <3>7 DEF o
  <2>2. CASE LdsInBody(f) = <<>> /\ attrs = Holds(TagSet, AttrsOf(d)) /\ d.place = "attributes"
    <3> DEFINE x == LdsOf(d)  ox == <<x>>  v == Holds(TagOctets, ox)  found == <<v>>  z == LdsObject(ox)  oz == <<z>>
    <3>1. LdsInAttrs(attrs) = found
      BY <2>2, InAttrsIs
    <3>2. v.kids = ox
      <4> HIDE DEF ox
      <4> QED BY HoldsIs
    <3>3. /\ z = [digest |-> "SHA-256", hashes |-> [n \in ToSet(d.groups) |-> Hash(n)]]
          /\ z # Refused /\ [n \in ToSet(d.groups) |-> Hash(n)] # <<>>
      BY LdsRead
    <3> HIDE DEF x, ox, v, z
    <3>4. z.digest = "SHA-256" /\ z.hashes = [n \in ToSet(d.groups) |-> Hash(n)]
      BY <3>3
    <3>5. found # <<>> /\ Head(found) = v
      OBVIOUS
    <3> HIDE DEF found
    <3>6. attrs # NoAttrs /\ attrs # Garbled
      <4>1. NoAttrs.tag = <<>> /\ Garbled.tag = <<>>
        BY LeafIs DEF NoAttrs, Garbled
      <4>2. attrs.tag = TagSet
        BY <2>2, HoldsIs
      <4>3. TagSet # <<>>
        BY DEF TagSet
      <4> QED BY <4>1, <4>2, <4>3
    <3>7. body = <<>>
      BY <2>2
    <3>8. ~(\E i \in DOMAIN body : body[i].hashes # <<>>)
      BY <3>7
    <3> HIDE DEF body
    <3>9. sig = <<LdsObject(Head(found).kids)>>
      <4>1. sig = IF LdsInAttrs(attrs) = <<>> THEN <<>> ELSE <<LdsObject(Head(LdsInAttrs(attrs)).kids)>>
        BY <3>6, <3>8 DEF LdsSigned
      <4> QED BY <3>1, <3>5, <4>1
    <3>10. sig = oz
      BY <3>2, <3>5, <3>9 DEF z
    <3>11. List(oz)
      BY ListOne
    <3> HIDE DEF oz, sig
    <3>12. objects = oz
      <4>1. objects = body \o sig
        BY DEF body, sig
      <4> QED BY <3>7, <3>10, <3>11, <4>1, ConcatNone
    <3>13. LdsGiven(z, d)
      BY <3>3, <3>4 DEF LdsGiven
    <3> QED BY <3>12, <3>13 DEF oz
  <2> QED BY <2>1, <2>2
<1>2. PICK x : objects = <<x>> /\ LdsGiven(x, d)
  BY <1>1
<1> DEFINE o == <<x>>
<1>3. DOMAIN o = {1} /\ o[1] = x
  <2>1. Len(o) = 1 /\ List(o)
    BY ListOne
  <2>2. DOMAIN o = 1 .. 1
    BY <2>1, ListIs
  <2> QED BY <2>2
<1>4. objects = o
  BY <1>2
<1> HIDE DEF o
<1>5. parsed = {1}
  BY <1>2, <1>3, <1>4 DEF LdsGiven
<1>6. Max({1}) = 1
  BY MaxOne
<1> HIDE DEF parsed
<1>7. objects[Max(parsed)] = x
  BY <1>3, <1>4, <1>5, <1>6
<1> QED BY <1>2, <1>5, <1>7 DEF parsed

\* What is made of the signer and of the objects read.
MadeOf(sod, f, signer, objects, parsed) ==
  /\ sod.sigAlg = signer.sigAlg /\ sod.signature = signer.signature /\ sod.attrs = signer.attrs
  /\ sod.cert = FirstCert(f) /\ (sod.error <=> sod.hashes = <<>>)
  /\ parsed # {} => sod.hashes = objects[Max(parsed)].hashes /\ sod.digest = objects[Max(parsed)].digest

LEMMA ParseSodIs ==
  ASSUME NEW data, NEW f, f = SignedFields(data), NEW signer, signer = FirstSigner(f),
         NEW objects, objects = LdsInBody(f) \o LdsSigned(signer.attrs, LdsInBody(f)),
         NEW parsed, parsed = {i \in DOMAIN objects : objects[i] # Refused}
  PROVE  MadeOf(ParseSod(data), f, signer, objects, parsed)
<1> DEFINE lds == IF parsed = {} THEN [digest |-> signer.digest, hashes |-> <<>>] ELSE objects[Max(parsed)]
           sod == ParseSod(data)  h == lds.hashes  g == lds.digest  c == FirstCert(f)  e == (h = <<>>)
           a == signer.sigAlg  s == signer.signature  t == signer.attrs
<1>1. sod = [hashes |-> h, digest |-> g, sigAlg |-> a, signature |-> s, attrs |-> t, cert |-> c, error |-> e]
  BY DEF ParseSod
<1>2. parsed # {} => h = objects[Max(parsed)].hashes /\ g = objects[Max(parsed)].digest
  OBVIOUS
<1> HIDE DEF sod, h, g, c, a, s, t, lds
<1>3. /\ sod.hashes = h /\ sod.digest = g /\ sod.sigAlg = a /\ sod.signature = s /\ sod.attrs = t /\ sod.cert = c
      /\ sod.error = e
  BY <1>1
<1> QED BY <1>2, <1>3 DEF a, s, t, c, sod, MadeOf

LEMMA FileRead ==
  ASSUME NEW d \in SodCases
  PROVE  LET sod == ParseSod(SodOf(d))
         IN  /\ d.place = "content" \/ LastByteServes(d.attrs) =>
                  /\ sod.hashes = [n \in ToSet(d.groups) |-> Hash(n)]
                  /\ sod.digest = "SHA-256" /\ ~sod.error
             /\ sod.sigAlg = "SHA-512" /\ sod.signature = "first"
             /\ sod.cert = (IF d.certs THEN "signer" ELSE None)
             /\ d.attrs \in 1 .. 127 => sod.attrs = Holds(TagSet, AttrsOf(d))
<1> DEFINE data == SodOf(d)  f == Ber(d, Fields(d))  kids == SignerKids(d, "first")  signer == SignerOf(kids)
           objects == LdsInBody(f) \o LdsSigned(signer.attrs, LdsInBody(f))
           parsed == {i \in DOMAIN objects : objects[i] # Refused}
           sod == ParseSod(data)
<1>1. /\ d.signers \in Nat \ {0} /\ d.attrs \in Nat /\ IsGroups(d.groups)
      /\ d.place \in {"content", "attributes"} /\ (d.place = "attributes" => d.attrs > 0)
  BY SodAssumed
<1>2. f = SignedFields(data)
  BY SignedFieldsAre
<1>3. signer = FirstSigner(f)
  BY <1>1, FirstSignerIs
<1>4. /\ signer.sigAlg = "SHA-512" /\ signer.signature = "first"
      /\ signer.attrs = IF d.attrs > 0 THEN Retagged(AttrsNode(d)) ELSE NoAttrs
  BY <1>1, SignerRead
<1>5. LastByteServes(d.attrs) => Retagged(AttrsNode(d)) = Holds(TagSet, AttrsOf(d))
  BY <1>1, AttrsRetagged
<1>6. (d.certs => FirstCert(f) = "signer") /\ (~d.certs => FirstCert(f) = None)
  BY FirstCertIs
<1>7. /\ d.place = "content" => \E x : LdsInBody(f) = <<x>> /\ LdsGiven(x, d)
      /\ d.place = "attributes" => LdsInBody(f) = <<>>
  BY <1>1, InBodyIs DEF LdsGiven
<1> HIDE DEF data, f, kids, signer
<1>8. /\ sod.sigAlg = signer.sigAlg /\ sod.signature = signer.signature /\ sod.attrs = signer.attrs
      /\ sod.cert = FirstCert(f) /\ (sod.error <=> sod.hashes = <<>>)
      /\ parsed # {} => sod.hashes = objects[Max(parsed)].hashes /\ sod.digest = objects[Max(parsed)].digest
  <2>1. MadeOf(sod, f, signer, objects, parsed)
    BY <1>2, <1>3, ParseSodIs
  <2> HIDE DEF sod, objects, parsed
  <2> QED BY <2>1 DEF MadeOf
<1> HIDE DEF sod
<1>9. ASSUME d.place = "content" \/ LastByteServes(d.attrs)
      PROVE  sod.hashes = [n \in ToSet(d.groups) |-> Hash(n)] /\ sod.digest = "SHA-256" /\ ~sod.error
  <2>1. \/ \E x : LdsInBody(f) = <<x>> /\ LdsGiven(x, d)
        \/ LdsInBody(f) = <<>> /\ signer.attrs = Holds(TagSet, AttrsOf(d)) /\ d.place = "attributes"
    <3>1. CASE d.place = "content"
      BY <1>7, <3>1
    <3>2. CASE d.place = "attributes"
      <4>1. LastByteServes(d.attrs) /\ d.attrs > 0
        BY <1>1, <1>9, <3>2
      <4> QED BY <1>4, <1>5, <1>7, <3>2, <4>1
    <3> QED BY <1>1, <3>1, <3>2
  <2>2. parsed # {} /\ LdsGiven(objects[Max(parsed)], d)
    BY <1>1, <2>1, LdsTaken
  <2> HIDE DEF parsed, objects
  <2> QED BY <1>8, <2>2 DEF LdsGiven
<1>10. d.attrs \in 1 .. 127 => sod.attrs = Holds(TagSet, AttrsOf(d))
  <2>1. ASSUME d.attrs \in 1 .. 127 PROVE sod.attrs = Holds(TagSet, AttrsOf(d))
    <3>1. d.attrs > 0 /\ LastByteServes(d.attrs)
      BY <2>1 DEF LastByteServes
    <3> QED BY <1>4, <1>5, <1>8, <3>1
  <2> QED BY <2>1
<1>11. sod.cert = (IF d.certs THEN "signer" ELSE None)
  <2>1. sod.cert = FirstCert(f)
    BY <1>8
  <2>2. CASE d.certs
    BY <1>6, <2>1, <2>2
  <2>3. CASE ~d.certs
    BY <1>6, <2>1, <2>3
  <2> QED BY <2>2, <2>3
<1>12. sod.sigAlg = "SHA-512" /\ sod.signature = "first"
  BY <1>4, <1>8
<1> QED BY <1>9, <1>10, <1>11, <1>12 DEF sod, data

\* The hashes, their digest, the first signer's signature and the first
\* certificate are those of EF.SOD, however many groups and signers it has
\* (parse_sod).
THEOREM SodAlwaysRead == Spec => []SodRead
<1>1. call \in Calls => SodRead
  <2> SUFFICES ASSUME call \in Calls, call.of = "parse_sod" PROVE SodRead
    BY DEF SodRead
  <2>1. call.input \in SodCases
    BY InputOf
  <2> QED BY <2>1, FileRead DEF SodRead
<1> QED BY <1>1, CallsMade, PTL

-----------------------------------------------------------------------------
(* BER-TLV: numbers of several bytes.                                      *)

LEMMA BytesIn == ASSUME NEW b \in Seq(Bytes) PROVE Len(b) \in Nat /\ \A j \in 1 .. Len(b) : b[j] \in 0 .. 255 /\ b[j] \in Nat
<1>1. \A j \in 1 .. Len(b) : b[j] \in Bytes
  OBVIOUS
<1>2. \A x \in Bytes : x \in 0 .. 255 /\ x \in Nat
  BY DEF Bytes
<1> QED BY <1>1, <1>2

LEMMA MinTwo == ASSUME NEW a \in Nat, NEW b \in Nat PROVE Min({a, b}) = IF a <= b THEN a ELSE b
<1>1. {a, b} \subseteq Nat /\ {a, b} # {}
  OBVIOUS
<1>2. Min({a, b}) \in {a, b} /\ \A y \in {a, b} : Min({a, b}) <= y
  BY <1>1, MinOf
<1> QED BY <1>2

BigStep(v, bytes, limit, k) == Min({256 * v[k - 1] + bytes[k], limit})
BigSteps(v, bytes, limit) == v = [k \in 0 .. Len(bytes) |-> IF k = 0 THEN 0 ELSE BigStep(v, bytes, limit, k)]
BigTo(v, bytes, limit, k) ==
  v \in [0 .. Len(bytes) -> Nat] /\ v[0] = 0 /\ \A j \in 1 .. k : v[j] = BigStep(v, bytes, limit, j)

LEMMA BigDef ==
  ASSUME NEW bytes, NEW limit
  PROVE  BigEndian(bytes, limit) = (CHOOSE v : BigSteps(v, bytes, limit))[Len(bytes)]
BY DEF BigEndian, BigSteps, BigStep

LEMMA BigFirst ==
  ASSUME NEW bytes, Len(bytes) \in Nat, NEW limit
  PROVE  \E v : BigTo(v, bytes, limit, 0)
<1> DEFINE v == [k \in 0 .. Len(bytes) |-> 0]
<1>1. BigTo(v, bytes, limit, 0)
  BY DEF BigTo
<1> QED BY <1>1

LEMMA BigNext ==
  ASSUME NEW bytes \in Seq(Bytes), NEW limit \in Nat, NEW k \in 1 .. Len(bytes), NEW v, BigTo(v, bytes, limit, k - 1)
  PROVE  \E w : BigTo(w, bytes, limit, k)
<1> DEFINE n == Len(bytes)  x == BigStep(v, bytes, limit, k)  w == [v EXCEPT ![k] = x]
<1>1. n \in Nat /\ k \in 1 .. n /\ \A j \in 1 .. n : bytes[j] \in Nat
  <2>1. Len(bytes) \in Nat /\ \A j \in 1 .. Len(bytes) : bytes[j] \in 0 .. 255 /\ bytes[j] \in Nat
    BY BytesIn
  <2> QED BY <2>1
<1>2. v \in [0 .. n -> Nat] /\ v[0] = 0 /\ \A j \in 1 .. k - 1 : v[j] = BigStep(v, bytes, limit, j)
  BY DEF BigTo
<1>3. x \in Nat
  <2> DEFINE y == 256 * v[k - 1] + bytes[k]
  <2>1. v[k - 1] \in Nat
    BY <1>1, <1>2, SMTT(20)
  <2>2. y \in Nat
    BY <1>1, <2>1
  <2>3. x = Min({y, limit})
    BY DEF BigStep
  <2> HIDE DEF x, y
  <2> QED BY <2>2, <2>3, MinTwo
<1> HIDE DEF x
<1>4. w \in [0 .. n -> Nat] /\ w[k] = x /\ \A j \in 0 .. n : j # k => w[j] = v[j]
  BY <1>1, <1>2, <1>3
<1> HIDE DEF w
<1>5. ASSUME NEW j \in 1 .. k PROVE w[j] = BigStep(w, bytes, limit, j)
  <2>1. j - 1 \in 0 .. n /\ j - 1 # k /\ j \in 0 .. n /\ (j # k => j \in 1 .. k - 1)
    BY <1>1
  <2>2. w[j - 1] = v[j - 1]
    BY <1>4, <2>1
  <2>3. w[j] = BigStep(v, bytes, limit, j)
    BY <1>2, <1>4, <2>1 DEF x
  <2> QED BY <2>2, <2>3 DEF BigStep
<1>6. w[0] = 0
  BY <1>1, <1>2, <1>4
<1>7. BigTo(w, bytes, limit, k)
  BY <1>4, <1>5, <1>6 DEF BigTo
<1> QED BY <1>7

LEMMA BigEndianIs ==
  ASSUME NEW bytes \in Seq(Bytes), NEW limit \in Nat
  PROVE  \E v : BigTo(v, bytes, limit, Len(bytes)) /\ BigEndian(bytes, limit) = v[Len(bytes)]
<1> DEFINE n == Len(bytes)
<1>1. n \in Nat
  OBVIOUS
<1>2. \A k \in 0 .. n : \E v : BigTo(v, bytes, limit, k)
  <2> DEFINE T == {k \in 0 .. n : ~\E v : BigTo(v, bytes, limit, k)}
  <2> SUFFICES ASSUME T # {} PROVE FALSE
    OBVIOUS
  <2>1. T \subseteq Nat
    OBVIOUS
  <2>2. PICK k \in T : \A j \in T : k <= j
    <3> HIDE DEF T
    <3> QED BY <2>1, Least
  <2>3. k # 0
    BY <1>1, BigFirst
  <2>4. k \in 1 .. n /\ k - 1 \in 0 .. n /\ ~(k <= k - 1)
    BY <1>1, <2>3
  <2>5. PICK v : BigTo(v, bytes, limit, k - 1)
    BY <2>2, <2>4
  <2>6. \E w : BigTo(w, bytes, limit, k)
    BY <2>4, <2>5, BigNext
  <2> QED BY <2>6
<1>3. PICK u : BigTo(u, bytes, limit, n)
  <2>1. n \in 0 .. n
    BY <1>1
  <2> QED BY <1>2, <2>1
<1>4. BigSteps(u, bytes, limit)
  <2>1. u = [k \in 0 .. n |-> u[k]] /\ u[0] = 0 /\ \A k \in 1 .. n : u[k] = BigStep(u, bytes, limit, k)
    BY <1>3 DEF BigTo
  <2>2. \A k \in 0 .. n : u[k] = IF k = 0 THEN 0 ELSE BigStep(u, bytes, limit, k)
    BY <1>1, <2>1
  <2> QED BY <2>1, <2>2 DEF BigSteps
<1> DEFINE v == CHOOSE v : BigSteps(v, bytes, limit)
<1>5. BigSteps(v, bytes, limit)
  BY <1>4
<1>6. BigEndian(bytes, limit) = v[n]
  BY BigDef
<1> HIDE DEF v
<1>7. \A k \in 0 .. n : v[k] = IF k = 0 THEN 0 ELSE BigStep(v, bytes, limit, k)
  BY <1>5 DEF BigSteps
<1>8. \A k \in 0 .. n : v[k] = u[k]
  <2> DEFINE T == {k \in 0 .. n : v[k] # u[k]}
  <2> SUFFICES ASSUME T # {} PROVE FALSE
    OBVIOUS
  <2>1. T \subseteq Nat
    OBVIOUS
  <2>2. PICK k \in T : \A j \in T : k <= j
    <3> HIDE DEF T
    <3> QED BY <2>1, Least
  <2>3. k # 0
    <3>1. 0 \in 0 .. n
      BY <1>1
    <3> QED BY <1>3, <1>7, <3>1 DEF BigTo
  <2>4. k \in 1 .. n /\ k \in 0 .. n /\ k - 1 \in 0 .. n /\ ~(k <= k - 1)
    BY <1>1, <2>3
  <2>5. v[k - 1] = u[k - 1]
    BY <2>2, <2>4
  <2>6. v[k] = BigStep(v, bytes, limit, k) /\ u[k] = BigStep(u, bytes, limit, k)
    BY <1>3, <1>7, <2>3, <2>4 DEF BigTo
  <2> QED BY <2>5, <2>6 DEF BigStep
<1>9. BigEndian(bytes, limit) = u[n]
  <2>1. n \in 0 .. n
    BY <1>1
  <2> QED BY <1>6, <1>8, <2>1
<1> QED BY <1>3, <1>9

LEMMA BigNat == ASSUME NEW bytes \in Seq(Bytes), NEW limit \in Nat PROVE BigEndian(bytes, limit) \in Nat
<1>1. PICK v : BigTo(v, bytes, limit, Len(bytes)) /\ BigEndian(bytes, limit) = v[Len(bytes)]
  BY BigEndianIs
<1>2. Len(bytes) \in 0 .. Len(bytes)
  OBVIOUS
<1> QED BY <1>1, <1>2 DEF BigTo

LEMMA BigOne ==
  ASSUME NEW bytes \in Seq(Bytes), Len(bytes) = 1, NEW limit \in Nat, bytes[1] <= limit
  PROVE  BigEndian(bytes, limit) = bytes[1]
<1>1. PICK v : BigTo(v, bytes, limit, 1) /\ BigEndian(bytes, limit) = v[1]
  BY BigEndianIs
<1>2. v[0] = 0 /\ v[1] = BigStep(v, bytes, limit, 1)
  BY <1>1 DEF BigTo
<1>3. bytes[1] \in Nat
  <2>1. 1 \in 1 .. Len(bytes)
    OBVIOUS
  <2> QED BY <2>1, BytesIn
<1>4. v[1] = Min({256 * 0 + bytes[1], limit})
  <2>1. 1 - 1 = 0
    OBVIOUS
  <2> QED BY <1>2, <2>1 DEF BigStep
<1>5. 256 * 0 + bytes[1] = bytes[1]
  BY <1>3
<1> QED BY <1>1, <1>3, <1>4, <1>5, MinTwo

LEMMA BigTwo ==
  ASSUME NEW bytes \in Seq(Bytes), Len(bytes) = 2, NEW limit \in Nat, 256 * bytes[1] + bytes[2] <= limit
  PROVE  BigEndian(bytes, limit) = 256 * bytes[1] + bytes[2]
<1>1. PICK v : BigTo(v, bytes, limit, 2) /\ BigEndian(bytes, limit) = v[2]
  BY BigEndianIs
<1>2. v[0] = 0 /\ v[1] = BigStep(v, bytes, limit, 1) /\ v[2] = BigStep(v, bytes, limit, 2)
  BY <1>1 DEF BigTo
<1> DEFINE x == bytes[1]  y == bytes[2]  z == 256 * x + y
<1>3. x \in Nat /\ y \in Nat
  BY BytesIn
<1>4. v[1] = Min({256 * 0 + x, limit}) /\ v[2] = Min({256 * v[1] + y, limit})
  <2>1. 1 - 1 = 0 /\ 2 - 1 = 1
    OBVIOUS
  <2> QED BY <1>2, <2>1, ZenonT(30) DEF BigStep
<1>4a. z <= limit
  OBVIOUS
<1> HIDE DEF x, y
<1>5. 256 * 0 + x = x /\ x <= limit /\ z \in Nat
  BY <1>3, <1>4a
<1>6. v[1] = x
  BY <1>3, <1>4, <1>5, MinTwo
<1>7. v[2] = Min({z, limit})
  BY <1>4, <1>6
<1> HIDE DEF z
<1>8. v[2] = z
  BY <1>4a, <1>5, <1>7, MinTwo
<1> QED BY <1>1, <1>8 DEF x, y, z

-----------------------------------------------------------------------------
(* BER-TLV: the ends of indefinite values.                                 *)

LEMMA SliceIs ==
  ASSUME NEW data \in Seq(Bytes), NEW m \in 1 .. Len(data) + 1, NEW n \in 0 .. Len(data)
  PROVE  SubSeq(data, m, n) \in Seq(Bytes)
BY SubSeqProperties

LEMMA TagEndIs ==
  ASSUME NEW data \in Seq(Bytes), NEW i \in 1 .. Len(data)
  PROVE  TagEnd(data, i) \in i + 1 .. Len(data) + 1
<1> DEFINE last == {j \in i + 1 .. Len(data) : data[j] < 128}  r == data[i] % 32  e == TagEnd(data, i)
<1>1. r \in Nat
  <2>1. data[i] \in Nat
    BY BytesIn
  <2> QED BY <2>1
<1>2. e = CASE r # 31               -> i + 1
            [] r = 31 /\ last # {} -> Min(last) + 1
            [] r = 31 /\ last = {} -> Len(data) + 1
  BY DEF TagEnd
<1>3. Len(data) \in Nat /\ i \in 1 .. Len(data)
  OBVIOUS
<1>4. last \subseteq i + 1 .. Len(data)
  OBVIOUS
<1> HIDE DEF last, e, r
<1>5. CASE r # 31
  <2>1. e = i + 1
    BY <1>2, <1>5
  <2> QED BY <1>3, <2>1 DEF e
<1>6. CASE r = 31 /\ last # {}
  <2>1. e = Min(last) + 1
    BY <1>2, <1>6
  <2>2. last \subseteq Nat
    BY <1>3, <1>4
  <2>3. Min(last) \in last
    BY <1>6, <2>2, MinOf
  <2>4. Min(last) \in i + 1 .. Len(data)
    BY <1>4, <2>3
  <2> HIDE DEF e
  <2> QED BY <1>3, <2>1, <2>4 DEF e
<1>7. CASE r = 31 /\ last = {}
  <2>1. e = Len(data) + 1
    BY <1>2, <1>7
  <2> QED BY <1>3, <2>1 DEF e
<1> QED BY <1>5, <1>6, <1>7

\* The table of ends has them right from place i on.
EndsFrom(f, data, i) == \A j \in i .. Len(data) + 1 : f[j] \in j .. Len(data) + 1

\* What is read ends after it starts, or nowhere.
LEMMA ReadEnds ==
  ASSUME NEW data \in Seq(Bytes), NEW i \in 1 .. Len(data) + 1, NEW f, EndsFrom(f, data, i + 1)
  PROVE  ReadAt(data, i, f) = Malformed \/ (i <= Len(data) /\ ReadAt(data, i, f).to \in i + 1 .. Len(data) + 1)
<1> DEFINE n == Len(data)  at == TagEnd(data, i)  r == ReadAt(data, i, f)
<1>1. n \in Nat
  OBVIOUS
<1>2. CASE i > n
  BY <1>2 DEF ReadAt
<1>3. CASE i <= n /\ at > n
  <2>1. ~(i > n)
    BY <1>1, <1>3
  <2> QED BY <1>3, <2>1 DEF ReadAt, ReadFrom
<1>4. CASE i <= n /\ ~(at > n)
  <2>1. i \in 1 .. n /\ ~(i > n)
    BY <1>1, <1>4
  <2>2. at \in i + 1 .. n + 1
    BY <2>1, TagEndIs
  <2> DEFINE tag == SubSeq(data, i, at - 1)
  <2>3. r = ValueAt(data, tag, at, f)
    BY <1>4, <2>1 DEF ReadAt, ReadFrom
  <2> HIDE DEF at, tag, r
  <2>4. at \in i + 1 .. n
    BY <1>1, <1>4, <2>1, <2>2
  <2> DEFINE first == data[at]  start == at + 1 + (IF first > 128 THEN first - 128 ELSE 0)
             size == IF first < 128 THEN first ELSE BigEndian(SubSeq(data, at + 1, start - 1), n)
             x == [tag |-> tag, from |-> at + 1, to |-> f[at + 1]]
             y == [tag |-> tag, from |-> start, to |-> start + size]
  <2>5. first \in Nat
    <3>1. at \in 1 .. Len(data)
      BY <1>1, <2>1, <2>4
    <3> QED BY <3>1, BytesIn
  <2>6. r = IF first = 128 THEN x
            ELSE IF first > 132 \/ start > n + 1 \/ start + size > n + 1 THEN Malformed ELSE y
    BY <2>3 DEF ValueAt
  <2>7. x.to = f[at + 1] /\ y.to = start + size
    OBVIOUS
  <2> HIDE DEF x, y
  <2>8. CASE first = 128
    <3>1. at + 1 \in i + 1 .. n + 1 /\ at + 1 > i
      BY <1>1, <2>1, <2>4
    <3>2. f[at + 1] \in at + 1 .. n + 1
      BY <3>1 DEF EndsFrom
    <3>3. r.to \in i + 1 .. n + 1
      BY <1>1, <2>4, <2>6, <2>7, <2>8, <3>1, <3>2
    <3> QED BY <1>4, <3>3 DEF r
  <2>9. CASE first # 128 /\ (first > 132 \/ start > n + 1 \/ start + size > n + 1)
    <3>1. r = Malformed
      BY <2>6, <2>9
    <3> QED BY <3>1 DEF r
  <2>10. CASE first # 128 /\ ~(first > 132 \/ start > n + 1 \/ start + size > n + 1)
    <3>1. r = y
      BY <2>6, <2>10
    <3>2. start \in Nat /\ start >= at + 1 /\ start <= n + 1
      BY <1>1, <2>1, <2>4, <2>5, <2>10
    <3> HIDE DEF start
    <3>3. size \in Nat
      <4>1. at + 1 \in 1 .. n + 1 /\ start - 1 \in 0 .. n
        BY <1>1, <2>1, <2>4, <3>2
      <4>2. SubSeq(data, at + 1, start - 1) \in Seq(Bytes)
        BY <4>1, SliceIs
      <4>3. BigEndian(SubSeq(data, at + 1, start - 1), n) \in Nat
        BY <1>1, <4>2, BigNat
      <4> QED BY <2>5, <4>3
    <3> HIDE DEF size
    <3>4. start + size <= n + 1
      BY <1>1, <2>10, <3>2, <3>3
    <3>5. r.to \in i + 1 .. n + 1
      BY <1>1, <2>1, <2>4, <2>7, <3>1, <3>2, <3>3, <3>4
    <3> QED BY <1>4, <3>5 DEF r
  <2> QED BY <2>8, <2>9, <2>10
<1>5. i <= n \/ i > n
  BY <1>1
<1> QED BY <1>2, <1>3, <1>4, <1>5

\* What is read depends on the ends after it only.
LEMMA ReadSame ==
  ASSUME NEW data \in Seq(Bytes), NEW i \in 1 .. Len(data) + 1, NEW f, NEW g,
         \A j \in i + 1 .. Len(data) + 1 : f[j] = g[j]
  PROVE  ReadAt(data, i, f) = ReadAt(data, i, g)
<1> DEFINE n == Len(data)  at == TagEnd(data, i)
<1>1. n \in Nat
  OBVIOUS
<1>2. CASE i > n
  BY <1>2 DEF ReadAt
<1>3. CASE ~(i > n) /\ at > n
  BY <1>3 DEF ReadAt, ReadFrom
<1>4. CASE ~(i > n) /\ ~(at > n)
  <2>1. i \in 1 .. n
    BY <1>1, <1>4
  <2>2. at \in i + 1 .. n + 1
    BY <2>1, TagEndIs
  <2> HIDE DEF at
  <2>3. at + 1 \in i + 1 .. n + 1
    BY <1>1, <1>4, <2>1, <2>2
  <2>4. f[at + 1] = g[at + 1]
    BY <2>3
  <2>5. \A t : ValueAt(data, t, at, f) = ValueAt(data, t, at, g)
    BY <2>4 DEF ValueAt
  <2> QED BY <1>4, <2>5 DEF ReadAt, ReadFrom, at
<1> QED BY <1>2, <1>3, <1>4

-----------------------------------------------------------------------------
\* One place of the table of ends, and the table.
EndAt(f, data, i) == IF EndMarkAt(data, i) THEN i + 2 ELSE f[ReadAt(data, i, f).to]
Ends(f, data) == f = [i \in 0 .. Len(data) + 1 |-> IF i = 0 THEN Len(data) + 1 ELSE EndAt(f, data, i)]

LEMMA EndsDef == ASSUME NEW data PROVE EndOfContents(data) = CHOOSE f : Ends(f, data)
BY DEF EndOfContents, Ends, EndAt

\* A table that is right from place i on.
EndsTo(f, data, i) ==
  /\ f \in [0 .. Len(data) + 1 -> 0 .. Len(data) + 1] /\ f[0] = Len(data) + 1
  /\ EndsFrom(f, data, i)
  /\ \A j \in i .. Len(data) + 1 : f[j] = EndAt(f, data, j)

LEMMA EndsFirst ==
  ASSUME NEW data \in Seq(Bytes)
  PROVE  \E f : EndsTo(f, data, Len(data) + 2)
<1> DEFINE n == Len(data)  f == [i \in 0 .. n + 1 |-> n + 1]
<1>1. n \in Nat
  OBVIOUS
<1>2. f \in [0 .. n + 1 -> 0 .. n + 1] /\ f[0] = n + 1
  BY <1>1
<1>3. n + 2 .. n + 1 = {}
  BY <1>1
<1> HIDE DEF f
<1>4. EndsTo(f, data, n + 2)
  BY <1>2, <1>3 DEF EndsTo, EndsFrom
<1> QED BY <1>4

LEMMA EndsNext ==
  ASSUME NEW data \in Seq(Bytes), NEW i \in 1 .. Len(data) + 1, NEW f, EndsTo(f, data, i + 1)
  PROVE  \E g : EndsTo(g, data, i)
<1> DEFINE n == Len(data)  x == EndAt(f, data, i)  g == [f EXCEPT ![i] = x]
<1>1. n \in Nat
  OBVIOUS
<1>2. /\ f \in [0 .. n + 1 -> 0 .. n + 1] /\ f[0] = n + 1 /\ EndsFrom(f, data, i + 1)
      /\ \A j \in i + 1 .. n + 1 : f[j] = EndAt(f, data, j)
  BY DEF EndsTo
<1>3. \A j \in i .. n + 1 : LET t == ReadAt(data, j, f).to IN t = 0 \/ t \in j + 1 .. n + 1
  <2> SUFFICES ASSUME NEW j \in i .. n + 1 PROVE ReadAt(data, j, f).to = 0 \/ ReadAt(data, j, f).to \in j + 1 .. n + 1
    OBVIOUS
  <2>1. j \in 1 .. n + 1
    BY <1>1
  <2>2. EndsFrom(f, data, j + 1)
    <3>1. \A k \in j + 1 .. n + 1 : k \in i + 1 .. n + 1
      BY <1>1
    <3> QED BY <1>2, <3>1 DEF EndsFrom
  <2>3. ReadAt(data, j, f) = Malformed \/ ReadAt(data, j, f).to \in j + 1 .. n + 1
    BY <2>1, <2>2, ReadEnds
  <2>4. Malformed.to = 0
    BY DEF Malformed
  <2> QED BY <2>3, <2>4
<1>4. x \in i .. n + 1
  <2> DEFINE t == ReadAt(data, i, f).to
  <2>1. CASE EndMarkAt(data, i)
    <3>1. x = i + 2
      BY <2>1 DEF EndAt
    <3>2. i < n
      BY <2>1 DEF EndMarkAt
    <3> QED BY <1>1, <3>1, <3>2
  <2>2. CASE ~EndMarkAt(data, i)
    <3>1. x = f[t]
      BY <2>2 DEF EndAt
    <3>2. t = 0 \/ t \in i + 1 .. n + 1
      <4>1. i \in i .. n + 1
        BY <1>1
      <4> QED BY <1>3, <4>1
    <3>3. CASE t = 0
      BY <1>1, <1>2, <3>1, <3>3
    <3>4. CASE t \in i + 1 .. n + 1
      <4>1. f[t] \in t .. n + 1
        BY <1>2, <3>4 DEF EndsFrom
      <4> HIDE DEF t, x
      <4> QED BY <1>1, <3>1, <3>4, <4>1
    <3> QED BY <3>2, <3>3, <3>4
  <2> QED BY <2>1, <2>2
<1> HIDE DEF x
<1>5. g \in [0 .. n + 1 -> 0 .. n + 1] /\ g[i] = x /\ \A j \in 0 .. n + 1 : j # i => g[j] = f[j]
  BY <1>1, <1>2, <1>4
<1> HIDE DEF g
<1>6. \A j \in i .. n + 1 : j \in 0 .. n + 1 /\ (j # i => j \in i + 1 .. n + 1)
  BY <1>1
<1>7. EndsFrom(g, data, i)
  <2> SUFFICES ASSUME NEW j \in i .. n + 1 PROVE g[j] \in j .. n + 1
    BY DEF EndsFrom
  <2>1. CASE j = i
    BY <1>4, <1>5, <2>1
  <2>2. CASE j # i
    BY <1>2, <1>5, <1>6, <2>2 DEF EndsFrom
  <2> QED BY <2>1, <2>2
<1>8. ASSUME NEW j \in i .. n + 1 PROVE g[j] = EndAt(g, data, j)
  <2>1. ReadAt(data, j, g) = ReadAt(data, j, f)
    <3>1. j \in 1 .. n + 1
      BY <1>1
    <3>2. \A k \in j + 1 .. n + 1 : k \in 0 .. n + 1 /\ k # i
      BY <1>1
    <3>3. \A k \in j + 1 .. n + 1 : g[k] = f[k]
      BY <1>5, <3>2
    <3> QED BY <3>1, <3>3, ReadSame
  <2> DEFINE t == ReadAt(data, j, f).to
  <2>2. t = 0 \/ t \in j + 1 .. n + 1
    BY <1>3
  <2>3. t \in 0 .. n + 1 /\ t # i
    <3> HIDE DEF t
    <3> QED BY <1>1, <2>2
  <2>4. g[t] = f[t]
    BY <1>5, <2>3
  <2>5. EndAt(g, data, j) = EndAt(f, data, j)
    BY <2>1, <2>4 DEF EndAt
  <2>6. CASE j = i
    BY <1>5, <2>5, <2>6 DEF x
  <2>7. CASE j # i
    BY <1>2, <1>5, <1>6, <2>5, <2>7
  <2> QED BY <2>6, <2>7
<1>9. g[0] = n + 1
  BY <1>1, <1>2, <1>5
<1>10. EndsTo(g, data, i)
  BY <1>5, <1>7, <1>8, <1>9 DEF EndsTo
<1> QED BY <1>10

\* The table the parser has.
LEMMA EndsAre ==
  ASSUME NEW data \in Seq(Bytes), NEW f, f = EndOfContents(data)
  PROVE  /\ EndsFrom(f, data, 1)
         /\ \A i \in 1 .. Len(data) + 1 : f[i] = EndAt(f, data, i)
<1> DEFINE n == Len(data)
<1>1. n \in Nat
  OBVIOUS
<1>2. \A k \in 0 .. n + 1 : \E g : EndsTo(g, data, n + 2 - k)
  <2> DEFINE T == {k \in 0 .. n + 1 : ~\E g : EndsTo(g, data, n + 2 - k)}
  <2> SUFFICES ASSUME T # {} PROVE FALSE
    OBVIOUS
  <2>1. T \subseteq Nat
    OBVIOUS
  <2>2. PICK k \in T : \A j \in T : k <= j
    <3> HIDE DEF T
    <3> QED BY <2>1, Least
  <2>3. k # 0
    <3>1. n + 2 - 0 = n + 2
      BY <1>1
    <3> QED BY <3>1, EndsFirst
  <2> DEFINE i == n + 2 - k
  <2>4. k - 1 \in 0 .. n + 1 /\ ~(k <= k - 1) /\ i \in 1 .. n + 1 /\ n + 2 - (k - 1) = i + 1
    BY <1>1, <2>3
  <2>5. PICK g : EndsTo(g, data, i + 1)
    BY <2>2, <2>4
  <2> HIDE DEF i
  <2>6. \E h : EndsTo(h, data, i)
    BY <2>4, <2>5, EndsNext
  <2> QED BY <2>6 DEF i
<1>3. PICK g : EndsTo(g, data, 1)
  <2>1. n + 1 \in 0 .. n + 1 /\ n + 2 - (n + 1) = 1
    BY <1>1
  <2> QED BY <1>2, <2>1
<1>4. /\ g = [i \in 0 .. n + 1 |-> g[i]] /\ g[0] = n + 1 /\ EndsFrom(g, data, 1)
      /\ \A i \in 1 .. n + 1 : g[i] = EndAt(g, data, i)
  BY <1>3 DEF EndsTo
<1>5. Ends(g, data)
  <2>1. \A i \in 0 .. n + 1 : g[i] = IF i = 0 THEN n + 1 ELSE EndAt(g, data, i)
    BY <1>1, <1>4
  <2> QED BY <1>4, <2>1 DEF Ends
<1>6. Ends(f, data)
  BY <1>5, EndsDef
<1>7. f[0] = n + 1 /\ \A i \in 1 .. n + 1 : f[i] = EndAt(f, data, i)
  <2>1. \A i \in 0 .. n + 1 : f[i] = IF i = 0 THEN n + 1 ELSE EndAt(f, data, i)
    BY <1>6 DEF Ends
  <2> QED BY <1>1, <2>1
<1>8. \A i \in 1 .. n + 1 : f[i] = g[i]
  <2> DEFINE T == {k \in 0 .. n : f[n + 1 - k] # g[n + 1 - k]}
  <2>1. T = {}
    <3> SUFFICES ASSUME T # {} PROVE FALSE
      OBVIOUS
    <3>1. T \subseteq Nat
      OBVIOUS
    <3>2. PICK k \in T : \A j \in T : k <= j
      <4> HIDE DEF T
      <4> QED BY <3>1, Least
    <3> DEFINE i == n + 1 - k
    <3>3. i \in 1 .. n + 1 /\ f[i] # g[i]
      BY <1>1
    <3>4. \A j \in i + 1 .. n + 1 : f[j] = g[j]
      <4> SUFFICES ASSUME NEW j \in i + 1 .. n + 1, f[j] # g[j] PROVE FALSE
        OBVIOUS
      <4> DEFINE l == n + 1 - j
      <4>1. l \in 0 .. n /\ n + 1 - l = j /\ ~(k <= l)
        BY <1>1
      <4> HIDE DEF l
      <4>2. l \in T
        BY <4>1
      <4> QED BY <3>2, <4>1, <4>2
    <3> HIDE DEF i, T
    <3>5. ReadAt(data, i, f) = ReadAt(data, i, g)
      BY <3>3, <3>4, ReadSame
    <3>6. EndsFrom(g, data, i + 1)
      <4>1. \A j \in i + 1 .. n + 1 : j \in 1 .. n + 1
        BY <1>1, <3>3
      <4> QED BY <1>4, <4>1 DEF EndsFrom
    <3> DEFINE t == ReadAt(data, i, g).to
    <3>7. t = 0 \/ t \in i + 1 .. n + 1
      <4>1. ReadAt(data, i, g) = Malformed \/ t \in i + 1 .. n + 1
        BY <3>3, <3>6, ReadEnds
      <4>2. Malformed.to = 0
        BY DEF Malformed
      <4> QED BY <4>1, <4>2
    <3>8. f[t] = g[t]
      BY <1>4, <1>7, <3>4, <3>7
    <3>9. EndAt(f, data, i) = EndAt(g, data, i)
      BY <3>5, <3>8 DEF EndAt
    <3> QED BY <1>4, <1>7, <3>3, <3>9
  <2> SUFFICES ASSUME NEW i \in 1 .. n + 1 PROVE f[i] = g[i]
    OBVIOUS
  <2> DEFINE k == n + 1 - i
  <2>2. k \in 0 .. n /\ n + 1 - k = i
    BY <1>1
  <2> HIDE DEF k
  <2> QED BY <2>1, <2>2
<1>9. EndsFrom(f, data, 1)
  BY <1>4, <1>8 DEF EndsFrom
<1> QED BY <1>7, <1>9

-----------------------------------------------------------------------------
(* BER-TLV: the list of objects.                                           *)

ListAt(l, data, i) ==
  IF i > Len(data) THEN <<>> ELSE Listing(data, ReadAt(data, i, EndOfContents(data)), l)
Listings(l, data) == l = [i \in 1 .. Len(data) + 1 |-> ListAt(l, data, i)]

LEMMA ParseDef == ASSUME NEW data PROVE ParseTlvs(data) = OrBroken((CHOOSE l : Listings(l, data))[1])
BY DEF ParseTlvs, Listings, ListAt

ListTo(l, data, i) ==
  l = [j \in 1 .. Len(data) + 1 |-> l[j]] /\ \A j \in i .. Len(data) + 1 : l[j] = ListAt(l, data, j)

LEMMA ListFirst ==
  ASSUME NEW data \in Seq(Bytes)
  PROVE  \E l : ListTo(l, data, Len(data) + 2)
<1> DEFINE n == Len(data)  l == [i \in 1 .. n + 1 |-> <<>>]
<1>1. n \in Nat
  OBVIOUS
<1>2. l = [i \in 1 .. n + 1 |-> l[i]]
  OBVIOUS
<1>3. n + 2 .. n + 1 = {}
  BY <1>1
<1> HIDE DEF l
<1>4. ListTo(l, data, n + 2)
  BY <1>2, <1>3 DEF ListTo
<1> QED BY <1>4

LEMMA ListNext ==
  ASSUME NEW data \in Seq(Bytes), NEW i \in 1 .. Len(data) + 1, NEW l, ListTo(l, data, i + 1)
  PROVE  \E m : ListTo(m, data, i)
<1> DEFINE n == Len(data)  e == EndOfContents(data)  x == ListAt(l, data, i)  m == [l EXCEPT ![i] = x]
<1>1. n \in Nat
  OBVIOUS
<1>2. l = [j \in 1 .. n + 1 |-> l[j]] /\ \A j \in i + 1 .. n + 1 : l[j] = ListAt(l, data, j)
  BY DEF ListTo
<1>3. EndsFrom(e, data, 1)
  BY EndsAre
<1> HIDE DEF x
<1>4. m = [j \in 1 .. n + 1 |-> m[j]] /\ m[i] = x /\ \A j \in 1 .. n + 1 : j # i => m[j] = l[j]
  BY <1>1, <1>2
<1> HIDE DEF m, e
<1>5. ASSUME NEW j \in i .. n + 1 PROVE ListAt(m, data, j) = ListAt(l, data, j)
  <2> DEFINE t == ReadAt(data, j, e)
  <2>1. j \in 1 .. n + 1
    BY <1>1
  <2>2. EndsFrom(e, data, j + 1)
    <3>1. \A k \in j + 1 .. n + 1 : k \in 1 .. n + 1
      BY <1>1
    <3> QED BY <1>3, <3>1 DEF EndsFrom
  <2>3. t = Malformed \/ t.to \in j + 1 .. n + 1
    BY <2>1, <2>2, ReadEnds
  <2>4. t = Malformed \/ m[t.to] = l[t.to]
    <3> HIDE DEF t
    <3>1. \A k \in j + 1 .. n + 1 : k \in 1 .. n + 1 /\ k # i
      BY <1>1
    <3> QED BY <1>4, <2>3, <3>1
  <2>5. Listing(data, t, m) = Listing(data, t, l)
    <3> HIDE DEF t
    <3> QED BY <2>4 DEF Listing
  <2> QED BY <2>5 DEF ListAt, e
<1>6. ASSUME NEW j \in i .. n + 1 PROVE m[j] = ListAt(m, data, j)
  <2>1. ListAt(m, data, j) = ListAt(l, data, j)
    BY <1>5
  <2>2. CASE j = i
    BY <1>4, <2>1, <2>2 DEF x
  <2>3. CASE j # i
    <3>1. j \in i + 1 .. n + 1 /\ j \in 1 .. n + 1
      BY <1>1, <2>3
    <3> QED BY <1>2, <1>4, <2>1, <2>3, <3>1
  <2> QED BY <2>2, <2>3
<1>7. ListTo(m, data, i)
  BY <1>4, <1>6 DEF ListTo
<1> QED BY <1>7

\* What is listed from each place.
Lists2(l, data) == \A i \in 1 .. Len(data) + 1 : l[i] = ListAt(l, data, i)

LEMMA ParsedFrom ==
  ASSUME NEW data \in Seq(Bytes)
  PROVE  \E l : Lists2(l, data) /\ ParseTlvs(data) = OrBroken(l[1])
<1> DEFINE n == Len(data)
<1>1. n \in Nat
  OBVIOUS
<1>2. \A k \in 0 .. n + 1 : \E l : ListTo(l, data, n + 2 - k)
  <2> DEFINE T == {k \in 0 .. n + 1 : ~\E l : ListTo(l, data, n + 2 - k)}
  <2> SUFFICES ASSUME T # {} PROVE FALSE
    OBVIOUS
  <2>1. T \subseteq Nat
    OBVIOUS
  <2>2. PICK k \in T : \A j \in T : k <= j
    <3> HIDE DEF T
    <3> QED BY <2>1, Least
  <2>3. k # 0
    <3>1. n + 2 - 0 = n + 2
      BY <1>1
    <3> QED BY <3>1, ListFirst
  <2> DEFINE i == n + 2 - k
  <2>4. k - 1 \in 0 .. n + 1 /\ ~(k <= k - 1) /\ i \in 1 .. n + 1 /\ n + 2 - (k - 1) = i + 1
    BY <1>1, <2>3
  <2>5. PICK l : ListTo(l, data, i + 1)
    BY <2>2, <2>4
  <2> HIDE DEF i
  <2>6. \E m : ListTo(m, data, i)
    BY <2>4, <2>5, ListNext
  <2> QED BY <2>6 DEF i
<1>3. PICK u : ListTo(u, data, 1)
  <2>1. n + 1 \in 0 .. n + 1 /\ n + 2 - (n + 1) = 1
    BY <1>1
  <2> QED BY <1>2, <2>1
<1>4. Listings(u, data)
  BY <1>3 DEF ListTo, Listings
<1> DEFINE l == CHOOSE l : Listings(l, data)
<1>5. Listings(l, data)
  BY <1>4
<1>6. ParseTlvs(data) = OrBroken(l[1])
  BY ParseDef
<1> HIDE DEF l
<1>7. Lists2(l, data)
  BY <1>5 DEF Listings, Lists2
<1> QED BY <1>6, <1>7

-----------------------------------------------------------------------------
(* BER-TLV: a tag and a length where they stand.                           *)

\* The bytes b stand in the data from place i on.
At(data, i, b) ==
  /\ i \in Nat \ {0} /\ i - 1 + Len(b) <= Len(data)
  /\ \A k \in 1 .. Len(b) : data[i - 1 + k] = b[k]

LEMMA BytesList == ASSUME NEW b \in Seq(Bytes) PROVE List(b) /\ Len(b) \in Nat
BY DEF List

LEMMA AtParts ==
  ASSUME NEW data \in Seq(Bytes), NEW i, NEW s \in Seq(Bytes), NEW t \in Seq(Bytes), NEW b, b = s \o t, At(data, i, b)
  PROVE  At(data, i, s) /\ At(data, i + Len(s), t)
<1> DEFINE m == Len(s)  n == Len(t)
<1>1. List(s) /\ List(t) /\ m \in Nat /\ n \in Nat /\ Len(data) \in Nat
  BY BytesList
<1>2. Len(b) = m + n /\ \A k \in 1 .. m + n : b[k] = IF k <= m THEN s[k] ELSE t[k - m]
  BY <1>1, ListConcat
<1>3. i \in Nat \ {0} /\ i - 1 + (m + n) <= Len(data) /\ \A k \in 1 .. m + n : data[i - 1 + k] = b[k]
  BY <1>2 DEF At
<1> HIDE DEF m, n
<1>4. \A k \in 1 .. m : data[i - 1 + k] = s[k]
  <2>1. \A k \in 1 .. m : k \in 1 .. m + n /\ k <= m
    BY <1>1
  <2> QED BY <1>2, <1>3, <2>1
<1>5. \A k \in 1 .. n : data[i + m - 1 + k] = t[k]
  <2> SUFFICES ASSUME NEW k \in 1 .. n PROVE data[i + m - 1 + k] = t[k]
    OBVIOUS
  <2>1. m + k \in 1 .. m + n /\ ~(m + k <= m) /\ (m + k) - m = k /\ i - 1 + (m + k) = i + m - 1 + k
    BY <1>1, <1>3
  <2> QED BY <1>2, <1>3, <2>1
<1>6. i + m \in Nat \ {0} /\ i + m - 1 + n <= Len(data) /\ i - 1 + m <= Len(data)
  BY <1>1, <1>3
<1> QED BY <1>3, <1>4, <1>5, <1>6 DEF At, m, n

\* What stands there is what is cut out.
LEMMA AtCut ==
  ASSUME NEW data \in Seq(Bytes), NEW b \in Seq(Bytes), NEW i, At(data, i, b), NEW to, to = i + Len(b) - 1
  PROVE  SubSeq(data, i, to) = b
<1>1. List(data) /\ List(b) /\ Len(b) \in Nat /\ Len(data) \in Nat
  BY BytesList
<1> DEFINE k == i - 1
<1>2. i \in Nat \ {0} /\ k + Len(b) <= Len(data) /\ \A j \in 1 .. Len(b) : data[k + j] = b[j]
  BY DEF At
<1>3. k \in Nat /\ i = k + 1 /\ to = k + Len(b)
  BY <1>1, <1>2
<1> HIDE DEF k
<1>4. Reads(data, k, b, i, to)
  BY <1>1, <1>2, <1>3 DEF Reads
<1> QED BY <1>4, PartIs

\* A tag the way the parser tells where it ends; the end mark has one too.
TagForm(tag) ==
  /\ tag \in Seq(Bytes) /\ Len(tag) > 0
  /\ Len(tag) = 1 <=> tag[1] % 32 # 31
  /\ \A j \in 2 .. Len(tag) : tag[j] < 128 <=> j = Len(tag)

LEMMA TagAt ==
  ASSUME NEW data \in Seq(Bytes), NEW i, NEW tag, TagForm(tag), At(data, i, tag)
  PROVE  TagEnd(data, i) = i + Len(tag) /\ SubSeq(data, i, (i + Len(tag)) - 1) = tag
<1> DEFINE m == Len(tag)  n == Len(data)
<1>1. /\ tag \in Seq(Bytes) /\ m > 0 /\ (m = 1 <=> tag[1] % 32 # 31)
      /\ \A j \in 2 .. m : tag[j] < 128 <=> j = m
  BY DEF TagForm
<1>2. m \in Nat /\ n \in Nat
  BY <1>1
<1>3. i \in Nat \ {0} /\ i - 1 + m <= n /\ \A k \in 1 .. m : data[i - 1 + k] = tag[k]
  BY DEF At
<1>4. data[i] = tag[1]
  <2>1. 1 \in 1 .. m /\ i - 1 + 1 = i
    BY <1>1, <1>2, <1>3
  <2> QED BY <1>3, <2>1
<1>5. TagEnd(data, i) = i + m
  <2> DEFINE last == {j \in i + 1 .. n : data[j] < 128}  r == data[i] % 32  e == TagEnd(data, i)
  <2>1. e = CASE r # 31               -> i + 1
              [] r = 31 /\ last # {} -> Min(last) + 1
              [] r = 31 /\ last = {} -> n + 1
    BY DEF TagEnd
  <2>2. r = tag[1] % 32
    BY <1>4
  <2>3. CASE r # 31
    <3>1. m = 1
      BY <1>1, <2>2, <2>3
    <3> HIDE DEF last, e, r
    <3>2. e = i + 1
      BY <2>1, <2>3
    <3> QED BY <3>1, <3>2 DEF e
  <2>4. CASE r = 31
    <3> DEFINE j0 == i + m - 1
    <3>1. m # 1
      BY <1>1, <2>2, <2>4
    <3>2. j0 \in i + 1 .. n /\ m \in 2 .. m /\ m \in 1 .. m /\ i - 1 + m = j0
      <4>1. m \in Nat /\ m > 0 /\ m # 1 /\ n \in Nat /\ i \in Nat \ {0} /\ i - 1 + m <= n
        BY <1>2, <1>1, <1>3, <3>1
      <4> HIDE DEF m, n
      <4> QED BY <4>1
    <3>3. data[j0] < 128
      BY <1>1, <1>3, <3>2
    <3>4. ASSUME NEW j \in last PROVE j0 <= j
      <4>1. SUFFICES ASSUME ~(j0 <= j) PROVE FALSE
        OBVIOUS
      <4> DEFINE k == j - i + 1
      <4>2. j \in i + 1 .. n /\ data[j] < 128
        OBVIOUS
      <4>3. k \in 2 .. m /\ k # m /\ k \in 1 .. m /\ i - 1 + k = j
        BY <1>2, <1>3, <4>1, <4>2
      <4> HIDE DEF k
      <4>4. tag[k] < 128
        BY <1>3, <4>2, <4>3
      <4> QED BY <1>1, <4>3, <4>4
    <3>5. j0 \in last /\ last \subseteq Nat /\ last # {} /\ j0 \in Nat
      <4>1. j0 \in last
        BY <3>2, <3>3
      <4>2. i + 1 .. n \subseteq Nat
        BY <1>2, <1>3
      <4>3. last \subseteq Nat
        BY <4>2
      <4> HIDE DEF last, j0
      <4> QED BY <4>1, <4>3
    <3> HIDE DEF last, j0
    <3>6. Min(last) \in last /\ Min(last) <= j0
      BY <3>5, MinOf
    <3>7. Min(last) = j0
      <4>1. Min(last) \in Nat /\ j0 <= Min(last)
        BY <3>4, <3>5, <3>6
      <4> QED BY <3>5, <3>6, <4>1
    <3> HIDE DEF e, r
    <3>8. e = Min(last) + 1
      BY <2>1, <2>4, <3>5
    <3>9. j0 + 1 = i + m
      BY <1>2, <1>3 DEF j0
    <3> QED BY <3>7, <3>8, <3>9 DEF e
  <2> QED BY <2>3, <2>4
<1>6. SubSeq(data, i, (i + m) - 1) = tag
  <2>1. (i + m) - 1 = i + Len(tag) - 1
    BY <1>2, <1>3
  <2> QED BY <1>1, <2>1, AtCut
<1> QED BY <1>5, <1>6

-----------------------------------------------------------------------------
(* BER-TLV: an object of stated length.                                    *)

\* The length written for m has one byte, or says how many follow.
Length(h, m) ==
  /\ h \in Seq(Bytes)
  /\ \/ Len(h) = 1 /\ h[1] = m /\ m < 128
     \/ Len(h) = 2 /\ h[1] = 129 /\ h[2] = m
     \/ Len(h) = 3 /\ h[1] = 130 /\ 256 * h[2] + h[3] = m

LEMMA LengthIs == ASSUME NEW m \in Nat, m < 65536 PROVE Length(LengthBytes(m), m)
<1> DEFINE h == LengthBytes(m)
<1>1. h = CASE m < 128              -> <<m>>
            [] m \in 128 .. 255     -> <<129, m>>
            [] m > 255              -> <<130, (m \div 256) % 256, m % 256>>
  BY DEF LengthBytes
<1> HIDE DEF h
<1>2. CASE m < 128
  <2>1. h = <<m>>
    BY <1>1, <1>2
  <2>2. m \in Bytes
    BY <1>2 DEF Bytes
  <2> QED BY <1>2, <2>1, <2>2 DEF Length, h
<1>3. CASE m \in 128 .. 255
  <2>1. h = <<129, m>>
    BY <1>1, <1>3
  <2>2. m \in Bytes /\ 129 \in Bytes
    BY <1>3 DEF Bytes
  <2> QED BY <2>1, <2>2 DEF Length, h
<1>4. CASE m > 255
  <2> DEFINE x == (m \div 256) % 256  y == m % 256
  <2>1. h = <<130, x, y>>
    BY <1>1, <1>4
  <2>2. x \in 0 .. 255 /\ y \in 0 .. 255 /\ 256 * x + y = m
    <3> DEFINE z == m \div 256
    <3>1. z \in Nat /\ y \in 0 .. 255 /\ m = 256 * z + y
      OBVIOUS
    <3>2. z < 256
      BY <3>1
    <3>3. z % 256 = z
      BY <3>1, <3>2
    <3> QED BY <3>1, <3>2, <3>3
  <2> HIDE DEF x, y
  <2>3. x \in Bytes /\ y \in Bytes /\ 130 \in Bytes
    BY <2>2 DEF Bytes
  <2>4. h \in Seq(Bytes) /\ Len(h) = 3 /\ h[1] = 130 /\ h[2] = x /\ h[3] = y
    BY <2>1, <2>3
  <2> QED BY <2>2, <2>4 DEF Length, h
<1> QED BY <1>2, <1>3, <1>4

\* What is read where a tag and the length m stand, whatever follows.
SizedAt(data, tag, start, m) ==
  IF start + m > Len(data) + 1 THEN Malformed ELSE [tag |-> tag, from |-> start, to |-> start + m]

LEMMA ValueSized ==
  ASSUME NEW data \in Seq(Bytes), NEW at, NEW m \in Nat, m <= Len(data), NEW h, Length(h, m), At(data, at, h),
         NEW tag, NEW f
  PROVE  ValueAt(data, tag, at, f) = SizedAt(data, tag, at + Len(h), m)
<1> DEFINE n == Len(data)  first == data[at]
           start == at + 1 + (IF first > 128 THEN first - 128 ELSE 0)
           size == IF first < 128 THEN first ELSE BigEndian(SubSeq(data, at + 1, start - 1), n)
           x == [tag |-> tag, from |-> at + 1, to |-> f[at + 1]]
<1>1. ValueAt(data, tag, at, f) =
        IF first = 128 THEN x
        ELSE IF first > 132 \/ start > n + 1 \/ start + size > n + 1 THEN Malformed
             ELSE [tag |-> tag, from |-> start, to |-> start + size]
  BY DEF ValueAt
<1>2. n \in Nat /\ Len(h) \in Nat
  BY BytesList DEF Length
<1>3. at \in Nat \ {0} /\ at - 1 + Len(h) <= n /\ \A k \in 1 .. Len(h) : data[at - 1 + k] = h[k]
  BY DEF At
<1>4. h \in Seq(Bytes) /\ Len(h) \in {1, 2, 3}
  BY DEF Length
<1>5. \A j \in 1 .. Len(h) : h[j] \in 0 .. 255
  BY <1>4, BytesIn
<1>6. first = h[1]
  <2>1. 1 \in 1 .. Len(h)
    BY <1>4, SMTT(20)
  <2>2. at - 1 + 1 = at
    BY <1>3
  <2>3. data[at - 1 + 1] = h[1]
    BY <1>3, <2>1
  <2> QED BY <2>2, <2>3
<1>7. first # 128 /\ ~(first > 132) /\ start = at + Len(h) /\ size = m
  <2>1. CASE Len(h) = 1
    <3>1. h[1] = m /\ m < 128
      BY <2>1 DEF Length
    <3>2. first = m
      BY <1>6, <3>1
    <3> QED BY <1>3, <2>1, <3>1, <3>2
  <2>2. CASE Len(h) = 2
    <3>1. h[1] = 129 /\ h[2] = m
      BY <2>2 DEF Length
    <3>2. first = 129
      BY <1>6, <3>1
    <3>3. start = at + 2 /\ start - 1 = at + 1
      BY <1>3, <3>2
    <3>4. data[at + 1] = m
      <4>1. 2 \in 1 .. Len(h) /\ at - 1 + 2 = at + 1
        BY <1>3, <2>2
      <4> QED BY <1>3, <3>1, <4>1
    <3> DEFINE b == SubSeq(data, at + 1, at + 1)
    <3>5. b \in Seq(Bytes) /\ Len(b) = 1 /\ b[1] = m
      <4>1. at + 1 \in 1 .. n /\ at + 1 \in Int
        BY <1>2, <1>3, <2>2
      <4>2. \A j \in at + 1 .. at + 1 : data[j] \in Bytes
        BY <4>1
      <4> DEFINE p == at + 1
      <4>3. p \in Int /\ \A j \in p .. p : data[j] \in Bytes
        BY <4>1, <4>2
      <4> HIDE DEF p
      <4>4. /\ SubSeq(data, p, p) \in Seq(Bytes) /\ Len(SubSeq(data, p, p)) = (IF p <= p THEN p - p + 1 ELSE 0)
            /\ \A j \in 1 .. p - p + 1 : SubSeq(data, p, p)[j] = data[p + j - 1]
        BY <4>3, SubSeqProperties
      <4>5. p - p + 1 = 1 /\ p + 1 - 1 = p /\ 1 \in 1 .. 1
        BY <4>3
      <4>6. SubSeq(data, p, p) \in Seq(Bytes) /\ Len(SubSeq(data, p, p)) = 1 /\ SubSeq(data, p, p)[1] = data[p]
        BY <4>3, <4>4, <4>5
      <4> QED BY <3>4, <4>6 DEF p
    <3> HIDE DEF b
    <3>6. BigEndian(b, n) = m
      BY <1>2, <3>5, BigOne
    <3>7. size = BigEndian(b, n)
      BY <3>2, <3>3 DEF b
    <3> HIDE DEF size, first, start
    <3> QED BY <2>2, <3>2, <3>3, <3>6, <3>7
  <2>3. CASE Len(h) = 3
    <3>1. h[1] = 130 /\ 256 * h[2] + h[3] = m
      BY <2>3 DEF Length
    <3>2. first = 130
      BY <1>6, <3>1
    <3>3. start = at + 3 /\ start - 1 = at + 2
      BY <1>3, <3>2
    <3>4. data[at + 1] = h[2] /\ data[at + 2] = h[3]
      <4>1. 2 \in 1 .. Len(h) /\ at - 1 + 2 = at + 1 /\ 3 \in 1 .. Len(h) /\ at - 1 + 3 = at + 2
        BY <1>3, <2>3
      <4> QED BY <1>3, <4>1
    <3> DEFINE b == SubSeq(data, at + 1, at + 2)
    <3>5. b \in Seq(Bytes) /\ Len(b) = 2 /\ b[1] = h[2] /\ b[2] = h[3]
      <4> DEFINE p == at + 1  q == at + 2
      <4>1. p \in 1 .. n /\ q \in 1 .. n /\ p \in Int /\ q = p + 1
        BY <1>2, <1>3, <2>3
      <4>2. \A j \in p .. q : data[j] \in Bytes
        <5> HIDE DEF p, q
        <5>1. \A j \in p .. q : j \in 1 .. n
          BY <4>1
        <5> QED BY <5>1
      <4> HIDE DEF p, q
      <4>4. /\ SubSeq(data, p, q) \in Seq(Bytes) /\ Len(SubSeq(data, p, q)) = (IF p <= q THEN q - p + 1 ELSE 0)
            /\ \A j \in 1 .. q - p + 1 : SubSeq(data, p, q)[j] = data[p + j - 1]
        BY <4>1, <4>2, SubSeqProperties
      <4>5. q - p + 1 = 2 /\ p + 1 - 1 = p /\ p + 2 - 1 = q /\ 1 \in 1 .. 2 /\ 2 \in 1 .. 2 /\ p <= q
        BY <4>1
      <4>6. /\ SubSeq(data, p, q) \in Seq(Bytes) /\ Len(SubSeq(data, p, q)) = 2
            /\ SubSeq(data, p, q)[1] = data[p] /\ SubSeq(data, p, q)[2] = data[q]
        BY <4>4, <4>5
      <4> QED BY <3>4, <4>6 DEF p, q
    <3> HIDE DEF b
    <3>6. BigEndian(b, n) = m
      <4>1. 256 * b[1] + b[2] <= n /\ 256 * b[1] + b[2] = m
        BY <3>1, <3>5
      <4> QED BY <1>2, <3>5, <4>1, BigTwo
    <3>7. size = BigEndian(b, n)
      BY <3>2, <3>3 DEF b
    <3> HIDE DEF size, first, start
    <3> QED BY <2>3, <3>2, <3>3, <3>6, <3>7
  <2> QED BY <1>4, <2>1, <2>2, <2>3
<1> DEFINE s == at + Len(h)
<1>8. ~(s > n + 1)
  BY <1>2, <1>3
<1> HIDE DEF first, start, size, x, s
<1>9. ValueAt(data, tag, at, f) = IF s > n + 1 \/ s + m > n + 1 THEN Malformed
                                   ELSE [tag |-> tag, from |-> s, to |-> s + m]
  BY <1>1, <1>7 DEF s
<1>10. ValueAt(data, tag, at, f) = SizedAt(data, tag, s, m)
  BY <1>8, <1>9 DEF SizedAt
<1> QED BY <1>10 DEF s

LEMMA ReadSized ==
  ASSUME NEW data \in Seq(Bytes), NEW i, NEW tag, TagForm(tag), At(data, i, tag),
         NEW m \in Nat, m <= Len(data), NEW h, Length(h, m), At(data, i + Len(tag), h), NEW f
  PROVE  ReadAt(data, i, f) = SizedAt(data, tag, i + Len(tag) + Len(h), m)
<1> DEFINE at == i + Len(tag)
<1>1. TagEnd(data, i) = at /\ SubSeq(data, i, at - 1) = tag
  <2>1. TagEnd(data, i) = i + Len(tag) /\ SubSeq(data, i, (i + Len(tag)) - 1) = tag
    BY TagAt
  <2> QED BY <2>1
<1>2. Len(tag) \in Nat /\ Len(h) \in Nat /\ Len(h) > 0 /\ Len(tag) > 0
  BY BytesList DEF Length, TagForm
<1>3. i \in Nat \ {0} /\ at \in Nat /\ at - 1 + Len(h) <= Len(data)
  BY <1>2 DEF At
<1>4. ~(i > Len(data)) /\ ~(at > Len(data))
  BY <1>2, <1>3
<1>5. ValueAt(data, tag, at, f) = SizedAt(data, tag, at + Len(h), m)
  BY ValueSized
<1> HIDE DEF at
<1>6. ReadAt(data, i, f) = ValueAt(data, tag, at, f)
  BY <1>1, <1>4 DEF ReadAt, ReadFrom
<1> QED BY <1>5, <1>6 DEF at

-----------------------------------------------------------------------------
(* BER-TLV: objects in a row.                                              *)

\* The bytes of several objects, one after the other.
LEMMA FlatBytes ==
  ASSUME NEW q, List(q), \A k \in 1 .. Len(q) : q[k] \in Seq(Bytes)
  PROVE  Lists1(q) /\ FlattenSeq(q) \in Seq(Bytes)
<1>1. Lists1(q)
  BY BytesList DEF Lists1
<1> DEFINE b == FlattenSeq(q)
<1>2. List(b) /\ \A k \in 1 .. Len(b) : From(b[k], q)
  BY <1>1, FlattenList, FlattenFrom
<1>3. \A x : From(x, q) => x \in Bytes
  <2> SUFFICES ASSUME NEW x, From(x, q) PROVE x \in Bytes
    OBVIOUS
  <2>1. PICK k \in 1 .. Len(q) : \E j \in 1 .. Len(q[k]) : q[k][j] = x
    BY DEF From
  <2>2. q[k] \in Seq(Bytes)
    OBVIOUS
  <2> HIDE DEF From
  <2>3. \A j \in 1 .. Len(q[k]) : q[k][j] \in Bytes
    BY <2>2
  <2> QED BY <2>1, <2>3
<1> HIDE DEF b
<1>4. Len(b) \in Nat /\ b = [k \in 1 .. Len(b) |-> b[k]] /\ \A k \in 1 .. Len(b) : b[k] \in Bytes
  BY <1>2, <1>3, ListIs
<1>5. b \in Seq(Bytes)
  BY <1>4
<1> QED BY <1>1, <1>5 DEF b

LEMMA ConcatBytes ==
  ASSUME NEW s \in Seq(Bytes), NEW t \in Seq(Bytes)
  PROVE  s \o t \in Seq(Bytes) /\ Len(s \o t) = Len(s) + Len(t) /\ Len(s) \in Nat /\ Len(t) \in Nat
OBVIOUS

-----------------------------------------------------------------------------
\* What is read is the entry e, and ends at the place to.
IsRead(t, data, to, e) ==
  t # Malformed /\ t.tag = e.tag /\ t.to = to /\ SubSeq(data, t.from, t.to - 1) = e.value

\* The bytes b are read as the entry e wherever they stand.
ReadsAs(b, e) ==
  /\ b \in Seq(Bytes) /\ Len(b) > 0 /\ e = [tag |-> e.tag, value |-> e.value] /\ e.tag # <<>>
  /\ \A data \in Seq(Bytes) : \A i : At(data, i, b) => IsRead(ReadAt(data, i, EndOfContents(data)), data, i + Len(b), e)

Row(q, es) == List(q) /\ List(es) /\ Len(es) = Len(q) /\ \A k \in 1 .. Len(q) : ReadsAs(q[k], es[k])

\* None of them is taken for an end mark.
Unmarked(q) == \A k \in 1 .. Len(q) : q[k][1] # 0

\* A row with one more object.
MoreRow(q, es, p, ps, x, e) ==
  /\ Row(p, ps) /\ ReadsAs(x, e) /\ q = p \o <<x>> /\ es = ps \o <<e>>
  /\ Len(p) \in Nat /\ Len(q) = Len(p) + 1 /\ (Unmarked(q) => Unmarked(p) /\ x[1] # 0)

LEMMA RowSplit ==
  ASSUME NEW q, NEW es, Row(q, es), q # <<>>
  PROVE  \E p, ps, x, e : MoreRow(q, es, p, ps, x, e)
<1>1. List(q) /\ List(es) /\ Len(es) = Len(q) /\ (\A k \in 1 .. Len(q) : ReadsAs(q[k], es[k])) /\ Len(q) \in Nat
  BY ListIs DEF Row
<1>2. PICK p, x : List(p) /\ q = p \o <<x>> /\ Len(q) = Len(p) + 1 /\ x = q[Len(q)] /\ \A k \in 1 .. Len(p) : p[k] = q[k]
  BY <1>1, SplitLast
<1>3. Len(p) \in Nat
  BY <1>2, ListIs
<1>4. es # <<>>
  <2>1. Len(<<>>) = 0
    BY ListEmpty
  <2> QED BY <1>1, <1>2, <1>3, <2>1
<1>5. PICK ps, e : List(ps) /\ es = ps \o <<e>> /\ Len(es) = Len(ps) + 1 /\ e = es[Len(es)]
                   /\ \A k \in 1 .. Len(ps) : ps[k] = es[k]
  BY <1>1, <1>4, SplitLast
<1>6. Len(ps) \in Nat
  BY <1>5, ListIs
<1>7. Len(ps) = Len(p)
  BY <1>1, <1>2, <1>3, <1>5, <1>6
<1>8. \A k \in 1 .. Len(p) : k \in 1 .. Len(q)
  BY <1>2, <1>3
<1>9. Len(q) \in 1 .. Len(q)
  BY <1>2, <1>3
<1>10. Row(p, ps)
  BY <1>1, <1>2, <1>5, <1>7, <1>8 DEF Row
<1>11. ReadsAs(x, e)
  BY <1>1, <1>2, <1>5, <1>9
<1>12. Unmarked(q) => Unmarked(p) /\ x[1] # 0
  BY <1>2, <1>8, <1>9 DEF Unmarked
<1> HIDE DEF ReadsAs, Row, Unmarked
<1>13. MoreRow(q, es, p, ps, x, e)
  BY <1>2, <1>3, <1>5, <1>10, <1>11, <1>12 DEF MoreRow
<1> QED BY <1>13

LEMMA RowBytes ==
  ASSUME NEW q, NEW es, Row(q, es)
  PROVE  Lists1(q) /\ FlattenSeq(q) \in Seq(Bytes)
<1>1. List(q) /\ \A k \in 1 .. Len(q) : q[k] \in Seq(Bytes)
  BY DEF Row, ReadsAs
<1> QED BY <1>1, FlatBytes

\* The last object of a row stands after the others.
After(data, i, q, p, x, j) ==
  /\ At(data, i, FlattenSeq(p)) /\ j = i + Len(FlattenSeq(p)) /\ At(data, j, x)
  /\ j \in Nat \ {0} /\ j + Len(x) = i + Len(FlattenSeq(q)) /\ j <= Len(data) /\ j + Len(x) <= Len(data) + 1 /\ Len(x) > 0

LEMMA RowAt ==
  ASSUME NEW data \in Seq(Bytes), NEW i, NEW q, NEW es, At(data, i, FlattenSeq(q)),
         NEW p, NEW ps, NEW x, NEW e, MoreRow(q, es, p, ps, x, e)
  PROVE  \E j : After(data, i, q, p, x, j)
<1>1. Row(p, ps) /\ ReadsAs(x, e) /\ q = p \o <<x>>
  BY DEF MoreRow
<1> DEFINE s == FlattenSeq(p)  b == FlattenSeq(q)  j == i + Len(s)
<1>2. Lists1(p) /\ s \in Seq(Bytes)
  BY <1>1, RowBytes
<1>3. x \in Seq(Bytes) /\ Len(x) > 0 /\ List(x)
  BY <1>1, BytesList DEF ReadsAs
<1>4. b = s \o x
  BY <1>1, <1>2, <1>3, FlattenAppend
<1>5. Len(b) = Len(s) + Len(x) /\ Len(s) \in Nat /\ Len(x) \in Nat
  BY <1>2, <1>3, <1>4, ConcatBytes
<1> HIDE DEF s, b
<1>6. At(data, i, s) /\ At(data, i + Len(s), x)
  <2>1. At(data, i, b)
    BY DEF b
  <2> QED BY <1>2, <1>3, <1>4, <2>1, AtParts
<1>7. i \in Nat \ {0} /\ (j - 1) + Len(x) <= Len(data) /\ Len(data) \in Nat
  BY <1>6, BytesList DEF At
<1>8. j \in Nat \ {0} /\ j + Len(x) = i + Len(b) /\ j <= Len(data) /\ j + Len(x) <= Len(data) + 1
  BY <1>3, <1>5, <1>7
<1>9. After(data, i, q, p, x, j)
  BY <1>3, <1>6, <1>8 DEF After, s, b
<1> QED BY <1>9

-----------------------------------------------------------------------------
(* BER-TLV: what is read of a row.                                         *)

\* The search for the end of indefinite contents goes over a row.
LEMMA WalkRow ==
  ASSUME NEW data \in Seq(Bytes), NEW f, f = EndOfContents(data), NEW i
  PROVE  \A q, es : Row(q, es) /\ Unmarked(q) /\ At(data, i, FlattenSeq(q)) => f[i] = f[i + Len(FlattenSeq(q))]
<1> DEFINE Good(q) == f[i] = f[i + Len(FlattenSeq(q))]
           InRowAt(q, es) == Row(q, es) /\ Unmarked(q) /\ At(data, i, FlattenSeq(q))
           T == {n \in Nat : \E q, es : InRowAt(q, es) /\ Len(q) = n /\ ~Good(q)}
<1> SUFFICES ASSUME T # {} PROVE FALSE
  BY ListIs DEF Row
<1>1. PICK n \in T : \A m \in T : n <= m
  BY Least
<1>2. PICK q, es : InRowAt(q, es) /\ Len(q) = n /\ ~Good(q)
  OBVIOUS
<1>3. n \in Nat /\ \A m \in Nat : m < n => \A v, w : InRowAt(v, w) /\ Len(v) = m => Good(v)
  BY <1>1
<1> HIDE DEF T
<1>4. q # <<>>
  <2> SUFFICES ASSUME q = <<>> PROVE FALSE
    OBVIOUS
  <2>1. FlattenSeq(q) = <<>> /\ Len(<<>>) = 0
    BY FlattenEmpty, ListEmpty
  <2>2. i \in Nat
    BY <1>2 DEF At
  <2>3. i + Len(FlattenSeq(q)) = i
    BY <2>1, <2>2
  <2> QED BY <1>2, <2>3
<1>5. Row(q, es) /\ Unmarked(q) /\ At(data, i, FlattenSeq(q))
  BY <1>2
<1>6. PICK p, ps, x, e : MoreRow(q, es, p, ps, x, e)
  BY <1>4, <1>5, RowSplit
<1>7. Row(p, ps) /\ ReadsAs(x, e) /\ Unmarked(p) /\ x[1] # 0 /\ Len(p) \in Nat /\ Len(p) < n
  BY <1>2, <1>5, <1>6 DEF MoreRow
<1>8. PICK j : After(data, i, q, p, x, j)
  BY <1>5, <1>6, RowAt
<1>9. /\ At(data, i, FlattenSeq(p)) /\ j = i + Len(FlattenSeq(p)) /\ At(data, j, x)
      /\ j \in Nat \ {0} /\ j + Len(x) = i + Len(FlattenSeq(q)) /\ j <= Len(data) /\ Len(x) > 0
  BY <1>8 DEF After
<1>10. f[i] = f[j]
  BY <1>3, <1>7, <1>9
<1>11. IsRead(ReadAt(data, j, f), data, j + Len(x), e) /\ Len(x) \in Nat
  BY <1>7, <1>9, BytesList DEF ReadsAs
<1>12. f[j] = EndAt(f, data, j)
  <2>1. j \in 1 .. Len(data) + 1
    BY <1>9, BytesList
  <2> QED BY <2>1, EndsAre
<1>13. ~EndMarkAt(data, j)
  <2>1. 1 \in 1 .. Len(x) /\ j - 1 + 1 = j
    BY <1>9, <1>11
  <2>2. data[j] = x[1]
    BY <1>9, <2>1 DEF At
  <2> QED BY <1>7, <2>2 DEF EndMarkAt
<1>14. f[j] = f[j + Len(x)]
  BY <1>11, <1>12, <1>13 DEF EndAt, IsRead
<1> QED BY <1>2, <1>9, <1>10, <1>14

\* The list from a place goes over a row.
Over(l, i, q, es) == l[i] = es \o l[i + Len(FlattenSeq(q))]

LEMMA ListRow ==
  ASSUME NEW data \in Seq(Bytes), NEW l, Lists2(l, data), NEW i
  PROVE  \A q, es : Row(q, es) /\ At(data, i, FlattenSeq(q)) /\ List(l[i + Len(FlattenSeq(q))]) => Over(l, i, q, es)
<1> DEFINE Good(q, es) == Over(l, i, q, es)
           InRowAt(q, es) == Row(q, es) /\ At(data, i, FlattenSeq(q)) /\ List(l[i + Len(FlattenSeq(q))])
           T == {n \in Nat : \E q, es : InRowAt(q, es) /\ Len(q) = n /\ ~Good(q, es)}
<1> SUFFICES ASSUME T # {} PROVE FALSE
  BY ListIs DEF Row
<1>1. PICK n \in T : \A m \in T : n <= m
  BY Least
<1>2. PICK q, es : InRowAt(q, es) /\ Len(q) = n /\ ~Good(q, es)
  OBVIOUS
<1>3. n \in Nat /\ \A m \in Nat : m < n => \A v, w : InRowAt(v, w) /\ Len(v) = m => Good(v, w)
  BY <1>1
<1> HIDE DEF T
<1>4. q # <<>>
  <2> SUFFICES ASSUME q = <<>> PROVE FALSE
    OBVIOUS
  <2>1. FlattenSeq(q) = <<>> /\ Len(<<>>) = 0
    BY FlattenEmpty, ListEmpty
  <2>2. i \in Nat
    BY <1>2 DEF At
  <2>3. i + Len(FlattenSeq(q)) = i
    BY <2>1, <2>2
  <2>4. es = <<>>
    <3>1. List(es) /\ Len(es) = 0
      BY <1>2, <2>1 DEF Row
    <3>2. 1 .. 0 = {}
      OBVIOUS
    <3> QED BY <2>1, <3>1, <3>2, ListEmpty, SameList
  <2>5. List(l[i])
    BY <1>2, <2>3
  <2>6. <<>> \o l[i] = l[i]
    BY <2>5, ConcatNone
  <2> QED BY <1>2, <2>3, <2>4, <2>6 DEF Over
<1>5. Row(q, es) /\ At(data, i, FlattenSeq(q)) /\ List(l[i + Len(FlattenSeq(q))])
  BY <1>2
<1>6. PICK p, ps, x, e : MoreRow(q, es, p, ps, x, e)
  BY <1>4, <1>5, RowSplit
<1>7. Row(p, ps) /\ ReadsAs(x, e) /\ es = ps \o <<e>> /\ Len(p) \in Nat /\ Len(p) < n
  BY <1>2, <1>5, <1>6 DEF MoreRow
<1>8. PICK j : After(data, i, q, p, x, j)
  BY <1>5, <1>6, RowAt
<1>9. /\ At(data, i, FlattenSeq(p)) /\ j = i + Len(FlattenSeq(p)) /\ At(data, j, x)
      /\ j \in Nat \ {0} /\ j + Len(x) = i + Len(FlattenSeq(q)) /\ j <= Len(data)
  BY <1>8 DEF After
<1> DEFINE k == j + Len(x)  rest == l[k]  u == <<e>>
<1>10. List(rest) /\ List(u)
  BY <1>5, <1>9, ListOne
<1> DEFINE t == ReadAt(data, j, EndOfContents(data))
<1>11. t # Malformed /\ t.tag = e.tag /\ t.to = k /\ SubSeq(data, t.from, t.to - 1) = e.value
       /\ e = [tag |-> e.tag, value |-> e.value]
  BY <1>7, <1>9 DEF ReadsAs, IsRead
<1>12. l[j] = u \o rest
  <2>1. j \in 1 .. Len(data) + 1 /\ ~(j > Len(data))
    BY <1>9, BytesList
  <2>2. l[j] = ListAt(l, data, j)
    BY <2>1 DEF Lists2
  <2>3. l[j] = Listing(data, t, l)
    BY <2>1, <2>2 DEF ListAt
  <2> HIDE DEF t, k
  <2>4. Listing(data, t, l) = <<[tag |-> t.tag, value |-> SubSeq(data, t.from, t.to - 1)]>> \o l[t.to]
    BY <1>11 DEF Listing
  <2>5. [tag |-> t.tag, value |-> SubSeq(data, t.from, t.to - 1)] = e
    BY <1>11
  <2> QED BY <1>11, <2>3, <2>4, <2>5
<1> HIDE DEF t, rest, u
<1>13. List(l[j])
  BY <1>10, <1>12, ListConcat
<1>14. l[i] = ps \o l[j]
  BY <1>3, <1>7, <1>9, <1>13 DEF Over
<1>15. List(ps)
  BY <1>7 DEF Row
<1>16. (ps \o u) \o rest = ps \o (u \o rest)
  BY <1>10, <1>15, ConcatAssoc
<1>17. l[i] = es \o rest
  BY <1>7, <1>12, <1>14, <1>16 DEF u
<1> QED BY <1>2, <1>9, <1>17 DEF rest, Over

\* A row is parsed to its entries.
LEMMA ParseRow ==
  ASSUME NEW q, NEW es, Row(q, es)
  PROVE  ParseTlvs(FlattenSeq(q)) = es
<1> DEFINE data == FlattenSeq(q)
<1>1. data \in Seq(Bytes)
  BY RowBytes
<1>2. List(es) /\ Len(es) \in Nat /\ \A k \in 1 .. Len(es) : es[k].tag # <<>>
  BY ListIs DEF Row, ReadsAs
<1> HIDE DEF data
<1>3. PICK l : Lists2(l, data) /\ ParseTlvs(data) = OrBroken(l[1])
  BY <1>1, ParsedFrom
<1>4. Len(data) \in Nat
  BY <1>1
<1>5. At(data, 1, data)
  <2>1. 1 - 1 + Len(data) <= Len(data) /\ \A k \in 1 .. Len(data) : 1 - 1 + k = k
    BY <1>4
  <2> QED BY <2>1 DEF At
<1>6. l[1 + Len(data)] = <<>>
  <2> DEFINE n == Len(data)
  <2>1. 1 + n \in 1 .. n + 1 /\ 1 + n > n
    BY <1>4
  <2>2. l[1 + n] = ListAt(l, data, 1 + n)
    BY <1>3, <2>1 DEF Lists2
  <2> QED BY <2>1, <2>2 DEF ListAt
<1>7. l[1] = es \o l[1 + Len(data)]
  <2>1. List(l[1 + Len(data)])
    BY <1>6, ListEmpty
  <2>2. Over(l, 1, q, es)
    BY <1>1, <1>3, <1>5, <2>1, ListRow DEF data
  <2> QED BY <2>2 DEF data, Over
<1>8. l[1] = es
  BY <1>2, <1>6, <1>7, ConcatNone
<1>9. Head(Broken) \notin ToSet(es)
  <2>1. Head(Broken).tag = <<>>
    BY DEF Broken
  <2>2. DOMAIN es = 1 .. Len(es)
    BY <1>2, ListIs
  <2>3. \A x \in ToSet(es) : x.tag # <<>>
    BY <1>2, <2>2 DEF ToSet
  <2> QED BY <2>1, <2>3
<1>10. OrBroken(es) = es
  BY <1>9 DEF OrBroken
<1> QED BY <1>3, <1>8, <1>10 DEF data

-----------------------------------------------------------------------------
(* BER-TLV: the objects.                                                   *)

IsConcat(b, s, t) == b = s \o t
TwoAt(data, i, s, t) == At(data, i, s) /\ At(data, i + Len(s), t)

LEMMA AtTwo ==
  ASSUME NEW data \in Seq(Bytes), NEW i, NEW s \in Seq(Bytes), NEW t \in Seq(Bytes), NEW b, IsConcat(b, s, t), At(data, i, b)
  PROVE  TwoAt(data, i, s, t)
BY AtParts DEF IsConcat, TwoAt

Entry(tag, value) == [tag |-> tag, value |-> value]

\* The parts of an object of stated length.
SizedParts(b, tag, h, v, m) ==
  /\ TagForm(tag) /\ Length(h, m) /\ v \in Seq(Bytes) /\ m = Len(v) /\ b = (tag \o h) \o v

LEMMA PartsOf ==
  ASSUME NEW tag, TagForm(tag), NEW v \in Seq(Bytes), Len(v) < 65536
  PROVE  SizedParts(EncodeTlv(tag, v), tag, LengthBytes(Len(v)), v, Len(v))
<1>1. Length(LengthBytes(Len(v)), Len(v))
  BY BytesList, LengthIs
<1>2. EncodeTlv(tag, v) = (tag \o LengthBytes(Len(v))) \o v
  BY DEF EncodeTlv
<1> QED BY <1>1, <1>2 DEF SizedParts

LEMMA PartsLen ==
  ASSUME NEW b, NEW tag, NEW h, NEW v, NEW m, SizedParts(b, tag, h, v, m)
  PROVE  /\ tag \in Seq(Bytes) /\ h \in Seq(Bytes) /\ tag \o h \in Seq(Bytes) /\ b \in Seq(Bytes) /\ m \in Nat
         /\ Len(tag) \in Nat /\ Len(tag) > 0 /\ Len(h) \in Nat /\ Len(h) > 0
         /\ Len(tag \o h) = Len(tag) + Len(h) /\ Len(b) = Len(tag) + Len(h) + m
<1>1. tag \in Seq(Bytes) /\ Len(tag) > 0 /\ h \in Seq(Bytes) /\ Len(h) > 0 /\ v \in Seq(Bytes) /\ m = Len(v)
  BY DEF SizedParts, TagForm, Length
<1> DEFINE s == tag \o h
<1>2. s \in Seq(Bytes) /\ Len(s) = Len(tag) + Len(h) /\ Len(tag) \in Nat /\ Len(h) \in Nat
  BY <1>1, ConcatBytes
<1> HIDE DEF s
<1>3. b = s \o v
  BY DEF SizedParts, s
<1>4. b \in Seq(Bytes) /\ Len(b) = Len(s) + m /\ m \in Nat
  BY <1>1, <1>2, <1>3, ConcatBytes
<1> QED BY <1>1, <1>2, <1>4 DEF s

LEMMA SizedItem ==
  ASSUME NEW tag, TagForm(tag), NEW v \in Seq(Bytes), Len(v) < 65536, NEW b, b = EncodeTlv(tag, v)
  PROVE  ReadsAs(b, Entry(tag, v))
<1> DEFINE m == Len(v)  h == LengthBytes(m)  e == Entry(tag, v)  s == tag \o h
<1>1. SizedParts(b, tag, h, v, m)
  BY PartsOf
<1> HIDE DEF m, h, s
<1>2. /\ tag \in Seq(Bytes) /\ h \in Seq(Bytes) /\ s \in Seq(Bytes) /\ b \in Seq(Bytes) /\ m \in Nat
      /\ Len(tag) \in Nat /\ Len(tag) > 0 /\ Len(h) \in Nat /\ Len(h) > 0
      /\ Len(s) = Len(tag) + Len(h) /\ Len(b) = Len(tag) + Len(h) + m
  BY <1>1, PartsLen DEF s
<1>3. Length(h, m) /\ b = s \o v /\ s = tag \o h
  BY <1>1 DEF SizedParts, s
<1>4. e.tag = tag /\ e.value = v /\ e = [tag |-> e.tag, value |-> e.value]
  BY DEF Entry
<1> HIDE DEF e
<1>5. ASSUME NEW data \in Seq(Bytes), NEW i, At(data, i, b)
      PROVE  IsRead(ReadAt(data, i, EndOfContents(data)), data, i + Len(b), e)
  <2> DEFINE start == i + Len(tag) + Len(h)  f == EndOfContents(data)
  <2>1. At(data, i, s) /\ At(data, i + Len(s), v)
    <3>1. s \in Seq(Bytes) /\ v \in Seq(Bytes) /\ b = s \o v /\ At(data, i, b)
      BY <1>2, <1>3, <1>5
    <3>2. IsConcat(b, s, v)
      BY <3>1 DEF IsConcat
    <3>3. TwoAt(data, i, s, v)
      BY <3>1, <3>2, AtTwo
    <3> QED BY <3>3 DEF TwoAt
  <2>2. At(data, i, tag) /\ At(data, i + Len(tag), h)
    <3>1. tag \in Seq(Bytes) /\ h \in Seq(Bytes) /\ s = tag \o h /\ At(data, i, s)
      BY <1>2, <1>3, <2>1
    <3>2. IsConcat(s, tag, h)
      BY <3>1 DEF IsConcat
    <3>3. TwoAt(data, i, tag, h)
      BY <3>1, <3>2, AtTwo
    <3> QED BY <3>3 DEF TwoAt
  <2>3. i \in Nat \ {0} /\ (i - 1) + Len(b) <= Len(data) /\ Len(data) \in Nat
    BY <1>5, BytesList DEF At
  <2>4. m <= Len(data) /\ start + m = i + Len(b) /\ ~(start + m > Len(data) + 1) /\ i + Len(s) = start /\ start \in Nat
    BY <1>2, <2>3
  <2>5. ReadAt(data, i, f) = SizedAt(data, tag, start, m)
    BY <1>2, <1>3, <2>2, <2>4, ReadSized
  <2> DEFINE t == [tag |-> tag, from |-> start, to |-> start + m]
  <2>6. ReadAt(data, i, f) = t
    BY <2>4, <2>5 DEF SizedAt
  <2>7. t.tag = tag /\ t.from = start /\ t.to = start + m
    OBVIOUS
  <2>8. t # Malformed
    <3>1. Malformed.to = 0 /\ start + m # 0
      BY <1>2, <2>3, <2>4 DEF Malformed
    <3> QED BY <2>7, <3>1
  <2>9. SubSeq(data, start, (start + m) - 1) = v
    <3> DEFINE to == (start + m) - 1
    <3>1. to = start + Len(v) - 1
      BY <1>2, <2>4 DEF m
    <3>2. At(data, start, v)
      BY <2>1, <2>4
    <3> HIDE DEF to, start
    <3>3. SubSeq(data, start, to) = v
      BY <3>1, <3>2, AtCut
    <3> QED BY <3>3 DEF to
  <2> HIDE DEF t, f, start
  <2>10. IsRead(t, data, i + Len(b), e)
    BY <1>4, <2>4, <2>7, <2>8, <2>9 DEF IsRead
  <2> QED BY <2>6, <2>10 DEF f
<1>6. e.tag # <<>>
  BY <1>2, <1>4, ListEmpty
<1>7. Len(b) > 0
  BY <1>2
<1>8. ReadsAs(b, e)
  BY <1>2, <1>4, <1>5, <1>6, <1>7 DEF ReadsAs
<1> QED BY <1>8 DEF e

\* The end mark is read as an object of no contents.
LEMMA MarkItem == ReadsAs(<<0, 0>>, Entry(<<0>>, <<>>))
<1> DEFINE z == <<0>>
<1>1. z \in Seq(Bytes) /\ Len(z) = 1 /\ z[1] = 0
  BY DEF Bytes
<1>2. TagForm(z)
  BY <1>1 DEF TagForm
<1>3. <<>> \in Seq(Bytes) /\ Len(<<>>) = 0
  BY EmptySeq
<1>4. LengthBytes(0) = z
  BY DEF LengthBytes
<1>5. EncodeTlv(z, <<>>) = (z \o z) \o <<>>
  BY <1>3, <1>4 DEF EncodeTlv
<1>6. <<0, 0>> = z \o z
  BY TupleTwo
<1>7. List(z \o z)
  BY <1>1, ConcatBytes, BytesList
<1>8. <<0, 0>> = EncodeTlv(z, <<>>)
  BY <1>5, <1>6, <1>7, ConcatNone
<1> HIDE DEF z
<1>9. ReadsAs(<<0, 0>>, Entry(z, <<>>))
  <2> DEFINE b == <<0, 0>>  v == <<>>
  <2>1. TagForm(z) /\ v \in Seq(Bytes) /\ Len(v) < 65536 /\ b = EncodeTlv(z, v)
    BY <1>2, <1>3, <1>8
  <2> HIDE DEF b, v
  <2>2. ReadsAs(b, Entry(z, v))
    BY <2>1, SizedItem
  <2> QED BY <2>2 DEF b, v
<1> QED BY <1>9 DEF z

-----------------------------------------------------------------------------
(* BER-TLV: an object that ends with its end mark.                         *)

Ended(v, q) == v = FlattenSeq(q) \o <<0, 0>>
Opened(b, tag, v) == b = (tag \o <<128>>) \o v

LEMMA IndefiniteItem ==
  ASSUME NEW tag, IsTag(tag), NEW q, NEW es, Row(q, es), Unmarked(q), NEW v, Ended(v, q), NEW b, Opened(b, tag, v)
  PROVE  ReadsAs(b, Entry(tag, v))
<1> DEFINE c == FlattenSeq(q)  z == <<0, 0>>  o == <<128>>  s == tag \o o  e == Entry(tag, v)
<1>1. c \in Seq(Bytes)
  BY RowBytes
<1>2. z \in Seq(Bytes) /\ Len(z) = 2 /\ z[1] = 0 /\ z[2] = 0 /\ o \in Seq(Bytes) /\ Len(o) = 1 /\ o[1] = 128
  BY DEF Bytes
<1>3. tag \in Seq(Bytes) /\ Len(tag) > 0 /\ TagForm(tag)
  BY DEF IsTag, TagForm
<1>4. IsConcat(v, c, z) /\ IsConcat(b, s, v) /\ IsConcat(s, tag, o)
  BY DEF IsConcat, Ended, Opened
<1> HIDE DEF c, z, o, s
<1>5. s \in Seq(Bytes) /\ Len(s) = Len(tag) + 1 /\ Len(tag) \in Nat
  <2>1. s = tag \o o
    BY DEF s
  <2>2. tag \o o \in Seq(Bytes) /\ Len(tag \o o) = Len(tag) + Len(o) /\ Len(tag) \in Nat
    BY <1>2, <1>3, ConcatBytes, ZenonT(30)
  <2> QED BY <1>2, <2>1, <2>2
<1>6. v \in Seq(Bytes) /\ Len(v) = Len(c) + 2 /\ Len(c) \in Nat
  <2>1. v = c \o z
    BY <1>4 DEF IsConcat
  <2>2. c \o z \in Seq(Bytes) /\ Len(c \o z) = Len(c) + Len(z) /\ Len(c) \in Nat
    BY <1>1, <1>2, ConcatBytes, ZenonT(30)
  <2> QED BY <1>2, <2>1, <2>2
<1>7. b \in Seq(Bytes) /\ Len(b) = Len(s) + Len(v)
  <2>1. b = s \o v
    BY <1>4 DEF IsConcat
  <2>2. s \o v \in Seq(Bytes) /\ Len(s \o v) = Len(s) + Len(v)
    BY <1>5, <1>6, ConcatBytes
  <2> QED BY <2>1, <2>2
<1>8. e.tag = tag /\ e.value = v /\ e = [tag |-> e.tag, value |-> e.value]
  BY DEF Entry
<1> HIDE DEF e
<1>9. ASSUME NEW data \in Seq(Bytes), NEW i, At(data, i, b)
      PROVE  IsRead(ReadAt(data, i, EndOfContents(data)), data, i + Len(b), e)
  <2> DEFINE f == EndOfContents(data)  at == i + Len(tag)  n == Len(data)  k == (at + 1) + Len(c)
  <2>1. At(data, i, s) /\ At(data, i + Len(s), v)
    <3>1. TwoAt(data, i, s, v)
      BY <1>4, <1>5, <1>6, <1>9, AtTwo
    <3> QED BY <3>1 DEF TwoAt
  <2>2. i \in Nat \ {0} /\ (i - 1) + Len(b) <= n /\ n \in Nat
    BY <1>9, BytesList DEF At
  <2>3. i + Len(s) = at + 1 /\ at \in Nat /\ at <= n /\ i <= n /\ k \in 1 .. n + 1 /\ k < n /\ at + 1 \in Nat
        /\ k + 2 = i + Len(b)
    <3> DEFINE x == Len(tag)  y == Len(c)  l == Len(b)  ls == Len(s)
    <3>1. x \in Nat /\ x > 0 /\ y \in Nat /\ ls = x + 1 /\ l = ls + (y + 2) /\ i \in Nat \ {0} /\ (i - 1) + l <= n /\ n \in Nat
      BY <1>3, <1>5, <1>6, <1>7, <2>2
    <3>2. at = i + x /\ k = (at + 1) + y
      OBVIOUS
    <3> HIDE DEF x, y, l, ls, at, n, k
    <3>3. at \in Nat /\ i + ls = at + 1 /\ k + 2 = i + l /\ k \in Nat
      BY <3>1, <3>2
    <3>4. at <= n /\ i <= n /\ k < n /\ k \in 1 .. n + 1 /\ at + 1 \in Nat
      BY <3>1, <3>2
    <3> QED BY <3>3, <3>4 DEF ls, l
  <2>4. At(data, i, tag) /\ At(data, at, o)
    <3>1. TwoAt(data, i, tag, o)
      BY <1>2, <1>3, <1>4, <2>1, AtTwo
    <3> QED BY <3>1 DEF TwoAt
  <2>5. At(data, at + 1, v)
    BY <2>1, <2>3
  <2>6. At(data, at + 1, c) /\ At(data, k, z)
    <3>1. TwoAt(data, at + 1, c, z)
      BY <1>1, <1>2, <1>4, <2>5, AtTwo
    <3> QED BY <3>1 DEF TwoAt
  <2>7. TagEnd(data, i) = at /\ SubSeq(data, i, at - 1) = tag
    <3>1. TagEnd(data, i) = i + Len(tag) /\ SubSeq(data, i, (i + Len(tag)) - 1) = tag
      BY <1>3, <2>4, TagAt
    <3> QED BY <3>1
  <2>8. data[at] = 128
    <3>1. 1 \in 1 .. Len(o) /\ at - 1 + 1 = at
      BY <1>2, <2>3
    <3>2. data[at - 1 + 1] = o[1]
      BY <2>4, <3>1 DEF At
    <3> QED BY <1>2, <3>1, <3>2
  <2>9. EndMarkAt(data, k)
    <3>0. k \in Nat
      BY <2>3
    <3>1. 1 \in 1 .. Len(z) /\ 2 \in 1 .. Len(z) /\ k - 1 + 1 = k /\ k - 1 + 2 = k + 1
      <4> HIDE DEF k
      <4> QED BY <1>2, <3>0
    <3>2. data[k - 1 + 1] = z[1] /\ data[k - 1 + 2] = z[2]
      BY <2>6, <3>1 DEF At
    <3> QED BY <1>2, <2>3, <3>1, <3>2 DEF EndMarkAt
  <2> HIDE DEF f, at, n, k
  <2>10. f[k] = k + 2
    <3>1. f[k] = EndAt(f, data, k)
      BY <2>3, EndsAre DEF f, n
    <3> QED BY <2>9, <3>1 DEF EndAt
  <2>11. f[at + 1] = f[k]
    <3>1. \A w, x : Row(w, x) /\ Unmarked(w) /\ At(data, at + 1, FlattenSeq(w)) => f[at + 1] = f[(at + 1) + Len(FlattenSeq(w))]
      BY WalkRow DEF f
    <3>2. At(data, at + 1, FlattenSeq(q)) => f[at + 1] = f[(at + 1) + Len(FlattenSeq(q))]
      BY <3>1
    <3> QED BY <2>6, <3>2 DEF c, k
  <2> DEFINE t == [tag |-> tag, from |-> at + 1, to |-> f[at + 1]]
  <2>12. ReadAt(data, i, f) = t
    <3>1. ~(i > n) /\ ~(at > n)
      BY <2>2, <2>3
    <3>2. ValueAt(data, tag, at, f) = t
      BY <2>8 DEF ValueAt
    <3> HIDE DEF t
    <3> QED BY <2>7, <3>1, <3>2 DEF ReadAt, ReadFrom, n
  <2>13. t.tag = tag /\ t.from = at + 1 /\ t.to = i + Len(b)
    BY <2>3, <2>10, <2>11
  <2> HIDE DEF t
  <2>14. t # Malformed
    <3>1. Malformed.from = 0 /\ at + 1 # 0
      BY <2>3 DEF Malformed
    <3> QED BY <2>13, <3>1
  <2>15. SubSeq(data, t.from, t.to - 1) = v
    <3> DEFINE to == t.to - 1
    <3>1. to = (at + 1) + Len(v) - 1
      BY <1>6, <2>3, <2>13 DEF k
    <3> HIDE DEF to
    <3> DEFINE j == at + 1
    <3>3. data \in Seq(Bytes) /\ At(data, j, v) /\ to = j + Len(v) - 1 /\ v \in Seq(Bytes)
      BY <1>6, <2>5, <3>1
    <3> HIDE DEF j
    <3>4. SubSeq(data, j, to) = v
      BY ONLY <3>3, AtCut
    <3>2. SubSeq(data, at + 1, to) = v
      BY <3>4 DEF j
    <3> QED BY <2>13, <3>2 DEF to
  <2>16. IsRead(t, data, i + Len(b), e)
    BY <1>8, <2>13, <2>14, <2>15 DEF IsRead
  <2> QED BY <2>12, <2>16 DEF f
<1>10. e.tag # <<>>
  BY <1>3, <1>8, ListEmpty
<1>11. Len(b) > 0
  BY <1>5, <1>6, <1>7
<1>12. ReadsAs(b, e)
  BY <1>7, <1>8, <1>9, <1>10, <1>11 DEF ReadsAs
<1> QED BY <1>12 DEF e

-----------------------------------------------------------------------------
\* An object is no longer than the row it is in.
LEMMA FlatLonger ==
  ASSUME NEW q, List(q), \A k \in 1 .. Len(q) : q[k] \in Seq(Bytes), NEW k \in 1 .. Len(q)
  PROVE  Len(q[k]) <= Len(FlattenSeq(q))
<1> DEFINE x == q[k]  u == <<x>>
<1>1. PICK f, t : List(f) /\ List(t) /\ q = (f \o u) \o t /\ Len(f) = k - 1
                   /\ (\A i \in 1 .. Len(f) : f[i] = q[i]) /\ Len(t) = Len(q) - k /\ \A i \in 1 .. Len(t) : t[i] = q[k + i]
  BY SplitAt
<1>2. Len(q) \in Nat /\ x \in Seq(Bytes)
  BY ListIs
<1>3. (\A i \in 1 .. Len(f) : f[i] \in Seq(Bytes)) /\ \A i \in 1 .. Len(t) : t[i] \in Seq(Bytes)
  <2>1. \A i \in 1 .. Len(f) : i \in 1 .. Len(q)
    BY <1>1, <1>2
  <2>2. \A i \in 1 .. Len(t) : k + i \in 1 .. Len(q)
    BY <1>1, <1>2
  <2> QED BY <1>1, <2>1, <2>2
<1>4. Lists1(f) /\ FlattenSeq(f) \in Seq(Bytes) /\ Lists1(t) /\ FlattenSeq(t) \in Seq(Bytes)
  BY <1>1, <1>3, FlatBytes
<1>5. List(x)
  BY <1>2, BytesList
<1> DEFINE p == f \o u
<1>6. Lists1(p) /\ FlattenSeq(p) = FlattenSeq(f) \o x
  <2>1. Lists1(u)
    BY <1>5, ListsOne
  <2> QED BY <1>4, <1>5, <2>1, ListsConcat, FlattenAppend
<1> HIDE DEF x, u
<1>7. q = p \o t
  BY <1>1
<1> HIDE DEF p
<1>8. FlattenSeq(q) = FlattenSeq(p) \o FlattenSeq(t)
  BY <1>4, <1>6, <1>7, FlattenConcat
<1>9. FlattenSeq(p) \in Seq(Bytes) /\ Len(FlattenSeq(p)) = Len(FlattenSeq(f)) + Len(x)
      /\ Len(FlattenSeq(f)) \in Nat /\ Len(x) \in Nat
  BY <1>2, <1>4, <1>6, ConcatBytes
<1>10. Len(FlattenSeq(q)) = Len(FlattenSeq(p)) + Len(FlattenSeq(t)) /\ Len(FlattenSeq(t)) \in Nat
  BY <1>4, <1>8, <1>9, ConcatBytes, ZenonT(30)
<1> HIDE DEF x
<1>11. Len(x) <= Len(FlattenSeq(q))
  BY <1>9, <1>10
<1> QED BY <1>11 DEF x

-----------------------------------------------------------------------------
(* BER-TLV: every object is read as what it was made from.                 *)

\* What is given of an object.
Made(n) ==
  /\ IsTag(n.tag) /\ n.form \in {"definite", "indefinite"}
  /\ n.val \in Seq(Bytes) /\ n.kids \in Seq(Objects)
  /\ n.kids # <<>> \/ n.form = "indefinite" => n.val = <<>>
  /\ n.bytes \in Seq(Bytes) /\ n.bytes = Encoded(n) /\ Len(Contents(n)) < 65536

LEMMA GivenObject == \A n \in Objects : Made(n)
<1> SUFFICES ASSUME NEW n \in Objects PROVE Made(n)
  OBVIOUS
<1>1. IsTag(n.tag)
  BY ObjectsAssumption
<1>2. n.form \in {"definite", "indefinite"}
  BY ObjectsAssumption
<1>3. n.val \in Seq(Bytes)
  BY ObjectsAssumption
<1>4. n.kids \in Seq(Objects)
  BY ObjectsAssumption
<1>5. n.kids # <<>> \/ n.form = "indefinite" => n.val = <<>>
  BY ObjectsAssumption
<1>6. n.bytes \in Seq(Bytes)
  BY ObjectsAssumption
<1>7. n.bytes = Encoded(n)
  BY ObjectsAssumption
<1>8. Len(Contents(n)) < 65536
  BY ObjectsAssumption
<1> QED BY <1>1, <1>2, <1>3, <1>4, <1>5, <1>6, <1>7, <1>8 DEF Made

BytesOf(kids) == [k \in DOMAIN kids |-> kids[k].bytes]
EntriesOf(kids) == [k \in DOMAIN kids |-> [tag |-> kids[k].tag, value |-> Contents(kids[k])]]
EntryOf(n) == Entry(n.tag, Contents(n))

LEMMA KidsAre ==
  ASSUME NEW kids \in Seq(Objects)
  PROVE  /\ List(BytesOf(kids)) /\ Len(BytesOf(kids)) = Len(kids) /\ Len(kids) \in Nat
         /\ List(EntriesOf(kids)) /\ Len(EntriesOf(kids)) = Len(kids)
         /\ \A k \in 1 .. Len(kids) : /\ kids[k] \in Objects /\ BytesOf(kids)[k] = kids[k].bytes
                                      /\ EntriesOf(kids)[k] = EntryOf(kids[k]) /\ BytesOf(kids)[k] \in Seq(Bytes)
         /\ FlattenSeq(BytesOf(kids)) = Joined(kids) /\ Joined(kids) \in Seq(Bytes)
<1> DEFINE q == BytesOf(kids)  es == EntriesOf(kids)  m == Len(kids)
<1>1. m \in Nat /\ DOMAIN kids = 1 .. m /\ \A k \in 1 .. m : kids[k] \in Objects
  OBVIOUS
<1>2. q = [k \in 1 .. m |-> q[k]] /\ es = [k \in 1 .. m |-> es[k]]
  BY <1>1 DEF BytesOf, EntriesOf
<1>3. \A k \in 1 .. m : q[k] = kids[k].bytes /\ es[k] = EntryOf(kids[k])
  BY <1>1 DEF BytesOf, EntriesOf, EntryOf, Entry
<1>4. \A k \in 1 .. m : q[k] \in Seq(Bytes)
  <2> SUFFICES ASSUME NEW k \in 1 .. m PROVE q[k] \in Seq(Bytes)
    OBVIOUS
  <2> DEFINE o == kids[k]
  <2>1. o \in Objects /\ q[k] = o.bytes
    BY <1>1, <1>3
  <2> HIDE DEF o
  <2>2. o.bytes \in Seq(Bytes)
    BY <2>1, GivenObject DEF Made
  <2> QED BY <2>1, <2>2
<1>5. FlattenSeq(q) = Joined(kids)
  BY DEF BytesOf, Joined
<1> HIDE DEF q, es, m
<1>6. List(q) /\ Len(q) = m /\ List(es) /\ Len(es) = m
  BY <1>1, <1>2, ListMade
<1>7. FlattenSeq(q) \in Seq(Bytes)
  BY <1>4, <1>6, FlatBytes
<1> QED BY <1>1, <1>3, <1>4, <1>5, <1>6, <1>7 DEF q, es, m

\* No object starts with the byte of an end mark.
LEMMA ObjectStart ==
  ASSUME NEW n \in Objects, Contents(n) \in Seq(Bytes)
  PROVE  n.bytes[1] # 0 /\ Len(n.bytes) > Len(Contents(n))
<1> DEFINE tag == n.tag  v == Contents(n)  b == n.bytes
<1>1. tag \in Seq(Bytes) /\ Len(tag) > 0 /\ tag[1] # 0 /\ TagForm(tag) /\ v \in Seq(Bytes) /\ Len(v) < 65536
  BY GivenObject DEF Made, IsTag, TagForm
<1>2. b = Encoded(n)
  BY GivenObject DEF Made
<1>3. \E h : h \in Seq(Bytes) /\ Len(h) > 0 /\ b = (tag \o h) \o v
  <2>1. CASE n.form = "indefinite"
    <3>1. b = (tag \o <<128>>) \o v
      BY <1>2, <2>1 DEF Encoded
    <3>2. <<128>> \in Seq(Bytes) /\ Len(<<128>>) > 0
      BY DEF Bytes
    <3> QED BY <3>1, <3>2
  <2>2. CASE n.form # "indefinite"
    <3>1. b = EncodeTlv(tag, v)
      BY <1>2, <2>2 DEF Encoded
    <3> DEFINE h == LengthBytes(Len(v))
    <3> HIDE DEF tag, v, b
    <3>2. SizedParts(EncodeTlv(tag, v), tag, h, v, Len(v))
      BY <1>1, PartsOf
    <3>3. h \in Seq(Bytes) /\ Len(h) > 0
      BY <3>2, PartsLen
    <3>4. b = (tag \o h) \o v
      BY <3>1, <3>2 DEF SizedParts
    <3> HIDE DEF h
    <3> QED BY <3>3, <3>4
  <2> QED BY <2>1, <2>2
<1>4. PICK h : h \in Seq(Bytes) /\ Len(h) > 0 /\ b = (tag \o h) \o v
  BY <1>3
<1> HIDE DEF tag, v, b
<1> DEFINE s == tag \o h
<1>5. s \in Seq(Bytes) /\ Len(s) = Len(tag) + Len(h) /\ Len(tag) \in Nat /\ Len(h) \in Nat
  BY <1>1, <1>4, ConcatBytes
<1>6. s[1] = tag[1]
  <2>1. List(tag) /\ List(h) /\ 1 <= Len(tag) /\ 1 \in 1 .. Len(tag) + Len(h)
    BY <1>1, <1>4, <1>5, BytesList
  <2>2. \A i \in 1 .. Len(tag) + Len(h) : s[i] = IF i <= Len(tag) THEN tag[i] ELSE h[i - Len(tag)]
    BY <2>1, ListConcat
  <2> HIDE DEF s
  <2> QED BY <2>1, <2>2
<1>7. b = s \o v
  BY <1>4
<1> HIDE DEF s
<1>8. Len(b) = Len(s) + Len(v) /\ Len(v) \in Nat /\ b[1] = s[1]
  <2>1. List(s) /\ List(v) /\ 1 <= Len(s) /\ 1 \in 1 .. Len(s) + Len(v) /\ Len(v) \in Nat
    BY <1>1, <1>5, BytesList
  <2>2. Len(s \o v) = Len(s) + Len(v) /\ \A i \in 1 .. Len(s) + Len(v) : (s \o v)[i] = IF i <= Len(s) THEN s[i] ELSE v[i - Len(s)]
    BY <2>1, ListConcat
  <2> QED BY <1>7, <2>1, <2>2
<1>9. b[1] # 0 /\ Len(b) > Len(v)
  BY <1>1, <1>4, <1>5, <1>6, <1>8
<1> QED BY <1>9 DEF b, v

LEMMA ContentsBytes ==
  ASSUME NEW n \in Objects
  PROVE  /\ Contents(n) \in Seq(Bytes)
         /\ n.kids # <<>> \/ n.form = "indefinite" => Contents(n) = Joined(n.kids) \o Marked(n.form)
         /\ Len(Joined(n.kids)) <= Len(Contents(n))
<1> DEFINE v == n.val  j == Joined(n.kids)  m == Marked(n.form)
<1>1. v \in Seq(Bytes) /\ j \in Seq(Bytes)
  BY GivenObject, KidsAre DEF Made
<1>2. m \in Seq(Bytes)
  <2>1. <<0, 0>> \in Seq(Bytes)
    BY DEF Bytes
  <2>2. <<>> \in Seq(Bytes)
    BY EmptySeq
  <2> QED BY <2>1, <2>2 DEF Marked
<1>3. Contents(n) = (v \o j) \o m
  BY DEF Contents
<1>4. n.kids # <<>> \/ n.form = "indefinite" => v = <<>>
  BY GivenObject DEF Made
<1> DEFINE s == v \o j
<1> HIDE DEF v, j, m
<1>5. s \in Seq(Bytes) /\ Len(s) = Len(v) + Len(j) /\ Len(v) \in Nat /\ Len(j) \in Nat
  BY <1>1, ConcatBytes
<1>6. v = <<>> => s = j
  BY <1>1, BytesList, ConcatNone
<1> HIDE DEF s
<1>7. s \o m \in Seq(Bytes) /\ Len(s \o m) = Len(s) + Len(m) /\ Len(m) \in Nat
  BY <1>2, <1>5, ConcatBytes
<1>8. Contents(n) = s \o m
  BY <1>3 DEF s
<1>9. Contents(n) \in Seq(Bytes) /\ Len(j) <= Len(Contents(n))
  BY <1>5, <1>7, <1>8
<1> QED BY <1>4, <1>6, <1>8, <1>9 DEF j, m

\* Objects that are read one by one are read in a row.
LEMMA KidsRow ==
  ASSUME NEW kids \in Seq(Objects), \A k \in 1 .. Len(kids) : ReadsAs(kids[k].bytes, EntryOf(kids[k]))
  PROVE  Row(BytesOf(kids), EntriesOf(kids)) /\ Unmarked(BytesOf(kids))
<1> DEFINE q == BytesOf(kids)  es == EntriesOf(kids)
<1>1. /\ List(q) /\ Len(q) = Len(kids) /\ List(es) /\ Len(es) = Len(kids)
      /\ \A k \in 1 .. Len(kids) : kids[k] \in Objects /\ q[k] = kids[k].bytes /\ es[k] = EntryOf(kids[k])
  BY KidsAre
<1> HIDE DEF q, es
<1>2. Row(q, es)
  BY <1>1 DEF Row
<1>3. \A k \in 1 .. Len(kids) : q[k][1] # 0
  BY <1>1, ContentsBytes, ObjectStart
<1>4. Unmarked(q)
  BY <1>1, <1>3 DEF Unmarked
<1> QED BY <1>2, <1>4 DEF q, es

LEMMA ObjectItem == \A n \in Objects : ReadsAs(n.bytes, EntryOf(n))
<1> DEFINE T == {m \in Nat : \E n \in Objects : Len(n.bytes) = m /\ ~ReadsAs(n.bytes, EntryOf(n))}
<1> SUFFICES ASSUME T # {} PROVE FALSE
  <2>1. \A n \in Objects : Len(n.bytes) \in Nat
    BY GivenObject, BytesList DEF Made
  <2> QED BY <2>1
<1>1. PICK m \in T : \A k \in T : m <= k
  BY Least
<1>2. PICK n \in Objects : Len(n.bytes) = m /\ ~ReadsAs(n.bytes, EntryOf(n))
  OBVIOUS
<1>3. m \in Nat /\ \A k \in Nat : k < m => \A o \in Objects : Len(o.bytes) = k => ReadsAs(o.bytes, EntryOf(o))
  BY <1>1
<1> HIDE DEF T
<1> DEFINE tag == n.tag  v == Contents(n)  b == n.bytes  kids == n.kids
<1>4. IsTag(tag) /\ v \in Seq(Bytes) /\ Len(v) < 65536 /\ b = Encoded(n) /\ kids \in Seq(Objects) /\ b \in Seq(Bytes)
  BY GivenObject, ContentsBytes DEF Made
<1>5. EntryOf(n) = Entry(tag, v)
  BY DEF EntryOf
<1>6. CASE n.form = "definite"
  <2>1. b = EncodeTlv(tag, v)
    BY <1>4, <1>6 DEF Encoded
  <2>2. TagForm(tag)
    BY <1>4 DEF IsTag, TagForm
  <2> HIDE DEF tag, v, b
  <2>3. ReadsAs(b, Entry(tag, v))
    BY <1>4, <2>1, <2>2, SizedItem
  <2> QED BY <1>2, <1>5, <2>3 DEF b
<1>7. CASE n.form = "indefinite"
  <2>1. b = (tag \o <<128>>) \o v
    BY <1>4, <1>7 DEF Encoded
  <2>2. v = Joined(kids) \o <<0, 0>> /\ Len(Joined(kids)) <= Len(v) /\ Len(b) > Len(v)
    BY <1>4, <1>7, ContentsBytes, ObjectStart DEF Marked
  <2>3. ASSUME NEW k \in 1 .. Len(kids) PROVE ReadsAs(kids[k].bytes, EntryOf(kids[k]))
    <3> DEFINE q == BytesOf(kids)  o == kids[k]
    <3> HIDE DEF kids
    <3>1. /\ List(q) /\ Len(q) = Len(kids) /\ o \in Objects /\ q[k] = o.bytes /\ FlattenSeq(q) = Joined(kids)
          /\ \A j \in 1 .. Len(kids) : q[j] \in Seq(Bytes)
      BY <1>4, KidsAre
    <3> HIDE DEF q, o
    <3>2. k \in 1 .. Len(q)
      BY <3>1
    <3>3. Len(q[k]) <= Len(FlattenSeq(q))
      BY <3>1, <3>2, FlatLonger
    <3>4. Len(o.bytes) \in Nat /\ Len(Joined(kids)) \in Nat
      BY <1>4, <3>1, GivenObject, BytesList, KidsAre DEF Made
    <3>5. Len(v) \in Nat /\ Len(b) \in Nat /\ Len(b) = m
      BY <1>2, <1>4, BytesList
    <3> HIDE DEF v, b
    <3>6. Len(o.bytes) < m
      BY <2>2, <3>1, <3>3, <3>4, <3>5
    <3>7. ReadsAs(o.bytes, EntryOf(o))
      BY <1>3, <3>1, <3>4, <3>6
    <3> QED BY <3>7 DEF o
  <2> DEFINE q == BytesOf(kids)  es == EntriesOf(kids)
  <2> HIDE DEF kids, tag, v, b
  <2>4. Row(q, es) /\ Unmarked(q)
    BY <1>4, <2>3, KidsRow
  <2>5. FlattenSeq(q) = Joined(kids)
    BY <1>4, KidsAre
  <2> HIDE DEF q, es
  <2>6. Ended(v, q) /\ Opened(b, tag, v)
    BY <2>1, <2>2, <2>5 DEF Ended, Opened
  <2>7. ReadsAs(b, Entry(tag, v))
    BY <1>4, <2>4, <2>6, IndefiniteItem
  <2> QED BY <1>2, <1>5, <2>7 DEF b
<1>8. n.form \in {"definite", "indefinite"}
  BY GivenObject DEF Made
<1> QED BY <1>6, <1>7, <1>8

-----------------------------------------------------------------------------
(* BER-TLV: what is parsed of an object, and of its contents.              *)

LEMMA RowNone == Row(<<>>, <<>>)
<1>1. 1 .. 0 = {}
  OBVIOUS
<1> QED BY <1>1, ListEmpty DEF Row

LEMMA RowAdd ==
  ASSUME NEW q, NEW es, Row(q, es), NEW x, NEW e, ReadsAs(x, e)
  PROVE  Row(q \o <<x>>, es \o <<e>>) /\ FlattenSeq(q \o <<x>>) = FlattenSeq(q) \o x
<1> DEFINE u == <<x>>  w == <<e>>  p == q \o u  ps == es \o w
<1>1. List(q) /\ List(es) /\ Len(es) = Len(q) /\ Len(q) \in Nat /\ \A k \in 1 .. Len(q) : ReadsAs(q[k], es[k])
  BY ListIs DEF Row
<1>2. List(u) /\ Len(u) = 1 /\ u[1] = x /\ List(w) /\ Len(w) = 1 /\ w[1] = e
  BY ListOne
<1>3. FlattenSeq(q \o <<x>>) = FlattenSeq(q) \o x
  <2>1. Lists1(q)
    BY RowBytes
  <2>2. List(x)
    BY BytesList DEF ReadsAs
  <2> QED BY <2>1, <2>2, FlattenAppend
<1> HIDE DEF u, w
<1>4. List(p) /\ Len(p) = Len(q) + 1 /\ \A k \in 1 .. Len(q) + 1 : p[k] = IF k <= Len(q) THEN q[k] ELSE u[k - Len(q)]
  <2>1. List(p) /\ Len(p) = Len(q) + Len(u) /\ \A k \in 1 .. Len(q) + Len(u) : p[k] = IF k <= Len(q) THEN q[k] ELSE u[k - Len(q)]
    BY <1>1, <1>2, ListConcat
  <2> HIDE DEF p
  <2> QED BY <1>2, <2>1
<1>5. List(ps) /\ Len(ps) = Len(q) + 1 /\ \A k \in 1 .. Len(q) + 1 : ps[k] = IF k <= Len(q) THEN es[k] ELSE w[k - Len(q)]
  <2>1. List(ps) /\ Len(ps) = Len(es) + Len(w) /\ \A k \in 1 .. Len(es) + Len(w) : ps[k] = IF k <= Len(es) THEN es[k] ELSE w[k - Len(es)]
    BY <1>1, <1>2, ListConcat
  <2> HIDE DEF ps
  <2> QED BY <1>1, <1>2, <2>1
<1> HIDE DEF p, ps
<1>6. ASSUME NEW k \in 1 .. Len(p) PROVE ReadsAs(p[k], ps[k])
  <2>1. CASE k <= Len(q)
    <3>1. k \in 1 .. Len(q) /\ p[k] = q[k] /\ ps[k] = es[k]
      BY <1>1, <1>4, <1>5, <2>1
    <3> QED BY <1>1, <3>1
  <2>2. CASE ~(k <= Len(q))
    <3>1. k \in 1 .. Len(q) + 1 /\ k - Len(q) = 1
      BY <1>1, <1>4, <2>2
    <3>2. p[k] = x /\ ps[k] = e
      BY <1>2, <1>4, <1>5, <2>2, <3>1
    <3> QED BY <3>2
  <2> QED BY <2>1, <2>2
<1>7. Row(p, ps)
  BY <1>4, <1>5, <1>6 DEF Row
<1> QED BY <1>3, <1>7 DEF p, ps, u, w

LEMMA ParseOne ==
  ASSUME NEW x, NEW e, ReadsAs(x, e)
  PROVE  ParseTlvs(x) = <<e>>
<1> DEFINE n == <<>>
<1>1. Row(n, n) /\ List(n)
  BY RowNone, ListEmpty
<1> HIDE DEF n
<1>2. Row(n \o <<x>>, n \o <<e>>)
  BY <1>1, RowAdd
<1>3. n \o <<x>> = <<x>> /\ n \o <<e>> = <<e>>
  BY ListOne, ConcatNone DEF n
<1> DEFINE u == <<x>>  w == <<e>>
<1>4. Row(u, w)
  BY <1>2, <1>3
<1>5. FlattenSeq(u) = x
  <2>1. List(x)
    BY BytesList DEF ReadsAs
  <2> QED BY <2>1, FlattenOne
<1> HIDE DEF u, w
<1>6. ParseTlvs(x) = w
  BY <1>4, <1>5, ParseRow
<1> QED BY <1>6 DEF w

Mark == Entry(<<0>>, <<>>)

\* What a list of objects should parse to.
LEMMA ListedIs ==
  ASSUME NEW nodes \in Seq(Objects)
  PROVE  /\ Listed(nodes, "definite") = EntriesOf(nodes)
         /\ Listed(nodes, "indefinite") = EntriesOf(nodes) \o <<Mark>>
<1> DEFINE es == EntriesOf(nodes)
<1>1. \A form : Listed(nodes, form) = es \o (IF form = "indefinite" THEN <<Mark>> ELSE <<>>)
  BY DEF Listed, EntriesOf, Mark, Entry
<1>2. List(es)
  BY KidsAre
<1> HIDE DEF es
<1>3. Listed(nodes, "definite") = es \o <<>>
  <2>1. "definite" # "indefinite"
    OBVIOUS
  <2> QED BY <1>1, <2>1
<1>4. Listed(nodes, "indefinite") = es \o <<Mark>>
  BY <1>1
<1> QED BY <1>2, <1>3, <1>4, ConcatNone DEF es

LEMMA WholeRead == ASSUME NEW n \in Objects PROVE ParseTlvs(n.bytes) = Listed(<<n>>, "definite")
<1> DEFINE u == <<n>>  e == EntryOf(n)
<1>1. ParseTlvs(n.bytes) = <<e>>
  BY ObjectItem, ParseOne
<1>2. u \in Seq(Objects) /\ Len(u) = 1 /\ u[1] = n
  OBVIOUS
<1> HIDE DEF u
<1>3. Listed(u, "definite") = EntriesOf(u)
  BY <1>2, ListedIs
<1>4. List(EntriesOf(u)) /\ Len(EntriesOf(u)) = 1 /\ EntriesOf(u)[1] = e
  <2>1. /\ List(EntriesOf(u)) /\ Len(EntriesOf(u)) = Len(u)
        /\ \A k \in 1 .. Len(u) : EntriesOf(u)[k] = EntryOf(u[k])
    BY <1>2, KidsAre
  <2>2. 1 \in 1 .. Len(u)
    BY <1>2
  <2> QED BY <1>2, <2>1, <2>2
<1> HIDE DEF e
<1>5. EntriesOf(u) = <<e>>
  <2> DEFINE s == EntriesOf(u)  t == <<e>>
  <2>1. List(s) /\ List(t) /\ Len(s) = Len(t) /\ Len(s) = 1 /\ s[1] = t[1]
    BY <1>4, ListOne
  <2> HIDE DEF s, t
  <2>2. \A i \in 1 .. Len(s) : s[i] = t[i]
    BY <2>1
  <2>3. s = t
    BY <2>1, <2>2, SameList
  <2> QED BY <2>3 DEF s, t
<1> QED BY <1>1, <1>3, <1>5 DEF u

LEMMA ContentsRead ==
  ASSUME NEW n \in Objects, n.kids # <<>>
  PROVE  ParseTlvs(Contents(n)) = Listed(n.kids, n.form)
<1> DEFINE kids == n.kids  q == BytesOf(kids)  es == EntriesOf(kids)
<1>1. kids \in Seq(Objects) /\ n.form \in {"definite", "indefinite"}
  BY GivenObject DEF Made
<1>2. Contents(n) = Joined(kids) \o Marked(n.form)
  BY ContentsBytes
<1> HIDE DEF kids
<1>3. Row(q, es) /\ FlattenSeq(q) = Joined(kids) /\ Joined(kids) \in Seq(Bytes)
  <2>1. \A k \in 1 .. Len(kids) : ReadsAs(kids[k].bytes, EntryOf(kids[k]))
    BY <1>1, ObjectItem
  <2>2. Row(q, es)
    BY <1>1, <2>1, KidsRow
  <2> QED BY <1>1, <2>2, KidsAre
<1> HIDE DEF q, es
<1>4. CASE n.form = "definite"
  <2>1. Contents(n) = FlattenSeq(q)
    <3>1. Marked(n.form) = <<>>
      BY <1>4 DEF Marked
    <3>2. List(Joined(kids))
      BY <1>3, BytesList
    <3> QED BY <1>2, <1>3, <3>1, <3>2, ConcatNone
  <2>2. ParseTlvs(Contents(n)) = es
    BY <1>3, <2>1, ParseRow
  <2> QED BY <1>1, <1>4, <2>2, ListedIs DEF es, kids
<1>5. CASE n.form = "indefinite"
  <2> DEFINE z == <<0, 0>>  p == q \o <<z>>  ps == es \o <<Mark>>
  <2>1. ReadsAs(z, Mark)
    BY MarkItem DEF Mark
  <2>2. Contents(n) = FlattenSeq(q) \o z
    BY <1>2, <1>3, <1>5 DEF Marked
  <2> HIDE DEF z
  <2>3. Row(p, ps) /\ FlattenSeq(p) = FlattenSeq(q) \o z
    BY <1>3, <2>1, RowAdd
  <2> HIDE DEF p
  <2>4. ps = Listed(kids, "indefinite")
    BY <1>1, ListedIs DEF es
  <2> HIDE DEF ps
  <2>5. ParseTlvs(Contents(n)) = ps
    BY <2>2, <2>3, ParseRow
  <2> QED BY <1>5, <2>4, <2>5 DEF kids
<1> QED BY <1>1, <1>4, <1>5

-----------------------------------------------------------------------------
(* BER-TLV: a value that is cut short.                                     *)

\* The list from the first place, when what is there cannot be read.
LEMMA ParseBroken ==
  ASSUME NEW data \in Seq(Bytes), Len(data) > 0, ReadAt(data, 1, EndOfContents(data)) = Malformed
  PROVE  ParseTlvs(data) = Broken
<1>1. PICK l : Lists2(l, data) /\ ParseTlvs(data) = OrBroken(l[1])
  BY ParsedFrom
<1>2. Len(data) \in Nat
  OBVIOUS
<1>3. 1 \in 1 .. Len(data) + 1 /\ ~(1 > Len(data))
  BY <1>2
<1>4. l[1] = ListAt(l, data, 1)
  BY <1>1, <1>3 DEF Lists2
<1>5. l[1] = Broken
  BY <1>3, <1>4 DEF ListAt, Listing
<1>6. OrBroken(Broken) = Broken
  BY DEF OrBroken
<1> QED BY <1>1, <1>5, <1>6

\* All but the last byte.
FrontOf(f, b) == f \in Seq(Bytes) /\ Len(f) = Len(b) - 1 /\ \A k \in 1 .. Len(b) - 1 : f[k] = b[k]

LEMMA FrontIs ==
  ASSUME NEW b \in Seq(Bytes), Len(b) > 0
  PROVE  FrontOf(Front(b), b)
<1> DEFINE n == Len(b) - 1  f == SubSeq(b, 1, n)
<1>1. Len(b) \in Nat /\ n \in Nat /\ n <= Len(b) /\ 1 <= n + 1 /\ List(b)
  BY BytesList
<1>2. Front(b) = f
  BY DEF Front
<1>3. f \in Seq(Bytes)
  <2>1. 1 \in 1 .. Len(b) + 1 /\ n \in 0 .. Len(b)
    BY <1>1
  <2> HIDE DEF n
  <2> QED BY <2>1, SliceIs
<1> HIDE DEF n, f
<1>4. Len(f) = n /\ \A k \in 1 .. n : f[k] = b[k]
  <2>1. Len(SubSeq(b, 1, n)) = n - 1 + 1 /\ \A k \in 1 .. n - 1 + 1 : SubSeq(b, 1, n)[k] = b[1 + k - 1]
    BY <1>1, SubList
  <2>2. n - 1 + 1 = n /\ \A k \in 1 .. n : 1 + k - 1 = k
    BY <1>1
  <2> QED BY <2>1, <2>2 DEF f
<1> QED BY <1>2, <1>3, <1>4 DEF n, FrontOf

LEMMA CutShort ==
  ASSUME NEW b, NEW tag, TagForm(tag), NEW v \in Seq(Bytes), Len(v) < 65536, b = EncodeTlv(tag, v)
  PROVE  ParseTlvs(Front(b)) = Broken
<1> DEFINE m == Len(v)  h == LengthBytes(m)  s == tag \o h  data == Front(b)  f == EndOfContents(data)
<1>1. SizedParts(b, tag, h, v, m)
  BY PartsOf
<1>2. m = 0 => h = <<0>>
  BY DEF LengthBytes
<1> HIDE DEF m, h, s
<1>3. /\ tag \in Seq(Bytes) /\ h \in Seq(Bytes) /\ s \in Seq(Bytes) /\ b \in Seq(Bytes) /\ m \in Nat
      /\ Len(tag) \in Nat /\ Len(tag) > 0 /\ Len(h) \in Nat /\ Len(h) > 0
      /\ Len(s) = Len(tag) + Len(h) /\ Len(b) = Len(tag) + Len(h) + m
  BY <1>1, PartsLen DEF s
<1>4. Length(h, m) /\ IsConcat(b, s, v) /\ IsConcat(s, tag, h)
  BY <1>1 DEF SizedParts, s, IsConcat
<1>5. data \in Seq(Bytes) /\ Len(data) = Len(b) - 1 /\ (\A k \in 1 .. Len(b) - 1 : data[k] = b[k]) /\ Len(data) > 0
  <2>1. Len(b) > 0
    BY <1>3
  <2>2. data \in Seq(Bytes) /\ Len(data) = Len(b) - 1 /\ \A k \in 1 .. Len(b) - 1 : data[k] = b[k]
    <3>1. FrontOf(Front(b), b)
      BY <1>3, <2>1, FrontIs
    <3> HIDE DEF data
    <3>2. FrontOf(data, b)
      BY <3>1 DEF data
    <3> QED BY <3>2 DEF FrontOf
  <2> HIDE DEF data
  <2> QED BY <1>3, <2>2
<1> HIDE DEF data, f
<1>6. At(b, 1, s)
  <2>1. At(b, 1, b)
    <3>1. 1 - 1 + Len(b) <= Len(b) /\ \A k \in 1 .. Len(b) : 1 - 1 + k = k
      BY <1>3
    <3> QED BY <3>1 DEF At
  <2>2. TwoAt(b, 1, s, v)
    BY <1>3, <1>4, <2>1, AtTwo
  <2> QED BY <2>2 DEF TwoAt
<1>7. At(b, 1, tag) /\ At(b, 1 + Len(tag), h)
  <2>1. TwoAt(b, 1, tag, h)
    BY <1>3, <1>4, <1>6, AtTwo
  <2> QED BY <2>1 DEF TwoAt
\* What ends before the last byte stands in the front too.
<1>8. ASSUME NEW i \in Nat \ {0}, NEW t \in Seq(Bytes), At(b, i, t), i - 1 + Len(t) <= Len(b) - 1 PROVE At(data, i, t)
  <2>1. Len(t) \in Nat
    BY BytesList
  <2>2. \A k \in 1 .. Len(t) : i - 1 + k \in 1 .. Len(b) - 1 /\ b[i - 1 + k] = t[k]
    <3>1. \A k \in 1 .. Len(t) : b[i - 1 + k] = t[k]
      BY <1>8 DEF At
    <3>2. \A k \in 1 .. Len(t) : i - 1 + k \in 1 .. Len(b) - 1
      BY <1>3, <1>8, <2>1
    <3> QED BY <3>1, <3>2
  <2>3. \A k \in 1 .. Len(t) : data[i - 1 + k] = t[k]
    BY <1>5, <2>2
  <2> QED BY <1>5, <1>8, <2>3 DEF At
<1>9. At(data, 1, tag)
  <2>1. 1 - 1 + Len(tag) <= Len(b) - 1 /\ 1 \in Nat \ {0}
    BY <1>3
  <2> QED BY <1>3, <1>7, <1>8, <2>1
<1>10. ReadAt(data, 1, f) = Malformed
  <2>1. CASE m = 0
    <3>1. Len(h) = 1
      BY <1>2, <2>1
    <3>2. TagEnd(data, 1) = 1 + Len(tag)
      BY <1>5, <1>9, TagAt
    <3>3. ~(1 > Len(data)) /\ 1 + Len(tag) > Len(data)
      BY <1>3, <1>5, <2>1, <3>1
    <3> QED BY <3>2, <3>3 DEF ReadAt, ReadFrom
  <2>2. CASE m # 0
    <3> DEFINE at == 1 + Len(tag)  start == 1 + Len(tag) + Len(h)
    <3>1. at \in Nat \ {0} /\ at - 1 + Len(h) <= Len(b) - 1 /\ m <= Len(data) /\ start + m > Len(data) + 1
      BY <1>3, <1>5, <2>2
    <3>2. At(data, at, h)
      BY <1>3, <1>7, <1>8, <3>1
    <3>3. ReadAt(data, 1, f) = SizedAt(data, tag, start, m)
      <4> DEFINE i == 1
      <4>1. At(data, i, tag) /\ At(data, i + Len(tag), h) /\ m \in Nat /\ m <= Len(data) /\ Length(h, m) /\ data \in Seq(Bytes)
        BY <1>3, <1>4, <1>5, <1>9, <3>1, <3>2
      <4> HIDE DEF i
      <4>2. ReadAt(data, i, f) = SizedAt(data, tag, i + Len(tag) + Len(h), m)
        BY <4>1, ReadSized
      <4> QED BY <4>2 DEF i
    <3> HIDE DEF at, start
    <3> QED BY <3>1, <3>3 DEF SizedAt
  <2> QED BY <2>1, <2>2
<1>11. ParseTlvs(data) = Broken
  BY <1>5, <1>10, ParseBroken DEF f
<1> QED BY <1>11 DEF data

LEMMA FrontBroken == ASSUME NEW n \in Objects, n.form = "definite" PROVE ParseTlvs(Front(n.bytes)) = Broken
<1> DEFINE tag == n.tag  v == Contents(n)  b == n.bytes
<1>1. IsTag(tag) /\ v \in Seq(Bytes) /\ Len(v) < 65536 /\ b = Encoded(n)
  BY GivenObject, ContentsBytes DEF Made
<1>2. b = EncodeTlv(tag, v)
  BY <1>1 DEF Encoded
<1>3. TagForm(tag)
  BY <1>1 DEF IsTag, TagForm
<1> HIDE DEF tag, v, b
<1>4. ParseTlvs(Front(b)) = Broken
  BY <1>1, <1>2, <1>3, CutShort
<1> QED BY <1>4 DEF b

-----------------------------------------------------------------------------
(* The size of an FCI.                                                     *)

\* What is given of a SELECT answer.
GivenFci(c) ==
  /\ c.template \in FciTemplates \cup {<<>>} /\ c.size \in Seq(Bytes) /\ c.size # <<>> /\ Len(SizedOf(c)) < 65536
  /\ c.others \in Seq(Objects) /\ \A i \in 1 .. Len(c.others) : c.others[i].tag \notin FciTemplates \cup {SizeTag}

LEMMA FciIs == ASSUME NEW c \in FciCases PROVE GivenFci(c)
<1> DEFINE s == c.others
<1>1. c.template \in FciTemplates \cup {<<>>}
  BY FciAssumption
<1>2. c.size \in Seq(Bytes)
  BY FciAssumption
<1>3. c.size # <<>>
  BY FciAssumption
<1>4. Len(SizedOf(c)) < 65536
  BY FciAssumption
<1>5. s \in Seq(Objects)
  BY FciAssumption
<1>6. \A i \in DOMAIN s : s[i].tag \notin FciTemplates \cup {SizeTag}
  BY FciAssumption
<1>7. \A i \in 1 .. Len(s) : s[i].tag \notin FciTemplates \cup {SizeTag}
  <2> HIDE DEF s
  <2>1. DOMAIN s = 1 .. Len(s)
    BY <1>5
  <2> QED BY <1>6, <2>1
<1> QED BY <1>1, <1>2, <1>3, <1>4, <1>5, <1>7 DEF GivenFci

\* The tags of FCI are of one byte.
LEMMA FciTags == /\ TagForm(SizeTag) /\ SizeTag \notin FciTemplates /\ \A t \in FciTemplates : TagForm(t) /\ t # <<>>
<1>1. \A x \in Bytes : x % 32 # 31 => TagForm(<<x>>)
  <2> SUFFICES ASSUME NEW x \in Bytes, x % 32 # 31 PROVE TagForm(<<x>>)
    OBVIOUS
  <2> DEFINE t == <<x>>
  <2>1. t \in Seq(Bytes) /\ Len(t) = 1 /\ t[1] = x
    OBVIOUS
  <2>2. 2 .. 1 = {}
    OBVIOUS
  <2> HIDE DEF t
  <2>3. TagForm(t)
    BY <2>1, <2>2 DEF TagForm
  <2> QED BY <2>3 DEF t
<1>2. /\ 128 \in Bytes /\ 111 \in Bytes /\ 98 \in Bytes /\ 100 \in Bytes /\ 97 \in Bytes
      /\ 128 % 32 # 31 /\ 111 % 32 # 31 /\ 98 % 32 # 31 /\ 100 % 32 # 31 /\ 97 % 32 # 31
  BY DEF Bytes
<1>3. TagForm(SizeTag)
  BY <1>1, <1>2 DEF SizeTag
<1>4. SizeTag \notin FciTemplates
  BY DEF SizeTag, FciTemplates
<1>5. \A t \in FciTemplates : TagForm(t) /\ t # <<>>
  <2>1. TagForm(<<111>>) /\ TagForm(<<98>>) /\ TagForm(<<100>>) /\ TagForm(<<97>>)
    BY <1>1, <1>2
  <2>2. \A t : TagForm(t) => t # <<>>
    BY ListEmpty DEF TagForm
  <2> QED BY <2>1, <2>2 DEF FciTemplates
<1> QED BY <1>3, <1>4, <1>5

\* Entries of which the last one alone has the tag of a size.
SizedLast(es, size) ==
  /\ List(es) /\ Len(es) \in Nat \ {0} /\ es[Len(es)] = Entry(SizeTag, size)
  /\ \A i \in 1 .. Len(es) : es[i].tag # <<>> /\ es[i].tag \notin FciTemplates /\ (es[i].tag = SizeTag <=> i = Len(es))

LEMMA LastFound ==
  ASSUME NEW es, NEW size, SizedLast(es, size), size # <<>>
  PROVE  Sized(es) = <<size>>
<1> DEFINE n == Len(es)  at == {i \in DOMAIN es : es[i].tag = SizeTag}
<1>1. List(es) /\ n \in Nat \ {0} /\ DOMAIN es = 1 .. n /\ es[n] = Entry(SizeTag, size)
      /\ \A i \in 1 .. n : es[i].tag # <<>> /\ (es[i].tag = SizeTag <=> i = n)
  BY ListIs DEF SizedLast
<1>2. at = {n}
  <2>1. n \in at
    <3> HIDE DEF n
    <3>0. n \in 1 .. n
      BY <1>1
    <3>1. n \in DOMAIN es
      BY <1>1, <3>0
    <3>2. es[n].tag = SizeTag
      BY <1>1, <3>0
    <3> QED BY <3>1, <3>2
  <2>2. \A i \in at : i = n
    BY <1>1
  <2> HIDE DEF at, n
  <2> QED BY <2>1, <2>2
<1> HIDE DEF at, n
<1>3. Min(at) = n
  <2>1. {n} \subseteq Nat /\ {n} # {}
    BY <1>1
  <2>2. Min({n}) \in {n}
    BY <2>1, MinOf
  <2> QED BY <1>2, <2>2
<1>4. FindFirst(es, SizeTag) = <<size>>
  <2>1. FindFirst(es, SizeTag) = IF at = {} THEN <<>> ELSE <<es[Min(at)].value>>
    BY DEF FindFirst, at
  <2>2. es[n].value = size
    BY <1>1 DEF Entry
  <2> QED BY <1>2, <1>3, <2>1, <2>2
<1>5. es # Broken
  <2>1. 1 \in 1 .. n
    BY <1>1
  <2>2. es[1].tag # <<>>
    BY <1>1, <2>1
  <2>3. Broken[1].tag = <<>>
    BY DEF Broken
  <2> QED BY <2>2, <2>3
<1>6. <<size>> # << <<>> >>
  OBVIOUS
<1> QED BY <1>4, <1>5, <1>6 DEF Sized

LEMMA SizeParsed ==
  ASSUME NEW c, GivenFci(c)
  PROVE  SizedOf(c) \in Seq(Bytes) /\ \E es : SizedLast(es, c.size) /\ ParseTlvs(SizedOf(c)) = es
<1> DEFINE kids == c.others  q == BytesOf(kids)  es == EntriesOf(kids)  size == c.size
           x == EncodeTlv(SizeTag, size)  e == Entry(SizeTag, size)  p == q \o <<x>>  ps == es \o <<e>>
<1>1. kids \in Seq(Objects) /\ size \in Seq(Bytes) /\ Len(SizedOf(c)) < 65536
      /\ \A i \in 1 .. Len(kids) : kids[i].tag \notin FciTemplates \cup {SizeTag}
  BY DEF GivenFci
<1>2. SizedOf(c) = Joined(kids) \o x
  BY DEF SizedOf
<1> HIDE DEF kids, size
<1>3. Row(q, es) /\ FlattenSeq(q) = Joined(kids) /\ Joined(kids) \in Seq(Bytes)
      /\ Len(es) = Len(kids) /\ Len(kids) \in Nat /\ \A k \in 1 .. Len(kids) : kids[k] \in Objects /\ es[k] = EntryOf(kids[k])
  <2>1. \A k \in 1 .. Len(kids) : ReadsAs(kids[k].bytes, EntryOf(kids[k]))
    BY <1>1, ObjectItem
  <2>2. Row(q, es)
    BY <1>1, <2>1, KidsRow
  <2> QED BY <1>1, <2>2, KidsAre
<1> HIDE DEF q, es
<1>4. x \in Seq(Bytes) /\ Len(size) \in Nat /\ Len(size) < 65536 /\ SizedOf(c) \in Seq(Bytes)
  <2> DEFINE h == LengthBytes(Len(size))
  <2>1. Len(size) < 65536
    <3> SUFFICES ASSUME ~(Len(size) < 65536) PROVE FALSE
      OBVIOUS
    <3>1. Len(size) \in Nat /\ h \in Seq(Bytes) /\ Len(h) = 3
      <4> DEFINE m == Len(size)  a == (m \div 256) % 256  b == m % 256
      <4>1. m \in Nat /\ ~(m < 65536) /\ h = LengthBytes(m)
        BY <1>1
      <4> HIDE DEF m, h
      <4>2. h = <<130, a, b>>
        <5>1. ~(m < 128) /\ m \notin 128 .. 255 /\ m > 255
          BY <4>1
        <5> HIDE DEF a, b
        <5>2. h = <<130, (m \div 256) % 256, m % 256>>
          BY <4>1, <5>1 DEF LengthBytes
        <5> QED BY <5>2 DEF a, b
      <4>3. a \in Bytes /\ b \in Bytes /\ 130 \in Bytes
        BY <4>1 DEF Bytes
      <4> HIDE DEF a, b, h
      <4> QED BY <4>1, <4>2, <4>3 DEF m
    <3> DEFINE t == SizeTag \o h
    <3>2. SizeTag \in Seq(Bytes)
      BY FciTags DEF TagForm
    <3> HIDE DEF h
    <3>3. t \in Seq(Bytes) /\ Len(t) \in Nat
      BY <3>1, <3>2, ConcatBytes
    <3> HIDE DEF t
    <3>4. x = t \o size
      BY DEF EncodeTlv, t, h
    <3> HIDE DEF x
    <3>5. t \o size \in Seq(Bytes) /\ Len(t \o size) = Len(t) + Len(size)
      BY <1>1, <3>3, ConcatBytes
    <3>6. Joined(kids) \o x \in Seq(Bytes) /\ Len(Joined(kids) \o x) = Len(Joined(kids)) + Len(x) /\ Len(Joined(kids)) \in Nat
      BY <1>3, <3>4, <3>5, ConcatBytes
    <3>7. Len(SizedOf(c)) = Len(Joined(kids)) + (Len(t) + Len(size))
      BY <1>2, <3>4, <3>5, <3>6
    <3> QED BY <1>1, <3>1, <3>3, <3>6, <3>7
  <2>2. SizedParts(x, SizeTag, h, size, Len(size))
    BY <1>1, <2>1, FciTags, PartsOf
  <2> HIDE DEF h, x
  <2>3. x \in Seq(Bytes) /\ Len(size) \in Nat
    BY <1>1, <2>2, PartsLen
  <2>4. Joined(kids) \o x \in Seq(Bytes)
    BY <1>3, <2>3, ConcatBytes
  <2> QED BY <1>2, <2>1, <2>3, <2>4
<1>5. ReadsAs(x, e)
  BY <1>1, <1>4, FciTags, SizedItem
<1>6. e.tag = SizeTag
  BY DEF Entry
<1> HIDE DEF x
<1>7. Row(p, ps) /\ FlattenSeq(p) = FlattenSeq(q) \o x
  <2> HIDE DEF e
  <2> QED BY <1>3, <1>5, RowAdd
<1> HIDE DEF p
<1>8. ParseTlvs(SizedOf(c)) = ps
  <2> HIDE DEF ps
  <2> QED BY <1>2, <1>3, <1>7, ParseRow
<1>9. SizedLast(ps, size)
  <2> DEFINE n == Len(es)  w == <<e>>
  <2>1. List(es) /\ n \in Nat /\ n = Len(kids)
    BY <1>3 DEF Row
  <2>2. List(w) /\ Len(w) = 1 /\ w[1] = e
    BY ListOne
  <2>3. List(ps) /\ Len(ps) = n + Len(w) /\ \A i \in 1 .. n + Len(w) : ps[i] = IF i <= n THEN es[i] ELSE w[i - n]
    <3>1. ps = es \o w
      OBVIOUS
    <3> HIDE DEF w, n, ps, e
    <3>2. /\ List(es \o w) /\ Len(es \o w) = Len(es) + Len(w)
          /\ \A i \in 1 .. Len(es) + Len(w) : (es \o w)[i] = IF i <= Len(es) THEN es[i] ELSE w[i - Len(es)]
      BY <2>1, <2>2, ListConcat
    <3> QED BY <3>1, <3>2 DEF n
  <2> HIDE DEF w, n, ps, e
  <2>4. Len(ps) = n + 1 /\ \A i \in 1 .. n + 1 : ps[i] = IF i <= n THEN es[i] ELSE w[i - n]
    BY <2>2, <2>3
  <2>5. ps[n + 1] = e
    <3>1. n + 1 \in 1 .. n + 1 /\ ~(n + 1 <= n) /\ (n + 1) - n = 1
      BY <2>1
    <3> QED BY <2>2, <2>4, <3>1
  <2>6. \A i \in 1 .. n : ps[i].tag # <<>> /\ ps[i].tag \notin FciTemplates /\ ps[i].tag # SizeTag
    <3> SUFFICES ASSUME NEW i \in 1 .. n PROVE ps[i].tag # <<>> /\ ps[i].tag \notin FciTemplates /\ ps[i].tag # SizeTag
      OBVIOUS
    <3>1. i \in 1 .. n + 1 /\ i <= n /\ i \in 1 .. Len(kids)
      BY <2>1
    <3>2. ps[i] = EntryOf(kids[i]) /\ kids[i] \in Objects
      BY <1>3, <2>4, <3>1
    <3>3. ps[i].tag = kids[i].tag
      BY <3>2 DEF EntryOf, Entry
    <3>4. kids[i].tag # <<>>
      <4>1. ReadsAs(kids[i].bytes, EntryOf(kids[i]))
        BY <3>2, ObjectItem
      <4>2. EntryOf(kids[i]).tag # <<>>
        BY <4>1 DEF ReadsAs
      <4> QED BY <4>2 DEF EntryOf, Entry
    <3> QED BY <1>1, <3>1, <3>3, <3>4
  <2>7. SizeTag # <<>> /\ SizeTag \notin FciTemplates
    BY FciTags DEF SizeTag
  <2>8. ASSUME NEW i \in 1 .. n + 1
        PROVE ps[i].tag # <<>> /\ ps[i].tag \notin FciTemplates /\ (ps[i].tag = SizeTag <=> i = n + 1)
    <3>1. CASE i = n + 1
      BY <1>6, <2>5, <2>7, <3>1
    <3>2. CASE i # n + 1
      <4>1. i \in 1 .. n
        BY <2>1, <3>2
      <4> QED BY <2>6, <3>2, <4>1
    <3> QED BY <3>1, <3>2
  <2>9. n + 1 \in Nat \ {0}
    BY <2>1
  <2> QED BY <2>3, <2>4, <2>5, <2>8, <2>9 DEF SizedLast, e
<1> HIDE DEF ps
<1> QED BY <1>4, <1>8, <1>9 DEF size

LEMMA SizeRead == ASSUME NEW c \in FciCases PROVE ParseFciSize(FciOf(c)) = <<c.size>>
<1> DEFINE s == SizedOf(c)  size == c.size  t == c.template
<1>1. GivenFci(c)
  BY FciIs
<1>2. t \in FciTemplates \cup {<<>>} /\ size # <<>> /\ Len(s) < 65536
  BY <1>1 DEF GivenFci
<1>3. s \in Seq(Bytes) /\ \E es : SizedLast(es, size) /\ ParseTlvs(s) = es
  BY <1>1, SizeParsed
<1>4. FciOf(c) = IF t = <<>> THEN s ELSE EncodeTlv(t, s)
  BY DEF FciOf
<1> HIDE DEF s, size, t
<1>5. PICK es : SizedLast(es, size) /\ ParseTlvs(s) = es
  BY <1>3
<1>6. Sized(es) = <<size>> /\ <<size>> # <<>>
  BY <1>2, <1>5, LastFound
<1>7. CASE t = <<>>
  <2> DEFINE found == {i \in DOMAIN es : es[i].tag \in FciTemplates /\ Sized(ParseTlvs(es[i].value)) # <<>>}
  <2>1. found = {}
    <3>1. DOMAIN es = 1 .. Len(es)
      BY <1>5, ListIs DEF SizedLast
    <3>2. \A i \in 1 .. Len(es) : es[i].tag \notin FciTemplates
      BY <1>5 DEF SizedLast
    <3> QED BY <3>1, <3>2
  <2>2. SizeIn(es) = IF found = {} THEN Sized(es) ELSE Sized(ParseTlvs(es[Min(found)].value))
    BY DEF SizeIn
  <2> HIDE DEF found
  <2> QED BY <1>4, <1>5, <1>6, <1>7, <2>1, <2>2 DEF ParseFciSize, size
<1>8. CASE t \in FciTemplates
  <2> DEFINE b == EncodeTlv(t, s)  e == Entry(t, s)  outer == <<e>>
             found == {i \in DOMAIN outer : outer[i].tag \in FciTemplates /\ Sized(ParseTlvs(outer[i].value)) # <<>>}
  <2>1. TagForm(t) /\ t # <<>>
    BY <1>8, FciTags
  <2>2. ReadsAs(b, e)
    BY <1>2, <1>3, <2>1, SizedItem
  <2>3. e.tag = t /\ e.value = s
    BY DEF Entry
  <2> HIDE DEF b, e
  <2>4. ParseTlvs(b) = outer
    BY <2>2, ParseOne
  <2>5. DOMAIN outer = {1} /\ outer[1] = e
    OBVIOUS
  <2> HIDE DEF outer
  <2>6. Sized(ParseTlvs(outer[1].value)) = <<size>>
    BY <1>5, <1>6, <2>3, <2>5
  <2>7. found = {1}
    <3>1. 1 \in found
      BY <1>6, <1>8, <2>3, <2>5, <2>6
    <3>2. \A i \in found : i = 1
      BY <2>5
    <3> HIDE DEF found
    <3> QED BY <3>1, <3>2
  <2>8. SizeIn(outer) = IF found = {} THEN Sized(outer) ELSE Sized(ParseTlvs(outer[Min(found)].value))
    BY DEF SizeIn
  <2> HIDE DEF found
  <2>9. Min({1}) = 1
    <3>1. {1} \subseteq Nat /\ {1} # {}
      OBVIOUS
    <3>2. Min({1}) \in {1}
      BY <3>1, MinOf
    <3> QED BY <3>2
  <2>10. SizeIn(outer) = <<size>>
    BY <2>6, <2>7, <2>8, <2>9
  <2>11. FciOf(c) = b
    BY <1>4, <2>1 DEF b
  <2> QED BY <2>4, <2>10, <2>11 DEF ParseFciSize, size
<1> QED BY <1>2, <1>7, <1>8

\* What was encoded is read back, whatever the forms of the tags and lengths and
\* however deep the objects: every value, a refusal of one cut short, and the
\* size of a SELECT answer (tlvs.parse_tlvs, parse_fci_size).
THEOREM AlwaysReadBack == Spec => []ReadBack
<1>1. call \in Calls => ReadBack
  <2> SUFFICES ASSUME call \in Calls PROVE ReadBack
    OBVIOUS
  <2> DEFINE n == call.input
  <2>1. CASE call.of = "parse_tlvs"
    <3>1. n \in Objects
      BY <2>1, InputOf
    <3> HIDE DEF n
    <3>2. ParseTlvs(n.bytes) = Listed(<<n>>, "definite")
      BY <3>1, WholeRead
    <3>3. n.kids # <<>> => ParseTlvs(Contents(n)) = Listed(n.kids, n.form)
      BY <3>1, ContentsRead
    <3>4. n.form = "definite" => ParseTlvs(Front(n.bytes)) = Broken
      BY <3>1, FrontBroken
    <3>5. call.of # "parse_fci_size"
      BY <2>1
    <3> QED BY <3>2, <3>3, <3>4, <3>5 DEF ReadBack, n
  <2>2. CASE call.of = "parse_fci_size"
    <3>1. n \in FciCases
      BY <2>2, InputOf
    <3> HIDE DEF n
    <3>2. ParseFciSize(FciOf(n)) = <<n.size>>
      BY <3>1, SizeRead
    <3>3. call.of # "parse_tlvs"
      BY <2>2
    <3> QED BY <3>2, <3>3 DEF ReadBack, n
  <2>3. CASE call.of # "parse_tlvs" /\ call.of # "parse_fci_size"
    BY <2>3 DEF ReadBack
  <2> QED BY <2>1, <2>2, <2>3
<1> QED BY <1>1, CallsMade, PTL

=============================================================================
