--------------------------- MODULE TransportProof ---------------------------
(***************************************************************************)
(* What Transport promises, for any messages, posting threads and limits.  *)
(***************************************************************************)
EXTENDS Transport, SequenceTheorems, FiniteSetTheorems, WellFoundedInduction, TLAPS

-----------------------------------------------------------------------------
(***************************************************************************)
(* Induction over numbers and over sequences, about a set of them.         *)
(***************************************************************************)

LEMMA NumbersByCounting ==
    ASSUME NEW G, 0 \in G, \A n \in Nat : n \in G => n + 1 \in G
    PROVE  Nat \subseteq G
<1> DEFINE Bad == {n \in Nat : n \notin G}
<1>1. ASSUME Bad # {} PROVE FALSE
  <2>1. PICK m \in Bad : \A y \in Bad : ~ (<<y, m>> \in OpToRel(<, Nat))
    <3>1. Bad \subseteq Nat
      OBVIOUS
    <3> HIDE DEF Bad
    <3> QED BY <1>1, <3>1, NatLessThanWellFounded, WFMin
  <2>2. m \in Nat /\ m \notin G /\ m # 0
    BY <2>1
  <2>3. m - 1 \in Nat /\ m - 1 < m /\ (m - 1) + 1 = m
    BY <2>2
  <2>4. <<m - 1, m>> \in OpToRel(<, Nat)
    BY <2>2, <2>3 DEF OpToRel
  <2>5. m - 1 \notin Bad
    BY <2>1, <2>4
  <2> QED BY <2>2, <2>3, <2>5
<1> QED BY <1>1

LEMMA SequencesByAppending ==
    ASSUME NEW S, NEW G, <<>> \in G,
           \A s \in Seq(S), x \in S : s \in G => Append(s, x) \in G
    PROVE  Seq(S) \subseteq G
<1> DEFINE L == {n \in Nat : \A s \in Seq(S) : Len(s) = n => s \in G}
<1>1. 0 \in L
  BY EmptySeq
<1>2. ASSUME NEW n \in Nat, n \in L PROVE n + 1 \in L
  <2>1. ASSUME NEW s \in Seq(S), Len(s) = n + 1 PROVE s \in G
    <3>1. s # <<>>
      BY <2>1, EmptySeq
    <3>2. PICK t \in Seq(S), x \in S : s = Append(t, x)
      BY <3>1, SequenceEmptyOrAppend
    <3>3. Len(t) = n
      BY <2>1, <3>2, AppendProperties
    <3> QED BY <1>2, <3>2, <3>3
  <2> QED BY <2>1
<1>3. Nat \subseteq L
  <2> HIDE DEF L
  <2> QED BY <1>1, <1>2, NumbersByCounting
<1> QED BY <1>3, LenProperties

LEMMA LeastExists ==
    ASSUME NEW T, T \subseteq Nat, T # {}
    PROVE  \E m \in T : \A y \in T : m <= y
<1>1. PICK m \in T : \A y \in T : ~ (<<y, m>> \in OpToRel(<, Nat))
  BY NatLessThanWellFounded, WFMin
<1>2. ASSUME NEW y \in T PROVE m <= y
  <2>1. ~ (y < m)
    BY <1>1, <1>2 DEF OpToRel
  <2> QED BY <2>1
<1> QED BY <1>2

LEMMA MaxProperties ==
    ASSUME NEW n \in Nat, NEW T, T \subseteq 0..n, T # {}
    PROVE  Max(T) \in T /\ \A y \in T : y <= Max(T)
<1> DEFINE D == {n - x : x \in T}
<1>1. PICK d \in D : \A y \in D : d <= y
  <2>1. \A x \in T : n - x \in Nat
    OBVIOUS
  <2>2. D \subseteq Nat /\ D # {}
    BY <2>1
  <2> HIDE DEF D
  <2> QED BY <2>2, LeastExists
<1>2. PICK x \in T : d = n - x
  BY <1>1
<1>3. \A y \in T : x >= y
  <2> TAKE y \in T
  <2>1. n - y \in D /\ x \in 0..n /\ y \in 0..n
    OBVIOUS
  <2>2. n - x <= n - y
    BY <1>1, <1>2, <2>1
  <2> QED BY <2>1, <2>2
<1>4. Max(T) \in T /\ \A y \in T : Max(T) >= y
  BY <1>3 DEF Max
<1> QED BY <1>4

LEMMA MinProperties ==
    ASSUME NEW T, T \subseteq Nat, T # {}
    PROVE  Min(T) \in T /\ \A y \in T : Min(T) <= y
<1>1. PICK m \in T : \A y \in T : m <= y
  BY LeastExists
<1>2. Min(T) \in T /\ \A y \in T : Min(T) <= y
  BY <1>1 DEF Min
<1> QED BY <1>2

(***************************************************************************)
(* A sequence cut in two.                                                  *)
(***************************************************************************)

LEMMA CutInTwo ==
    ASSUME NEW S, NEW s \in Seq(S), NEW n \in 0..Len(s)
    PROVE  /\ SubSeq(s, 1, n) \in Seq(S) /\ Len(SubSeq(s, 1, n)) = n
           /\ SubSeq(s, n + 1, Len(s)) \in Seq(S) /\ Len(SubSeq(s, n + 1, Len(s))) = Len(s) - n
           /\ SubSeq(s, 1, n) \o SubSeq(s, n + 1, Len(s)) = s
<1>1. Len(s) \in Nat /\ \A i \in 1..Len(s) : s[i] \in S
  BY LenProperties, ElementOfSeq
<1>2. SubSeq(s, 1, n) \in Seq(S) /\ Len(SubSeq(s, 1, n)) = n
  BY <1>1, SubSeqProperties
<1>3. SubSeq(s, n + 1, Len(s)) \in Seq(S) /\ Len(SubSeq(s, n + 1, Len(s))) = Len(s) - n
  BY <1>1, SubSeqProperties
<1>4. SubSeq(s, 1, n) \o SubSeq(s, n + 1, Len(s)) = SubSeq(s, 1, Len(s))
  <2>1. 1 \in 1..Len(s) + 1 /\ n \in (1 - 1)..Len(s) /\ Len(s) \in n..Len(s)
    BY <1>1
  <2> QED BY <2>1, ConcatAdjacentSubSeq
<1> QED BY <1>2, <1>3, <1>4, SubSeqFull

LEMMA RestTyped ==
    ASSUME NEW S, NEW s \in Seq(S), NEW n \in Nat
    PROVE  SubSeq(s, n + 1, Len(s)) \in Seq(S)
<1>1. Len(s) \in Nat /\ \A i \in 1..Len(s) : s[i] \in S
  BY LenProperties, ElementOfSeq
<1> QED BY <1>1, SubSeqProperties

LEMMA CutOfConcat ==
    ASSUME NEW S, NEW s \in Seq(S), NEW t \in Seq(S)
    PROVE  SubSeq(s \o t, 1, Len(s)) = s /\ SubSeq(s \o t, Len(s) + 1, Len(s \o t)) = t
<1>1. s \o t \in Seq(S) /\ Len(s \o t) = Len(s) + Len(t) /\ Len(s) \in Nat /\ Len(t) \in Nat
  BY ConcatProperties, LenProperties
<1>2. \A i \in 1..Len(s) + Len(t) : (s \o t)[i] = IF i <= Len(s) THEN s[i] ELSE t[i - Len(s)]
  BY ConcatProperties
<1>3. SubSeq(s \o t, 1, Len(s)) = s
  <2>1. SubSeq(s \o t, 1, Len(s)) \in Seq(S) /\ Len(SubSeq(s \o t, 1, Len(s))) = Len(s)
    BY <1>1, CutInTwo
  <2>2. \A i \in 1..Len(s) : SubSeq(s \o t, 1, Len(s))[i] = s[i]
    <3> TAKE i \in 1..Len(s)
    <3>1. \A j \in 1..Len(s) : (s \o t)[j] \in S
      BY <1>1, ElementOfSeq
    <3>2. SubSeq(s \o t, 1, Len(s))[i] = (s \o t)[1 + i - 1]
      BY <1>1, <3>1, SubSeqProperties
    <3> QED BY <1>1, <1>2, <3>2
  <2> QED BY <2>1, <2>2, SeqEqual
<1>4. s \o SubSeq(s \o t, Len(s) + 1, Len(s \o t)) = s \o t
  BY <1>1, <1>3, CutInTwo
<1>5. SubSeq(s \o t, Len(s) + 1, Len(s \o t)) \in Seq(S)
  BY <1>1, RestTyped
<1> QED BY <1>3, <1>4, <1>5, ConcatSimplifications

-----------------------------------------------------------------------------
(***************************************************************************)
(* Sequences joined: FlattenSeq, by its first and its last part.           *)
(***************************************************************************)

IsFlat(Q, f) == f = [i \in 1..Len(Q) |-> IF i = 1 THEN Q[i] ELSE f[i - 1] \o Q[i]]

FlatOf(Q) == CHOOSE f : IsFlat(Q, f)

LEMMA FlattenIsFlat ==
    ASSUME NEW Q
    PROVE  FlattenSeq(Q) = IF Len(Q) = 0 THEN Q ELSE FlatOf(Q)[Len(Q)]
BY DEF FlattenSeq, IsFlat, FlatOf

LEMMA FlatSteps ==
    ASSUME NEW Q, NEW f, IsFlat(Q, f), NEW i \in 1..Len(Q)
    PROVE  f[i] = IF i = 1 THEN Q[i] ELSE f[i - 1] \o Q[i]
BY DEF IsFlat

\* The parts that are there do not depend on what follows.
LEMMA FlatAgree ==
    ASSUME NEW S, NEW Q \in Seq(S), NEW R \in Seq(S), NEW f, IsFlat(Q, f), NEW g, IsFlat(R, g),
           NEW n \in Nat, n <= Len(Q), n <= Len(R), \A i \in 1..n : Q[i] = R[i]
    PROVE  \A i \in 1..n : f[i] = g[i]
<1> DEFINE G == {i \in Nat : i \in 1..n => f[i] = g[i]}
<1>1. 0 \in G
  OBVIOUS
<1>2. ASSUME NEW i \in Nat, i \in G PROVE i + 1 \in G
  <2>1. CASE i + 1 \in 1..n
    <3>1. i + 1 \in 1..Len(Q) /\ i + 1 \in 1..Len(R)
      BY <2>1, LenProperties
    <3>2. f[i + 1] = (IF i + 1 = 1 THEN Q[i + 1] ELSE f[(i + 1) - 1] \o Q[i + 1])
      BY <3>1, FlatSteps
    <3>3. g[i + 1] = (IF i + 1 = 1 THEN R[i + 1] ELSE g[(i + 1) - 1] \o R[i + 1])
      BY <3>1, FlatSteps
    <3>4. (i + 1) - 1 = i /\ (i + 1 # 1 => i \in 1..n)
      BY <2>1
    <3> QED BY <1>2, <2>1, <3>2, <3>3, <3>4
  <2> QED BY <2>1
<1>3. Nat \subseteq G
  <2> HIDE DEF G
  <2> QED BY <1>1, <1>2, NumbersByCounting
<1> QED BY <1>3

LEMMA FlatExists ==
    ASSUME NEW S
    PROVE  \A Q \in Seq(Seq(S)) : \E f \in [1..Len(Q) -> Seq(S)] : IsFlat(Q, f)
<1> DEFINE G == {Q \in Seq(Seq(S)) : \E f \in [1..Len(Q) -> Seq(S)] : IsFlat(Q, f)}
<1>1. <<>> \in G
  <2>1. <<>> \in Seq(Seq(S)) /\ Len(<<>>) = 0
    BY EmptySeq
  <2> DEFINE e == [i \in 1..0 |-> <<>>]
  <2>2. e \in [1..0 -> Seq(S)]
    BY EmptySeq
  <2>3. IsFlat(<<>>, e)
    BY <2>1 DEF IsFlat
  <2> QED BY <2>1, <2>2, <2>3
<1>2. ASSUME NEW Q \in Seq(Seq(S)), NEW x \in Seq(S), Q \in G PROVE Append(Q, x) \in G
  <2> DEFINE R == Append(Q, x)
             n == Len(Q)
  <2>1. R \in Seq(Seq(S)) /\ Len(R) = n + 1 /\ n \in Nat /\ R[n + 1] = x /\ \A i \in 1..n : R[i] = Q[i]
    BY AppendProperties, LenProperties
  <2>2. PICK f \in [1..n -> Seq(S)] : IsFlat(Q, f)
    BY <1>2
  <2> HIDE DEF R, n
  <2> DEFINE g == [i \in 1..(n + 1) |-> IF i = n + 1 THEN (IF n = 0 THEN x ELSE f[n] \o x) ELSE f[i]]
             h == [i \in 1..(n + 1) |-> IF i = 1 THEN R[i] ELSE g[i - 1] \o R[i]]
  <2>3. g \in [1..(n + 1) -> Seq(S)]
    <3>1. n # 0 => f[n] \o x \in Seq(S)
      BY <2>1, <2>2, ConcatProperties
    <3> QED BY <2>1, <2>2, <3>1
  <2>4. ASSUME NEW i \in 1..(n + 1) PROVE g[i] = h[i]
    <3>1. CASE i = n + 1
      <4>1. n # 0 => n \in 1..(n + 1) /\ n # n + 1 /\ (n + 1) - 1 = n /\ n + 1 # 1
        BY <2>1
      <4> QED BY <2>1, <3>1, <4>1
    <3>2. CASE i # n + 1
      <4>1. i \in 1..n /\ (i # 1 => i - 1 \in 1..n /\ i - 1 \in 1..(n + 1) /\ i - 1 # n + 1)
        BY <2>1, <3>2
      <4>2. f[i] = (IF i = 1 THEN Q[i] ELSE f[i - 1] \o Q[i])
        BY <2>2, <4>1, FlatSteps DEF n
      <4> QED BY <2>1, <3>2, <4>1, <4>2
    <3> QED BY <3>1, <3>2
  <2>5. g = h
    <3>1. g = [i \in 1..(n + 1) |-> g[i]]
      OBVIOUS
    <3>2. h = [i \in 1..(n + 1) |-> h[i]]
      OBVIOUS
    <3> HIDE DEF g, h
    <3> QED BY <2>4, <3>1, <3>2
  <2>6. IsFlat(R, g)
    BY <2>1, <2>5 DEF IsFlat
  <2> QED BY <2>1, <2>3, <2>6 DEF R
<1>3. Seq(Seq(S)) \subseteq G
  <2> HIDE DEF G
  <2> QED BY <1>1, <1>2, SequencesByAppending
<1> QED BY <1>3

LEMMA FlatKept ==
    ASSUME NEW S, NEW Q \in Seq(S), NEW R \in Seq(S), IsFlat(Q, FlatOf(Q)), IsFlat(R, FlatOf(R)),
           Len(R) = Len(Q) + 1, \A i \in 1..Len(Q) : Q[i] = R[i]
    PROVE  \A i \in 1..Len(Q) : FlatOf(R)[i] = FlatOf(Q)[i]
<1>1. Len(Q) \in Nat /\ Len(Q) <= Len(Q) /\ Len(Q) <= Len(R)
  BY LenProperties
<1> QED BY <1>1, FlatAgree

LEMMA FlattenProperties ==
    ASSUME NEW S
    PROVE  /\ FlattenSeq(<<>>) = <<>>
           /\ \A Q \in Seq(Seq(S)) : FlattenSeq(Q) \in Seq(S)
           /\ \A Q \in Seq(Seq(S)), x \in Seq(S) : FlattenSeq(Append(Q, x)) = FlattenSeq(Q) \o x
<1>1. FlattenSeq(<<>>) = <<>>
  BY FlattenIsFlat, EmptySeq
<1>2. ASSUME NEW Q \in Seq(Seq(S)) PROVE IsFlat(Q, FlatOf(Q)) /\ FlatOf(Q) \in [1..Len(Q) -> Seq(S)]
  <2>1. PICK f \in [1..Len(Q) -> Seq(S)] : IsFlat(Q, f)
    BY FlatExists
  <2>2. IsFlat(Q, FlatOf(Q))
    BY <2>1 DEF FlatOf
  <2>3. Len(Q) \in Nat
    BY LenProperties
  <2>4. \A i \in 1..Len(Q) : f[i] = FlatOf(Q)[i]
    BY <2>1, <2>2, <2>3, FlatAgree
  <2>5. DOMAIN FlatOf(Q) = 1..Len(Q) /\ FlatOf(Q) = [i \in 1..Len(Q) |-> FlatOf(Q)[i]]
    BY <2>2 DEF IsFlat
  <2> QED BY <2>1, <2>2, <2>4, <2>5
<1>3. ASSUME NEW Q \in Seq(Seq(S))
      PROVE  /\ Len(Q) = 0 => FlattenSeq(Q) = <<>>
             /\ Len(Q) # 0 => FlattenSeq(Q) = FlatOf(Q)[Len(Q)]
             /\ FlattenSeq(Q) \in Seq(S)
  <2>1. Len(Q) \in Nat /\ (Len(Q) = 0 => Q = <<>>)
    BY LenProperties, EmptySeq
  <2>2. FlattenSeq(Q) = IF Len(Q) = 0 THEN Q ELSE FlatOf(Q)[Len(Q)]
    BY FlattenIsFlat
  <2> QED BY <1>2, <2>1, <2>2, EmptySeq, SMTT(30)
<1>4. ASSUME NEW Q \in Seq(Seq(S)), NEW x \in Seq(S) PROVE FlattenSeq(Append(Q, x)) = FlattenSeq(Q) \o x
  <2> DEFINE R == Append(Q, x)
             n == Len(Q)
  <2>1. R \in Seq(Seq(S)) /\ Len(R) = n + 1 /\ n \in Nat /\ R[n + 1] = x /\ \A i \in 1..n : R[i] = Q[i]
    BY AppendProperties, LenProperties
  <2> HIDE DEF R
  <2>2. FlattenSeq(R) = FlatOf(R)[n + 1]
    BY <1>3, <2>1
  <2>3. FlatOf(R)[n + 1] = IF n + 1 = 1 THEN R[n + 1] ELSE FlatOf(R)[(n + 1) - 1] \o R[n + 1]
    BY <1>2, <2>1, FlatSteps
  <2>4. CASE n = 0
    <3>1. FlattenSeq(Q) \o x = x
      BY <1>3, <2>4, ConcatEmptySeq
    <3> QED BY <2>1, <2>2, <2>3, <2>4, <3>1 DEF R
  <2>5. CASE n # 0
    <3>1. FlatOf(R)[n] = FlatOf(Q)[n]
      <4>1. n \in 1..n
        BY <2>1, <2>5
      <4>2. IsFlat(Q, FlatOf(Q)) /\ IsFlat(R, FlatOf(R))
        BY <1>2, <2>1
      <4> QED BY <2>1, <4>1, <4>2, FlatKept
    <3>2. (n + 1) - 1 = n /\ n + 1 # 1
      BY <2>1, <2>5
    <3> QED BY <1>3, <2>1, <2>2, <2>3, <2>5, <3>1, <3>2 DEF R
  <2> QED BY <2>4, <2>5
<1> QED BY <1>1, <1>3, <1>4

(***************************************************************************)
(* The images of the elements of a sequence, joined.                       *)
(***************************************************************************)

Maps(f, U, V) == f \in [U -> Seq(V)]

Images(s, f) == FlattenSeq([i \in 1..Len(s) |-> f[s[i]]])

LEMMA ImagesProperties ==
    ASSUME NEW U, NEW V, NEW f, Maps(f, U, V)
    PROVE  /\ Images(<<>>, f) = <<>>
           /\ \A s \in Seq(U) : Images(s, f) \in Seq(V)
           /\ \A s \in Seq(U), x \in U : Images(Append(s, x), f) = Images(s, f) \o f[x]
           /\ \A x \in U : Images(<<x>>, f) = f[x]
<1> DEFINE M(s) == [i \in 1..Len(s) |-> f[s[i]]]
<1>1. ASSUME NEW s \in Seq(U) PROVE M(s) \in Seq(Seq(V)) /\ Len(M(s)) = Len(s)
  <2>1. Len(s) \in Nat /\ \A i \in 1..Len(s) : s[i] \in U
    BY LenProperties, ElementOfSeq
  <2>2. M(s) \in [1..Len(s) -> Seq(V)]
    BY <2>1 DEF Maps
  <2> QED BY <2>1, <2>2
<1>2. ASSUME NEW s \in Seq(U), NEW x \in U PROVE M(Append(s, x)) = Append(M(s), f[x])
  <2>1. Append(s, x) \in Seq(U) /\ Len(Append(s, x)) = Len(s) + 1 /\ Len(s) \in Nat
    BY AppendProperties, LenProperties
  <2>2. \A i \in 1..Len(s) : Append(s, x)[i] = s[i]
    BY AppendProperties
  <2>3. Append(s, x)[Len(s) + 1] = x
    BY AppendProperties
  <2>4. M(Append(s, x)) \in Seq(Seq(V)) /\ Append(M(s), f[x]) \in Seq(Seq(V)) /\ f[x] \in Seq(V)
    BY <1>1, <2>1, AppendProperties DEF Maps
  <2>5. Len(M(Append(s, x))) = Len(s) + 1 /\ Len(Append(M(s), f[x])) = Len(s) + 1
    BY <1>1, <2>1, <2>4, AppendProperties
  <2>6. ASSUME NEW i \in 1..(Len(s) + 1) PROVE M(Append(s, x))[i] = Append(M(s), f[x])[i]
    <3>1. M(Append(s, x))[i] = f[Append(s, x)[i]]
      BY <2>1
    <3>2. CASE i \in 1..Len(s)
      <4>1. Append(M(s), f[x])[i] = M(s)[i]
        BY <1>1, <2>4, <3>2, AppendProperties
      <4> QED BY <2>2, <3>1, <3>2, <4>1
    <3>3. CASE i = Len(s) + 1
      <4>1. Append(M(s), f[x])[Len(M(s)) + 1] = f[x]
        BY <1>1, <2>4, AppendProperties
      <4> QED BY <1>1, <2>3, <3>1, <3>3, <4>1
    <3> QED BY <2>1, <3>2, <3>3
  <2> HIDE DEF M
  <2> QED BY <2>4, <2>5, <2>6, SeqEqual
<1>3. M(<<>>) = <<>>
  BY EmptySeq
<1>4. \A s : Images(s, f) = FlattenSeq(M(s))
  BY DEF Images
<1> HIDE DEF M
<1>5. Images(<<>>, f) = <<>>
  BY <1>3, <1>4, FlattenProperties
<1>6. \A s \in Seq(U) : Images(s, f) \in Seq(V)
  BY <1>1, <1>4, FlattenProperties
<1>7. \A s \in Seq(U), x \in U : Images(Append(s, x), f) = Images(s, f) \o f[x]
  <2> TAKE s \in Seq(U), x \in U
  <2>1. FlattenSeq(Append(M(s), f[x])) = FlattenSeq(M(s)) \o f[x]
    BY <1>1, FlattenProperties DEF Maps
  <2> QED BY <1>2, <1>4, <2>1
<1>8. \A x \in U : Images(<<x>>, f) = f[x]
  <2> TAKE x \in U
  <2>1. <<>> \in Seq(U) /\ Append(<<>>, x) = <<x>> /\ f[x] \in Seq(V)
    BY EmptySeq DEF Maps
  <2> QED BY <1>5, <1>7, <2>1, ConcatEmptySeq
<1> QED BY <1>5, <1>6, <1>7, <1>8

LEMMA ImagesOfConcat ==
    ASSUME NEW U, NEW V, NEW f, Maps(f, U, V), NEW s \in Seq(U)
    PROVE  \A t \in Seq(U) : Images(s \o t, f) = Images(s, f) \o Images(t, f)
<1> DEFINE G == {t \in Seq(U) : Images(s \o t, f) = Images(s, f) \o Images(t, f)}
<1>1. <<>> \in G
  <2>1. <<>> \in Seq(U) /\ s \o <<>> = s /\ Images(s, f) \in Seq(V)
    BY EmptySeq, ConcatEmptySeq, ImagesProperties
  <2> QED BY <2>1, ImagesProperties, ConcatEmptySeq
<1>2. ASSUME NEW t \in Seq(U), NEW x \in U, t \in G PROVE Append(t, x) \in G
  <2>1. s \o t \in Seq(U) /\ Append(t, x) \in Seq(U) /\ f[x] \in Seq(V)
    BY ConcatProperties, AppendProperties DEF Maps
  <2>2. s \o Append(t, x) = Append(s \o t, x)
    <3>1. Append(t, x) = t \o <<x>> /\ Append(s \o t, x) = (s \o t) \o <<x>> /\ <<x>> \in Seq(U)
      BY <2>1, AppendIsConcat
    <3> QED BY <3>1, ConcatAssociative
  <2>3. Images(Append(s \o t, x), f) = Images(s \o t, f) \o f[x]
    <3>1. \A a \in Seq(U), y \in U : Images(Append(a, y), f) = Images(a, f) \o f[y]
      BY ImagesProperties
    <3> QED BY <2>1, <3>1
  <2>4. Images(s, f) \in Seq(V) /\ Images(t, f) \in Seq(V) /\ Images(Append(t, x), f) = Images(t, f) \o f[x]
    BY ImagesProperties
  <2>5. (Images(s, f) \o Images(t, f)) \o f[x] = Images(s, f) \o (Images(t, f) \o f[x])
    <3>1. \A a, b, c \in Seq(V) : (a \o b) \o c = a \o (b \o c)
      BY ConcatAssociative
    <3> QED BY <2>1, <2>4, <3>1
  <2> QED BY <1>2, <2>1, <2>2, <2>3, <2>4, <2>5
<1>3. Seq(U) \subseteq G
  <2> HIDE DEF G
  <2> QED BY <1>1, <1>2, SequencesByAppending
<1> QED BY <1>3

LEMMA ImagesOfImages ==
    ASSUME NEW U, NEW V, NEW W, NEW f, Maps(f, U, V), NEW g, Maps(g, V, W),
           NEW h, Maps(h, U, W), \A x \in U : h[x] = Images(f[x], g)
    PROVE  \A s \in Seq(U) : Images(Images(s, f), g) = Images(s, h)
<1> DEFINE G == {s \in Seq(U) : Images(Images(s, f), g) = Images(s, h)}
<1>1. <<>> \in G
  BY EmptySeq, ImagesProperties
<1>2. ASSUME NEW s \in Seq(U), NEW x \in U, s \in G PROVE Append(s, x) \in G
  <2>1. Images(s, f) \in Seq(V) /\ f[x] \in Seq(V) /\ Append(s, x) \in Seq(U)
    BY ImagesProperties, AppendProperties DEF Maps
  <2>2. Images(Append(s, x), f) = Images(s, f) \o f[x] /\ Images(Append(s, x), h) = Images(s, h) \o h[x]
    BY ImagesProperties
  <2>3. Images(Images(s, f) \o f[x], g) = Images(Images(s, f), g) \o Images(f[x], g)
    BY <2>1, ImagesOfConcat
  <2> QED BY <1>2, <2>1, <2>2, <2>3
<1>3. Seq(U) \subseteq G
  <2> HIDE DEF G
  <2> QED BY <1>1, <1>2, SequencesByAppending
<1> QED BY <1>3

(***************************************************************************)
(* The sum of a sequence of numbers.                                       *)
(***************************************************************************)

IsSum(N, f) == f = [i \in 0..Len(N) |-> IF i = 0 THEN 0 ELSE f[i - 1] + N[i]]
SumOf(N) == CHOOSE f : IsSum(N, f)

LEMMA TotalIsSum ==
    ASSUME NEW N
    PROVE  Total(N) = SumOf(N)[Len(N)]
BY DEF Total, SumOf, IsSum

LEMMA SumSteps ==
    ASSUME NEW N, NEW f, IsSum(N, f), NEW i \in 0..Len(N)
    PROVE  f[i] = IF i = 0 THEN 0 ELSE f[i - 1] + N[i]
BY DEF IsSum

LEMMA SumsAgree ==
    ASSUME NEW N \in Seq(Nat), NEW R \in Seq(Nat), NEW f, IsSum(N, f), NEW g, IsSum(R, g),
           Len(N) <= Len(R), \A i \in 1..Len(N) : N[i] = R[i]
    PROVE  \A i \in 0..Len(N) : f[i] = g[i]
<1> DEFINE G == {i \in Nat : i \in 0..Len(N) => f[i] = g[i]}
<1>0. Len(N) \in Nat /\ Len(R) \in Nat
  BY LenProperties
<1>1. 0 \in G
  <2>1. 0 \in 0..Len(N) /\ 0 \in 0..Len(R)
    BY <1>0
  <2> QED BY <2>1, SumSteps
<1>2. ASSUME NEW i \in Nat, i \in G PROVE i + 1 \in G
  <2>1. CASE i + 1 \in 0..Len(N)
    <3>1. i + 1 \in 0..Len(N) /\ i + 1 \in 0..Len(R) /\ (i + 1) - 1 = i /\ i + 1 # 0
      BY <1>0, <2>1
    <3>2. f[i + 1] = f[(i + 1) - 1] + N[i + 1]
      BY <3>1, SumSteps
    <3>3. g[i + 1] = g[(i + 1) - 1] + R[i + 1]
      BY <3>1, SumSteps
    <3>4. i \in 0..Len(N) /\ i + 1 \in 1..Len(N)
      BY <1>0, <2>1
    <3> QED BY <1>2, <3>1, <3>2, <3>3, <3>4
  <2> QED BY <2>1
<1>3. Nat \subseteq G
  <2> HIDE DEF G
  <2> QED BY <1>1, <1>2, NumbersByCounting
<1> QED BY <1>3

LEMMA SumExists ==
    \A N \in Seq(Nat) : \E f \in [0..Len(N) -> Nat] : IsSum(N, f)
<1> DEFINE G == {N \in Seq(Nat) : \E f \in [0..Len(N) -> Nat] : IsSum(N, f)}
<1>1. <<>> \in G
  <2>1. <<>> \in Seq(Nat) /\ Len(<<>>) = 0
    BY EmptySeq
  <2> DEFINE z == [i \in 0..0 |-> 0]
  <2>2. z \in [0..0 -> Nat] /\ IsSum(<<>>, z)
    BY <2>1 DEF IsSum
  <2> QED BY <2>1, <2>2
<1>2. ASSUME NEW N \in Seq(Nat), NEW x \in Nat, N \in G PROVE Append(N, x) \in G
  <2> DEFINE R == Append(N, x)
             n == Len(N)
  <2>1. R \in Seq(Nat) /\ Len(R) = n + 1 /\ n \in Nat /\ R[n + 1] = x /\ \A i \in 1..n : R[i] = N[i]
    BY AppendProperties, LenProperties
  <2>2. PICK f \in [0..n -> Nat] : IsSum(N, f)
    BY <1>2
  <2> HIDE DEF R, n
  <2> DEFINE g == [i \in 0..(n + 1) |-> IF i = n + 1 THEN f[n] + x ELSE f[i]]
             h == [i \in 0..(n + 1) |-> IF i = 0 THEN 0 ELSE g[i - 1] + R[i]]
  <2>3. g \in [0..(n + 1) -> Nat]
    BY <2>1, <2>2
  <2>4. ASSUME NEW i \in 0..(n + 1) PROVE g[i] = h[i]
    <3>1. CASE i = n + 1
      BY <2>1, <3>1
    <3>2. CASE i # n + 1
      <4>1. i \in 0..n /\ (i # 0 => i - 1 \in 0..n /\ i - 1 \in 0..(n + 1) /\ i - 1 # n + 1 /\ i \in 1..n)
        BY <2>1, <3>2
      <4>2. f[i] = (IF i = 0 THEN 0 ELSE f[i - 1] + N[i])
        BY <2>2, <4>1, SumSteps DEF n
      <4> QED BY <2>1, <3>2, <4>1, <4>2
    <3> QED BY <3>1, <3>2
  <2>5. g = h
    <3>1. g = [i \in 0..(n + 1) |-> g[i]]
      OBVIOUS
    <3>2. h = [i \in 0..(n + 1) |-> h[i]]
      OBVIOUS
    <3> HIDE DEF g, h
    <3> QED BY <2>4, <3>1, <3>2
  <2>6. IsSum(R, g)
    BY <2>1, <2>5 DEF IsSum
  <2> QED BY <2>1, <2>3, <2>6 DEF R
<1>3. Seq(Nat) \subseteq G
  <2> HIDE DEF G
  <2> QED BY <1>1, <1>2, SequencesByAppending
<1> QED BY <1>3

LEMMA TotalProperties ==
    /\ Total(<<>>) = 0
    /\ \A N \in Seq(Nat) : Total(N) \in Nat
    /\ \A N \in Seq(Nat), x \in Nat : Total(Append(N, x)) = Total(N) + x
<1>1. ASSUME NEW N \in Seq(Nat) PROVE IsSum(N, SumOf(N)) /\ SumOf(N) \in [0..Len(N) -> Nat]
  <2>1. PICK f \in [0..Len(N) -> Nat] : IsSum(N, f)
    BY SumExists
  <2>2. IsSum(N, SumOf(N))
    BY <2>1 DEF SumOf
  <2>3. Len(N) \in Nat
    BY LenProperties
  <2>4. \A i \in 0..Len(N) : f[i] = SumOf(N)[i]
    BY <2>1, <2>2, <2>3, SumsAgree
  <2>5. DOMAIN SumOf(N) = 0..Len(N) /\ SumOf(N) = [i \in 0..Len(N) |-> SumOf(N)[i]]
    BY <2>2 DEF IsSum
  <2> QED BY <2>1, <2>2, <2>4, <2>5
<1>2. \A N \in Seq(Nat) : Total(N) \in Nat
  BY <1>1, TotalIsSum, LenProperties
<1>3. Total(<<>>) = 0
  <2>1. <<>> \in Seq(Nat) /\ Len(<<>>) = 0 /\ 0 \in 0..Len(<<>>)
    BY EmptySeq
  <2> QED BY <1>1, <2>1, SumSteps, TotalIsSum
<1>4. ASSUME NEW N \in Seq(Nat), NEW x \in Nat PROVE Total(Append(N, x)) = Total(N) + x
  <2> DEFINE R == Append(N, x)
  <2>1. R \in Seq(Nat) /\ Len(R) = Len(N) + 1 /\ Len(N) \in Nat /\ R[Len(N) + 1] = x /\ \A i \in 1..Len(N) : R[i] = N[i]
    BY AppendProperties, LenProperties
  <2> HIDE DEF R
  <2>2. IsSum(N, SumOf(N)) /\ IsSum(R, SumOf(R))
    BY <1>1, <2>1
  <2>3. Len(N) <= Len(R) /\ Len(N) \in 0..Len(N) /\ Len(N) + 1 \in 0..Len(R) /\ (Len(N) + 1) - 1 = Len(N) /\ Len(N) + 1 # 0
    BY <2>1
  <2>4. SumOf(R)[Len(N)] = SumOf(N)[Len(N)]
    <3>1. \A i \in 0..Len(N) : SumOf(N)[i] = SumOf(R)[i]
      BY <2>1, <2>2, <2>3, SumsAgree
    <3> QED BY <2>3, <3>1
  <2>5. SumOf(R)[Len(N) + 1] = SumOf(R)[(Len(N) + 1) - 1] + R[Len(N) + 1]
    BY <2>2, <2>3, SumSteps
  <2> QED BY <2>1, <2>3, <2>4, <2>5, TotalIsSum DEF R
<1> QED BY <1>2, <1>3, <1>4

-----------------------------------------------------------------------------
(***************************************************************************)
(* The operators of Transport that join images.                            *)
(***************************************************************************)

unitsOf == [q \in Entry |-> UnitsOf(q)]
announcedBy == [u \in Unit |-> IF IsLastOfPayload(u) THEN Fds(u.frame.msg) ELSE <<>>]
lastOf == [u \in Unit |-> IF IsLastOfPayload(u) THEN <<u>> ELSE <<>>]
fdsOfUnit == [u \in Unit |-> u.fds]
fdsOfMsg == [m \in Msg |-> Fds(m)]
mineOf == [m \in Message |-> IF ~IsReply(m.msg) THEN <<m>> ELSE <<>>]
requestOf == [m \in Message |-> IF m.msg \in Request THEN <<m>> ELSE <<>>]

LEMMA SizePositive == \A f \in Frame : Size(f) \in Nat \ {0}
BY MessageAssumption DEF Frame, Size

LEMMA FdsTyped == \A m \in Msg : Fds(m) \in Seq(Descriptor) /\ Len(Fds(m)) = FdCount[m] /\ FdCount[m] \in Nat
<1> TAKE m \in Msg
<1>1. FdCount[m] \in Nat
  BY MessageAssumption, BoundAssumption
<1>2. Fds(m) \in [1..FdCount[m] -> Descriptor]
  BY <1>1 DEF Fds, Descriptor
<1> QED BY <1>1, <1>2

LEMMA UnitsOfTyped ==
    ASSUME NEW q \in Entry
    PROVE  /\ Remaining(q) \in Nat \ {0}
           /\ UnitsOf(q) \in Seq(Unit) /\ Len(UnitsOf(q)) = Remaining(q)
           /\ \A k \in 1..Remaining(q) : UnitsOf(q)[k] = [frame |-> q.frame, at |-> q.offset + k, fds |-> <<>>]
<1>1. q.frame \in Frame /\ q.offset \in Nat /\ q.offset < Size(q.frame) /\ Size(q.frame) \in Nat
  BY SizePositive DEF Entry
<1>2. Remaining(q) \in Nat \ {0}
  BY <1>1 DEF Remaining
<1>3. ASSUME NEW k \in 1..Remaining(q) PROVE [frame |-> q.frame, at |-> q.offset + k, fds |-> <<>>] \in Unit
  BY <1>1, EmptySeq DEF Unit, Remaining
<1>4. UnitsOf(q) \in [1..Remaining(q) -> Unit]
  BY <1>3 DEF UnitsOf
<1> QED BY <1>2, <1>4 DEF UnitsOf

LEMMA MapsTyped ==
    /\ Maps(unitsOf, Entry, Unit)
    /\ Maps(announcedBy, Unit, Descriptor)
    /\ Maps(lastOf, Unit, Unit)
    /\ Maps(fdsOfUnit, Unit, Descriptor)
    /\ Maps(fdsOfMsg, Msg, Descriptor)
    /\ Maps(mineOf, Message, Message)
    /\ Maps(requestOf, Message, Message)
<1>1. Maps(unitsOf, Entry, Unit)
  BY UnitsOfTyped DEF Maps, unitsOf
<1>2. Maps(announcedBy, Unit, Descriptor)
  <2>1. ASSUME NEW u \in Unit, IsLastOfPayload(u) PROVE u.frame.msg \in Msg
    BY <2>1 DEF Unit, Frame, IsLastOfPayload
  <2> QED BY <2>1, FdsTyped, EmptySeq DEF Maps, announcedBy
<1>3. Maps(lastOf, Unit, Unit)
  <2>1. \A u \in Unit : <<u>> \in Seq(Unit)
    OBVIOUS
  <2> QED BY <2>1, EmptySeq DEF Maps, lastOf
<1>4. Maps(fdsOfUnit, Unit, Descriptor)
  BY DEF Maps, fdsOfUnit, Unit
<1>5. Maps(fdsOfMsg, Msg, Descriptor)
  BY FdsTyped DEF Maps, fdsOfMsg
<1>6. Maps(mineOf, Message, Message) /\ Maps(requestOf, Message, Message)
  <2>1. \A m \in Message : <<m>> \in Seq(Message)
    OBVIOUS
  <2> QED BY <2>1, EmptySeq DEF Maps, mineOf, requestOf
<1> QED BY <1>1, <1>2, <1>3, <1>4, <1>5, <1>6

LEMMA JoinedAreImages ==
    /\ \A Q \in Seq(Entry) : Stream(Q) = Images(Q, unitsOf)
    /\ \A U \in Seq(Unit) : Announced(U) = Images(U, announcedBy)
    /\ \A U \in Seq(Unit) : Those(U, IsLastOfPayload) = Images(U, lastOf)
    /\ \A U \in Seq(Unit) : Each(U, LAMBDA u : u.fds) = Images(U, fdsOfUnit)
    /\ \A M \in Seq(Msg) : Each(M, Fds) = Images(M, fdsOfMsg)
    /\ \A M \in Seq(Message) : ForEndpoint(M) = Images(M, mineOf)
    /\ \A M \in Seq(Message) : Those(M, LAMBDA m : m.msg \in Request) = Images(M, requestOf)
<1>0. \A S : \A s \in Seq(S) : \A i \in 1..Len(s) : s[i] \in S
  BY ElementOfSeq
<1>1. \A Q \in Seq(Entry) : Stream(Q) = Images(Q, unitsOf)
  BY <1>0 DEF Stream, Each, Images, unitsOf
<1>2. \A U \in Seq(Unit) : Announced(U) = Images(U, announcedBy)
  BY <1>0 DEF Announced, Each, Images, announcedBy
<1>3. \A U \in Seq(Unit) : Those(U, IsLastOfPayload) = Images(U, lastOf)
  BY <1>0 DEF Those, Each, Images, lastOf
<1>4. \A U \in Seq(Unit) : Each(U, LAMBDA u : u.fds) = Images(U, fdsOfUnit)
  BY <1>0 DEF Each, Images, fdsOfUnit
<1>5. \A M \in Seq(Msg) : Each(M, Fds) = Images(M, fdsOfMsg)
  BY <1>0 DEF Each, Images, fdsOfMsg
<1>6. \A M \in Seq(Message) : ForEndpoint(M) = Images(M, mineOf)
  BY <1>0 DEF ForEndpoint, Those, Each, Images, mineOf
<1>7. \A M \in Seq(Message) : Those(M, LAMBDA m : m.msg \in Request) = Images(M, requestOf)
  BY <1>0 DEF Those, Each, Images, requestOf
<1> QED BY <1>1, <1>2, <1>3, <1>4, <1>5, <1>6, <1>7

\* Where the image of one element is.
LEMMA ImageAt ==
    ASSUME NEW U, NEW V, NEW f, Maps(f, U, V), NEW s \in Seq(U), NEW i \in 1..Len(s)
    PROVE  /\ Images(SubSeq(s, 1, i - 1), f) \in Seq(V) /\ Images(SubSeq(s, i + 1, Len(s)), f) \in Seq(V)
           /\ Images(SubSeq(s, 1, i), f) = Images(SubSeq(s, 1, i - 1), f) \o f[s[i]]
           /\ Images(s, f) = (Images(SubSeq(s, 1, i - 1), f) \o f[s[i]]) \o Images(SubSeq(s, i + 1, Len(s)), f)
<1>1. Len(s) \in Nat /\ s[i] \in U /\ i \in 0..Len(s) /\ i - 1 \in 0..Len(s)
  BY LenProperties, ElementOfSeq
<1>2. SubSeq(s, 1, i - 1) \in Seq(U) /\ SubSeq(s, 1, i) \in Seq(U) /\ SubSeq(s, i + 1, Len(s)) \in Seq(U)
  BY <1>1, CutInTwo
<1>3. SubSeq(s, 1, i) = Append(SubSeq(s, 1, i - 1), s[i])
  <2>1. SubSeq(s, 1, i) = SubSeq(s, 1, i - 1) \o <<s[i]>>
    BY <1>1, SubSeqRecursiveSecond
  <2> QED BY <1>1, <1>2, <2>1, AppendIsConcat
<1>4. s = SubSeq(s, 1, i) \o SubSeq(s, i + 1, Len(s))
  BY <1>1, CutInTwo
<1>5. \A a \in Seq(U), x \in U : Images(Append(a, x), f) = Images(a, f) \o f[x]
  BY ImagesProperties
<1>6. \A a, b \in Seq(U) : Images(a \o b, f) = Images(a, f) \o Images(b, f)
  BY ImagesOfConcat
<1>7. \A a \in Seq(U) : Images(a, f) \in Seq(V)
  BY ImagesProperties
<1>8. Images(SubSeq(s, 1, i), f) = Images(SubSeq(s, 1, i - 1), f) \o f[s[i]]
  BY <1>1, <1>2, <1>3, <1>5
<1>9. Images(s, f) = Images(SubSeq(s, 1, i), f) \o Images(SubSeq(s, i + 1, Len(s)), f)
  BY <1>2, <1>4, <1>6
<1> QED BY <1>2, <1>7, <1>8, <1>9

LEMMA MiddleOf ==
    ASSUME NEW S, NEW a \in Seq(S), NEW m \in Seq(S), NEW r \in Seq(S)
    PROVE  SubSeq((a \o m) \o r, Len(a) + 1, Len(a) + Len(m)) = m
<1>1. a \o m \in Seq(S) /\ Len(a \o m) = Len(a) + Len(m) /\ Len(a) \in Nat /\ Len(m) \in Nat /\ Len(r) \in Nat
  BY ConcatProperties, LenProperties
<1>2. SubSeq(a \o m, Len(a) + 1, Len(a) + Len(m)) = m
  BY <1>1, CutOfConcat
<1>3. CASE m = <<>>
  <2>1. Len(m) = 0 /\ Len(a) + Len(m) < Len(a) + 1
    BY <1>1, <1>3, EmptySeq
  <2> QED BY <1>1, <1>3, <2>1, SubSeqEmpty
<1>4. CASE m # <<>>
  <2>1. Len(m) > 0
    BY <1>4, EmptySeq
  <2>2. Len(a) + 1 \in 1..Len(a \o m) /\ Len(a) + Len(m) \in 1..Len(a \o m)
    BY <1>1, <2>1
  <2>3. SubSeq((a \o m) \o r, Len(a) + 1, Len(a) + Len(m)) = SubSeq(a \o m, Len(a) + 1, Len(a) + Len(m))
    BY <1>1, <2>2, SubSeqOfConcat1
  <2> QED BY <1>2, <2>3
<1> QED BY <1>3, <1>4

-----------------------------------------------------------------------------
(***************************************************************************)
(* Parsing.                                                                *)
(***************************************************************************)

LEMMA AnnouncedTyped ==
    /\ Announced(<<>>) = <<>>
    /\ \A U \in Seq(Unit) : Announced(U) \in Seq(Descriptor)
    /\ \A U, W \in Seq(Unit) : Announced(U \o W) = Announced(U) \o Announced(W)
<1>1. Maps(announcedBy, Unit, Descriptor) /\ <<>> \in Seq(Unit)
  BY MapsTyped, EmptySeq
<1>2. \A U \in Seq(Unit) : Announced(U) = Images(U, announcedBy)
  BY JoinedAreImages
<1>3. Announced(<<>>) = <<>>
  BY <1>1, <1>2, ImagesProperties
<1>4. \A U \in Seq(Unit) : Images(U, announcedBy) \in Seq(Descriptor)
  BY <1>1, ImagesProperties
<1>5. \A U, W \in Seq(Unit) : Images(U \o W, announcedBy) = Images(U, announcedBy) \o Images(W, announcedBy)
  BY <1>1, ImagesOfConcat
<1>6. \A U, W \in Seq(Unit) : U \o W \in Seq(Unit)
  BY ConcatProperties
<1> QED BY <1>2, <1>3, <1>4, <1>5, <1>6

LEMMA ParsedProperties ==
    ASSUME NEW e \in End, bytes[e] \in Seq(Unit), attached[e] \in Seq(Descriptor)
    PROVE  /\ Parsed(e) \in 0..Len(bytes[e])
           /\ SubSeq(bytes[e], 1, Parsed(e)) \in Seq(Unit)
           /\ Len(Announced(SubSeq(bytes[e], 1, Parsed(e)))) <= Len(attached[e])
<1> DEFINE T == {0} \cup {n \in 1..Len(bytes[e]) :
                   /\ IsLastUnit(bytes[e][n])
                   /\ Len(Announced(SubSeq(bytes[e], 1, n))) <= Len(attached[e])}
<1>1. Len(bytes[e]) \in Nat /\ Len(attached[e]) \in Nat
  BY LenProperties
<1>2. Parsed(e) = Max(T)
  BY DEF Parsed
<1>3. T \subseteq 0..Len(bytes[e]) /\ T # {}
  BY <1>1
<1>4. Max(T) \in T
  <2> HIDE DEF T
  <2> QED BY <1>1, <1>3, MaxProperties
<1>5. Parsed(e) \in 0..Len(bytes[e])
  BY <1>2, <1>3, <1>4
<1>6. SubSeq(bytes[e], 1, Parsed(e)) \in Seq(Unit)
  BY <1>5, CutInTwo
<1>7. CASE Parsed(e) = 0
  <2>1. SubSeq(bytes[e], 1, 0) = <<>> /\ <<>> \in Seq(Unit)
    BY SubSeqEmpty, EmptySeq
  <2>2. Announced(<<>>) = <<>> /\ Len(<<>>) = 0
    BY AnnouncedTyped, EmptySeq
  <2>3. SubSeq(bytes[e], 1, Parsed(e)) = <<>>
    BY <1>7, <2>1
  <2>4. Len(Announced(SubSeq(bytes[e], 1, Parsed(e)))) = 0
    BY <2>2, <2>3
  <2> QED BY <1>1, <1>5, <1>6, <2>4
<1>8. CASE Parsed(e) # 0
  <2>1. Len(Announced(SubSeq(bytes[e], 1, Parsed(e)))) <= Len(attached[e])
    BY <1>2, <1>4, <1>8
  <2> QED BY <1>5, <1>6, <2>1
<1> QED BY <1>7, <1>8

\* What the units announce is announced by the last units of messages.
LEMMA AnnouncedByLast ==
    ASSUME NEW U \in Seq(Unit)
    PROVE  /\ Those(U, IsLastOfPayload) \in Seq(Unit)
           /\ \A i \in 1..Len(Those(U, IsLastOfPayload)) : IsLastOfPayload(Those(U, IsLastOfPayload)[i])
           /\ Announced(Those(U, IsLastOfPayload)) = Announced(U)
<1> DEFINE Final == {u \in Unit : IsLastOfPayload(u)}
           P == Those(U, IsLastOfPayload)
<1>1. P = Images(U, lastOf)
  BY JoinedAreImages
<1>2. Maps(lastOf, Unit, Final)
  <2>1. \A u \in Final : <<u>> \in Seq(Final)
    OBVIOUS
  <2>2. <<>> \in Seq(Final)
    BY EmptySeq
  <2>3. ASSUME NEW u \in Unit PROVE (IF IsLastOfPayload(u) THEN <<u>> ELSE <<>>) \in Seq(Final)
    BY <2>1, <2>2
  <2> QED BY <2>3 DEF Maps, lastOf
<1>3. P \in Seq(Final)
  <2> HIDE DEF P, Final
  <2> QED BY <1>1, <1>2, ImagesProperties
<1>4. P \in Seq(Unit) /\ \A i \in 1..Len(P) : P[i] \in Final
  <2> HIDE DEF P
  <2>1. Final \subseteq Unit
    OBVIOUS
  <2> HIDE DEF Final
  <2> QED BY <1>3, <2>1, SeqMonotonic, ElementOfSeq
<1>5. \A u \in Unit : announcedBy[u] = Images(lastOf[u], announcedBy)
  <2> TAKE u \in Unit
  <2>1. Images(<<u>>, announcedBy) = announcedBy[u] /\ Images(<<>>, announcedBy) = <<>>
    BY MapsTyped, ImagesProperties, SMTT(30)
  <2> QED BY <2>1 DEF lastOf, announcedBy
<1>6. Images(Images(U, lastOf), announcedBy) = Images(U, announcedBy)
  BY <1>5, MapsTyped, ImagesOfImages
<1>7. Announced(P) = Announced(U)
  <2> HIDE DEF P
  <2> QED BY <1>1, <1>4, <1>6, JoinedAreImages
<1> QED BY <1>4, <1>7

\* The descriptors of one message among those that all announce.
LEMMA AnnouncedAt ==
    ASSUME NEW P \in Seq(Unit), NEW i \in 1..Len(P), IsLastOfPayload(P[i])
    PROVE  /\ P[i].frame.msg \in Msg
           /\ Fds(P[i].frame.msg) \in Seq(Descriptor) /\ Len(Fds(P[i].frame.msg)) = P[i].frame.fds
           /\ Announced(SubSeq(P, 1, i - 1)) \in Seq(Descriptor)
           /\ \E r \in Seq(Descriptor) :
                 Announced(P) = (Announced(SubSeq(P, 1, i - 1)) \o Fds(P[i].frame.msg)) \o r
<1>1. P[i] \in Unit /\ Len(P) \in Nat
  BY ElementOfSeq, LenProperties
<1>2. P[i].frame.msg \in Msg /\ P[i].frame.fds = FdCount[P[i].frame.msg]
  BY <1>1 DEF Unit, Frame, IsLastOfPayload
<1>3. announcedBy[P[i]] = Fds(P[i].frame.msg)
  BY <1>1 DEF announcedBy
<1>4. Maps(announcedBy, Unit, Descriptor)
  BY MapsTyped
<1>5. /\ Images(SubSeq(P, 1, i - 1), announcedBy) \in Seq(Descriptor)
      /\ Images(SubSeq(P, i + 1, Len(P)), announcedBy) \in Seq(Descriptor)
      /\ Images(P, announcedBy) = (Images(SubSeq(P, 1, i - 1), announcedBy) \o announcedBy[P[i]])
                                    \o Images(SubSeq(P, i + 1, Len(P)), announcedBy)
  BY <1>4, ImageAt, ZenonT(30)
<1>6. SubSeq(P, 1, i - 1) \in Seq(Unit)
  <2>1. i - 1 \in 0..Len(P)
    BY <1>1
  <2> QED BY <2>1, CutInTwo
<1>7. Announced(P) = Images(P, announcedBy)
  BY JoinedAreImages
<1>8. Announced(SubSeq(P, 1, i - 1)) = Images(SubSeq(P, 1, i - 1), announcedBy)
  BY <1>6, JoinedAreImages
<1> QED BY <1>2, <1>3, <1>5, <1>7, <1>8, FdsTyped

LEMMA BatchProperties ==
    ASSUME NEW U \in Seq(Unit), NEW A \in Seq(Descriptor), Len(Announced(U)) <= Len(A),
           NEW P, P = Those(U, IsLastOfPayload)
    PROVE  /\ Batch(P, A) \in Seq(Message) /\ Len(Batch(P, A)) = Len(P)
           /\ \A i \in 1..Len(P) : Batch(P, A)[i].msg = P[i].frame.msg
           /\ SubSeq(A, 1, Len(Announced(U))) = Announced(U)
                 => \A i \in 1..Len(P) : Batch(P, A)[i].fds = Fds(P[i].frame.msg)
<1>1. P \in Seq(Unit) /\ Announced(P) = Announced(U) /\ Len(P) \in Nat /\ Len(A) \in Nat
  BY AnnouncedByLast, LenProperties
<1> DEFINE before == [i \in 1..Len(P) |-> Announced(SubSeq(P, 1, i - 1))]
           own == [i \in 1..Len(P) |-> Fds(P[i].frame.msg)]
<1>2. ASSUME NEW i \in 1..Len(P)
      PROVE  /\ P[i].frame.msg \in Msg
             /\ before[i] \in Seq(Descriptor) /\ own[i] \in Seq(Descriptor) /\ Len(own[i]) = P[i].frame.fds
             /\ \E r \in Seq(Descriptor) : Announced(U) = (before[i] \o own[i]) \o r
  <2>1. IsLastOfPayload(P[i])
    BY AnnouncedByLast
  <2> QED BY <1>1, <2>1, AnnouncedAt
<1>3. ASSUME NEW i \in 1..Len(P)
      PROVE  /\ Batch(P, A)[i] = [msg |-> Batch(P, A)[i].msg, fds |-> Batch(P, A)[i].fds]
             /\ Batch(P, A)[i].msg = P[i].frame.msg
             /\ Batch(P, A)[i].fds = SubSeq(A, Len(before[i]) + 1, Len(before[i]) + P[i].frame.fds)
  BY DEF Batch
<1> HIDE DEF before, own
<1>4. ASSUME NEW i \in 1..Len(P)
      PROVE  SubSeq(A, Len(before[i]) + 1, Len(before[i]) + P[i].frame.fds) \in Seq(Descriptor)
  <2>1. PICK r \in Seq(Descriptor) : Announced(U) = (before[i] \o own[i]) \o r
    BY <1>2
  <2>2. Len(Announced(U)) = (Len(before[i]) + Len(own[i])) + Len(r)
    <3>1. before[i] \o own[i] \in Seq(Descriptor) /\ Len(before[i] \o own[i]) = Len(before[i]) + Len(own[i])
      BY <1>2, ConcatProperties, ZenonT(30)
    <3> QED BY <2>1, <3>1, ConcatProperties
  <2>3. Len(before[i]) \in Nat /\ Len(own[i]) \in Nat /\ Len(r) \in Nat /\ Len(own[i]) = P[i].frame.fds
    BY <1>2, LenProperties
  <2>4. \A j \in (Len(before[i]) + 1)..(Len(before[i]) + P[i].frame.fds) : j \in 1..Len(A)
    BY <1>1, <2>2, <2>3, SMTT(30)
  <2>5. \A j \in (Len(before[i]) + 1)..(Len(before[i]) + P[i].frame.fds) : A[j] \in Descriptor
    BY <2>4, ElementOfSeq
  <2>6. Len(before[i]) + 1 \in Int /\ Len(before[i]) + P[i].frame.fds \in Int
    BY <2>3
  <2> QED BY <2>5, <2>6, SubSeqProperties
<1>5. Batch(P, A) \in [1..Len(P) -> Message]
  <2>1. \A i \in 1..Len(P) : Batch(P, A)[i] \in Message
    <3> TAKE i \in 1..Len(P)
    <3>1. P[i].frame.msg \in Msg
      BY <1>2
    <3>2. [msg |-> Batch(P, A)[i].msg, fds |-> Batch(P, A)[i].fds] \in Message
      BY <1>3, <1>4, <3>1 DEF Message
    <3> QED BY <1>3, <3>2, Zenon
  <2> QED BY <2>1 DEF Batch
<1>6. Batch(P, A) \in Seq(Message) /\ Len(Batch(P, A)) = Len(P)
  BY <1>1, <1>5, SMTT(30)
<1>7. ASSUME SubSeq(A, 1, Len(Announced(U))) = Announced(U), NEW i \in 1..Len(P)
      PROVE  Batch(P, A)[i].fds = own[i]
  <2> DEFINE n == Len(Announced(U))
             R == SubSeq(A, n + 1, Len(A))
  <2>1. n \in 0..Len(A)
    BY <1>1, AnnouncedTyped, LenProperties
  <2>2. R \in Seq(Descriptor) /\ A = Announced(U) \o R
    BY <1>7, <2>1, CutInTwo
  <2> HIDE DEF R, n
  <2>3. PICK r \in Seq(Descriptor) : Announced(U) = (before[i] \o own[i]) \o r
    BY <1>2
  <2>4. before[i] \o own[i] \in Seq(Descriptor) /\ r \o R \in Seq(Descriptor)
    BY <1>2, <2>2, ConcatProperties
  <2>5. A = (before[i] \o own[i]) \o (r \o R)
    <3>1. \A a, b, c \in Seq(Descriptor) : (a \o b) \o c = a \o (b \o c)
      BY ConcatAssociative, SMTT(30)
    <3>2. A = ((before[i] \o own[i]) \o r) \o R
      BY <2>2, <2>3
    <3>3. before[i] \o own[i] \in Seq(Descriptor) /\ r \in Seq(Descriptor) /\ R \in Seq(Descriptor)
      BY <2>2, <2>3, <2>4
    <3> QED BY <3>1, <3>2, <3>3, ZenonT(30)
  <2>6. \A a, m, s \in Seq(Descriptor) : SubSeq((a \o m) \o s, Len(a) + 1, Len(a) + Len(m)) = m
    BY MiddleOf
  <2>7. SubSeq(A, Len(before[i]) + 1, Len(before[i]) + Len(own[i])) = own[i]
    <3>1. before[i] \in Seq(Descriptor) /\ own[i] \in Seq(Descriptor)
      BY <1>2
    <3>2. SubSeq((before[i] \o own[i]) \o (r \o R), Len(before[i]) + 1, Len(before[i]) + Len(own[i])) = own[i]
      BY <2>4, <2>6, <3>1, Zenon
    <3> QED BY <2>5, <3>2, Zenon
  <2> QED BY <1>2, <1>3, <2>7
<1>8. \A i \in 1..Len(P) : Batch(P, A)[i].msg = P[i].frame.msg
  BY <1>3
<1> QED BY <1>6, <1>7, <1>8 DEF own

-----------------------------------------------------------------------------
(***************************************************************************)
(* The send queue.                                                         *)
(***************************************************************************)

LEMMA StreamTyped ==
    /\ Stream(<<>>) = <<>>
    /\ \A Q \in Seq(Entry) : Stream(Q) \in Seq(Unit)
    /\ \A Q, R \in Seq(Entry) : Stream(Q \o R) = Stream(Q) \o Stream(R)
    /\ \A q \in Entry : Stream(<<q>>) = UnitsOf(q)
<1>1. Maps(unitsOf, Entry, Unit) /\ <<>> \in Seq(Entry)
  BY MapsTyped, EmptySeq
<1>2. \A Q \in Seq(Entry) : Stream(Q) = Images(Q, unitsOf)
  BY JoinedAreImages
<1>3. Stream(<<>>) = <<>>
  BY <1>1, <1>2, ImagesProperties
<1>4. \A Q \in Seq(Entry) : Images(Q, unitsOf) \in Seq(Unit)
  BY <1>1, ImagesProperties
<1>5. \A Q, R \in Seq(Entry) : Images(Q \o R, unitsOf) = Images(Q, unitsOf) \o Images(R, unitsOf)
  BY <1>1, ImagesOfConcat
<1>6. \A Q, R \in Seq(Entry) : Q \o R \in Seq(Entry)
  BY ConcatProperties
<1>7. ASSUME NEW q \in Entry PROVE Images(<<q>>, unitsOf) = UnitsOf(q) /\ <<q>> \in Seq(Entry)
  <2>1. \A s \in Seq(Entry), x \in Entry : Images(Append(s, x), unitsOf) = Images(s, unitsOf) \o unitsOf[x]
    BY <1>1, ImagesProperties
  <2>2. Append(<<>>, q) = <<q>> /\ <<q>> \in Seq(Entry)
    BY EmptySeq, AppendProperties
  <2>3. Images(<<>>, unitsOf) = <<>> /\ unitsOf[q] = UnitsOf(q) /\ UnitsOf(q) \in Seq(Unit)
    BY <1>1, ImagesProperties, UnitsOfTyped DEF unitsOf
  <2>4. Images(<<q>>, unitsOf) = <<>> \o unitsOf[q]
    BY <1>1, <2>1, <2>2, <2>3
  <2> QED BY <2>2, <2>3, <2>4, ConcatEmptySeq
<1> QED BY <1>2, <1>3, <1>4, <1>5, <1>6, <1>7

\* The descriptors that are still to be sent for the first n messages.  (The
\* lemma is also about messages whose bytes have all been sent.)
SentEntry == [frame : Frame, offset : Nat, unsent : 0..MaxTransferFds]

LEMMA UnsentProperties ==
    ASSUME NEW Q \in Seq(SentEntry)
    PROVE  /\ UnsentUpTo(Q, 0) = 0
           /\ \A n \in 0..Len(Q) : UnsentUpTo(Q, n) \in Nat
           /\ \A n \in 1..Len(Q) : UnsentUpTo(Q, n) = UnsentUpTo(Q, n - 1) + Q[n].unsent
<1> DEFINE N(n) == [i \in 1..n |-> Q[i].unsent]
<1>1. Len(Q) \in Nat /\ \A i \in 1..Len(Q) : Q[i].unsent \in Nat
  <2>1. \A i \in 1..Len(Q) : Q[i] \in SentEntry
    BY ElementOfSeq
  <2>2. \A q \in SentEntry : q.unsent \in Nat
    BY BoundAssumption DEF SentEntry
  <2> QED BY <2>1, <2>2, LenProperties
<1>2. ASSUME NEW n \in 0..Len(Q) PROVE N(n) \in Seq(Nat) /\ Len(N(n)) = n
  <2>1. N(n) \in [1..n -> Nat] /\ n \in Nat
    BY <1>1
  <2> QED BY <2>1
<1>3. ASSUME NEW n \in 1..Len(Q) PROVE N(n) = Append(N(n - 1), Q[n].unsent)
  <2>1. n \in 0..Len(Q) /\ n - 1 \in 0..Len(Q) /\ (n - 1) + 1 = n /\ Q[n].unsent \in Nat
    BY <1>1
  <2>2. N(n) \in Seq(Nat) /\ Len(N(n)) = n /\ N(n - 1) \in Seq(Nat) /\ Len(N(n - 1)) = n - 1
    BY <1>2, <2>1
  <2>3. Append(N(n - 1), Q[n].unsent) \in Seq(Nat) /\ Len(Append(N(n - 1), Q[n].unsent)) = n
    BY <2>1, <2>2, AppendProperties
  <2>4. \A i \in 1..(n - 1) : Append(N(n - 1), Q[n].unsent)[i] = N(n - 1)[i]
    BY <2>1, <2>2, AppendProperties
  <2>5. Append(N(n - 1), Q[n].unsent)[n] = Q[n].unsent
    BY <2>1, <2>2, AppendProperties
  <2>6. \A i \in 1..n : Append(N(n - 1), Q[n].unsent)[i] = N(n)[i]
    <3> TAKE i \in 1..n
    <3>1. N(n)[i] = Q[i].unsent /\ (i # n => i \in 1..(n - 1) /\ N(n - 1)[i] = Q[i].unsent)
      BY <2>1
    <3> QED BY <2>4, <2>5, <3>1
  <2> HIDE DEF N
  <2> QED BY <2>2, <2>3, <2>6, SeqEqual
<1>4. \A n : UnsentUpTo(Q, n) = Total(N(n))
  BY DEF UnsentUpTo
<1>5. N(0) = <<>>
  OBVIOUS
<1> HIDE DEF N
<1>6. UnsentUpTo(Q, 0) = 0
  BY <1>4, <1>5, TotalProperties
<1>7. \A n \in 0..Len(Q) : UnsentUpTo(Q, n) \in Nat
  BY <1>2, <1>4, TotalProperties
<1>8. ASSUME NEW n \in 1..Len(Q) PROVE UnsentUpTo(Q, n) = UnsentUpTo(Q, n - 1) + Q[n].unsent
  <2>1. n - 1 \in 0..Len(Q)
    BY <1>1
  <2>2. N(n - 1) \in Seq(Nat) /\ Q[n].unsent \in Nat
    BY <1>1, <1>2, <2>1
  <2>3. Total(Append(N(n - 1), Q[n].unsent)) = Total(N(n - 1)) + Q[n].unsent
    BY <2>2, TotalProperties
  <2>4. N(n) = Append(N(n - 1), Q[n].unsent)
    BY <1>3
  <2> QED BY <1>4, <2>3, <2>4
<1> QED BY <1>6, <1>7, <1>8

LEMMA UnsentGrows ==
    ASSUME NEW Q \in Seq(SentEntry)
    PROVE  \A n \in 0..Len(Q), m \in 0..Len(Q) : m <= n => UnsentUpTo(Q, m) <= UnsentUpTo(Q, n)
<1> DEFINE G == {n \in Nat : n <= Len(Q) => \A m \in 0..n : UnsentUpTo(Q, m) <= UnsentUpTo(Q, n)}
<1>0. Len(Q) \in Nat /\ \A i \in 1..Len(Q) : Q[i].unsent \in Nat
  <2>1. \A i \in 1..Len(Q) : Q[i] \in SentEntry
    BY ElementOfSeq
  <2>2. \A q \in SentEntry : q.unsent \in Nat
    BY BoundAssumption DEF SentEntry
  <2> QED BY <2>1, <2>2, LenProperties
<1>1. 0 \in G
  BY <1>0, UnsentProperties
<1>2. ASSUME NEW n \in Nat, n \in G PROVE n + 1 \in G
  <2>1. CASE n + 1 <= Len(Q)
    <3>1. n + 1 \in 1..Len(Q) /\ (n + 1) - 1 = n /\ n \in 0..Len(Q)
      BY <1>0, <2>1
    <3>2. UnsentUpTo(Q, n + 1) = UnsentUpTo(Q, n) + Q[n + 1].unsent
      BY <3>1, UnsentProperties
    <3>3. UnsentUpTo(Q, n) \in Nat /\ Q[n + 1].unsent \in Nat /\ \A m \in 0..(n + 1) : UnsentUpTo(Q, m) \in Nat
      BY <1>0, <3>1, UnsentProperties
    <3>4. \A m \in 0..n : UnsentUpTo(Q, m) <= UnsentUpTo(Q, n)
      BY <1>2, <3>1
    <3>5. ASSUME NEW m \in 0..(n + 1) PROVE UnsentUpTo(Q, m) <= UnsentUpTo(Q, n + 1)
      <4>1. CASE m = n + 1
        BY <3>3, <4>1
      <4>2. CASE m # n + 1
        <5>1. m \in 0..n
          BY <4>2
        <5> QED BY <3>2, <3>3, <3>4, <5>1
      <4> QED BY <4>1, <4>2
    <3> QED BY <3>5
  <2> QED BY <2>1
<1>3. Nat \subseteq G
  <2> HIDE DEF G
  <2> QED BY <1>1, <1>2, NumbersByCounting
<1> QED BY <1>0, <1>3

LEMMA EntriesMayBeSent == Entry \subseteq SentEntry /\ \A Q \in Seq(Entry) : Q \in Seq(SentEntry)
<1>1. Entry \subseteq SentEntry
  BY DEF Entry, SentEntry
<1> QED BY <1>1, SeqMonotonic

LEMMA UnitsUpToProperties ==
    ASSUME NEW Q \in Seq(Entry)
    PROVE  /\ UnitsUpTo(Q, 0) = 0
           /\ \A n \in 0..Len(Q) : UnitsUpTo(Q, n) \in 0..Len(Stream(Q))
           /\ \A n \in 1..Len(Q) : /\ Stream(SubSeq(Q, 1, n)) = Stream(SubSeq(Q, 1, n - 1)) \o UnitsOf(Q[n])
                                   /\ UnitsUpTo(Q, n) = UnitsUpTo(Q, n - 1) + Remaining(Q[n])
<1>0. Len(Q) \in Nat
  BY LenProperties
<1>1. UnitsUpTo(Q, 0) = 0
  <2>1. SubSeq(Q, 1, 0) = <<>>
    BY SubSeqEmpty
  <2> QED BY <2>1, StreamTyped, EmptySeq DEF UnitsUpTo
<1>2. ASSUME NEW n \in 0..Len(Q) PROVE UnitsUpTo(Q, n) \in 0..Len(Stream(Q))
  <2> DEFINE a == SubSeq(Q, 1, n)
             b == SubSeq(Q, n + 1, Len(Q))
  <2>1. a \in Seq(Entry) /\ b \in Seq(Entry) /\ Q = a \o b
    BY CutInTwo
  <2> HIDE DEF a, b
  <2>2. Stream(Q) = Stream(a) \o Stream(b) /\ Stream(a) \in Seq(Unit) /\ Stream(b) \in Seq(Unit)
    BY <2>1, StreamTyped
  <2>3. Len(Stream(Q)) = Len(Stream(a)) + Len(Stream(b)) /\ Len(Stream(a)) \in Nat /\ Len(Stream(b)) \in Nat
    BY <2>2, ConcatProperties, LenProperties
  <2> QED BY <2>3 DEF UnitsUpTo, a
<1>3. ASSUME NEW n \in 1..Len(Q)
      PROVE  /\ Stream(SubSeq(Q, 1, n)) = Stream(SubSeq(Q, 1, n - 1)) \o UnitsOf(Q[n])
             /\ UnitsUpTo(Q, n) = UnitsUpTo(Q, n - 1) + Remaining(Q[n])
  <2>1. n - 1 \in 0..Len(Q) /\ n \in 1..n /\ 1 \in 1..Len(Q) /\ n \in 1..Len(Q) /\ Q[n] \in Entry
    BY <1>0, ElementOfSeq
  <2>2. SubSeq(Q, 1, n - 1) \in Seq(Entry) /\ <<Q[n]>> \in Seq(Entry)
    BY <2>1, CutInTwo
  <2>3. SubSeq(Q, 1, n) = SubSeq(Q, 1, n - 1) \o <<Q[n]>>
    BY <2>1, SubSeqRecursiveSecond
  <2>4. Stream(SubSeq(Q, 1, n)) = Stream(SubSeq(Q, 1, n - 1)) \o UnitsOf(Q[n])
    BY <2>1, <2>2, <2>3, StreamTyped
  <2>5. Stream(SubSeq(Q, 1, n - 1)) \in Seq(Unit) /\ UnitsOf(Q[n]) \in Seq(Unit) /\ Len(UnitsOf(Q[n])) = Remaining(Q[n])
    BY <2>1, <2>2, StreamTyped, UnitsOfTyped
  <2> QED BY <2>4, <2>5, ConcatProperties DEF UnitsUpTo
<1> QED BY <1>1, <1>2, <1>3

\* peek() covers a part of the queue that is within the limits; of a queue that
\* is not empty it covers something.
LEMMA CoveredProperties ==
    ASSUME NEW Q \in Seq(Entry)
    PROVE  /\ Covered(Q) \in 0..Len(Q)
           /\ UnsentUpTo(Q, Covered(Q)) \in Nat
           /\ Q # <<>> => Covered(Q) > 0
<1> DEFINE Reached(n) == UnsentUpTo(Q, n) <= MaxTransferFds /\ (n > 0 => UnitsUpTo(Q, n - 1) < PeekUnits)
           C == {n \in 0..Len(Q) : \A k \in 0..n : Reached(k)}
           Good(n) == Reached(n) /\ (n = Len(Q) \/ ~Reached(n + 1))
<1>0. Len(Q) \in Nat /\ Q \in Seq(SentEntry) /\ MaxTransferFds \in Nat /\ PeekUnits \in Nat \ {0}
  BY LenProperties, EntriesMayBeSent, BoundAssumption
<1>1. UnsentUpTo(Q, 0) = 0 /\ UnitsUpTo(Q, 0) = 0
  BY <1>0, UnsentProperties, UnitsUpToProperties
<1>2. 0 \in C
  BY <1>0, <1>1
<1>3. Max(C) \in C /\ \A y \in C : y <= Max(C)
  <2>1. C \subseteq 0..Len(Q) /\ C # {}
    BY <1>2
  <2> HIDE DEF C
  <2> QED BY <1>0, <2>1, MaxProperties
<1>4. \E n \in 0..Len(Q) : Good(n)
  <2> DEFINE n == Max(C)
  <2>1. n \in 0..Len(Q) /\ \A k \in 0..n : Reached(k)
    BY <1>3
  <2>2. CASE n # Len(Q) /\ Reached(n + 1)
    <3>1. n + 1 \in 0..Len(Q) /\ \A k \in 0..(n + 1) : k = n + 1 \/ k \in 0..n
      <4>1. \A L \in Nat : \A c \in 0..L : c # L =>
                 c + 1 \in 0..L /\ \A k \in 0..(c + 1) : k = c + 1 \/ k \in 0..c
        OBVIOUS
      <4> HIDE DEF n
      <4> QED BY <1>0, <2>1, <2>2, <4>1
    <3>2. n + 1 \in C
      <4> HIDE DEF n
      <4> QED BY <2>1, <2>2, <3>1
    <3>3. n + 1 <= n
      BY <1>3, <3>2
    <3> QED BY <2>1, <3>3
  <2>3. n \in 0..n
    BY <2>1
  <2> HIDE DEF n, C
  <2> QED BY <2>1, <2>2, <2>3
<1>5. Covered(Q) = CHOOSE n \in 0..Len(Q) : Good(n)
  BY DEF Covered
<1>6. Covered(Q) \in 0..Len(Q) /\ Good(Covered(Q))
  <2> HIDE DEF Good
  <2> QED BY <1>4, <1>5
<1>7. ASSUME Q # <<>>, Covered(Q) = 0 PROVE FALSE
  <2>1. Len(Q) > 0 /\ 1 \in 1..Len(Q) /\ Q[1] \in SentEntry
    BY <1>0, <1>7, EmptySeq, ElementOfSeq
  <2>2. UnsentUpTo(Q, 1) = UnsentUpTo(Q, 1 - 1) + Q[1].unsent
    BY <1>0, <2>1, UnsentProperties
  <2>3. Q[1].unsent \in 0..MaxTransferFds
    BY <2>1 DEF SentEntry
  <2>4. Reached(1)
    BY <1>0, <1>1, <2>2, <2>3
  <2> QED BY <1>6, <1>7, <2>1, <2>4
<1>8. UnsentUpTo(Q, Covered(Q)) \in Nat
  BY <1>0, <1>6, UnsentProperties
<1> QED BY <1>0, <1>6, <1>7, <1>8

LEMMA UnitsGrow ==
    ASSUME NEW Q \in Seq(Entry)
    PROVE  \A n \in 0..Len(Q), m \in 0..Len(Q) : m <= n => UnitsUpTo(Q, m) <= UnitsUpTo(Q, n)
<1> DEFINE G == {n \in Nat : n <= Len(Q) => \A m \in 0..n : UnitsUpTo(Q, m) <= UnitsUpTo(Q, n)}
<1>0. Len(Q) \in Nat /\ \A n \in 0..Len(Q) : UnitsUpTo(Q, n) \in Nat
  <2>1. \A n \in 0..Len(Q) : SubSeq(Q, 1, n) \in Seq(Entry)
    BY CutInTwo
  <2> QED BY <2>1, StreamTyped, LenProperties DEF UnitsUpTo
<1>1. 0 \in G
  BY <1>0
<1>2. ASSUME NEW n \in Nat, n \in G PROVE n + 1 \in G
  <2>1. CASE n + 1 <= Len(Q)
    <3>1. n + 1 \in 1..Len(Q) /\ (n + 1) - 1 = n /\ n \in 0..Len(Q) /\ n + 1 \in 0..Len(Q)
      BY <1>0, <2>1
    <3>2. UnitsUpTo(Q, n + 1) = UnitsUpTo(Q, n) + Remaining(Q[n + 1])
      BY <3>1, UnitsUpToProperties
    <3>3. Remaining(Q[n + 1]) \in Nat
      BY <3>1, ElementOfSeq, UnitsOfTyped
    <3>4. UnitsUpTo(Q, n) \in Nat /\ UnitsUpTo(Q, n + 1) \in Nat
      BY <1>0, <3>1
    <3>5. \A m \in 0..n : UnitsUpTo(Q, m) <= UnitsUpTo(Q, n) /\ UnitsUpTo(Q, m) \in Nat
      BY <1>0, <1>2, <3>1
    <3>6. ASSUME NEW m \in 0..(n + 1) PROVE UnitsUpTo(Q, m) <= UnitsUpTo(Q, n + 1)
      <4>1. CASE m = n + 1
        BY <3>4, <4>1
      <4>2. CASE m # n + 1
        <5>1. m \in 0..n
          BY <4>2
        <5> QED BY <3>2, <3>3, <3>4, <3>5, <5>1
      <4> QED BY <4>1, <4>2
    <3> QED BY <3>6
  <2> QED BY <2>1
<1>3. Nat \subseteq G
  <2> HIDE DEF G
  <2> QED BY <1>1, <1>2, NumbersByCounting
<1> QED BY <1>0, <1>3

\* What is left of a joined sequence when some of its front goes.
LEMMA RestOfConcat ==
    ASSUME NEW S, NEW a \in Seq(S), NEW b \in Seq(S), NEW n \in 0..Len(a) + Len(b)
    PROVE  /\ n <= Len(a) => SubSeq(a \o b, n + 1, Len(a \o b)) = SubSeq(a, n + 1, Len(a)) \o b
           /\ n >= Len(a) => SubSeq(a \o b, n + 1, Len(a \o b)) = SubSeq(b, (n - Len(a)) + 1, Len(b))
<1>0. Len(a) \in Nat /\ Len(b) \in Nat /\ n \in Nat /\ a \o b \in Seq(S) /\ Len(a \o b) = Len(a) + Len(b)
  BY LenProperties, ConcatProperties
<1>1. ASSUME n <= Len(a) PROVE SubSeq(a \o b, n + 1, Len(a \o b)) = SubSeq(a, n + 1, Len(a)) \o b
  <2> DEFINE f == SubSeq(a, 1, n)
             r == SubSeq(a, n + 1, Len(a))
  <2>1. n \in 0..Len(a)
    BY <1>0, <1>1
  <2>2. f \in Seq(S) /\ Len(f) = n /\ r \in Seq(S) /\ f \o r = a
    BY <2>1, CutInTwo
  <2> HIDE DEF f, r
  <2>3. r \o b \in Seq(S) /\ a \o b = f \o (r \o b)
    <3>1. \A x, y, z \in Seq(S) : (x \o y) \o z = x \o (y \o z)
      BY ConcatAssociative, SMTT(30)
    <3>2. \A x, y \in Seq(S) : x \o y \in Seq(S)
      BY ConcatProperties
    <3>3. a \o b = f \o (r \o b)
      BY <2>2, <3>1, ZenonT(30)
    <3> QED BY <2>2, <3>2, <3>3
  <2>4. SubSeq(f \o (r \o b), Len(f) + 1, Len(f \o (r \o b))) = r \o b
    BY <2>2, <2>3, CutOfConcat
  <2> QED BY <2>2, <2>3, <2>4 DEF r
<1>2. ASSUME n >= Len(a) PROVE SubSeq(a \o b, n + 1, Len(a \o b)) = SubSeq(b, (n - Len(a)) + 1, Len(b))
  <2> DEFINE m == n - Len(a)
             f == SubSeq(b, 1, m)
             r == SubSeq(b, m + 1, Len(b))
  <2>1. m \in 0..Len(b) /\ Len(a) + m = n
    BY <1>0, <1>2
  <2> HIDE DEF m
  <2>2. f \in Seq(S) /\ Len(f) = m /\ r \in Seq(S) /\ f \o r = b
    BY <2>1, CutInTwo
  <2> HIDE DEF f, r
  <2>3. a \o f \in Seq(S) /\ Len(a \o f) = n /\ a \o b = (a \o f) \o r
    <3>1. \A x, y, z \in Seq(S) : (x \o y) \o z = x \o (y \o z)
      BY ConcatAssociative, SMTT(30)
    <3>2. a \o f \in Seq(S) /\ Len(a \o f) = Len(a) + Len(f)
      BY <2>2, ConcatProperties
    <3>3. a \o b = (a \o f) \o r
      BY <2>2, <3>1, Zenon
    <3> QED BY <2>1, <2>2, <3>2, <3>3
  <2>4. SubSeq((a \o f) \o r, Len(a \o f) + 1, Len((a \o f) \o r)) = r
    BY <2>2, <2>3, CutOfConcat
  <2> QED BY <2>3, <2>4 DEF r, m
<1> QED BY <1>1, <1>2

\* The descriptors that go with a frame.
Carried(f) == IF f.type = "Payload" THEN Fds(f.msg) ELSE <<>>

\* A message of which nothing is on the wire before its descriptors are; it has
\* no others to send.
SafeEntry == {q \in Entry : (q.offset > 0 => q.unsent = 0) /\ q.unsent <= Len(Carried(q.frame))}

LEMMA CarriedTyped == \A f \in Frame : Carried(f) \in Seq(Descriptor) /\ Len(Carried(f)) \in Nat
<1> TAKE f \in Frame
<1>1. f.type = "Payload" => f.msg \in Msg
  BY DEF Frame
<1>2. Carried(f) \in Seq(Descriptor)
  BY <1>1, FdsTyped, EmptySeq DEF Carried
<1> QED BY <1>2, LenProperties

\* An entry of the queue after discard() has adjusted it; it goes if none of its
\* bytes are left.
Adjusted == {q \in SentEntry : q.offset <= Size(q.frame)}
Adjust(Q, units, fds) ==
    [i \in 1..Len(Q) |-> [Q[i] EXCEPT
        !.unsent = IF UnsentUpTo(Q, i - 1) < fds THEN 0 ELSE @,
        !.offset = LET before == UnitsUpTo(Q, i - 1) IN
                   IF before >= units THEN @
                   ELSE @ + (IF units - before < Remaining(Q[i]) THEN units - before ELSE Remaining(Q[i]))]]
keepOf == [q \in Adjusted |-> IF Remaining(q) > 0 THEN <<q>> ELSE <<>>]

LEMMA KeepTyped == Maps(keepOf, Adjusted, Entry)
<1>1. ASSUME NEW q \in Adjusted, Remaining(q) > 0 PROVE <<q>> \in Seq(Entry)
  <2>1. q.offset \in Nat /\ Size(q.frame) \in Nat /\ q \in [frame : Frame, offset : Nat, unsent : 0..MaxTransferFds]
    BY SizePositive DEF Adjusted, SentEntry
  <2>2. q \in Entry
    BY <1>1, <2>1 DEF Entry, Remaining
  <2> QED BY <2>2
<1> QED BY <1>1, EmptySeq DEF Maps, keepOf

LEMMA AdjustProperties ==
    ASSUME NEW Q \in Seq(Entry), NEW units \in 0..UnitsUpTo(Q, Covered(Q)), NEW i \in 1..Len(Q)
    PROVE  LET w == Adjust(Q, units, UnsentUpTo(Q, Covered(Q)))[i]
               before == UnitsUpTo(Q, i - 1)
           IN /\ w \in Adjusted /\ w.frame = Q[i].frame
              /\ w.unsent = IF i <= Covered(Q) THEN 0 ELSE Q[i].unsent
              /\ before >= units => w.offset = Q[i].offset
              /\ before < units => w.offset = Q[i].offset + (IF units - before < Remaining(Q[i])
                                                             THEN units - before ELSE Remaining(Q[i]))
              /\ i > Covered(Q) => before >= units
<1> DEFINE c == Covered(Q)
           fds == UnsentUpTo(Q, c)
           w == Adjust(Q, units, fds)[i]
           before == UnitsUpTo(Q, i - 1)
<1>0. /\ Len(Q) \in Nat /\ c \in 0..Len(Q) /\ fds \in Nat /\ i - 1 \in 0..Len(Q)
      /\ Q \in Seq(SentEntry) /\ Q[i] \in Entry
  BY LenProperties, CoveredProperties, EntriesMayBeSent, ElementOfSeq
<1>1. /\ Q[i].frame \in Frame /\ Q[i].offset \in Nat /\ Q[i].unsent \in 0..MaxTransferFds
      /\ Q[i].offset < Size(Q[i].frame) /\ Size(Q[i].frame) \in Nat
      /\ Remaining(Q[i]) = Size(Q[i].frame) - Q[i].offset /\ MaxTransferFds \in Nat
      /\ Q[i] = [frame |-> Q[i].frame, offset |-> Q[i].offset, unsent |-> Q[i].unsent]
  <2>1. \A q \in Entry : /\ q.frame \in Frame /\ q.offset \in Nat /\ q.unsent \in 0..MaxTransferFds
                        /\ q.offset < Size(q.frame)
                        /\ q = [frame |-> q.frame, offset |-> q.offset, unsent |-> q.unsent]
    BY DEF Entry
  <2>2. Q[i].frame \in Frame
    BY <1>0, <2>1
  <2> QED BY <1>0, <2>1, <2>2, SizePositive, BoundAssumption DEF Remaining
<1>2. before \in Nat /\ units \in Nat
  BY <1>0, UnitsUpToProperties
<1>3. /\ UnsentUpTo(Q, i - 1) \in Nat /\ UnsentUpTo(Q, i) = UnsentUpTo(Q, i - 1) + Q[i].unsent
  BY <1>0, UnsentProperties
<1>4. i <= c => UnsentUpTo(Q, i) <= fds
  BY <1>0, UnsentGrows
<1>5. i > c => fds <= UnsentUpTo(Q, i - 1)
  <2> HAVE i > c
  <2>1. c <= i - 1
    BY <1>0
  <2> QED BY <1>0, <2>1, UnsentGrows
<1>6. w = [frame |-> Q[i].frame,
           offset |-> IF before >= units THEN Q[i].offset
                      ELSE Q[i].offset + (IF units - before < Remaining(Q[i]) THEN units - before
                                          ELSE Remaining(Q[i])),
           unsent |-> IF UnsentUpTo(Q, i - 1) < fds THEN 0 ELSE Q[i].unsent]
  BY <1>1 DEF Adjust
<1> HIDE DEF w
<1>7. w.frame = Q[i].frame /\ w.unsent = IF UnsentUpTo(Q, i - 1) < fds THEN 0 ELSE Q[i].unsent
  BY <1>6
<1>8. w.offset = IF before >= units THEN Q[i].offset
                 ELSE Q[i].offset + (IF units - before < Remaining(Q[i]) THEN units - before ELSE Remaining(Q[i]))
  BY <1>6
<1> HIDE DEF before
<1>9. w.unsent = IF i <= c THEN 0 ELSE Q[i].unsent
  <2> HIDE DEF c, fds
  <2>1. CASE i <= c
    BY <1>0, <1>1, <1>3, <1>4, <1>7, <2>1
  <2>2. CASE ~(i <= c)
    BY <1>0, <1>1, <1>3, <1>5, <1>7, <2>2
  <2> QED BY <2>1, <2>2
<1>10. w.offset \in Nat /\ w.offset <= Size(Q[i].frame)
  <2>1. \A o \in Nat, z \in Nat, b \in Nat, n \in Nat :
            LET r == IF b >= n THEN o ELSE o + (IF n - b < z - o THEN n - b ELSE z - o) IN
            o < z => r \in Nat /\ r <= z
    OBVIOUS
  <2> QED BY <1>1, <1>2, <1>8, <2>1
<1>11. w.unsent \in 0..MaxTransferFds
  BY <1>1, <1>7
<1>12. w \in Adjusted
  <2>1. w \in [frame : Frame, offset : Nat, unsent : 0..MaxTransferFds]
    <3>1. w.frame \in Frame
      BY <1>1, <1>7
    <3>2. w = [frame |-> w.frame, offset |-> w.offset, unsent |-> w.unsent]
      BY <1>6, <1>7, <1>8
    <3> QED BY <1>10, <1>11, <3>1, <3>2
  <2> QED BY <1>7, <1>10, <2>1 DEF Adjusted, SentEntry
<1>13. before < units => w.offset = Q[i].offset + (IF units - before < Remaining(Q[i])
                                                   THEN units - before ELSE Remaining(Q[i]))
  BY <1>2, <1>8
<1>14. i > c => before >= units
  <2> HAVE i > c
  <2>1. c \in 0..(i - 1) /\ SubSeq(Q, 1, i - 1) \in Seq(Entry)
    BY <1>0, CutInTwo
  <2>2. UnitsUpTo(Q, c) <= UnitsUpTo(Q, i - 1)
    BY <1>0, <2>1, UnitsGrow
  <2> QED BY <1>0, <1>2, <2>2, UnitsUpToProperties DEF before
<1> QED BY <1>7, <1>8, <1>9, <1>12, <1>13, <1>14 DEF w, before, fds, c

LEMMA KeptUnits ==
    ASSUME NEW q \in Entry, NEW w \in Adjusted, w.frame = q.frame, NEW d \in 0..Remaining(q), w.offset = q.offset + d
    PROVE  /\ keepOf[w] \in Seq(Entry)
           /\ Stream(keepOf[w]) = SubSeq(UnitsOf(q), d + 1, Len(UnitsOf(q)))
           /\ Remaining(w) = Remaining(q) - d
<1>0. keepOf[w] \in Seq(Entry)
  BY KeepTyped DEF Maps
<1>1. /\ Remaining(q) \in Nat /\ UnitsOf(q) \in Seq(Unit) /\ Len(UnitsOf(q)) = Remaining(q)
      /\ \A k \in 1..Remaining(q) : UnitsOf(q)[k] = [frame |-> q.frame, at |-> q.offset + k, fds |-> <<>>]
  BY UnitsOfTyped
<1>2. q.offset \in Nat /\ q.frame \in Frame /\ Size(q.frame) \in Nat
  <2>1. q.frame \in Frame /\ q.offset \in Nat
    BY DEF Entry
  <2> QED BY <2>1, SizePositive
<1>3. Remaining(w) = Remaining(q) - d
  BY <1>2 DEF Remaining
<1>4. CASE d = Remaining(q)
  <2>1. keepOf[w] = <<>>
    BY <1>1, <1>3, <1>4 DEF keepOf
  <2>2. SubSeq(UnitsOf(q), d + 1, Len(UnitsOf(q))) = <<>>
    BY <1>1, <1>4, SubSeqEmpty
  <2> QED BY <1>0, <1>3, <2>1, <2>2, StreamTyped
<1>5. CASE d < Remaining(q)
  <2>1. Remaining(w) > 0 /\ keepOf[w] = <<w>>
    BY <1>1, <1>3, <1>5 DEF keepOf
  <2>2. w \in Entry
    <3>1. <<w>> \in Seq(Entry) /\ Len(<<w>>) = 1 /\ <<w>>[1] = w
      BY <1>0, <2>1
    <3> QED BY <3>1, ElementOfSeq
  <2>3. Stream(<<w>>) = UnitsOf(w)
    BY <2>2, StreamTyped
  <2>4. /\ UnitsOf(w) \in Seq(Unit) /\ Len(UnitsOf(w)) = Remaining(w)
        /\ \A k \in 1..Remaining(w) : UnitsOf(w)[k] = [frame |-> w.frame, at |-> w.offset + k, fds |-> <<>>]
    BY <2>2, UnitsOfTyped
  <2> DEFINE r == SubSeq(UnitsOf(q), d + 1, Len(UnitsOf(q)))
  <2>5. d \in 0..Len(UnitsOf(q))
    BY <1>1
  <2>6. r \in Seq(Unit) /\ Len(r) = Remaining(q) - d
    BY <1>1, <2>5, CutInTwo
  <2>7. \A k \in 1..Remaining(q) - d : r[k] = UnitsOf(q)[d + k]
    <3>1. \A k \in 1..Len(UnitsOf(q)) : UnitsOf(q)[k] \in Unit
      BY <1>1, ElementOfSeq
    <3>2. \A k \in 1..(Remaining(q) - (d + 1)) + 1 : r[k] = UnitsOf(q)[((d + 1) + k) - 1]
      BY <1>1, <1>5, SubSeqProperties
    <3> QED
      <4> TAKE k \in 1..Remaining(q) - d
      <4>1. k \in 1..(Remaining(q) - (d + 1)) + 1 /\ ((d + 1) + k) - 1 = d + k
        BY <1>1
      <4> HIDE DEF r
      <4> QED BY <3>2, <4>1
  <2> HIDE DEF r
  <2>8. \A k \in 1..Remaining(q) - d : r[k] = UnitsOf(w)[k]
    <3> TAKE k \in 1..Remaining(q) - d
    <3>1. k \in 1..Remaining(w) /\ d + k \in 1..Remaining(q) /\ q.offset + (d + k) = w.offset + k
      BY <1>1, <1>2, <1>3
    <3>2. UnitsOf(q)[d + k] = [frame |-> q.frame, at |-> q.offset + (d + k), fds |-> <<>>]
      BY <1>1, <3>1
    <3>3. UnitsOf(w)[k] = [frame |-> w.frame, at |-> w.offset + k, fds |-> <<>>]
      BY <2>4, <3>1
    <3> QED BY <2>7, <3>1, <3>2, <3>3
  <2>9. r = UnitsOf(w)
    <3>1. Len(UnitsOf(w)) = Remaining(q) - d
      BY <1>3, <2>4
    <3> QED BY <2>4, <2>6, <2>8, <3>1, SeqEqual
  <2> QED BY <1>0, <1>3, <2>1, <2>3, <2>9 DEF r
<1> QED BY <1>1, <1>4, <1>5

\* All descriptors that the messages of a queue still have to send.
UnsentIn(Q) == UnsentUpTo(Q, Len(Q))

LEMMA UnsentOfAppend ==
    /\ UnsentIn(<<>>) = 0
    /\ \A Q \in Seq(SentEntry) : UnsentIn(Q) \in Nat
    /\ \A Q \in Seq(SentEntry), q \in SentEntry : UnsentIn(Append(Q, q)) = UnsentIn(Q) + q.unsent
<1>1. UnsentIn(<<>>) = 0
  BY EmptySeq, UnsentProperties DEF UnsentIn
<1>2. \A Q \in Seq(SentEntry) : UnsentIn(Q) \in Nat
  <2> TAKE Q \in Seq(SentEntry)
  <2>1. Len(Q) \in 0..Len(Q)
    BY LenProperties
  <2> QED BY <2>1, UnsentProperties DEF UnsentIn
<1>3. ASSUME NEW Q \in Seq(SentEntry), NEW q \in SentEntry PROVE UnsentIn(Append(Q, q)) = UnsentIn(Q) + q.unsent
  <2> DEFINE R == Append(Q, q)
  <2>1. /\ Len(Q) \in Nat /\ R \in Seq(SentEntry) /\ Len(R) = Len(Q) + 1 /\ R[Len(Q) + 1] = q
        /\ \A i \in 1..Len(Q) : R[i] = Q[i]
    BY LenProperties, AppendProperties
  <2>2. Len(R) \in 1..Len(R) /\ Len(R) - 1 = Len(Q) /\ R[Len(R)] = q
    BY <2>1
  <2> HIDE DEF R
  <2>3. UnsentUpTo(R, Len(R)) = UnsentUpTo(R, Len(R) - 1) + R[Len(R)].unsent
    BY <2>1, <2>2, UnsentProperties
  <2>4. [i \in 1..Len(Q) |-> R[i].unsent] = [i \in 1..Len(Q) |-> Q[i].unsent]
    BY <2>1
  <2>5. UnsentUpTo(R, Len(Q)) = UnsentUpTo(Q, Len(Q))
    BY <2>4 DEF UnsentUpTo
  <2> QED BY <2>2, <2>3, <2>5 DEF UnsentIn, R
<1> QED BY <1>1, <1>2, <1>3

LEMMA DiscardIsImages ==
    ASSUME NEW Q \in Seq(Entry), NEW units \in 0..UnitsUpTo(Q, Covered(Q))
    PROVE  LET fds == UnsentUpTo(Q, Covered(Q)) IN
           /\ Adjust(Q, units, fds) \in Seq(Adjusted) /\ Len(Adjust(Q, units, fds)) = Len(Q)
           /\ Discard(Q, units, fds) = Images(Adjust(Q, units, fds), keepOf)
<1> DEFINE fds == UnsentUpTo(Q, Covered(Q))
           W == Adjust(Q, units, fds)
<1>0. Len(Q) \in Nat
  BY LenProperties
<1>1. \A i \in 1..Len(Q) : W[i] \in Adjusted
  BY AdjustProperties
<1>2. W = [i \in 1..Len(Q) |-> W[i]]
  BY DEF Adjust
<1>3. W \in Seq(Adjusted) /\ Len(W) = Len(Q)
  <2> HIDE DEF W
  <2>1. W \in [1..Len(Q) -> Adjusted]
    BY <1>1, <1>2
  <2> QED BY <1>0, <2>1
<1>4. Discard(Q, units, fds) = Those(W, LAMBDA q : Remaining(q) > 0)
  BY <1>2 DEF Discard, Adjust
<1> HIDE DEF W, fds
<1>5. \A i \in 1..Len(W) : keepOf[W[i]] = IF Remaining(W[i]) > 0 THEN <<W[i]>> ELSE <<>>
  BY <1>1, <1>3 DEF keepOf
<1>6. Those(W, LAMBDA q : Remaining(q) > 0) = Images(W, keepOf)
  BY <1>5 DEF Those, Each, Images
<1> QED BY <1>3, <1>4, <1>6 DEF W, fds

LEMMA KeptStep ==
    \A s \in Seq(Adjusted) : \A i \in 1..Len(s) :
        Images(SubSeq(s, 1, i), keepOf) = Images(SubSeq(s, 1, i - 1), keepOf) \o keepOf[s[i]]
<1> TAKE s \in Seq(Adjusted)
<1> TAKE i \in 1..Len(s)
<1>1. SubSeq(s, 1, i - 1) \in Seq(Adjusted) /\ s[i] \in Adjusted /\ i \in Int /\ Len(s) \in Nat
  <2>1. Len(s) \in Nat /\ s[i] \in Adjusted
    BY LenProperties, ElementOfSeq
  <2>2. i - 1 \in 0..Len(s)
    BY <2>1
  <2> QED BY <2>1, <2>2, CutInTwo
<1>2. SubSeq(s, 1, i) = Append(SubSeq(s, 1, i - 1), s[i])
  <2>1. SubSeq(s, 1, i) = SubSeq(s, 1, i - 1) \o <<s[i]>>
    BY <1>1, SubSeqRecursiveSecond
  <2> QED BY <1>1, <2>1, AppendIsConcat
<1>3. \A t \in Seq(Adjusted), x \in Adjusted : Images(Append(t, x), keepOf) = Images(t, keepOf) \o keepOf[x]
  BY KeepTyped, ImagesProperties
<1> QED BY <1>1, <1>2, <1>3

\* r is what is left of p when n units go from it and from what follows it.
IsRest(r, p, n) ==
    /\ Len(p) <= n => r = <<>>
    /\ Len(p) >= n => r = SubSeq(p, n + 1, Len(p))

LEMMA RestGrows ==
    ASSUME NEW S, NEW p \in Seq(S), NEW r \in Seq(S), NEW x \in Seq(S), NEW n \in Nat, NEW d \in Nat,
           Len(x) > 0, IsRest(r, p, n),
           d = IF Len(p) >= n THEN 0 ELSE IF n - Len(p) < Len(x) THEN n - Len(p) ELSE Len(x)
    PROVE  IsRest(r \o SubSeq(x, d + 1, Len(x)), p \o x, n)
<1> DEFINE s == r \o SubSeq(x, d + 1, Len(x))
<1> SUFFICES /\ Len(p) + Len(x) <= n => s = <<>>
             /\ Len(p) + Len(x) >= n => s = SubSeq(p \o x, n + 1, Len(p \o x))
  <2>1. Len(p \o x) = Len(p) + Len(x)
    BY ConcatProperties
  <2> QED BY <2>1 DEF IsRest
<1>. USE DEF IsRest
<1>0. Len(p) \in Nat /\ Len(x) \in Nat /\ d \in 0..Len(x)
  <2>1. Len(p) \in Nat /\ Len(x) \in Nat
    BY LenProperties
  <2> QED BY <2>1
<1>1. SubSeq(x, d + 1, Len(x)) \in Seq(S)
  BY <1>0, RestTyped
<1>2. <<>> \o SubSeq(x, d + 1, Len(x)) = SubSeq(x, d + 1, Len(x))
  BY <1>1, ConcatEmptySeq
<1>3. CASE Len(p) >= n
  <2>1. d = 0 /\ n \in 0..Len(p) + Len(x)
    BY <1>0, <1>3
  <2>2. SubSeq(x, d + 1, Len(x)) = x
    <3>1. d + 1 = 1
      BY <2>1
    <3>2. SubSeq(x, 1, Len(x)) = x
      BY SubSeqFull
    <3> QED BY <3>1, <3>2, Zenon
  <2>3. SubSeq(p \o x, n + 1, Len(p \o x)) = SubSeq(p, n + 1, Len(p)) \o x
    BY <1>3, <2>1, RestOfConcat
  <2>4. ~(Len(p) + Len(x) <= n)
    BY <1>0, <1>3
  <2> QED BY <1>3, <2>2, <2>3, <2>4
<1>4. CASE Len(p) < n /\ n < Len(p) + Len(x)
  <2>1. d = n - Len(p) /\ n \in 0..Len(p) + Len(x) /\ ~(Len(p) >= n) /\ n >= Len(p)
    BY <1>0, <1>4
  <2>2. r = <<>>
    BY <1>0, <1>4
  <2>3. SubSeq(p \o x, n + 1, Len(p \o x)) = SubSeq(x, (n - Len(p)) + 1, Len(x))
    BY <2>1, RestOfConcat
  <2>4. ~(Len(p) + Len(x) <= n)
    BY <1>0, <1>4
  <2> QED BY <1>2, <2>1, <2>2, <2>3, <2>4
<1>5. CASE n >= Len(p) + Len(x)
  <2>1. d = Len(x) /\ r = <<>>
    BY <1>0, <1>5
  <2>2. SubSeq(x, d + 1, Len(x)) = <<>>
    <3>1. d + 1 \in Int /\ Len(x) \in Int /\ Len(x) < d + 1
      BY <1>0, <2>1
    <3> QED BY <3>1, SubSeqEmpty
  <2>3. p \o x \in Seq(S) /\ Len(p \o x) = Len(p) + Len(x)
    BY ConcatProperties
  <2>4. SubSeq(p \o x, n + 1, Len(p \o x)) = <<>>
    <3>1. n + 1 \in Int /\ Len(p \o x) \in Int /\ Len(p \o x) < n + 1
      BY <1>0, <1>5, <2>3
    <3> QED BY <3>1, SubSeqEmpty
  <2> QED BY <1>2, <2>1, <2>2, <2>4
<1>6. Len(p) >= n \/ (Len(p) < n /\ n < Len(p) + Len(x)) \/ n >= Len(p) + Len(x)
  BY <1>0
<1> QED BY <1>3, <1>4, <1>5, <1>6, Zenon

\* discard() takes from the front of the stream what has been written, and from
\* the descriptors those that went with it.
LEMMA DiscardProperties ==
    ASSUME NEW Q \in Seq(Entry), NEW units \in 0..UnitsUpTo(Q, Covered(Q))
    PROVE  LET fds == UnsentUpTo(Q, Covered(Q))
               R == Discard(Q, units, fds)
           IN /\ R \in Seq(Entry)
              /\ Stream(R) = SubSeq(Stream(Q), units + 1, Len(Stream(Q)))
              /\ UnsentIn(R) = UnsentIn(Q) - fds
              /\ Q \in Seq(SafeEntry) => R \in Seq(SafeEntry)
<1> DEFINE c == Covered(Q)
           fds == UnsentUpTo(Q, c)
           W == Adjust(Q, units, fds)
           P(k) == Stream(SubSeq(Q, 1, k))
           K(k) == Images(SubSeq(W, 1, k), keepOf)
           H(k) == /\ UnitsUpTo(Q, k) <= units => Stream(K(k)) = <<>>
                   /\ UnitsUpTo(Q, k) >= units => Stream(K(k)) = SubSeq(P(k), units + 1, Len(P(k)))
                   /\ UnsentIn(K(k)) = IF k <= c THEN 0 ELSE UnsentUpTo(Q, k) - fds
                   /\ Q \in Seq(SafeEntry) => K(k) \in Seq(SafeEntry)
           G == {k \in Nat : k <= Len(Q) => H(k)}
<1>0. /\ Len(Q) \in Nat /\ c \in 0..Len(Q) /\ fds \in Nat /\ units \in Nat /\ Q \in Seq(SentEntry)
      /\ units <= UnitsUpTo(Q, c) /\ UnitsUpTo(Q, c) \in Nat
  <2>1. Len(Q) \in Nat /\ c \in 0..Len(Q) /\ fds \in Nat
    BY LenProperties, CoveredProperties
  <2>2. UnitsUpTo(Q, c) \in 0..Len(Stream(Q)) /\ Len(Stream(Q)) \in Nat
    BY <2>1, UnitsUpToProperties, StreamTyped, LenProperties
  <2> QED BY <2>1, <2>2, EntriesMayBeSent
<1>1. W \in Seq(Adjusted) /\ Len(W) = Len(Q) /\ Discard(Q, units, fds) = Images(W, keepOf)
  BY DiscardIsImages
<1>2. ASSUME NEW k \in 0..Len(Q) PROVE K(k) \in Seq(Entry) /\ P(k) \in Seq(Unit) /\ UnitsUpTo(Q, k) = Len(P(k))
  <2>1. SubSeq(W, 1, k) \in Seq(Adjusted) /\ SubSeq(Q, 1, k) \in Seq(Entry)
    <3> HIDE DEF W
    <3> QED BY <1>1, CutInTwo
  <2>2. \A s \in Seq(Adjusted) : Images(s, keepOf) \in Seq(Entry)
    BY KeepTyped, ImagesProperties
  <2> QED BY <2>1, <2>2, StreamTyped DEF UnitsUpTo
<1>3. 0 \in G
  <2>1. SubSeq(Q, 1, 0) = <<>> /\ SubSeq(W, 1, 0) = <<>>
    <3> HIDE DEF W
    <3> QED BY <1>1, SubSeqEmpty
  <2>2. K(0) = <<>>
    BY <2>1, KeepTyped, ImagesProperties
  <2>3. P(0) = <<>> /\ UnitsUpTo(Q, 0) = 0 /\ Stream(<<>>) = <<>> /\ Len(<<>>) = 0
    BY <2>1, StreamTyped, UnitsUpToProperties, EmptySeq
  <2>4. SubSeq(<<>>, units + 1, 0) = <<>>
    BY <1>0, EmptySeq, SubSeqEmpty
  <2>5. UnsentIn(<<>>) = 0 /\ <<>> \in Seq(SafeEntry)
    BY UnsentOfAppend, EmptySeq
  <2>6. 0 <= c /\ units + 1 \in Nat /\ 0 <= units
    BY <1>0
  <2>7. H(0)
    <3>1. UnitsUpTo(Q, 0) <= units => Stream(K(0)) = <<>>
      BY <2>2, <2>3
    <3>2. SubSeq(P(0), units + 1, Len(P(0))) = <<>> /\ Stream(K(0)) = <<>>
      BY <2>2, <2>3, <2>4
    <3>3. UnsentIn(K(0)) = 0 /\ K(0) \in Seq(SafeEntry)
      BY <2>2, <2>5
    <3> HIDE DEF K, P, c, fds
    <3> QED BY <2>6, <3>1, <3>2, <3>3
  <2> HIDE DEF H
  <2> QED BY <2>7
<1>4. ASSUME NEW k \in Nat, k \in G PROVE k + 1 \in G
  <2> SUFFICES ASSUME k + 1 <= Len(Q) PROVE H(k + 1)
    OBVIOUS
  <2> DEFINE q == Q[k + 1]
             w == W[k + 1]
             X == UnitsOf(q)
             before == UnitsUpTo(Q, k)
  <2>0. k \in 0..Len(Q) /\ k + 1 \in 0..Len(Q) /\ k + 1 \in 1..Len(Q) /\ (k + 1) - 1 = k /\ q \in Entry
    BY <1>0, ElementOfSeq
  <2>1. H(k)
    BY <1>4, <2>0
  <2>2. /\ w \in Adjusted /\ w.frame = q.frame
        /\ w.unsent = IF k + 1 <= c THEN 0 ELSE q.unsent
        /\ before >= units => w.offset = q.offset
        /\ before < units => w.offset = q.offset + (IF units - before < Remaining(q) THEN units - before ELSE Remaining(q))
        /\ k + 1 > c => before >= units
    BY <2>0, AdjustProperties
  <2>3. /\ P(k + 1) = P(k) \o X /\ UnitsUpTo(Q, k + 1) = before + Remaining(q)
    BY <2>0, UnitsUpToProperties
  <2>4. /\ X \in Seq(Unit) /\ Len(X) = Remaining(q) /\ Remaining(q) \in Nat \ {0} /\ before \in Nat
        /\ P(k) \in Seq(Unit) /\ Len(P(k)) = before /\ K(k) \in Seq(Entry)
        /\ q.offset \in Nat /\ q.unsent \in Nat
    <3>1. X \in Seq(Unit) /\ Len(X) = Remaining(q) /\ Remaining(q) \in Nat \ {0}
      BY <2>0, UnitsOfTyped
    <3>2. P(k) \in Seq(Unit) /\ Len(P(k)) = before /\ K(k) \in Seq(Entry)
      BY <1>2, <2>0
    <3>3. before \in Nat
      BY <3>2, LenProperties
    <3>4. q.offset \in Nat /\ q.unsent \in Nat
      <4> HIDE DEF q
      <4> QED BY <2>0, BoundAssumption DEF Entry
    <3> QED BY <3>1, <3>2, <3>3, <3>4
  <2>5. K(k + 1) = K(k) \o keepOf[w]
    <3> HIDE DEF W
    <3>1. \A i \in 1..Len(W) : Images(SubSeq(W, 1, i), keepOf) = Images(SubSeq(W, 1, i - 1), keepOf) \o keepOf[W[i]]
      <4>1. W \in Seq(Adjusted)
        BY <1>1
      <4> QED BY <4>1, KeptStep, Zenon
    <3>2. k + 1 \in 1..Len(W)
      BY <1>1, <2>0
    <3> QED BY <2>0, <3>1, <3>2
  <2> HIDE DEF w, q, X, K, P, W, before, c, fds
  <2> DEFINE d == IF before >= units THEN 0
                  ELSE IF units - before < Remaining(q) THEN units - before ELSE Remaining(q)
  <2>6. d \in 0..Remaining(q) /\ w.offset = q.offset + d
    <3>1. \A b, n, r \in Nat, o, o2 \in Nat :
              /\ b >= n => o2 = o
              /\ b < n => o2 = o + (IF n - b < r THEN n - b ELSE r)
              => LET z == IF b >= n THEN 0 ELSE IF n - b < r THEN n - b ELSE r IN z \in 0..r /\ o2 = o + z
      OBVIOUS
    <3>2. w.offset \in Nat
      BY <2>2 DEF Adjusted, SentEntry
    <3> QED BY <1>0, <2>2, <2>4, <3>1, <3>2
  <2>7. /\ keepOf[w] \in Seq(Entry) /\ Remaining(w) = Remaining(q) - d
        /\ Stream(keepOf[w]) = SubSeq(X, d + 1, Len(X))
    <3> HIDE DEF d
    <3> QED BY <2>0, <2>2, <2>6, KeptUnits DEF X
  <2>8. Stream(K(k + 1)) = Stream(K(k)) \o SubSeq(X, d + 1, Len(X))
    BY <2>4, <2>5, <2>7, StreamTyped
  <2>9. /\ UnitsUpTo(Q, k + 1) <= units => Stream(K(k + 1)) = <<>>
        /\ UnitsUpTo(Q, k + 1) >= units => Stream(K(k + 1)) = SubSeq(P(k + 1), units + 1, Len(P(k + 1)))
    <3> DEFINE p == P(k)
               r == Stream(K(k))
    <3>1. p \in Seq(Unit) /\ r \in Seq(Unit) /\ Len(p) = before /\ Len(X) > 0 /\ d \in Nat
      <4>1. r \in Seq(Unit)
        BY <2>4, StreamTyped
      <4>2. \A m \in Nat : \A z \in 0..m : z \in Nat
        OBVIOUS
      <4> HIDE DEF d
      <4> QED BY <2>4, <2>6, <4>1, <4>2
    <3>2. IsRest(r, p, units)
      BY <2>1, <3>1 DEF IsRest, before
    <3>3. d = IF Len(p) >= units THEN 0 ELSE IF units - Len(p) < Len(X) THEN units - Len(p) ELSE Len(X)
      BY <2>4, <3>1
    <3> HIDE DEF p, r, d
    <3>4. X \in Seq(Unit) /\ units \in Nat
      BY <1>0, <2>4
    <3>5. IsRest(r \o SubSeq(X, d + 1, Len(X)), p \o X, units)
      BY <3>1, <3>2, <3>3, <3>4, RestGrows
    <3>6. UnitsUpTo(Q, k + 1) = Len(p \o X)
      <4>1. Len(p \o X) = Len(p) + Len(X)
        BY <3>1, <3>4, ConcatProperties
      <4> QED BY <2>3, <2>4, <3>1, <4>1
    <3> QED BY <2>3, <2>8, <3>5, <3>6 DEF p, r, IsRest
  <2>11. keepOf[w] = (IF Remaining(w) > 0 THEN <<w>> ELSE <<>>)
    BY <2>2 DEF keepOf
  <2>12. K(k) \in Seq(SentEntry)
    BY <2>4, EntriesMayBeSent
  <2>13. UnsentUpTo(Q, k + 1) = UnsentUpTo(Q, k) + q.unsent /\ UnsentUpTo(Q, k) \in Nat
    BY <1>0, <2>0, UnsentProperties DEF q
  <2>14. k + 1 > c => Remaining(w) > 0
    BY <1>0, <2>2, <2>4, <2>7
  <2>15. UnsentIn(K(k + 1)) = IF k + 1 <= c THEN 0 ELSE UnsentUpTo(Q, k + 1) - fds
    <3>1. UnsentIn(K(k + 1)) = UnsentIn(K(k)) + w.unsent
      <4>1. CASE Remaining(w) > 0
        <5>1. K(k + 1) = Append(K(k), w) /\ w \in SentEntry
          BY <2>2, <2>4, <2>5, <2>11, <4>1, AppendIsConcat DEF Adjusted
        <5> QED BY <2>12, <5>1, UnsentOfAppend
      <4>2. CASE ~(Remaining(w) > 0)
        <5>1. K(k + 1) = K(k)
          BY <2>4, <2>5, <2>11, <4>2, ConcatEmptySeq
        <5>2. w.unsent = 0
          BY <1>0, <2>0, <2>2, <2>14, <4>2
        <5>3. UnsentIn(K(k)) \in Nat
          BY <2>12, UnsentOfAppend
        <5> QED BY <5>1, <5>2, <5>3
      <4> QED BY <4>1, <4>2
    <3>2. UnsentIn(K(k)) = IF k <= c THEN 0 ELSE UnsentUpTo(Q, k) - fds
      BY <2>1
    <3>3. k = c => UnsentUpTo(Q, k) = fds
      BY DEF fds
    <3>4. w.unsent = (IF k + 1 <= c THEN 0 ELSE q.unsent) /\ q.unsent \in Nat
      BY <2>2, <2>4
    <3> DEFINE u == UnsentIn(K(k))
               v == UnsentIn(K(k + 1))
               a == UnsentUpTo(Q, k)
               b == UnsentUpTo(Q, k + 1)
               y == w.unsent
               z == q.unsent
    <3>5. v = u + y /\ u = (IF k <= c THEN 0 ELSE a - fds) /\ (k = c => a = fds) /\ y = (IF k + 1 <= c THEN 0 ELSE z)
      BY <3>1, <3>2, <3>3, <3>4
    <3>6. b = a + z /\ a \in Nat /\ z \in Nat /\ c \in Nat
      BY <1>0, <2>4, <2>13
    <3> HIDE DEF u, v, a, b, y, z
    <3>7. v = IF k + 1 <= c THEN 0 ELSE b - fds
      BY <1>0, <3>5, <3>6
    <3> QED BY <3>7 DEF v, b
  <2>16. Q \in Seq(SafeEntry) => K(k + 1) \in Seq(SafeEntry)
    <3> HAVE Q \in Seq(SafeEntry)
    <3>1. q \in SafeEntry
      BY <2>0, ElementOfSeq DEF q
    <3>2. K(k) \in Seq(SafeEntry)
      BY <2>1
    <3>3. keepOf[w] \in Seq(SafeEntry)
      <4>1. CASE Remaining(w) > 0
        <5>1. w \in Entry
          <6>1. <<w>> \in Seq(Entry) /\ Len(<<w>>) = 1 /\ <<w>>[1] = w
            BY <2>7, <2>11, <4>1
          <6> QED BY <6>1, ElementOfSeq
        <5>2. w.offset > 0 => w.unsent = 0
          BY <1>0, <2>0, <2>2, <2>4, <3>1, SMTT(30) DEF SafeEntry
        <5>3. w.unsent <= Len(Carried(w.frame))
          <6>1. w.frame \in Frame /\ Len(Carried(w.frame)) \in Nat
            BY <5>1, CarriedTyped DEF Entry
          <6>2. q.unsent <= Len(Carried(q.frame))
            BY <3>1 DEF SafeEntry
          <6> QED BY <2>2, <6>1, <6>2
        <5>4. w \in SafeEntry
          BY <5>1, <5>2, <5>3 DEF SafeEntry
        <5> QED BY <2>11, <4>1, <5>4
      <4> QED BY <2>11, <4>1, EmptySeq
    <3> QED BY <2>5, <3>2, <3>3, ConcatProperties
  <2> QED BY <2>9, <2>15, <2>16
<1>5. H(Len(Q))
  <2> HIDE DEF H
  <2>1. Nat \subseteq G
    <3> HIDE DEF G
    <3> QED BY <1>3, <1>4, NumbersByCounting
  <2> QED BY <1>0, <2>1
<1>6. SubSeq(Q, 1, Len(Q)) = Q /\ SubSeq(W, 1, Len(Q)) = W
  <2> HIDE DEF W
  <2> QED BY <1>1, SubSeqFull
<1>7. units <= UnitsUpTo(Q, Len(Q))
  <2>1. Len(Q) \in 0..Len(Q) /\ c <= Len(Q)
    BY <1>0
  <2>2. UnitsUpTo(Q, c) <= UnitsUpTo(Q, Len(Q)) /\ UnitsUpTo(Q, Len(Q)) \in 0..Len(Stream(Q))
    BY <1>0, <2>1, UnitsGrow, UnitsUpToProperties
  <2>3. Len(Stream(Q)) \in Nat
    BY StreamTyped, LenProperties
  <2> HIDE DEF c
  <2> QED BY <1>0, <2>2, <2>3
<1>8. Discard(Q, units, fds) = K(Len(Q)) /\ P(Len(Q)) = Stream(Q)
  BY <1>1, <1>6
<1>9. K(Len(Q)) \in Seq(Entry) /\ UnitsUpTo(Q, Len(Q)) \in Nat
  <2>1. Len(Q) \in 0..Len(Q)
    BY <1>0
  <2> HIDE DEF K, P
  <2>2. K(Len(Q)) \in Seq(Entry) /\ P(Len(Q)) \in Seq(Unit) /\ UnitsUpTo(Q, Len(Q)) = Len(P(Len(Q)))
    BY <1>2, <2>1
  <2> QED BY <2>2, LenProperties
<1>10. UnsentIn(K(Len(Q))) = UnsentIn(Q) - fds
  <2>1. Len(Q) <= c => Len(Q) = c
    BY <1>0
  <2>2. UnsentIn(K(Len(Q))) = IF Len(Q) <= c THEN 0 ELSE UnsentUpTo(Q, Len(Q)) - fds
    BY <1>5
  <2>3. Len(Q) = c => UnsentUpTo(Q, Len(Q)) = fds
    OBVIOUS
  <2> HIDE DEF K, fds, c
  <2> QED BY <1>0, <2>1, <2>2, <2>3 DEF UnsentIn
<1> HIDE DEF K, P, W
<1> QED BY <1>0, <1>5, <1>7, <1>8, <1>9, <1>10

-----------------------------------------------------------------------------
(***************************************************************************)
(* Types.  TypeOK in four parts, each with the steps that concern it.      *)
(***************************************************************************)

LEMMA PeerProperties ==
    \A e \in End : Peer(e) \in End /\ Peer(e) # e /\ Peer(Peer(e)) = e /\ \A x \in End : x = e \/ x = Peer(e)
<1>1. PICK a \in End, b \in End : a # b /\ End = {a, b}
  BY EndAssumption
<1>2. Peer(a) = b /\ Peer(b) = a
  <2>1. {p \in End : p # a} = {b} /\ {p \in End : p # b} = {a}
    BY <1>1
  <2>2. \A e : (CHOOSE p \in End : p # e) \in End \/ ~\E p \in End : p # e
    OBVIOUS
  <2>3. \A e \in End : Peer(e) \in End /\ Peer(e) # e
    BY <1>1 DEF Peer
  <2> QED BY <1>1, <2>3
<1> QED BY <1>1, <1>2

PostersTyped == todo \in [Thread -> Seq(Msg)] /\ retaining \in [Thread -> Msg \cup {None}]

SentTyped ==
    /\ queue \in [End -> Seq(Entry)] /\ queueFds \in [End -> Seq(Descriptor)]
    /\ wire \in [End -> Seq(Unit)] /\ posted \in [End -> Seq(Msg)] /\ written \in [End -> Nat]
    /\ \A e \in End : Len(wire[e]) <= SocketCapacity

RetainedTyped == retained \in [End -> Seq(Descriptor)]

ReadTyped == bytes \in [End -> Seq(Unit)] /\ attached \in [End -> Seq(Descriptor)]

MessagesTyped ==
    /\ incoming \in [End -> Seq(Message)] /\ unprocessed \in [End -> Seq(Message)]
    /\ taken \in [End -> Seq(Message)] /\ handled \in [End -> Seq(Message)]

ControlTyped ==
    /\ open \in [End -> BOOLEAN] /\ up \in [End -> BOOLEAN] /\ wake \in [End -> BOOLEAN]
    /\ want \in [End -> BOOLEAN] /\ notify \in [End -> BOOLEAN] /\ ended \in [End -> BOOLEAN]
    /\ peerEof \in [End -> BOOLEAN] /\ incomingEof \in [End -> BOOLEAN]
    /\ state \in [End -> {"Running", "SendPendingMessagesAndStop", "Stopped"}]
    /\ io \in [End -> IOPosition] /\ revents \in [End -> SUBSET {"POLLIN", "POLLHUP", "POLLOUT"}]
    /\ main \in [End -> {"events", "posting", "match", "wait", "blocked", "drain", "joining", "dead"}]
    /\ deferred \in [End -> Seq({"handle_messages", "shutdown"})]

CallsTyped ==
    /\ awaited \in [End -> Request \cup {None}]
    /\ outcome \in [Request -> {None, "waiting", "answered", "failed"}]

LEMMA TypeOKInParts ==
    TypeOK <=> /\ PostersTyped /\ SentTyped /\ RetainedTyped /\ ReadTyped /\ MessagesTyped /\ ControlTyped
               /\ CallsTyped /\ \A e \in End : written[e] <= Len(posted[e])
BY DEF TypeOK, PostersTyped, SentTyped, RetainedTyped, ReadTyped, MessagesTyped, ControlTyped, CallsTyped

LEMMA InitTyped ==
    Init => /\ PostersTyped /\ SentTyped /\ RetainedTyped /\ ReadTyped /\ MessagesTyped /\ ControlTyped
            /\ CallsTyped
<1> SUFFICES ASSUME Init
             PROVE  /\ PostersTyped /\ SentTyped /\ RetainedTyped /\ ReadTyped /\ MessagesTyped /\ ControlTyped
                    /\ CallsTyped
  OBVIOUS
<1>0. \A S : <<>> \in Seq(S) /\ Len(<<>>) = 0
  BY EmptySeq
<1>1. PostersTyped
  BY ThreadAssumption DEF Init, PostersTyped
<1>2. SentTyped
  BY <1>0, BoundAssumption DEF Init, SentTyped
<1>3. RetainedTyped /\ ReadTyped /\ MessagesTyped
  BY <1>0 DEF Init, RetainedTyped, ReadTyped, MessagesTyped
<1>4. ControlTyped
  BY <1>0 DEF Init, ControlTyped, IOPosition
<1>5. CallsTyped
  BY DEF Init, CallsTyped
<1> QED BY <1>1, <1>2, <1>3, <1>4, <1>5


LEMMA PostersStay == PostersTyped /\ [Next]_vars => PostersTyped'
<1> SUFFICES ASSUME PostersTyped, [Next]_vars PROVE PostersTyped'
  OBVIOUS
<1> USE DEF PostersTyped, posters
<1>0. \A s \in Seq(Msg) : s # <<>> => Head(s) \in Msg /\ Tail(s) \in Seq(Msg)
  BY HeadTailProperties
<1>1. ASSUME NEW t \in Thread, PostRefused(t) \/ PostRetain(t) PROVE PostersTyped'
  <2>1. /\ todo[t] # <<>> /\ todo' = [todo EXCEPT ![t] = Tail(@)]
        /\ retaining' = retaining \/ retaining' = [retaining EXCEPT ![t] = Head(todo[t])]
    BY <1>1 DEF PostRefused, PostRetain
  <2>2. Head(todo[t]) \in Msg /\ Tail(todo[t]) \in Seq(Msg)
    BY <1>0, <2>1
  <2> QED BY <2>1, <2>2
<1>2. ASSUME NEW t \in Thread, PostEnqueue(t) PROVE PostersTyped'
  BY <1>2 DEF PostEnqueue
<1>3. ASSUME NEW e \in End, NEW now, Die(e, now) PROVE PostersTyped'
  BY <1>3, EmptySeq DEF Die
<1>4. ASSUME UNCHANGED posters PROVE PostersTyped'
  BY <1>4
<1>5. CASE UNCHANGED vars
  BY <1>4, <1>5 DEF vars
<1>6. ASSUME NEW e \in End, IOThread(e) PROVE PostersTyped'
  <2>1. UNCHANGED posters \/ \E now : Die(e, now)
    <3>1. CASE IOLoop(e) \/ IOState(e) \/ IOPoll(e)
      BY <3>1 DEF IOLoop, IOState, IOPoll
    <3>2. CASE IOReceive(e) \/ IOVerify(e) \/ IOPublishEnd(e)
      BY <3>2 DEF IOReceive, IOVerify, IOPublishEnd
    <3>3. CASE IOParse(e)
      BY <3>3 DEF IOParse
    <3>4. CASE IOWrite(e)
      BY <3>4 DEF IOWrite
    <3>5. CASE IOVerifyFails(e)
      BY <3>5 DEF IOVerifyFails
    <3> QED BY <1>6, <3>1, <3>2, <3>3, <3>4, <3>5 DEF IOThread
  <2> QED BY <1>3, <1>4, <2>1
<1>8. ASSUME NEW e \in End, OwnerThread(e) PROVE PostersTyped'
  <2>1. UNCHANGED posters
    BY <1>8 DEF OwnerThread, ReadHook, DeferredHandle, DeferredShutdown, Joined, SyncMatch, SyncWait, SyncDrain
  <2> QED BY <1>4, <2>1
<1>9. ASSUME NEW e \in End, Crash(e) PROVE PostersTyped'
  BY <1>3, <1>9 DEF Crash
<1>10. ASSUME NEW e \in End, NEW how, Close(e, how) PROVE PostersTyped'
  BY <1>4, <1>10 DEF Close
<1> QED BY <1>1, <1>2, <1>5, <1>6, <1>8, <1>9, <1>10 DEF Next

LEMMA InvocationsTyped == \A e \in End : ControlTyped => Invocations(e) \in Seq({"handle_messages", "shutdown"})
<1> SUFFICES ASSUME NEW e \in End, ControlTyped PROVE Invocations(e) \in Seq({"handle_messages", "shutdown"})
  OBVIOUS
<1> DEFINE S == {"handle_messages", "shutdown"}
<1>1. deferred[e] \in Seq(S)
  BY DEF ControlTyped
<1>2. /\ <<"handle_messages">> \in Seq(S) /\ <<"shutdown">> \in Seq(S) /\ <<>> \in Seq(S)
  BY EmptySeq
<1> HIDE DEF S
<1>3. \A a, b \in Seq(S) : a \o b \in Seq(S)
  BY ConcatProperties
<1>4. \A a, b, c \in Seq(S) : (a \o b) \o c \in Seq(S)
  BY <1>3
<1> QED BY <1>1, <1>2, <1>4 DEF Invocations, S

LEMMA ControlStays == ControlTyped /\ [Next]_vars => ControlTyped'
<1> SUFFICES ASSUME ControlTyped, [Next]_vars PROVE ControlTyped'
  OBVIOUS
<1> USE DEF ControlTyped
<1>1. ASSUME UNCHANGED <<open, state, up, wake, peerEof, incomingEof, notify, ioThread, main, deferred, ended>>
      PROVE  ControlTyped'
  BY <1>1 DEF ioThread
<1>2. CASE UNCHANGED vars
  BY <1>1, <1>2 DEF vars, receiving, connection, os, history
<1>3. ASSUME NEW t \in Thread, PostRefused(t) PROVE ControlTyped'
  BY <1>1, <1>3 DEF PostRefused, receiving, connection, os
<1>4. ASSUME NEW t \in Thread, PostRetain(t) PROVE ControlTyped'
  <2>1. At[t] \in End
    BY ThreadAssumption
  <2>2. /\ main' = IF t = Owner[At[t]] THEN [main EXCEPT ![At[t]] = "posting"] ELSE main
        /\ UNCHANGED <<open, state, up, wake, peerEof, incomingEof, notify, ioThread, deferred, ended>>
    BY <1>4 DEF PostRetain, receiving, os, history
  <2> QED BY <2>1, <2>2 DEF ioThread
<1>5. ASSUME NEW t \in Thread, PostEnqueue(t) PROVE ControlTyped'
  <2>1. At[t] \in End
    BY ThreadAssumption
  <2>2. /\ main' = main \/ main' = [main EXCEPT ![At[t]] = "match"] \/ main' = [main EXCEPT ![At[t]] = "events"]
        /\ wake' = [wake EXCEPT ![At[t]] = TRUE]
        /\ UNCHANGED <<open, state, up, peerEof, incomingEof, notify, ioThread, deferred, ended>>
    BY <1>5 DEF PostEnqueue, receiving, os
  <2> QED BY <2>1, <2>2 DEF ioThread
<1>6. ASSUME NEW e \in End, IOLoop(e) PROVE ControlTyped'
  BY <1>6 DEF IOLoop, IOPosition, receiving, connection, os, history
<1>7. ASSUME NEW e \in End, IOState(e) PROVE ControlTyped'
  BY <1>7 DEF IOState, IOPosition, receiving, connection, os, history
<1>8. ASSUME NEW e \in End, IOPoll(e) PROVE ControlTyped'
  <2>1. PollEvents(e) \in SUBSET {"POLLIN", "POLLHUP", "POLLOUT"}
    BY DEF PollEvents
  <2> QED BY <1>8, <2>1 DEF IOPoll, IOPosition, receiving, connection, os, history
<1>9. ASSUME NEW e \in End, IOReceive(e) PROVE ControlTyped'
  BY <1>9 DEF IOReceive, IOPosition, connection, history
<1>10. ASSUME NEW e \in End, IOParse(e) PROVE ControlTyped'
  <2>1. /\ io' = [io EXCEPT ![e] = "verify"] \/ io' = [io EXCEPT ![e] = "write"] \/ io' = [io EXCEPT ![e] = "loop"]
              \/ io' = [io EXCEPT ![e] = "publish end"]
        /\ state' = [state EXCEPT ![e] = "Stopped"] \/ state' = state
        /\ \/ revents' = [revents EXCEPT ![e] = {}] \/ revents' = [revents EXCEPT ![e] = @ \ {"POLLIN"}]
           \/ revents' = revents
    BY <1>10 DEF IOParse
  <2>2. /\ \E b \in BOOLEAN : peerEof' = [peerEof EXCEPT ![e] = b]
        /\ \E b \in BOOLEAN : incomingEof' = [incomingEof EXCEPT ![e] = b]
        /\ notify' = [notify EXCEPT ![e] = TRUE] \/ notify' = notify
        /\ main' = main \/ main' = [main EXCEPT ![e] = "wait"]
        /\ \E b \in BOOLEAN : wake' = [wake EXCEPT ![e] = b]
        /\ UNCHANGED <<open, up, want, deferred, ended>>
    <3>1. /\ \E b \in BOOLEAN : peerEof' = [peerEof EXCEPT ![e] = b]
          /\ \E b \in BOOLEAN : incomingEof' = [incomingEof EXCEPT ![e] = b]
      <4>1. \E b : peerEof' = [peerEof EXCEPT ![e] = peerEof[e] \/ b]
        BY <1>10 DEF IOParse
      <4>2. \E b : incomingEof' = [incomingEof EXCEPT ![e] = incomingEof[e] \/ b]
        BY <1>10 DEF IOParse
      <4> QED BY <4>1, <4>2
    <3>2. notify' = [notify EXCEPT ![e] = TRUE] \/ notify' = notify
      BY <1>10 DEF IOParse
    <3>3. main' = main \/ main' = [main EXCEPT ![e] = "wait"]
      BY <1>10 DEF IOParse, Broadcast
    <3>4. \E b : wake' = [wake EXCEPT ![e] = wake[e] \/ b]
      BY <1>10 DEF IOParse
    <3>5. \E b \in BOOLEAN : wake' = [wake EXCEPT ![e] = b]
      BY <3>4
    <3>6. UNCHANGED <<open, up, want, deferred, ended>>
      BY <1>10 DEF IOParse, os, history
    <3> QED BY <3>1, <3>2, <3>3, <3>5, <3>6
  <2>3. io' \in [End -> IOPosition]
    BY <2>1 DEF IOPosition
  <2>4. revents' \in [End -> SUBSET {"POLLIN", "POLLHUP", "POLLOUT"}]
    <3> DEFINE S == SUBSET {"POLLIN", "POLLHUP", "POLLOUT"}
    <3>1. revents \in [End -> S] /\ {} \in S /\ revents[e] \ {"POLLIN"} \in S
      BY DEF ControlTyped
    <3> HIDE DEF S
    <3>2. \E x \in S : revents' = [revents EXCEPT ![e] = x] \/ revents' = revents
      BY <2>1, <3>1
    <3> QED BY <3>1, <3>2 DEF S
  <2>5. /\ peerEof' \in [End -> BOOLEAN] /\ incomingEof' \in [End -> BOOLEAN] /\ wake' \in [End -> BOOLEAN]
        /\ notify' \in [End -> BOOLEAN]
    <3>1. \A f \in [End -> BOOLEAN], b \in BOOLEAN : [f EXCEPT ![e] = b] \in [End -> BOOLEAN]
      OBVIOUS
    <3>2. peerEof' \in [End -> BOOLEAN]
      BY <2>2, <3>1, Zenon
    <3>3. incomingEof' \in [End -> BOOLEAN]
      BY <2>2, <3>1, Zenon
    <3>4. wake' \in [End -> BOOLEAN]
      BY <2>2, <3>1, Zenon
    <3>5. notify' \in [End -> BOOLEAN]
      BY <2>2, <3>1, Zenon
    <3> QED BY <3>2, <3>3, <3>4, <3>5
  <2>6. /\ main' \in [End -> {"events", "posting", "match", "wait", "blocked", "drain", "joining", "dead"}]
        /\ state' \in [End -> {"Running", "SendPendingMessagesAndStop", "Stopped"}]
    BY <2>1, <2>2
  <2> QED BY <2>2, <2>3, <2>4, <2>5, <2>6
<1>11. ASSUME NEW e \in End, IOWrite(e) PROVE ControlTyped'
  <2>1. /\ io' = [io EXCEPT ![e] = "loop"] /\ revents' = [revents EXCEPT ![e] = {}]
        /\ state' = [state EXCEPT ![e] = "Stopped"] \/ state' = state
        /\ UNCHANGED <<open, up, wake, peerEof, incomingEof, notify, want, main, deferred, ended>>
    BY <1>11 DEF IOWrite, receiving, connection
  <2> QED BY <2>1 DEF IOPosition
<1>12. ASSUME NEW e \in End, NEW now \in {"aborted", "crashed"}, Die(e, now) PROVE ControlTyped'
  BY <1>12, EmptySeq DEF Die, IOPosition
<1>13. ASSUME NEW e \in End, IOVerify(e) \/ IOPublishEnd(e) PROVE ControlTyped'
  BY <1>13, ZenonT(30) DEF IOVerify, IOPublishEnd, Broadcast, IOPosition, receiving, connection, os, history
<1>14. ASSUME NEW e \in End, ReadHook(e) PROVE ControlTyped'
  <2>1. /\ notify' = [notify EXCEPT ![e] = FALSE] /\ ended' = [ended EXCEPT ![e] = incomingEof[e]]
        /\ deferred' = [deferred EXCEPT ![e] = Invocations(e)]
        /\ UNCHANGED <<open, state, up, peerEof, incomingEof, ioThread, main>>
    BY <1>14 DEF ReadHook, Drain, os
  <2>2. \E b \in BOOLEAN : wake' = [wake EXCEPT ![e] = b]
    BY <1>14 DEF ReadHook, Handle
  <2> QED BY <2>1, <2>2, InvocationsTyped DEF ioThread
<1>15. ASSUME NEW e \in End, DeferredHandle(e) PROVE ControlTyped'
  <2>1. /\ deferred[e] # <<>> /\ deferred' = [deferred EXCEPT ![e] = Tail(@)]
        /\ UNCHANGED <<open, state, up, peerEof, incomingEof, notify, ioThread, main, ended>>
    BY <1>15 DEF DeferredHandle, receiving, os
  <2>2. \E b \in BOOLEAN : wake' = [wake EXCEPT ![e] = b]
    BY <1>15 DEF DeferredHandle, Handle
  <2>3. Tail(deferred[e]) \in Seq({"handle_messages", "shutdown"})
    BY <2>1, HeadTailProperties
  <2> QED BY <2>1, <2>2, <2>3 DEF ioThread
<1>16. ASSUME NEW e \in End, DeferredShutdown(e) PROVE ControlTyped'
  <2>1. /\ deferred[e] # <<>> /\ deferred' = [deferred EXCEPT ![e] = Tail(@)]
        /\ open' = [open EXCEPT ![e] = FALSE] /\ state' = [state EXCEPT ![e] = "Stopped"]
        /\ wake' = [wake EXCEPT ![e] = TRUE] /\ main' = [main EXCEPT ![e] = "joining"]
        /\ UNCHANGED <<up, peerEof, incomingEof, notify, ioThread, ended>>
    BY <1>16 DEF DeferredShutdown, StopIOThread, receiving, os, history
  <2>2. Tail(deferred[e]) \in Seq({"handle_messages", "shutdown"})
    BY <2>1, HeadTailProperties
  <2> QED BY <2>1, <2>2 DEF ioThread
<1>17. ASSUME NEW e \in End, NEW how \in {"now", "pending"}, Close(e, how) PROVE ControlTyped'
  BY <1>17 DEF Close, StopIOThread, receiving, ioThread, os, history
<1>18. ASSUME NEW e \in End, Joined(e) PROVE ControlTyped'
  BY <1>18 DEF Joined, receiving, ioThread, history
<1>19. ASSUME NEW e \in End, SyncMatch(e) PROVE ControlTyped'
  <2>1. /\ main' = [main EXCEPT ![e] = "events"] \/ main' = [main EXCEPT ![e] = "wait"]
        /\ UNCHANGED <<open, state, up, wake, peerEof, incomingEof, notify, ioThread, deferred, ended>>
    BY <1>19 DEF SyncMatch, receiving, os
  <2> QED BY <2>1 DEF ioThread
<1>20. ASSUME NEW e \in End, SyncWait(e) PROVE ControlTyped'
  BY <1>20 DEF SyncWait, receiving, ioThread, os, history
<1>21. ASSUME NEW e \in End, SyncDrain(e) PROVE ControlTyped'
  <2>1. /\ ended' = [ended EXCEPT ![e] = incomingEof[e]]
        /\ deferred' = [deferred EXCEPT ![e] = Invocations(e)]
        /\ UNCHANGED <<up, peerEof, incomingEof, notify, ioThread>>
    BY <1>21 DEF SyncDrain, Drain, os
  <2>2. \/ main' = [main EXCEPT ![e] = "match"] /\ UNCHANGED <<open, state, wake>>
        \/ main' = [main EXCEPT ![e] = "events"] /\ UNCHANGED <<open, state, wake>>
        \/ /\ open' = [open EXCEPT ![e] = FALSE] /\ state' = [state EXCEPT ![e] = "Stopped"]
           /\ wake' = [wake EXCEPT ![e] = TRUE] /\ main' = [main EXCEPT ![e] = "joining"]
    BY <1>21 DEF SyncDrain, StopIOThread
  <2> QED BY <2>1, <2>2, InvocationsTyped DEF ioThread
<1>22. ASSUME NEW e \in End, IOThread(e) PROVE ControlTyped'
  BY <1>6, <1>7, <1>8, <1>9, <1>10, <1>11, <1>12, <1>13, <1>22 DEF IOThread, IOVerifyFails
<1>23. ASSUME NEW e \in End, OwnerThread(e) PROVE ControlTyped'
  BY <1>14, <1>15, <1>16, <1>18, <1>19, <1>20, <1>21, <1>23 DEF OwnerThread
<1>24. ASSUME NEW e \in End, Crash(e) PROVE ControlTyped'
  BY <1>12, <1>24 DEF Crash
<1> QED BY <1>2, <1>3, <1>4, <1>5, <1>17, <1>22, <1>23, <1>24 DEF Next

-----------------------------------------------------------------------------
(***************************************************************************)
(* Dispatching.                                                            *)
(***************************************************************************)

LEMMA ForEndpointTyped ==
    /\ ForEndpoint(<<>>) = <<>>
    /\ \A M \in Seq(Message) : ForEndpoint(M) \in Seq(Message)
    /\ \A M, N \in Seq(Message) : ForEndpoint(M \o N) = ForEndpoint(M) \o ForEndpoint(N)
<1>1. Maps(mineOf, Message, Message) /\ <<>> \in Seq(Message)
  BY MapsTyped, EmptySeq
<1>2. \A M \in Seq(Message) : ForEndpoint(M) = Images(M, mineOf)
  BY JoinedAreImages
<1>3. ForEndpoint(<<>>) = <<>>
  BY <1>1, <1>2, ImagesProperties
<1>4. \A M \in Seq(Message) : Images(M, mineOf) \in Seq(Message)
  BY <1>1, ImagesProperties
<1>5. \A M, N \in Seq(Message) : Images(M \o N, mineOf) = Images(M, mineOf) \o Images(N, mineOf)
  BY <1>1, ImagesOfConcat
<1>6. \A M, N \in Seq(Message) : M \o N \in Seq(Message)
  BY ConcatProperties
<1> QED BY <1>2, <1>3, <1>4, <1>5, <1>6

\* A reply is for the caller who waits: taking it away leaves what is to be
\* dispatched.
LEMMA WithoutReply ==
    ASSUME NEW e \in End, NEW M \in Seq(Message), NEW i, i = Match(e, M), i > 0
    PROVE  RemoveAt(M, i) \in Seq(Message) /\ ForEndpoint(RemoveAt(M, i)) = ForEndpoint(M)
<1> DEFINE I == {j \in 1..Len(M) : IsReplyTo(M[j].msg, awaited[e])}
           a == SubSeq(M, 1, i - 1)
           b == SubSeq(M, i + 1, Len(M))
<1>1. Len(M) \in Nat
  BY LenProperties
<1>2. i = IF I # {} THEN Min(I) ELSE 0
  BY DEF Match, SelectInSeq
<1>3. I \subseteq Nat
  BY <1>1
<1>4. i \in I
  <2> HIDE DEF I
  <2>1. I # {} /\ i = Min(I)
    BY <1>2
  <2> QED BY <1>3, <2>1, MinProperties
<1>5. i \in 1..Len(M) /\ IsReplyTo(M[i].msg, awaited[e])
  BY <1>4
<1>6. M[i] \in Message /\ i - 1 \in 0..Len(M) /\ i \in 0..Len(M)
  BY <1>1, <1>5, ElementOfSeq
<1>7. a \in Seq(Message) /\ b \in Seq(Message) /\ SubSeq(M, 1, i) \in Seq(Message) /\ SubSeq(M, 1, i) \o b = M
  BY <1>6, CutInTwo
<1>8. SubSeq(M, 1, i) = a \o <<M[i]>> /\ <<M[i]>> \in Seq(Message)
  <2>1. 1 \in 1..Len(M) /\ i \in 1..Len(M) /\ 1 <= i /\ i \in Int
    BY <1>1, <1>5
  <2>2. SubSeq(M, 1, i) = SubSeq(M, 1, i - 1) \o <<M[i]>>
    BY <2>1, SubSeqRecursiveSecond
  <2>3. <<M[i]>> \in Seq(Message)
    BY <1>6
  <2> QED BY <2>2, <2>3
<1>9. ForEndpoint(<<M[i]>>) = <<>>
  <2>1. IsReply(M[i].msg)
    BY <1>5 DEF IsReply, IsReplyTo
  <2>2. mineOf[M[i]] = <<>>
    BY <1>6, <2>1 DEF mineOf
  <2>3. Maps(mineOf, Message, Message)
    BY MapsTyped
  <2>4. \A s \in Seq(Message), x \in Message : Images(Append(s, x), mineOf) = Images(s, mineOf) \o mineOf[x]
    BY <2>3, ImagesProperties
  <2>5. Images(<<>>, mineOf) = <<>>
    BY <2>3, ImagesProperties
  <2>6. <<>> \in Seq(Message) /\ Append(<<>>, M[i]) = <<M[i]>>
    BY <1>6, EmptySeq, AppendProperties
  <2>7. Images(<<M[i]>>, mineOf) = <<>> \o <<>>
    BY <1>6, <2>2, <2>4, <2>5, <2>6
  <2> QED BY <1>8, <2>6, <2>7, ConcatEmptySeq, JoinedAreImages
<1> HIDE DEF I, a, b
<1>10. ForEndpoint(M) = ForEndpoint(a) \o ForEndpoint(b)
  <2>1. ForEndpoint(a \o <<M[i]>>) = ForEndpoint(a) \o <<>>
    BY <1>7, <1>8, <1>9, ForEndpointTyped, ZenonT(30)
  <2>2. ForEndpoint(a) \in Seq(Message)
    BY <1>7, ForEndpointTyped
  <2>3. ForEndpoint(SubSeq(M, 1, i)) = ForEndpoint(a)
    BY <1>8, <2>1, <2>2, ConcatEmptySeq
  <2>4. ForEndpoint(SubSeq(M, 1, i) \o b) = ForEndpoint(SubSeq(M, 1, i)) \o ForEndpoint(b)
    BY <1>7, ForEndpointTyped
  <2> QED BY <1>7, <2>3, <2>4
<1>11. RemoveAt(M, i) = a \o b
  BY DEF RemoveAt, a, b
<1>12. a \o b \in Seq(Message) /\ ForEndpoint(a \o b) = ForEndpoint(a) \o ForEndpoint(b)
  BY <1>7, ForEndpointTyped, ConcatProperties
<1> QED BY <1>10, <1>11, <1>12

\* What handle_messages() posts.
Answers(R) == [i \in 1..Len(R) |-> Queued(Payload(R[i]))]

Replies == {Reply[r] : r \in Request}

LEMMA HandleEffect ==
    ASSUME NEW e \in End, NEW M \in Seq(Message), Handle(e, M)
    PROVE  /\ handled' = [handled EXCEPT ![e] = @ \o ForEndpoint(M)]
           /\ \E R \in Seq(Msg) :
                 /\ R \in Seq(Replies)
                 /\ retained' = [retained EXCEPT ![e] = @ \o Each(R, Fds)]
                 /\ queue' = [queue EXCEPT ![e] = @ \o Answers(R)]
                 /\ queueFds' = [queueFds EXCEPT ![e] = @ \o Each(R, Fds)]
                 /\ posted' = [posted EXCEPT ![e] = @ \o R]
<1> DEFINE requests == Those(ForEndpoint(M), LAMBDA m : m.msg \in Request)
           R == IF open[e] THEN [i \in 1..Len(requests) |-> Reply[requests[i].msg]] ELSE <<>>
           Asking == {m \in Message : m.msg \in Request}
<1>1. requests \in Seq(Asking)
  <2>1. Maps(requestOf, Message, Asking)
    <3>1. ASSUME NEW m \in Message PROVE requestOf[m] \in Seq(Asking)
      <4>1. CASE m.msg \in Request
        <5>1. m \in Asking
          BY <4>1
        <5> HIDE DEF Asking
        <5> QED BY <4>1, <5>1 DEF requestOf
      <4>2. CASE m.msg \notin Request
        BY <4>2, EmptySeq DEF requestOf
      <4> QED BY <4>1, <4>2
    <3>2. requestOf = [m \in Message |-> requestOf[m]]
      BY DEF requestOf
    <3> HIDE DEF Asking
    <3> QED BY <3>1, <3>2 DEF Maps
  <2>2. ForEndpoint(M) \in Seq(Message)
    BY ForEndpointTyped
  <2>3. requests = Images(ForEndpoint(M), requestOf)
    BY <2>2, JoinedAreImages
  <2> HIDE DEF requests, Asking
  <2>4. \A s \in Seq(Message) : Images(s, requestOf) \in Seq(Asking)
    BY <2>1, ImagesProperties
  <2> QED BY <2>2, <2>3, <2>4
<1>2. R \in Seq(Msg) /\ R \in Seq(Replies)
  <2>1. Len(requests) \in Nat /\ \A i \in 1..Len(requests) : requests[i].msg \in Request
    <3> HIDE DEF requests
    <3>1. \A i \in 1..Len(requests) : requests[i] \in Asking
      BY <1>1, ElementOfSeq
    <3> QED BY <1>1, <3>1, LenProperties
  <2>2. \A r \in Request : Reply[r] \in Msg /\ Reply[r] \in Replies
    BY MessageAssumption DEF Replies
  <2> HIDE DEF requests
  <2>3. /\ [i \in 1..Len(requests) |-> Reply[requests[i].msg]] \in [1..Len(requests) -> Msg]
        /\ [i \in 1..Len(requests) |-> Reply[requests[i].msg]] \in [1..Len(requests) -> Replies]
    BY <2>1, <2>2
  <2> QED BY <2>1, <2>3, EmptySeq
<1>3. /\ handled' = [handled EXCEPT ![e] = @ \o ForEndpoint(M)]
      /\ retained' = [retained EXCEPT ![e] = @ \o Each(R, Fds)]
      /\ queue' = [queue EXCEPT ![e] = @ \o Answers(R)]
      /\ queueFds' = [queueFds EXCEPT ![e] = @ \o Each(R, Fds)]
      /\ posted' = [posted EXCEPT ![e] = @ \o R]
  BY DEF Handle, Answers
<1> HIDE DEF R
<1> QED BY <1>2, <1>3

-----------------------------------------------------------------------------
(***************************************************************************)
(* The life of an end: a process that has died does nothing more, and an   *)
(* end without its socket has no IO thread.                                *)
(***************************************************************************)

Ended == {"done", "aborted", "crashed"}

Life ==
    \A e \in End :
        /\ main[e] = "dead" => /\ ~up[e] /\ ~open[e]
                               /\ \A t \in Thread : At[t] = e => retaining[t] = None
        /\ ~up[e] => io[e] \in Ended

\* What there is in common between the steps of an IO thread, and between those
\* of an owner.
LEMMA IOSteps ==
    ASSUME NEW e \in End, IOThread(e)
    PROVE  \/ IOVerifyFails(e)
           \/ /\ io[e] \notin Ended
              /\ \E at : io' = [io EXCEPT ![e] = at]
              /\ main' = main \/ (main[e] = "blocked" /\ main' = [main EXCEPT ![e] = "wait"])
              /\ UNCHANGED <<up, open, todo, retaining>>
<1> USE DEF Ended
<1>1. CASE IOLoop(e)
  BY <1>1 DEF IOLoop, posters, connection, os
<1>2. CASE IOState(e)
  BY <1>2 DEF IOState, posters, connection, os
<1>3. CASE IOPoll(e)
  BY <1>3 DEF IOPoll, posters, connection, os
<1>4. CASE IOReceive(e)
  BY <1>4 DEF IOReceive, posters, connection
<1>5. CASE IOParse(e)
  <2>1. io[e] \notin Ended
    BY <1>5 DEF IOParse
  <2>2. \E at : io' = [io EXCEPT ![e] = at]
    BY <1>5 DEF IOParse
  <2>3. main' = main \/ (main[e] = "blocked" /\ main' = [main EXCEPT ![e] = "wait"])
    BY <1>5 DEF IOParse, Broadcast
  <2>4. UNCHANGED <<up, open, todo, retaining>>
    BY <1>5 DEF IOParse, posters, os
  <2> QED BY <2>1, <2>2, <2>3, <2>4
<1>6. CASE IOWrite(e)
  <2>1. io[e] \notin Ended
    BY <1>6 DEF IOWrite
  <2>2. /\ io' = [io EXCEPT ![e] = "loop"] /\ UNCHANGED <<up, open, todo, retaining, main>>
    BY <1>6 DEF IOWrite, posters, connection
  <2> QED BY <2>1, <2>2
<1>7. CASE IOVerify(e)
  BY <1>7 DEF IOVerify, posters, connection, os
<1>8. CASE IOPublishEnd(e)
  BY <1>8 DEF IOPublishEnd, Broadcast, posters, os
<1> QED BY <1>1, <1>2, <1>3, <1>4, <1>5, <1>6, <1>7, <1>8 DEF IOThread

LEMMA OwnerSteps ==
    ASSUME NEW e \in End, OwnerThread(e) \/ \E how : Close(e, how)
    PROVE  /\ main[e] \notin {"dead", "posting"}
           /\ main' = main \/ \E now : now # "dead" /\ main' = [main EXCEPT ![e] = now]
           /\ open' = open \/ open' = [open EXCEPT ![e] = FALSE]
           /\ up' = up \/ (Joined(e) /\ io[e] = "done" /\ up' = [up EXCEPT ![e] = FALSE])
           /\ UNCHANGED <<io, todo, retaining>>
<1>1. CASE ReadHook(e) \/ DeferredHandle(e)
  BY <1>1 DEF ReadHook, DeferredHandle, posters, ioThread, os
<1>2. CASE DeferredShutdown(e) \/ \E how : Close(e, how)
  BY <1>2 DEF DeferredShutdown, Close, StopIOThread, posters, ioThread, os
<1>3. CASE Joined(e)
  BY <1>3 DEF Joined, posters, ioThread
<1>4. CASE SyncMatch(e)
  <2>1. /\ main[e] \notin {"dead", "posting"}
        /\ main' = [main EXCEPT ![e] = "events"] \/ main' = [main EXCEPT ![e] = "wait"]
    BY <1>4 DEF SyncMatch
  <2>2. UNCHANGED <<open, up, io, todo, retaining>>
    BY <1>4 DEF SyncMatch, posters, ioThread, os
  <2> QED BY <2>1, <2>2
<1>5. CASE SyncWait(e)
  BY <1>5 DEF SyncWait, posters, ioThread, os
<1>6. CASE SyncDrain(e)
  <2>1. /\ main[e] \notin {"dead", "posting"}
        /\ \E now \in {"match", "events", "joining"} : main' = [main EXCEPT ![e] = now]
        /\ open' = open \/ open' = [open EXCEPT ![e] = FALSE]
    BY <1>6 DEF SyncDrain, StopIOThread
  <2>2. UNCHANGED <<up, io, todo, retaining>>
    BY <1>6 DEF SyncDrain, posters, ioThread, os
  <2> QED BY <2>1, <2>2
<1> QED BY <1>1, <1>2, <1>3, <1>4, <1>5, <1>6 DEF OwnerThread

LEMMA LifeStays ==
    ControlTyped /\ PostersTyped /\ Life /\ [Next]_vars
        => /\ Life'
           /\ \A x \in End : (main[x] = "dead" => main'[x] = "dead") /\ (~up[x] => ~up'[x])
<1> SUFFICES ASSUME ControlTyped, PostersTyped, Life, [Next]_vars, NEW x \in End
             PROVE  /\ main'[x] = "dead" => /\ ~up'[x] /\ ~open'[x]
                                            /\ \A t \in Thread : At[t] = x => retaining'[t] = None
                    /\ ~up'[x] => io'[x] \in Ended
                    /\ main[x] = "dead" => main'[x] = "dead"
                    /\ ~up[x] => ~up'[x]
  BY DEF Life
<1> DEFINE Goal == /\ main'[x] = "dead" => /\ ~up'[x] /\ ~open'[x]
                                           /\ \A t \in Thread : At[t] = x => retaining'[t] = None
                   /\ ~up'[x] => io'[x] \in Ended
                   /\ main[x] = "dead" => main'[x] = "dead"
                   /\ ~up[x] => ~up'[x]
<1>0. /\ main[x] = "dead" => ~up[x] /\ ~open[x] /\ \A t \in Thread : At[t] = x => retaining[t] = None
      /\ ~up[x] => io[x] \in Ended
  BY DEF Life
<1>a. /\ main \in [End -> {"events", "posting", "match", "wait", "blocked", "drain", "joining", "dead"}]
      /\ io \in [End -> IOPosition] /\ up \in [End -> BOOLEAN] /\ open \in [End -> BOOLEAN]
      /\ retaining \in [Thread -> Msg \cup {None}]
  BY DEF ControlTyped, PostersTyped
<1>1. ASSUME UNCHANGED <<main, io, up, open, retaining>> PROVE Goal
  BY <1>0, <1>1
<1>2. CASE UNCHANGED vars
  BY <1>1, <1>2 DEF vars, posters, ioThread, connection, os
<1>3. ASSUME NEW t \in Thread, PostRefused(t) PROVE Goal
  BY <1>1, <1>3 DEF PostRefused, ioThread, connection, os
<1>4. ASSUME NEW t \in Thread, PostRetain(t) PROVE Goal
  <2>1. /\ At[t] \in End /\ open[At[t]]
        /\ main' = main \/ main' = [main EXCEPT ![At[t]] = "posting"]
        /\ retaining' = [retaining EXCEPT ![t] = Head(todo[t])]
        /\ UNCHANGED <<io, up, open>>
    BY <1>4, ThreadAssumption DEF PostRetain, ioThread, os
  <2> QED BY <1>0, <1>a, <2>1
<1>5. ASSUME NEW t \in Thread, PostEnqueue(t) PROVE Goal
  <2>1. /\ At[t] \in End /\ retaining[t] # None
        /\ main' = main \/ main' = [main EXCEPT ![At[t]] = "match"] \/ main' = [main EXCEPT ![At[t]] = "events"]
        /\ retaining' = [retaining EXCEPT ![t] = None]
        /\ UNCHANGED <<io, up, open>>
    BY <1>5, ThreadAssumption DEF PostEnqueue, ioThread, os
  <2>2. \A s \in Thread : retaining'[s] = None \/ retaining'[s] = retaining[s]
    BY <1>a, <2>1
  <2> QED BY <1>0, <1>a, <2>1, <2>2
<1>6. ASSUME NEW e \in End, NEW now \in {"aborted", "crashed"}, Die(e, now) PROVE Goal
  <2>1. /\ main' = [main EXCEPT ![e] = "dead"] /\ io' = [io EXCEPT ![e] = now] /\ up' = [up EXCEPT ![e] = FALSE]
        /\ open' = [open EXCEPT ![e] = FALSE]
        /\ retaining' = [t \in Thread |-> IF At[t] = e THEN None ELSE retaining[t]]
    BY <1>6 DEF Die
  <2>2. CASE x = e
    BY <1>a, <2>1, <2>2 DEF Ended
  <2>3. CASE x # e
    <3>1. main'[x] = main[x] /\ io'[x] = io[x] /\ up'[x] = up[x] /\ open'[x] = open[x]
      BY <1>a, <2>1, <2>3
    <3>2. \A t \in Thread : retaining'[t] = None \/ retaining'[t] = retaining[t]
      BY <2>1
    <3> QED BY <1>0, <3>1, <3>2
  <2> QED BY <2>2, <2>3
<1>7. ASSUME NEW e \in End, IOThread(e) PROVE Goal
  <2>1. CASE IOVerifyFails(e)
    BY <1>6, <2>1 DEF IOVerifyFails
  <2>2. CASE /\ io[e] \notin Ended
             /\ \E at : io' = [io EXCEPT ![e] = at]
             /\ main' = main \/ (main[e] = "blocked" /\ main' = [main EXCEPT ![e] = "wait"])
             /\ UNCHANGED <<up, open, todo, retaining>>
    BY <1>0, <1>a, <2>2
  <2> QED BY <1>7, <2>1, <2>2, IOSteps
<1>8. ASSUME NEW e \in End, OwnerThread(e) \/ \E how : Close(e, how) PROVE Goal
  <2>1. /\ main[e] # "dead"
        /\ main' = main \/ \E now : now # "dead" /\ main' = [main EXCEPT ![e] = now]
        /\ open' = open \/ open' = [open EXCEPT ![e] = FALSE]
        /\ up' = up \/ (io[e] = "done" /\ up' = [up EXCEPT ![e] = FALSE])
        /\ UNCHANGED <<io, retaining>>
    BY <1>8, OwnerSteps
  <2> QED BY <1>0, <1>a, <2>1 DEF Ended
<1>9. ASSUME NEW e \in End, Crash(e) PROVE Goal
  BY <1>6, <1>9 DEF Crash
<1> QED BY <1>2, <1>3, <1>4, <1>5, <1>7, <1>8, <1>9 DEF Next

-----------------------------------------------------------------------------
(***************************************************************************)
(* The actions that move data, and their effects on messages.              *)
(***************************************************************************)

data == <<queue, queueFds, retained, retaining, wire, up, posted, written, bytes, attached, incoming, unprocessed,
          taken, handled>>

LEMMA DataSteps ==
    ASSUME [Next]_vars
    PROVE  \/ UNCHANGED data
           \/ \E t \in Thread : PostRetain(t) \/ PostEnqueue(t)
           \/ \E e \in End : \/ IOReceive(e) \/ IOParse(e) \/ IOWrite(e) \/ Joined(e) \/ ReadHook(e)
                             \/ DeferredHandle(e) \/ SyncMatch(e) \/ SyncDrain(e)
                             \/ \E now \in {"aborted", "crashed"} : Die(e, now)
<1> USE DEF data, posters, sending, receiving, connection, os, history
<1>1. CASE UNCHANGED vars
  BY <1>1 DEF vars
<1>2. ASSUME NEW t \in Thread, PostRefused(t) PROVE UNCHANGED data
  BY <1>2 DEF PostRefused
<1>3. ASSUME NEW e \in End, IOLoop(e) \/ IOState(e) \/ IOPoll(e) \/ IOVerify(e) \/ IOPublishEnd(e)
      PROVE  UNCHANGED data
  <2>1. CASE IOLoop(e)
    BY <2>1 DEF IOLoop
  <2>2. CASE IOState(e)
    BY <2>2 DEF IOState
  <2>3. CASE IOPoll(e)
    BY <2>3 DEF IOPoll
  <2>4. CASE IOVerify(e) \/ IOPublishEnd(e)
    BY <2>4 DEF IOVerify, IOPublishEnd
  <2> QED BY <1>3, <2>1, <2>2, <2>3, <2>4
<1>4. ASSUME NEW e \in End, DeferredShutdown(e) \/ \E how : Close(e, how) PROVE UNCHANGED data
  BY <1>4 DEF DeferredShutdown, Close
<1>5. ASSUME NEW e \in End, SyncWait(e) PROVE UNCHANGED data
  BY <1>5 DEF SyncWait
<1> HIDE DEF data, posters, sending, receiving, connection, os, history
<1> QED BY <1>1, <1>2, <1>3, <1>4, <1>5 DEF Next, IOThread, OwnerThread, Crash, IOVerifyFails

ParsedUnits(e) == SubSeq(bytes[e], 1, Parsed(e))
ParsedMessages(e) == Batch(Those(ParsedUnits(e), IsLastOfPayload), attached[e])

LEMMA ParseTyped ==
    ASSUME ReadTyped, NEW e \in End
    PROVE  /\ ParsedUnits(e) \in Seq(Unit) /\ ParsedMessages(e) \in Seq(Message)
           /\ Len(Announced(ParsedUnits(e))) <= Len(attached[e])
<1>1. bytes[e] \in Seq(Unit) /\ attached[e] \in Seq(Descriptor)
  BY DEF ReadTyped
<1>2. ParsedUnits(e) \in Seq(Unit) /\ Len(Announced(ParsedUnits(e))) <= Len(attached[e])
  BY <1>1, ParsedProperties DEF ParsedUnits
<1>3. ParsedMessages(e) \in Seq(Message)
  BY <1>1, <1>2, BatchProperties DEF ParsedMessages
<1> QED BY <1>2, <1>3

LEMMA MessagesStay ==
    ASSUME MessagesTyped, ReadTyped, [Next]_vars
    PROVE  MessagesTyped'
<1> USE DEF MessagesTyped
<1>0. /\ \A e \in End : /\ incoming[e] \in Seq(Message) /\ unprocessed[e] \in Seq(Message)
                        /\ taken[e] \in Seq(Message) /\ handled[e] \in Seq(Message)
      /\ \A M, N \in Seq(Message) : M \o N \in Seq(Message)
      /\ \A M \in Seq(Message) : ForEndpoint(M) \in Seq(Message)
      /\ <<>> \in Seq(Message)
  BY ConcatProperties, EmptySeq, ForEndpointTyped
<1>1. ASSUME UNCHANGED <<incoming, unprocessed, taken, handled>> PROVE MessagesTyped'
  BY <1>1
<1>2. CASE UNCHANGED data
  BY <1>1, <1>2 DEF data
<1>3. ASSUME NEW t \in Thread, PostRetain(t) \/ PostEnqueue(t) PROVE MessagesTyped'
  <2>1. CASE PostRetain(t)
    BY <1>1, <2>1 DEF PostRetain, receiving, history
  <2>2. CASE PostEnqueue(t)
    BY <1>1, <2>2 DEF PostEnqueue, receiving
  <2> QED BY <1>3, <2>1, <2>2
<1>4. ASSUME NEW e \in End, IOReceive(e) \/ IOWrite(e) \/ Joined(e) PROVE MessagesTyped'
  <2>1. CASE IOReceive(e)
    BY <1>1, <2>1 DEF IOReceive, connection, history
  <2>2. CASE IOWrite(e)
    BY <1>1, <2>2 DEF IOWrite, receiving, connection
  <2>3. CASE Joined(e)
    BY <1>1, <2>3 DEF Joined, receiving, history
  <2> QED BY <1>4, <2>1, <2>2, <2>3
<1>5. ASSUME NEW e \in End, IOParse(e) PROVE MessagesTyped'
  <2>1. /\ incoming' = [incoming EXCEPT ![e] = @ \o ParsedMessages(e)]
        /\ UNCHANGED <<unprocessed, taken, handled>>
    BY <1>5 DEF IOParse, ParsedMessages, ParsedUnits, history
  <2>2. incoming[e] \o ParsedMessages(e) \in Seq(Message)
    BY <1>0, ParseTyped
  <2> QED BY <2>1, <2>2
<1>6. ASSUME NEW e \in End, NEW now, Die(e, now) PROVE MessagesTyped'
  <2>1. /\ incoming' = [incoming EXCEPT ![e] = <<>>] /\ unprocessed' = [unprocessed EXCEPT ![e] = <<>>]
        /\ UNCHANGED <<taken, handled>>
    BY <1>6 DEF Die
  <2> QED BY <1>0, <2>1
<1>7. ASSUME NEW e \in End, ReadHook(e) PROVE MessagesTyped'
  <2>1. /\ incoming' = [incoming EXCEPT ![e] = <<>>] /\ taken' = [taken EXCEPT ![e] = @ \o incoming[e]]
        /\ unprocessed' = [unprocessed EXCEPT ![e] = <<>>] /\ Handle(e, Drained(e))
    BY <1>7 DEF ReadHook, Drain
  <2>2. Drained(e) \in Seq(Message)
    BY <1>0 DEF Drained
  <2>3. handled' = [handled EXCEPT ![e] = @ \o ForEndpoint(Drained(e))]
    BY <2>1, <2>2, HandleEffect
  <2>4. handled[e] \o ForEndpoint(Drained(e)) \in Seq(Message) /\ taken[e] \o incoming[e] \in Seq(Message)
    BY <1>0, <2>2
  <2> QED BY <1>0, <2>1, <2>3, <2>4
<1>8. ASSUME NEW e \in End, DeferredHandle(e) PROVE MessagesTyped'
  <2>1. /\ unprocessed' = [unprocessed EXCEPT ![e] = <<>>] /\ Handle(e, unprocessed[e])
        /\ UNCHANGED <<incoming, taken>>
    BY <1>8 DEF DeferredHandle, receiving
  <2>2. handled' = [handled EXCEPT ![e] = @ \o ForEndpoint(unprocessed[e])]
    BY <1>0, <2>1, HandleEffect
  <2>3. handled[e] \o ForEndpoint(unprocessed[e]) \in Seq(Message)
    BY <1>0
  <2> QED BY <1>0, <2>1, <2>2, <2>3
<1>9. ASSUME NEW e \in End, SyncMatch(e) PROVE MessagesTyped'
  <2> DEFINE i == Match(e, unprocessed[e])
  <2>1. /\ unprocessed' = unprocessed \/ (i > 0 /\ unprocessed' = [unprocessed EXCEPT ![e] = RemoveAt(@, i)])
        /\ UNCHANGED <<incoming, taken, handled>>
    BY <1>9 DEF SyncMatch, receiving
  <2>2. i > 0 => RemoveAt(unprocessed[e], i) \in Seq(Message)
    BY <1>0, WithoutReply
  <2> QED BY <2>1, <2>2
<1>10. ASSUME NEW e \in End, SyncDrain(e) PROVE MessagesTyped'
  <2> DEFINE i == Match(e, Drained(e))
  <2>1. /\ incoming' = [incoming EXCEPT ![e] = <<>>] /\ taken' = [taken EXCEPT ![e] = @ \o incoming[e]]
        /\ \/ unprocessed' = [unprocessed EXCEPT ![e] = Drained(e)]
           \/ (i > 0 /\ unprocessed' = [unprocessed EXCEPT ![e] = RemoveAt(Drained(e), i)])
        /\ UNCHANGED handled
    BY <1>10 DEF SyncDrain, Drain
  <2>2. Drained(e) \in Seq(Message) /\ taken[e] \o incoming[e] \in Seq(Message)
    BY <1>0 DEF Drained
  <2>3. i > 0 => RemoveAt(Drained(e), i) \in Seq(Message)
    BY <2>2, WithoutReply
  <2> QED BY <1>0, <2>1, <2>2, <2>3
<1> QED BY <1>2, <1>3, <1>4, <1>5, <1>6, <1>7, <1>8, <1>9, <1>10, DataSteps

LEMMA DispatchedStays ==
    ASSUME MessagesTyped, ReadTyped, ControlTyped, PostersTyped, Life, DispatchedInOrder, [Next]_vars
    PROVE  DispatchedInOrder'
<1> SUFFICES ASSUME NEW x \in End, main'[x] # "dead"
             PROVE  ForEndpoint(taken'[x]) = handled'[x] \o ForEndpoint(unprocessed'[x])
  BY DEF DispatchedInOrder
<1> DEFINE Goal == ForEndpoint(taken'[x]) = handled'[x] \o ForEndpoint(unprocessed'[x])
<1>0. /\ \A e \in End : /\ incoming[e] \in Seq(Message) /\ unprocessed[e] \in Seq(Message)
                        /\ taken[e] \in Seq(Message) /\ handled[e] \in Seq(Message)
      /\ unprocessed \in [End -> Seq(Message)] /\ taken \in [End -> Seq(Message)]
      /\ handled \in [End -> Seq(Message)]
  BY DEF MessagesTyped
<1>a. /\ \A M, N \in Seq(Message) : M \o N \in Seq(Message)
      /\ \A M \in Seq(Message) : ForEndpoint(M) \in Seq(Message)
      /\ \A M, N \in Seq(Message) : ForEndpoint(M \o N) = ForEndpoint(M) \o ForEndpoint(N)
      /\ \A M, N, O \in Seq(Message) : (M \o N) \o O = M \o (N \o O)
      /\ \A M \in Seq(Message) : M \o <<>> = M
      /\ ForEndpoint(<<>>) = <<>>
  <2>1. \A M, N \in Seq(Message) : M \o N \in Seq(Message)
    BY ConcatProperties
  <2>2. \A M, N, O \in Seq(Message) : (M \o N) \o O = M \o (N \o O)
    BY ConcatAssociative
  <2>3. \A M \in Seq(Message) : M \o <<>> = M
    BY ConcatEmptySeq
  <2> QED BY <2>1, <2>2, <2>3, ForEndpointTyped
<1>b. ForEndpoint(taken[x]) = handled[x] \o ForEndpoint(unprocessed[x])
  <2>1. main[x] # "dead"
    BY LifeStays
  <2> QED BY <2>1 DEF DispatchedInOrder
<1>c. \* What was drained is dispatched in order whether with what came before or after it.
      /\ ForEndpoint(taken[x] \o incoming[x]) = handled[x] \o ForEndpoint(Drained(x))
      /\ Drained(x) \in Seq(Message)
  <2>1. ForEndpoint(taken[x] \o incoming[x]) = ForEndpoint(taken[x]) \o ForEndpoint(incoming[x])
    BY <1>0, <1>a
  <2>2. ForEndpoint(Drained(x)) = ForEndpoint(unprocessed[x]) \o ForEndpoint(incoming[x]) /\ Drained(x) \in Seq(Message)
    BY <1>0, <1>a DEF Drained
  <2>3. (handled[x] \o ForEndpoint(unprocessed[x])) \o ForEndpoint(incoming[x])
            = handled[x] \o (ForEndpoint(unprocessed[x]) \o ForEndpoint(incoming[x]))
    <3>1. handled[x] \in Seq(Message) /\ ForEndpoint(unprocessed[x]) \in Seq(Message) /\ ForEndpoint(incoming[x]) \in Seq(Message)
      BY <1>0, <1>a
    <3>2. \A M, N, O \in Seq(Message) : (M \o N) \o O = M \o (N \o O)
      BY ConcatAssociative
    <3> QED BY <3>1, <3>2, Zenon
  <2> QED BY <1>b, <2>1, <2>2, <2>3
<1>1. ASSUME unprocessed'[x] = unprocessed[x], taken'[x] = taken[x], handled'[x] = handled[x] PROVE Goal
  BY <1>1, <1>b
<1>2. CASE UNCHANGED data
  BY <1>1, <1>2 DEF data
<1>3. ASSUME NEW t \in Thread, PostRetain(t) \/ PostEnqueue(t) PROVE Goal
  <2>1. CASE PostRetain(t)
    BY <1>1, <2>1 DEF PostRetain, connection, history
  <2>2. CASE PostEnqueue(t)
    BY <1>1, <2>2 DEF PostEnqueue
  <2> QED BY <1>3, <2>1, <2>2
<1>4. ASSUME NEW e \in End, IOReceive(e) \/ IOParse(e) \/ IOWrite(e) \/ Joined(e) PROVE Goal
  <2>1. CASE IOReceive(e)
    BY <1>1, <2>1 DEF IOReceive, connection, history
  <2>2. CASE IOWrite(e)
    BY <1>1, <2>2 DEF IOWrite, connection
  <2>3. CASE Joined(e)
    BY <1>1, <2>3 DEF Joined, history
  <2>4. CASE IOParse(e)
    BY <1>1, <2>4 DEF IOParse, history
  <2> QED BY <1>4, <2>1, <2>2, <2>3, <2>4
<1>6. ASSUME NEW e \in End, NEW now, Die(e, now) PROVE Goal
  <2>1. /\ main' = [main EXCEPT ![e] = "dead"] /\ unprocessed' = [unprocessed EXCEPT ![e] = <<>>]
        /\ UNCHANGED <<taken, handled>>
    BY <1>6 DEF Die
  <2>2. e # x
    BY <2>1 DEF ControlTyped
  <2> QED BY <1>0, <1>1, <2>1, <2>2
<1>7. ASSUME NEW e \in End, ReadHook(e) PROVE Goal
  <2>1. /\ taken' = [taken EXCEPT ![e] = @ \o incoming[e]]
        /\ unprocessed' = [unprocessed EXCEPT ![e] = <<>>] /\ Handle(e, Drained(e))
    BY <1>7 DEF ReadHook, Drain
  <2>2. CASE e # x
    <3>1. handled'[x] = handled[x]
      BY <1>0, <2>1, <2>2 DEF Handle
    <3> QED BY <1>0, <1>1, <2>1, <2>2, <3>1
  <2>3. CASE e = x
    <3>1. handled' = [handled EXCEPT ![x] = @ \o ForEndpoint(Drained(x))]
      BY <1>c, <2>1, <2>3, HandleEffect
    <3>2. taken'[x] = taken[x] \o incoming[x] /\ unprocessed'[x] = <<>> /\ handled'[x] = handled[x] \o ForEndpoint(Drained(x))
      BY <1>0, <2>1, <2>3, <3>1
    <3>3. handled[x] \o ForEndpoint(Drained(x)) \in Seq(Message)
      BY <1>0, <1>a, <1>c
    <3>4. handled'[x] \o ForEndpoint(unprocessed'[x]) = handled'[x]
      <4>1. handled'[x] \in Seq(Message) /\ ForEndpoint(unprocessed'[x]) = <<>>
        BY <1>a, <3>2, <3>3
      <4> QED BY <1>a, <4>1
    <3> QED BY <1>c, <3>2, <3>4
  <2> QED BY <2>2, <2>3
<1>8. ASSUME NEW e \in End, DeferredHandle(e) PROVE Goal
  <2>1. /\ unprocessed' = [unprocessed EXCEPT ![e] = <<>>] /\ Handle(e, unprocessed[e]) /\ taken' = taken
    BY <1>8 DEF DeferredHandle
  <2>2. CASE e # x
    <3>1. handled'[x] = handled[x]
      BY <1>0, <2>1, <2>2 DEF Handle
    <3> QED BY <1>0, <1>1, <2>1, <2>2, <3>1
  <2>3. CASE e = x
    <3>1. handled' = [handled EXCEPT ![x] = @ \o ForEndpoint(unprocessed[x])]
      BY <1>0, <2>1, <2>3, HandleEffect
    <3>2. unprocessed'[x] = <<>> /\ handled'[x] = handled[x] \o ForEndpoint(unprocessed[x])
      BY <1>0, <2>1, <2>3, <3>1
    <3>3. handled[x] \o ForEndpoint(unprocessed[x]) \in Seq(Message)
      BY <1>0, <1>a
    <3>4. handled'[x] \o ForEndpoint(unprocessed'[x]) = handled'[x]
      <4>1. handled'[x] \in Seq(Message) /\ ForEndpoint(unprocessed'[x]) = <<>>
        BY <1>a, <3>2, <3>3
      <4> QED BY <1>a, <4>1
    <3> QED BY <1>b, <2>1, <3>2, <3>4
  <2> QED BY <2>2, <2>3
<1>9. ASSUME NEW e \in End, SyncMatch(e) PROVE Goal
  <2> DEFINE i == Match(e, unprocessed[e])
  <2>1. /\ unprocessed' = unprocessed \/ (i > 0 /\ unprocessed' = [unprocessed EXCEPT ![e] = RemoveAt(@, i)])
        /\ UNCHANGED <<taken, handled>>
    BY <1>9 DEF SyncMatch
  <2>2. i > 0 => ForEndpoint(RemoveAt(unprocessed[e], i)) = ForEndpoint(unprocessed[e])
    BY <1>0, WithoutReply
  <2>3. ForEndpoint(unprocessed'[x]) = ForEndpoint(unprocessed[x])
    BY <1>0, <2>1, <2>2
  <2> QED BY <1>b, <2>1, <2>3
<1>10. ASSUME NEW e \in End, SyncDrain(e) PROVE Goal
  <2> DEFINE i == Match(e, Drained(e))
  <2>1. /\ taken' = [taken EXCEPT ![e] = @ \o incoming[e]]
        /\ \/ unprocessed' = [unprocessed EXCEPT ![e] = Drained(e)]
           \/ (i > 0 /\ unprocessed' = [unprocessed EXCEPT ![e] = RemoveAt(Drained(e), i)])
        /\ UNCHANGED handled
    BY <1>10 DEF SyncDrain, Drain
  <2>2. CASE e # x
    BY <1>0, <1>1, <2>1, <2>2
  <2>3. CASE e = x
    <3>1. i > 0 => ForEndpoint(RemoveAt(Drained(x), i)) = ForEndpoint(Drained(x))
      BY <1>c, <2>3, WithoutReply
    <3>2. ForEndpoint(unprocessed'[x]) = ForEndpoint(Drained(x)) /\ taken'[x] = taken[x] \o incoming[x]
      BY <1>0, <2>1, <2>3, <3>1
    <3> QED BY <1>c, <2>1, <3>2
  <2> QED BY <2>2, <2>3
<1> QED BY <1>2, <1>3, <1>4, <1>6, <1>7, <1>8, <1>9, <1>10, DataSteps

-----------------------------------------------------------------------------
(***************************************************************************)
(* What a queue still has to send: descriptors, and ends of messages.      *)
(***************************************************************************)

LEMMA ImagesAllEmpty ==
    ASSUME NEW U, NEW V, NEW f, Maps(f, U, V), NEW T, T \subseteq U, \A x \in T : f[x] = <<>>
    PROVE  \A s \in Seq(T) : Images(s, f) = <<>>
<1> DEFINE G == {s \in Seq(T) : Images(s, f) = <<>>}
<1>1. <<>> \in G
  BY EmptySeq, ImagesProperties
<1>2. ASSUME NEW s \in Seq(T), NEW x \in T, s \in G PROVE Append(s, x) \in G
  <2>1. s \in Seq(U) /\ x \in U /\ Append(s, x) \in Seq(T)
    BY AppendProperties, SeqMonotonic
  <2>2. Images(Append(s, x), f) = Images(s, f) \o f[x]
    BY <2>1, ImagesProperties
  <2>3. Images(s, f) = <<>> /\ f[x] = <<>>
    BY <1>2
  <2> QED BY <2>1, <2>2, <2>3, EmptySeq, ConcatEmptySeq
<1>3. Seq(T) \subseteq G
  <2> HIDE DEF G
  <2> QED BY <1>1, <1>2, SequencesByAppending
<1> QED BY <1>3

LEMMA LengthOfImages ==
    ASSUME NEW U, NEW V, NEW W, NEW f, Maps(f, U, V), NEW g, Maps(g, U, W),
           \A x \in U : Len(f[x]) = Len(g[x])
    PROVE  \A s \in Seq(U) : Len(Images(s, f)) = Len(Images(s, g))
<1> DEFINE G == {s \in Seq(U) : Len(Images(s, f)) = Len(Images(s, g))}
<1>1. <<>> \in G
  BY EmptySeq, ImagesProperties
<1>2. ASSUME NEW s \in Seq(U), NEW x \in U, s \in G PROVE Append(s, x) \in G
  <2>1. Append(s, x) \in Seq(U)
    BY AppendProperties
  <2>2. Images(Append(s, x), f) = Images(s, f) \o f[x] /\ Images(s, f) \in Seq(V) /\ f[x] \in Seq(V)
    <3>1. f[x] \in Seq(V)
      BY DEF Maps
    <3> QED BY <3>1, ImagesProperties
  <2>3. Images(Append(s, x), g) = Images(s, g) \o g[x] /\ Images(s, g) \in Seq(W) /\ g[x] \in Seq(W)
    <3>1. g[x] \in Seq(W)
      BY DEF Maps
    <3> QED BY <3>1, ImagesProperties
  <2>4. Len(Images(Append(s, x), f)) = Len(Images(s, f)) + Len(f[x])
    BY <2>2, ConcatProperties
  <2>5. Len(Images(Append(s, x), g)) = Len(Images(s, g)) + Len(g[x])
    BY <2>3, ConcatProperties
  <2>6. Len(Images(s, f)) = Len(Images(s, g))
    BY <1>2
  <2> QED BY <2>1, <2>4, <2>5, <2>6
<1>3. Seq(U) \subseteq G
  <2> HIDE DEF G
  <2> QED BY <1>1, <1>2, SequencesByAppending
<1> QED BY <1>3

\* What h says of each frame, at its last unit; of the frames that end in U.
AtEnd(h) == [u \in Unit |-> IF IsLastUnit(u) THEN h[u.frame] ELSE <<>>]
Say(U, h) == Images(U, AtEnd(h))

LEMMA SayTyped ==
    ASSUME NEW V, NEW h, Maps(h, Frame, V)
    PROVE  /\ Maps(AtEnd(h), Unit, V)
           /\ Say(<<>>, h) = <<>>
           /\ \A U \in Seq(Unit) : Say(U, h) \in Seq(V) /\ Len(Say(U, h)) \in Nat
           /\ \A U, W \in Seq(Unit) : Say(U \o W, h) = Say(U, h) \o Say(W, h)
           /\ \A U \in Seq({u \in Unit : ~IsLastUnit(u)}) : Say(U, h) = <<>>
<1>1. Maps(AtEnd(h), Unit, V)
  <2>1. ASSUME NEW u \in Unit PROVE (IF IsLastUnit(u) THEN h[u.frame] ELSE <<>>) \in Seq(V)
    <3>1. u.frame \in Frame
      BY DEF Unit
    <3>2. h[u.frame] \in Seq(V) /\ <<>> \in Seq(V)
      BY <3>1, EmptySeq DEF Maps
    <3> QED BY <3>2
  <2> QED BY <2>1 DEF Maps, AtEnd
<1>2. Say(<<>>, h) = <<>>
  BY <1>1, ImagesProperties DEF Say
<1>3. \A U \in Seq(Unit) : Say(U, h) \in Seq(V) /\ Len(Say(U, h)) \in Nat
  BY <1>1, ImagesProperties, LenProperties DEF Say
<1>4. \A U, W \in Seq(Unit) : Say(U \o W, h) = Say(U, h) \o Say(W, h)
  BY <1>1, ImagesOfConcat DEF Say
<1>5. \A U \in Seq({u \in Unit : ~IsLastUnit(u)}) : Say(U, h) = <<>>
  <2> DEFINE T == {u \in Unit : ~IsLastUnit(u)}
  <2>1. T \subseteq Unit /\ \A u \in T : AtEnd(h)[u] = <<>>
    BY DEF AtEnd
  <2> HIDE DEF T
  <2>2. \A U \in Seq(T) : Images(U, AtEnd(h)) = <<>>
    BY <1>1, <2>1, ImagesAllEmpty
  <2> QED BY <2>2 DEF Say, T
<1> QED BY <1>1, <1>2, <1>3, <1>4, <1>5

\* The units of a queued frame end with what is said of it.
LEMMA UnitsSay ==
    ASSUME NEW V, NEW h, Maps(h, Frame, V), NEW q \in Entry
    PROVE  Say(UnitsOf(q), h) = h[q.frame]
<1> DEFINE r == Remaining(q)
           X == UnitsOf(q)
           Early == {u \in Unit : ~IsLastUnit(u)}
           front == SubSeq(X, 1, r - 1)
<1>1. /\ r \in Nat \ {0} /\ X \in Seq(Unit) /\ Len(X) = r
      /\ \A k \in 1..r : X[k] = [frame |-> q.frame, at |-> q.offset + k, fds |-> <<>>]
  BY UnitsOfTyped
<1>2. q.offset \in Nat /\ q.frame \in Frame /\ Size(q.frame) \in Nat /\ r = Size(q.frame) - q.offset
  <2>1. q.frame \in Frame /\ q.offset \in Nat
    BY DEF Entry
  <2> QED BY <2>1, SizePositive DEF Remaining
<1>3. X[r] \in Unit /\ X[r].frame = q.frame /\ IsLastUnit(X[r])
  <2>1. r \in 1..r /\ q.offset + r = Size(q.frame)
    BY <1>1, <1>2
  <2>2. X[r] = [frame |-> q.frame, at |-> q.offset + r, fds |-> <<>>]
    BY <1>1, <2>1
  <2>3. X[r] \in Unit
    <3> HIDE DEF X, r
    <3> QED BY <1>1, <2>1, ElementOfSeq
  <2> QED BY <2>1, <2>2, <2>3 DEF IsLastUnit
<1>4. ASSUME NEW k \in 1..(r - 1) PROVE X[k] \in Early
  <2>1. k \in 1..r /\ q.offset + k # Size(q.frame)
    BY <1>1, <1>2
  <2>2. X[k] = [frame |-> q.frame, at |-> q.offset + k, fds |-> <<>>]
    BY <1>1, <2>1
  <2>3. X[k] \in Unit
    <3> HIDE DEF X, r
    <3> QED BY <1>1, <2>1, ElementOfSeq
  <2> QED BY <2>1, <2>2, <2>3 DEF IsLastUnit
<1> HIDE DEF X, r, Early
<1>5. front \in Seq(Unit) /\ Len(front) = r - 1
  <2>1. r - 1 \in 0..Len(X)
    BY <1>1
  <2> QED BY <1>1, <2>1, CutInTwo
<1>6. front \in Seq(Early)
  <2>1. \A k \in 1..(r - 1) : front[k] = X[k]
    BY <1>1, SubSeqProperties
  <2>2. front = [k \in 1..Len(front) |-> front[k]] /\ Len(front) \in Nat
    BY <1>5, LenProperties
  <2> HIDE DEF front
  <2>3. front \in [1..Len(front) -> Early]
    BY <1>4, <1>5, <2>1, <2>2
  <2> QED BY <2>2, <2>3
<1>7. X = Append(front, X[r])
  <2>1. SubSeq(X, 1, r) = SubSeq(X, 1, r - 1) \o <<X[r]>>
    <3>1. 1 \in 1..Len(X) /\ r \in 1..Len(X)
      BY <1>1
    <3> QED BY <1>1, <3>1, SubSeqRecursiveSecond
  <2>2. SubSeq(X, 1, r) = X
    BY <1>1, SubSeqFull
  <2> QED BY <1>3, <1>5, <2>1, <2>2, AppendIsConcat
<1> HIDE DEF front
<1>8. Say(front, h) = <<>>
  BY <1>6, SayTyped DEF Early
<1>9. Images(Append(front, X[r]), AtEnd(h)) = Images(front, AtEnd(h)) \o AtEnd(h)[X[r]]
  <2>1. Maps(AtEnd(h), Unit, V)
    BY SayTyped
  <2>2. \A s \in Seq(Unit), u \in Unit : Images(Append(s, u), AtEnd(h)) = Images(s, AtEnd(h)) \o AtEnd(h)[u]
    BY <2>1, ImagesProperties
  <2> QED BY <1>3, <1>5, <2>2
<1>10. AtEnd(h)[X[r]] = h[q.frame] /\ h[q.frame] \in Seq(V)
  BY <1>2, <1>3 DEF AtEnd, Maps
<1>11. Say(X, h) = h[q.frame]
  BY <1>7, <1>8, <1>9, <1>10, ConcatEmptySeq DEF Say
<1> QED BY <1>11 DEF X

\* The descriptors of a unit do not count.
LEMMA SayTheSame ==
    ASSUME NEW h, NEW U \in Seq(Unit), NEW W \in Seq(Unit), Len(U) = Len(W),
           \A i \in 1..Len(W) : U[i].frame = W[i].frame /\ U[i].at = W[i].at
    PROVE  Say(U, h) = Say(W, h)
<1>1. \A i \in 1..Len(W) : U[i] \in Unit /\ W[i] \in Unit
  BY ElementOfSeq
<1>2. \A i \in 1..Len(W) : AtEnd(h)[U[i]] = AtEnd(h)[W[i]]
  BY <1>1 DEF AtEnd, IsLastUnit
<1>3. [i \in 1..Len(U) |-> AtEnd(h)[U[i]]] = [i \in 1..Len(W) |-> AtEnd(h)[W[i]]]
  BY <1>2
<1> QED BY <1>3 DEF Say, Images

carriedOf == [f \in Frame |-> Carried(f)]

LEMMA AnnouncedIsSaid ==
    /\ Maps(carriedOf, Frame, Descriptor)
    /\ \A U \in Seq(Unit) : Announced(U) = Say(U, carriedOf)
<1>1. Maps(carriedOf, Frame, Descriptor)
  BY CarriedTyped DEF Maps, carriedOf
<1>2. announcedBy = AtEnd(carriedOf)
  <2>1. \A u \in Unit : u.frame \in Frame
    BY DEF Unit
  <2>2. \A u \in Unit : (IF IsLastOfPayload(u) THEN Fds(u.frame.msg) ELSE <<>>)
                          = (IF IsLastUnit(u) THEN carriedOf[u.frame] ELSE <<>>)
    BY <2>1 DEF IsLastOfPayload, carriedOf, Carried
  <2> QED BY <2>2 DEF announcedBy, AtEnd
<1> QED BY <1>1, <1>2, JoinedAreImages DEF Say

\* The messages that end in U, and how many they are.
endOf == [f \in Frame |-> IF f.type = "Payload" THEN <<f.msg>> ELSE <<>>]
Endings(U) == Say(U, endOf)
Marks(U) == Len(Endings(U))

LEMMA EndingsTyped ==
    /\ Maps(endOf, Frame, Msg)
    /\ Endings(<<>>) = <<>>
    /\ \A U \in Seq(Unit) : Endings(U) \in Seq(Msg)
    /\ \A U, W \in Seq(Unit) : Endings(U \o W) = Endings(U) \o Endings(W)
<1>1. Maps(endOf, Frame, Msg)
  <2>1. ASSUME NEW f \in Frame PROVE (IF f.type = "Payload" THEN <<f.msg>> ELSE <<>>) \in Seq(Msg)
    <3>1. f.type = "Payload" => f.msg \in Msg
      BY DEF Frame
    <3> QED BY <3>1, EmptySeq
  <2> QED BY <2>1 DEF Maps, endOf
<1>2. /\ Say(<<>>, endOf) = <<>>
      /\ \A U \in Seq(Unit) : Say(U, endOf) \in Seq(Msg)
      /\ \A U, W \in Seq(Unit) : Say(U \o W, endOf) = Say(U, endOf) \o Say(W, endOf)
  BY <1>1, SayTyped
<1> QED BY <1>1, <1>2 DEF Endings

LEMMA MarksTyped ==
    /\ \A U \in Seq(Unit) : Marks(U) \in Nat /\ Len(Those(U, IsLastOfPayload)) = Marks(U)
    /\ \A U, W \in Seq(Unit) : Marks(U \o W) = Marks(U) + Marks(W)
    /\ Marks(<<>>) = 0
<1>1. \A U \in Seq(Unit) : Len(Images(U, lastOf)) = Len(Images(U, AtEnd(endOf)))
  <2>1. \A u \in Unit : Len(lastOf[u]) = Len(AtEnd(endOf)[u])
    <3>1. \A u : Len(<<u>>) = 1
      OBVIOUS
    <3>2. \A u \in Unit : u.frame \in Frame
      BY DEF Unit
    <3> QED BY <3>1, <3>2 DEF lastOf, AtEnd, endOf, IsLastOfPayload
  <2>2. Maps(lastOf, Unit, Unit) /\ Maps(AtEnd(endOf), Unit, Msg)
    BY MapsTyped, EndingsTyped, SayTyped
  <2> QED BY <2>1, <2>2, LengthOfImages
<1>2. \A U \in Seq(Unit) : Marks(U) \in Nat /\ Len(Those(U, IsLastOfPayload)) = Marks(U)
  BY <1>1, EndingsTyped, JoinedAreImages, LenProperties DEF Marks, Endings, Say
<1>3. \A U, W \in Seq(Unit) : Marks(U \o W) = Marks(U) + Marks(W)
  BY EndingsTyped, ConcatProperties DEF Marks
<1>4. Marks(<<>>) = 0
  BY EndingsTyped, EmptySeq DEF Marks
<1> QED BY <1>2, <1>3, <1>4

\* The units of a queued message announce its descriptors, at the end.
LEMMA UnitsAnnounce ==
    ASSUME NEW q \in Entry
    PROVE  /\ Announced(UnitsOf(q)) = Carried(q.frame)
           /\ Endings(UnitsOf(q)) = endOf[q.frame]
           /\ Marks(UnitsOf(q)) = IF q.frame.type = "Payload" THEN 1 ELSE 0
<1>1. UnitsOf(q) \in Seq(Unit) /\ q.frame \in Frame
  BY UnitsOfTyped DEF Entry
<1>2. Say(UnitsOf(q), carriedOf) = carriedOf[q.frame]
  BY AnnouncedIsSaid, UnitsSay
<1>3. Say(UnitsOf(q), endOf) = endOf[q.frame]
  BY EndingsTyped, UnitsSay
<1>4. Len(endOf[q.frame]) = IF q.frame.type = "Payload" THEN 1 ELSE 0
  BY <1>1, EmptySeq DEF endOf
<1> QED BY <1>1, <1>2, <1>3, <1>4, AnnouncedIsSaid DEF carriedOf, Endings, Marks

\* What a queue has still to send: entries of which nothing has gone ahead of its
\* descriptors, as many descriptors as are unsent, and these announcements and ends.
LEMMA QueueGrows ==
    ASSUME NEW Q \in Seq(SafeEntry), NEW q \in SafeEntry
    PROVE  /\ Append(Q, q) \in Seq(SafeEntry)
           /\ UnsentIn(Append(Q, q)) = UnsentIn(Q) + q.unsent
           /\ Announced(Stream(Append(Q, q))) = Announced(Stream(Q)) \o Carried(q.frame)
           /\ Marks(Stream(Append(Q, q))) = Marks(Stream(Q)) + (IF q.frame.type = "Payload" THEN 1 ELSE 0)
<1>1. SafeEntry \subseteq Entry /\ Entry \subseteq SentEntry
  BY EntriesMayBeSent DEF SafeEntry
<1>2. Q \in Seq(Entry) /\ q \in Entry /\ Q \in Seq(SentEntry) /\ q \in SentEntry
  BY <1>1, SeqMonotonic
<1>3. Append(Q, q) \in Seq(SafeEntry)
  BY AppendProperties
<1>4. UnsentIn(Append(Q, q)) = UnsentIn(Q) + q.unsent
  BY <1>2, UnsentOfAppend
<1>5. Append(Q, q) = Q \o <<q>> /\ <<q>> \in Seq(Entry)
  BY <1>2, AppendIsConcat
<1>6. Stream(Append(Q, q)) = Stream(Q) \o UnitsOf(q)
  BY <1>2, <1>5, StreamTyped
<1>7. Stream(Q) \in Seq(Unit) /\ UnitsOf(q) \in Seq(Unit)
  BY <1>2, StreamTyped, UnitsOfTyped
<1>8. Announced(Stream(Append(Q, q))) = Announced(Stream(Q)) \o Announced(UnitsOf(q))
  BY <1>6, <1>7, AnnouncedTyped
<1>9. Marks(Stream(Append(Q, q))) = Marks(Stream(Q)) + Marks(UnitsOf(q))
  BY <1>6, <1>7, MarksTyped
<1> QED BY <1>2, <1>3, <1>4, <1>8, <1>9, UnitsAnnounce

LEMMA QueuedIsSafe ==
    /\ \A m \in Msg : /\ Queued(Payload(m)) \in SafeEntry
                      /\ Queued(Payload(m)).frame.type = "Payload"
                      /\ Queued(Payload(m)).unsent = Len(Fds(m))
                      /\ Carried(Queued(Payload(m)).frame) = Fds(m)
    /\ \A n \in Nat : /\ Queued(Acknowledgement(n)) \in SafeEntry
                      /\ Queued(Acknowledgement(n)).frame.type # "Payload"
                      /\ Queued(Acknowledgement(n)).unsent = 0
                      /\ Carried(Queued(Acknowledgement(n)).frame) = <<>>
<1>0. MaxTransferFds \in Nat /\ Len(<<>>) = 0
  BY BoundAssumption, EmptySeq
<1>1. ASSUME NEW m \in Msg
      PROVE  /\ Queued(Payload(m)) \in SafeEntry
             /\ Queued(Payload(m)).frame.type = "Payload"
             /\ Queued(Payload(m)).unsent = Len(Fds(m))
             /\ Carried(Queued(Payload(m)).frame) = Fds(m)
  <2>1. FdCount[m] \in 0..MaxTransferFds /\ Len(Fds(m)) = FdCount[m]
    BY MessageAssumption, FdsTyped
  <2>2. Payload(m) \in Frame /\ Payload(m).type = "Payload" /\ Payload(m).msg = m /\ Payload(m).fds = FdCount[m]
    BY <1>0, <2>1 DEF Payload, Frame
  <2>3. Size(Payload(m)) \in Nat \ {0}
    BY <2>2, SizePositive
  <2>4. Queued(Payload(m)) = [frame |-> Payload(m), offset |-> 0, unsent |-> FdCount[m]]
    BY <2>2 DEF Queued
  <2>5. Carried(Payload(m)) = Fds(m)
    BY <2>2 DEF Carried
  <2> QED BY <2>1, <2>2, <2>3, <2>4, <2>5 DEF SafeEntry, Entry
<1>2. ASSUME NEW n \in Nat
      PROVE  /\ Queued(Acknowledgement(n)) \in SafeEntry
             /\ Queued(Acknowledgement(n)).frame.type # "Payload"
             /\ Queued(Acknowledgement(n)).unsent = 0
             /\ Carried(Queued(Acknowledgement(n)).frame) = <<>>
  <2>1. Acknowledgement(n) \in Frame /\ Acknowledgement(n).type = "FileDescriptorAcknowledgement"
    BY DEF Acknowledgement, Frame
  <2>2. Size(Acknowledgement(n)) \in Nat \ {0}
    BY <2>1, SizePositive
  <2>3. Queued(Acknowledgement(n)) = [frame |-> Acknowledgement(n), offset |-> 0, unsent |-> 0]
    BY <2>1 DEF Queued
  <2>4. Carried(Acknowledgement(n)) = <<>>
    BY <2>1 DEF Carried
  <2> QED BY <1>0, <2>1, <2>2, <2>3, <2>4 DEF SafeEntry, Entry
<1> QED BY <1>1, <1>2

LEMMA AnswersTyped ==
    /\ Answers(<<>>) = <<>>
    /\ \A s \in Seq(Msg) : Answers(s) \in Seq(SafeEntry) /\ Len(Answers(s)) = Len(s)
    /\ \A s \in Seq(Msg), m \in Msg : Answers(Append(s, m)) = Append(Answers(s), Queued(Payload(m)))
<1>1. \A s \in Seq(Msg) : Answers(s) \in Seq(SafeEntry) /\ Len(Answers(s)) = Len(s)
  <2> TAKE s \in Seq(Msg)
  <2>1. Len(s) \in Nat /\ \A i \in 1..Len(s) : s[i] \in Msg
    BY LenProperties, ElementOfSeq
  <2>2. Answers(s) \in [1..Len(s) -> SafeEntry]
    BY <2>1, QueuedIsSafe DEF Answers
  <2> QED BY <2>1, <2>2
<1>2. \A s \in Seq(Msg), m \in Msg : Answers(Append(s, m)) = Append(Answers(s), Queued(Payload(m)))
  <2> TAKE s \in Seq(Msg), m \in Msg
  <2> DEFINE a == Answers(Append(s, m))
             b == Append(Answers(s), Queued(Payload(m)))
  <2>1. /\ Len(s) \in Nat /\ Append(s, m) \in Seq(Msg) /\ Len(Append(s, m)) = Len(s) + 1
        /\ Append(s, m)[Len(s) + 1] = m /\ \A i \in 1..Len(s) : Append(s, m)[i] = s[i]
    BY LenProperties, AppendProperties
  <2>2. a \in Seq(SafeEntry) /\ Len(a) = Len(s) + 1
    BY <1>1, <2>1
  <2>3. /\ b \in Seq(SafeEntry) /\ Len(b) = Len(s) + 1 /\ b[Len(s) + 1] = Queued(Payload(m))
        /\ \A i \in 1..Len(s) : b[i] = Answers(s)[i]
    BY <1>1, QueuedIsSafe, AppendProperties
  <2>4. \A i \in 1..Len(s) + 1 : a[i] = b[i]
    <3> TAKE i \in 1..Len(s) + 1
    <3>1. a[i] = Queued(Payload(Append(s, m)[i]))
      BY <2>1 DEF Answers
    <3>2. CASE i = Len(s) + 1
      BY <2>1, <2>3, <3>1, <3>2
    <3>3. CASE i # Len(s) + 1
      <4>1. i \in 1..Len(s)
        BY <2>1, <3>3
      <4>2. Answers(s)[i] = Queued(Payload(s[i]))
        BY <4>1 DEF Answers
      <4> QED BY <2>1, <2>3, <3>1, <4>1, <4>2
    <3> QED BY <3>2, <3>3
  <2> HIDE DEF a, b
  <2>5. a = b
    BY <2>2, <2>3, <2>4, SeqEqual
  <2> QED BY <2>5 DEF a, b
<1>3. Answers(<<>>) = <<>>
  <2>1. Len(Answers(<<>>)) = 0 /\ Answers(<<>>) \in Seq(SafeEntry)
    BY <1>1, EmptySeq
  <2> QED BY <2>1, EmptySeq
<1> QED BY <1>1, <1>2, <1>3

LEMMA AnswersEffect ==
    ASSUME NEW Q \in Seq(SafeEntry), NEW R \in Seq(Msg)
    PROVE  /\ Q \o Answers(R) \in Seq(SafeEntry)
           /\ Each(R, Fds) \in Seq(Descriptor)
           /\ UnsentIn(Q \o Answers(R)) = UnsentIn(Q) + Len(Each(R, Fds))
           /\ Announced(Stream(Q \o Answers(R))) = Announced(Stream(Q)) \o Each(R, Fds)
           /\ Marks(Stream(Q \o Answers(R))) = Marks(Stream(Q)) + Len(R)
<1> DEFINE E(s) == Images(s, fdsOfMsg)
           H(s) == /\ Answers(s) \in Seq(SafeEntry)
                   /\ UnsentIn(Q \o Answers(s)) = UnsentIn(Q) + Len(E(s))
                   /\ Announced(Stream(Q \o Answers(s))) = Announced(Stream(Q)) \o E(s)
                   /\ Marks(Stream(Q \o Answers(s))) = Marks(Stream(Q)) + Len(s)
           G == {s \in Seq(Msg) : H(s)}
<1>0. /\ Stream(Q) \in Seq(Unit) /\ Announced(Stream(Q)) \in Seq(Descriptor) /\ UnsentIn(Q) \in Nat
      /\ Marks(Stream(Q)) \in Nat
  <2>1. SafeEntry \subseteq Entry
    BY DEF SafeEntry
  <2>2. Q \in Seq(Entry) /\ Q \in Seq(SentEntry)
    BY <2>1, SeqMonotonic, EntriesMayBeSent
  <2> QED BY <2>2, StreamTyped, AnnouncedTyped, UnsentOfAppend, MarksTyped
<1>a. /\ E(<<>>) = <<>> /\ \A s \in Seq(Msg) : E(s) \in Seq(Descriptor)
      /\ \A s \in Seq(Msg), m \in Msg : E(Append(s, m)) = E(s) \o Fds(m)
  <2>1. Maps(fdsOfMsg, Msg, Descriptor)
    BY MapsTyped
  <2>2. \A m \in Msg : fdsOfMsg[m] = Fds(m)
    BY DEF fdsOfMsg
  <2>3. \A s \in Seq(Msg), m \in Msg : Images(Append(s, m), fdsOfMsg) = Images(s, fdsOfMsg) \o fdsOfMsg[m]
    BY <2>1, ImagesProperties
  <2> QED BY <2>1, <2>2, <2>3, ImagesProperties
<1>b. \A s \in Seq(Msg) : Answers(s) \in Seq(SafeEntry) /\ Len(Answers(s)) = Len(s)
  BY AnswersTyped
<1>c. \A s \in Seq(Msg), m \in Msg : Answers(Append(s, m)) = Append(Answers(s), Queued(Payload(m)))
  BY AnswersTyped
<1>1. <<>> \in G
  <2>1. Answers(<<>>) = <<>> /\ <<>> \in Seq(Msg) /\ <<>> \in Seq(SafeEntry) /\ Len(<<>>) = 0
    <3>1. Len(Answers(<<>>)) = 0 /\ Answers(<<>>) \in Seq(SafeEntry)
      BY <1>b, EmptySeq
    <3> QED BY <3>1, EmptySeq
  <2>2. Q \o Answers(<<>>) = Q
    BY <2>1, ConcatEmptySeq
  <2>3. Announced(Stream(Q)) \o E(<<>>) = Announced(Stream(Q))
    BY <1>0, <1>a, ConcatEmptySeq
  <2>4. Len(E(<<>>)) = 0
    BY <1>a, <2>1
  <2> HIDE DEF E
  <2>5. \A u \in Nat, z \in {0} : u = u + z
    OBVIOUS
  <2>6. UnsentIn(Q) = UnsentIn(Q) + Len(E(<<>>)) /\ Marks(Stream(Q)) = Marks(Stream(Q)) + Len(<<>>)
    BY <1>0, <2>1, <2>4, <2>5
  <2>7. H(<<>>)
    BY <2>1, <2>2, <2>3, <2>6, Zenon
  <2> QED BY <2>1, <2>7
<1>2. ASSUME NEW s \in Seq(Msg), NEW m \in Msg, s \in G PROVE Append(s, m) \in G
  <2> DEFINE q == Queued(Payload(m))
             O == Q \o Answers(s)
  <2>1. q \in SafeEntry /\ q.unsent = Len(Fds(m)) /\ Carried(q.frame) = Fds(m) /\ q.frame.type = "Payload"
    BY QueuedIsSafe
  <2>2. /\ Append(s, m) \in Seq(Msg) /\ Len(Append(s, m)) = Len(s) + 1 /\ Len(s) \in Nat
        /\ E(Append(s, m)) = E(s) \o Fds(m) /\ E(s) \in Seq(Descriptor) /\ Fds(m) \in Seq(Descriptor)
    BY <1>a, AppendProperties, LenProperties, FdsTyped
  <2>3. Answers(Append(s, m)) = Append(Answers(s), q) /\ Answers(Append(s, m)) \in Seq(SafeEntry)
    BY <1>b, <1>c, <2>2
  <2>4. O \in Seq(SafeEntry)
    BY <1>b, ConcatProperties
  <2> HIDE DEF q
  <2>5. Q \o Answers(Append(s, m)) = Append(O, q)
    <3>1. Append(Answers(s), q) = Answers(s) \o <<q>> /\ Append(O, q) = O \o <<q>> /\ <<q>> \in Seq(SafeEntry)
      BY <1>b, <2>1, <2>4, AppendIsConcat
    <3>2. Answers(s) \in Seq(SafeEntry)
      BY <1>b
    <3>3. \A x, y, z \in Seq(SafeEntry) : (x \o y) \o z = x \o (y \o z)
      BY ConcatAssociative, SMTT(30)
    <3>4. (Q \o Answers(s)) \o <<q>> = Q \o (Answers(s) \o <<q>>)
      BY <3>1, <3>2, <3>3, Zenon
    <3> QED BY <2>3, <3>1, <3>4
  <2> HIDE DEF O, E
  <2>6. /\ UnsentIn(Append(O, q)) = UnsentIn(O) + Len(Fds(m))
        /\ Announced(Stream(Append(O, q))) = Announced(Stream(O)) \o Fds(m)
        /\ Marks(Stream(Append(O, q))) = Marks(Stream(O)) + 1
    BY <2>1, <2>4, QueueGrows
  <2>7. /\ UnsentIn(O) = UnsentIn(Q) + Len(E(s))
        /\ Announced(Stream(O)) = Announced(Stream(Q)) \o E(s)
        /\ Marks(Stream(O)) = Marks(Stream(Q)) + Len(s)
    BY <1>2 DEF O
  <2>8. Len(E(Append(s, m))) = Len(E(s)) + Len(Fds(m)) /\ Len(E(s)) \in Nat /\ Len(Fds(m)) \in Nat
    BY <2>2, ConcatProperties, LenProperties
  <2>9. UnsentIn(Append(O, q)) = UnsentIn(Q) + Len(E(Append(s, m)))
    BY <1>0, <2>6, <2>7, <2>8
  <2>10. Announced(Stream(Append(O, q))) = Announced(Stream(Q)) \o E(Append(s, m))
    <3>1. \A x, y, z \in Seq(Descriptor) : (x \o y) \o z = x \o (y \o z)
      BY ConcatAssociative, SMTT(30)
    <3>2. (Announced(Stream(Q)) \o E(s)) \o Fds(m) = Announced(Stream(Q)) \o (E(s) \o Fds(m))
      BY <1>0, <2>2, <3>1, Zenon
    <3> QED BY <2>2, <2>6, <2>7, <3>2
  <2>11. Marks(Stream(Append(O, q))) = Marks(Stream(Q)) + Len(Append(s, m))
    BY <1>0, <2>2, <2>6, <2>7
  <2> QED BY <2>2, <2>3, <2>5, <2>9, <2>10, <2>11
<1>3. Seq(Msg) \subseteq G
  <2> HIDE DEF G
  <2> QED BY <1>1, <1>2, SequencesByAppending
<1>4. H(R)
  <2>1. R \in G
    <3> HIDE DEF G
    <3> QED BY <1>3
  <2> HIDE DEF H
  <2> QED BY <2>1
<1>5. Each(R, Fds) = E(R) /\ E(R) \in Seq(Descriptor)
  BY <1>a, JoinedAreImages
<1>6. Q \o Answers(R) \in Seq(SafeEntry)
  BY <1>b, ConcatProperties
<1> HIDE DEF E
<1> QED BY <1>4, <1>5, <1>6

-----------------------------------------------------------------------------
(***************************************************************************)
(* What a write puts on the wire: the first units of the stream, with the  *)
(* descriptors on the first of them.                                       *)
(***************************************************************************)

Sent(Q, n, F) ==
    [i \in 1..n |-> IF i = 1 THEN [Stream(Q)[1] EXCEPT !.fds = F] ELSE Stream(Q)[i]]

Bare == {u \in Unit : u.fds = <<>>}

LEMMA StreamIsBare == \A Q \in Seq(Entry) : Stream(Q) \in Seq(Bare)
<1>1. ASSUME NEW q \in Entry PROVE UnitsOf(q) \in Seq(Bare)
  <2>1. /\ Remaining(q) \in Nat /\ UnitsOf(q) \in Seq(Unit) /\ Len(UnitsOf(q)) = Remaining(q)
        /\ \A k \in 1..Remaining(q) : UnitsOf(q)[k] = [frame |-> q.frame, at |-> q.offset + k, fds |-> <<>>]
    BY UnitsOfTyped
  <2>2. \A k \in 1..Remaining(q) : UnitsOf(q)[k] \in Unit
    BY <2>1, ElementOfSeq
  <2>3. \A k \in 1..Remaining(q) : UnitsOf(q)[k] \in Bare
    <3>1. \A k \in 1..Remaining(q) : UnitsOf(q)[k].fds = <<>>
      BY <2>1
    <3> QED BY <2>2, <3>1 DEF Bare
  <2>4. UnitsOf(q) = [k \in 1..Remaining(q) |-> UnitsOf(q)[k]]
    BY DEF UnitsOf
  <2>5. UnitsOf(q) \in [1..Remaining(q) -> Bare]
    BY <2>3, <2>4
  <2> QED BY <2>1, <2>5
<1>2. Maps(unitsOf, Entry, Bare)
  BY <1>1 DEF Maps, unitsOf
<1>3. \A Q \in Seq(Entry) : Images(Q, unitsOf) \in Seq(Bare)
  BY <1>2, ImagesProperties
<1> QED BY <1>3, JoinedAreImages

LEMMA SentProperties ==
    ASSUME NEW Q \in Seq(Entry), NEW n \in 0..Len(Stream(Q)), NEW F \in Seq(Descriptor)
    PROVE  /\ Sent(Q, n, F) \in Seq(Unit) /\ Len(Sent(Q, n, F)) = n
           /\ Announced(Sent(Q, n, F)) = Announced(SubSeq(Stream(Q), 1, n))
           /\ Marks(Sent(Q, n, F)) = Marks(SubSeq(Stream(Q), 1, n))
           /\ \A h : Say(Sent(Q, n, F), h) = Say(SubSeq(Stream(Q), 1, n), h)
           /\ Images(Sent(Q, n, F), fdsOfUnit) = IF n > 0 THEN F ELSE <<>>
<1> DEFINE S == Stream(Q)
           o == Sent(Q, n, F)
           c == SubSeq(S, 1, n)
<1>0. /\ S \in Seq(Unit) /\ S \in Seq(Bare) /\ Len(S) \in Nat /\ n \in Nat
      /\ \A i \in 1..n : S[i] \in Bare /\ S[i] \in Unit
  <2>1. S \in Seq(Unit) /\ S \in Seq(Bare) /\ n \in 0..Len(S)
    BY StreamTyped, StreamIsBare
  <2> HIDE DEF S
  <2>2. \A i \in 1..Len(S) : S[i] \in Bare /\ S[i] \in Unit
    BY <2>1, ElementOfSeq
  <2>3. Len(S) \in Nat /\ n \in Nat /\ \A i \in 1..n : i \in 1..Len(S)
    BY <2>1, LenProperties
  <2> QED BY <2>1, <2>2, <2>3
<1>1. \A i \in 1..n : o[i] = IF i = 1 THEN [S[1] EXCEPT !.fds = F] ELSE S[i]
  BY DEF Sent
<1>2. o = [i \in 1..n |-> o[i]]
  BY DEF Sent
<1> HIDE DEF S, o
<1>3. \A u \in Unit : LET w == [u EXCEPT !.fds = F] IN w \in Unit /\ w.frame = u.frame /\ w.at = u.at /\ w.fds = F
  BY DEF Unit
<1>4. \A i \in 1..n : /\ o[i] \in Unit /\ o[i].frame = S[i].frame /\ o[i].at = S[i].at
                      /\ o[i].fds = IF i = 1 THEN F ELSE <<>>
  <2> TAKE i \in 1..n
  <2>1. CASE i = 1
    <3>1. o[i] = [S[i] EXCEPT !.fds = F] /\ S[i] \in Unit
      BY <1>0, <1>1, <2>1
    <3> QED BY <1>3, <2>1, <3>1
  <2>2. CASE i # 1
    <3>1. o[i] = S[i]
      BY <1>1, <2>2
    <3> QED BY <1>0, <2>2, <3>1 DEF Bare
  <2> QED BY <2>1, <2>2
<1>5. o \in Seq(Unit) /\ Len(o) = n
  <2>1. o \in [1..n -> Unit]
    BY <1>2, <1>4
  <2> QED BY <1>0, <2>1
<1>6. c \in Seq(Unit) /\ Len(c) = n /\ \A i \in 1..n : c[i] = S[i]
  BY <1>0, CutInTwo, SubSeqProperties
<1>7. \A i \in 1..n : o[i].frame = c[i].frame /\ o[i].at = c[i].at
  BY <1>4, <1>6
<1> HIDE DEF c
<1>8. \A h : Say(o, h) = Say(c, h)
  BY <1>5, <1>6, <1>7, SayTheSame
<1>9. Announced(o) = Announced(c) /\ Marks(o) = Marks(c)
  BY <1>5, <1>6, <1>8, AnnouncedIsSaid DEF Marks, Endings
<1>10. Images(o, fdsOfUnit) = IF n > 0 THEN F ELSE <<>>
  <2>0. Maps(fdsOfUnit, Unit, Descriptor)
    BY MapsTyped
  <2>1. CASE n = 0
    <3>1. o = <<>>
      BY <1>5, <2>1, EmptySeq
    <3> QED BY <2>0, <2>1, <3>1, ImagesProperties
  <2>2. CASE n # 0
    <3> DEFINE r == SubSeq(o, 2, n)
    <3>1. 1 \in 0..Len(o) /\ 1 \in 1..n /\ n >= 1
      BY <1>0, <1>5, <2>2
    <3>2. SubSeq(o, 1, 1) = <<o[1]>> /\ r \in Seq(Unit) /\ o = SubSeq(o, 1, 1) \o r /\ Len(r) = n - 1
      <4>1. SubSeq(o, 1, 1) \in Seq(Unit) /\ Len(SubSeq(o, 1, 1)) = 1 /\ SubSeq(o, 1, 1)[1] = o[1]
        BY <1>5, <3>1, CutInTwo, SubSeqProperties
      <4>2. <<o[1]>> \in Seq(Unit) /\ Len(<<o[1]>>) = 1 /\ <<o[1]>>[1] = o[1]
        BY <1>4, <3>1
      <4>3. SubSeq(o, 1, 1) = <<o[1]>>
        <5>1. \A a, b \in Seq(Unit) : Len(a) = 1 /\ Len(b) = 1 /\ a[1] = b[1] => a = b
          <6> TAKE a, b \in Seq(Unit)
          <6>1. \A i \in 1..1 : i = 1
            OBVIOUS
          <6> QED BY <6>1, SeqEqual
        <5> QED BY <4>1, <4>2, <5>1, Zenon
      <4> QED BY <1>5, <3>1, <4>3, CutInTwo
    <3>3. r \in Seq(Bare)
      <4>1. \A i \in 1..(n - 1) : r[i] = o[i + 1] /\ i + 1 \in 1..n /\ i + 1 # 1
        BY <1>0, <1>5, <3>1, SubSeqProperties
      <4>2. \A i \in 1..(n - 1) : r[i] \in Bare
        BY <1>4, <4>1 DEF Bare
      <4>3. r = [i \in 1..Len(r) |-> r[i]]
        BY <3>2
      <4> HIDE DEF r
      <4>4. r \in [1..(n - 1) -> Bare]
        BY <3>2, <4>2, <4>3
      <4> QED BY <1>0, <3>1, <4>4
    <3> HIDE DEF r
    <3>4. Images(r, fdsOfUnit) = <<>>
      <4>1. Bare \subseteq Unit /\ \A u \in Bare : fdsOfUnit[u] = <<>>
        BY DEF Bare, fdsOfUnit
      <4> QED BY <2>0, <3>3, <4>1, ImagesAllEmpty
    <3>5. Images(<<o[1]>>, fdsOfUnit) = F
      <4>1. o[1] \in Unit /\ o[1].fds = F
        BY <1>4, <3>1
      <4>2. fdsOfUnit[o[1]] = F
        BY <4>1 DEF fdsOfUnit
      <4> QED BY <2>0, <4>1, <4>2, ImagesProperties
    <3>6. Images(o, fdsOfUnit) = Images(<<o[1]>>, fdsOfUnit) \o Images(r, fdsOfUnit)
      <4>1. <<o[1]>> \in Seq(Unit) /\ r \in Seq(Unit)
        BY <1>4, <3>1, <3>2
      <4>2. o = <<o[1]>> \o r
        BY <3>2, Zenon
      <4>3. \A a, b \in Seq(Unit) : Images(a \o b, fdsOfUnit) = Images(a, fdsOfUnit) \o Images(b, fdsOfUnit)
        BY <2>0, ImagesOfConcat
      <4> QED BY <4>1, <4>2, <4>3, Zenon
    <3>7. F \o <<>> = F
      BY ConcatEmptySeq
    <3> QED BY <2>2, <1>0, <3>4, <3>5, <3>6, <3>7
  <2> QED BY <2>1, <2>2
<1> QED BY <1>5, <1>8, <1>9, <1>10 DEF o, c, S

\* The write takes what it covers of the queue with the descriptors of it, and
\* at least one unit if there is one and room for it.
Written(e, n) ==
    LET Q == queue[e]
        fds == UnsentUpTo(Q, Covered(Q))
        out == Sent(Q, n, SubSeq(queueFds[e], 1, fds))
    IN /\ wire' = [wire EXCEPT ![e] = @ \o out]
       /\ queue' = [queue EXCEPT ![e] = Discard(@, n, fds)]
       /\ queueFds' = [queueFds EXCEPT ![e] = SubSeq(@, fds + 1, Len(@))]
       /\ written' = [written EXCEPT ![e] = @ + Len(Those(out, IsLastOfPayload))]

LEMMA WriteEffect ==
    ASSUME NEW e \in End, IOWrite(e), queue[e] \in Seq(Entry), Len(wire[e]) \in Nat, Len(wire[e]) <= SocketCapacity
    PROVE  \/ UNCHANGED <<queue, queueFds, wire, written>>
           \/ \E n \in 0..UnitsUpTo(queue[e], Covered(queue[e])) :
                 /\ Written(e, n)
                 /\ Len(wire[e]) + n <= SocketCapacity
                 /\ queue[e] # <<>> /\ Len(wire[e]) < SocketCapacity => n > 0
                 /\ up[Peer(e)]
<1> DEFINE Q == queue[e]
           c == Covered(Q)
           u == UnitsUpTo(Q, c)
           p == Peek(Q)
           n == IF p.units < SocketCapacity - Len(wire[e]) THEN p.units ELSE SocketCapacity - Len(wire[e])
           fds == UnsentUpTo(Q, c)
           out == Sent(Q, n, SubSeq(queueFds[e], 1, fds))
<1>1. p.units = (IF u < PeekUnits THEN u ELSE PeekUnits) /\ p.fds = fds
  BY DEF Peek
<1>2. \/ UNCHANGED <<queue, queueFds, wire, written>>
      \/ Written(e, n) /\ up[Peer(e)]
  <2>1. p.fds = fds
    BY <1>1
  <2> HIDE DEF fds
  <2>2. out = [i \in 1..n |-> IF i = 1 THEN [Stream(queue[e])[1] EXCEPT !.fds = SubSeq(queueFds[e], 1, p.fds)] ELSE Stream(queue[e])[i]]
    BY <2>1 DEF Sent
  <2> HIDE DEF out
  <2>3. \/ UNCHANGED <<queue, queueFds, wire, written>>
        \/ /\ wire' = [wire EXCEPT ![e] = @ \o out]
           /\ queue' = [queue EXCEPT ![e] = Discard(@, n, p.fds)]
           /\ queueFds' = [queueFds EXCEPT ![e] = SubSeq(@, p.fds + 1, Len(@))]
           /\ written' = [written EXCEPT ![e] = @ + Len(Those(out, IsLastOfPayload))]
           /\ up[Peer(e)]
    BY <2>2 DEF IOWrite
  <2>4. ASSUME wire' = [wire EXCEPT ![e] = @ \o out],
               queue' = [queue EXCEPT ![e] = Discard(@, n, fds)],
               queueFds' = [queueFds EXCEPT ![e] = SubSeq(@, fds + 1, Len(@))],
               written' = [written EXCEPT ![e] = @ + Len(Those(out, IsLastOfPayload))]
        PROVE  Written(e, n)
    <3> HIDE DEF n
    <3> QED BY <2>4 DEF Written, out, fds
  <2> HIDE DEF n, p
  <2> QED BY <2>1, <2>3, <2>4
<1>3. c \in 0..Len(Q) /\ u \in Nat /\ (Q # <<>> => u > 0)
  <2>1. Len(Q) \in Nat /\ c \in 0..Len(Q) /\ (Q # <<>> => c > 0)
    BY LenProperties, CoveredProperties
  <2>2. u \in Nat
    <3>1. u \in 0..Len(Stream(Q)) /\ Len(Stream(Q)) \in Nat
      BY <2>1, UnitsUpToProperties, StreamTyped, LenProperties
    <3> QED BY <3>1
  <2>3. ASSUME Q # <<>> PROVE u > 0
    <3> HIDE DEF Q, c
    <3>1. 1 \in 1..Len(Q) /\ 1 \in 0..Len(Q) /\ 1 <= c
      BY <2>1, <2>3
    <3>2. UnitsUpTo(Q, 1) = UnitsUpTo(Q, 0) + Remaining(Q[1]) /\ UnitsUpTo(Q, 0) = 0
      <4>1. UnitsUpTo(Q, 1) = UnitsUpTo(Q, 1 - 1) + Remaining(Q[1]) /\ 1 - 1 = 0 /\ UnitsUpTo(Q, 0) = 0
        BY <3>1, UnitsUpToProperties DEF Q
      <4> QED BY <4>1
    <3>3. Remaining(Q[1]) \in Nat \ {0}
      BY <3>1, ElementOfSeq, UnitsOfTyped DEF Q
    <3>4. UnitsUpTo(Q, 1) <= UnitsUpTo(Q, c)
      BY <2>1, <3>1, UnitsGrow DEF Q
    <3> QED BY <2>2, <3>2, <3>3, <3>4
  <2> QED BY <2>1, <2>2, <2>3
<1>4. /\ n \in 0..u /\ Len(wire[e]) + n <= SocketCapacity
      /\ queue[e] # <<>> /\ Len(wire[e]) < SocketCapacity => n > 0
  <2>1. PeekUnits \in Nat \ {0} /\ SocketCapacity \in Nat \ {0}
    BY BoundAssumption
  <2>2. \A U, P, C, L \in Nat : P > 0 /\ L <= C =>
            LET k == IF U < P THEN U ELSE P
                m == IF k < C - L THEN k ELSE C - L
            IN m \in 0..U /\ L + m <= C /\ (U > 0 /\ L < C => m > 0)
    OBVIOUS
  <2>3. n = LET k == IF u < PeekUnits THEN u ELSE PeekUnits
            IN IF k < SocketCapacity - Len(wire[e]) THEN k ELSE SocketCapacity - Len(wire[e])
    BY <1>1
  <2> HIDE DEF n, u, p
  <2>4. PeekUnits \in Nat /\ PeekUnits > 0 /\ SocketCapacity \in Nat /\ u \in Nat
    BY <1>3, <2>1
  <2>5. LET k == IF u < PeekUnits THEN u ELSE PeekUnits
            m == IF k < SocketCapacity - Len(wire[e]) THEN k ELSE SocketCapacity - Len(wire[e])
        IN m \in 0..u /\ Len(wire[e]) + m <= SocketCapacity /\ (u > 0 /\ Len(wire[e]) < SocketCapacity => m > 0)
    BY <2>2, <2>4, ZenonT(30)
  <2>6. n \in 0..u /\ Len(wire[e]) + n <= SocketCapacity /\ (u > 0 /\ Len(wire[e]) < SocketCapacity => n > 0)
    BY <2>3, <2>5
  <2> QED BY <1>3, <2>6
<1> HIDE DEF n
<1> QED BY <1>2, <1>4

-----------------------------------------------------------------------------
(***************************************************************************)
(* The steps, as far as the two directions of the connection go.           *)
(***************************************************************************)

flow == <<queue, queueFds, posted, written, wire, bytes, attached>>

Posts(e, R) ==
    /\ queue' = [queue EXCEPT ![e] = @ \o Answers(R)]
    /\ queueFds' = [queueFds EXCEPT ![e] = @ \o Each(R, Fds)]
    /\ posted' = [posted EXCEPT ![e] = @ \o R]
    /\ UNCHANGED <<written, wire, bytes, attached>>

Receives(e) ==
    /\ bytes' = [bytes EXCEPT ![e] = @ \o [i \in 1..Len(wire[Peer(e)]) |-> [wire[Peer(e)][i] EXCEPT !.fds = <<>>]]]
    /\ attached' = [attached EXCEPT ![e] = @ \o Each(wire[Peer(e)], LAMBDA u : u.fds)]
    /\ wire' = [wire EXCEPT ![Peer(e)] = <<>>]
    /\ UNCHANGED <<queue, queueFds, posted, written>>

Parses(e) ==
    /\ bytes' = [bytes EXCEPT ![e] = SubSeq(@, Parsed(e) + 1, Len(@))]
    /\ attached' = [attached EXCEPT ![e] = SubSeq(@, Len(Announced(ParsedUnits(e))) + 1, Len(@))]
    /\ \/ UNCHANGED queue
       \/ \E n \in Nat : queue' = [queue EXCEPT ![e] = Append(@, Queued(Acknowledgement(n)))]
    /\ UNCHANGED <<queueFds, posted, written, wire>>

Writes(e) ==
    \E n \in 0..UnitsUpTo(queue[e], Covered(queue[e])) :
        /\ Written(e, n)
        /\ Len(wire[e]) + n <= SocketCapacity
        /\ queue[e] # <<>> /\ Len(wire[e]) < SocketCapacity => n > 0
        /\ up[Peer(e)] /\ io[e] = "write" /\ io'[e] = "loop"
        /\ UNCHANGED <<posted, bytes, attached>>

HangsUp(e) ==
    /\ ~up'[e]
    /\ wire' = [wire EXCEPT ![Peer(e)] = <<>>]
    /\ UNCHANGED <<queue, queueFds, posted, written, bytes, attached>>

Dies(e) ==
    /\ ~up'[e] /\ main'[e] = "dead"
    /\ wire' = [wire EXCEPT ![Peer(e)] = <<>>]
    /\ queue' = [queue EXCEPT ![e] = <<>>] /\ queueFds' = [queueFds EXCEPT ![e] = <<>>]
    /\ bytes' = [bytes EXCEPT ![e] = <<>>] /\ attached' = [attached EXCEPT ![e] = <<>>]
    /\ UNCHANGED <<posted, written>>

LEMMA PostedAlone ==
    \A m \in Msg : /\ Answers(<<m>>) = <<Queued(Payload(m))>>
                   /\ Each(<<m>>, Fds) = Fds(m)
<1> TAKE m \in Msg
<1>1. Answers(<<m>>) = <<Queued(Payload(m))>>
  BY DEF Answers
<1>2. Each(<<m>>, Fds) = Images(<<m>>, fdsOfMsg) /\ fdsOfMsg[m] = Fds(m)
  <2>1. <<m>> \in Seq(Msg)
    OBVIOUS
  <2>2. \A M \in Seq(Msg) : Each(M, Fds) = Images(M, fdsOfMsg)
    BY JoinedAreImages
  <2>3. Each(<<m>>, Fds) = Images(<<m>>, fdsOfMsg)
    BY <2>1, <2>2, Zenon
  <2> QED BY <2>3 DEF fdsOfMsg
<1>3. Images(<<m>>, fdsOfMsg) = fdsOfMsg[m]
  BY MapsTyped, ImagesProperties
<1> QED BY <1>1, <1>2, <1>3

LEMMA EnqueueEffect ==
    ASSUME SentTyped, PostersTyped, NEW t \in Thread, PostEnqueue(t)
    PROVE  At[t] \in End /\ retaining[t] \in Msg /\ <<retaining[t]>> \in Seq(Msg) /\ Posts(At[t], <<retaining[t]>>)
<1> DEFINE e == At[t]
           m == retaining[t]
<1>1. e \in End /\ m \in Msg
  <2>1. m # None
    BY DEF PostEnqueue
  <2> QED BY <2>1, ThreadAssumption DEF PostersTyped
<1>2. /\ queue' = [queue EXCEPT ![e] = Append(@, Queued(Payload(m)))]
      /\ queueFds' = [queueFds EXCEPT ![e] = @ \o Fds(m)]
      /\ posted' = [posted EXCEPT ![e] = Append(@, m)]
      /\ UNCHANGED <<written, wire, bytes, attached>>
  BY DEF PostEnqueue, receiving, os
<1> HIDE DEF e, m
<1>3. Append(queue[e], Queued(Payload(m))) = queue[e] \o Answers(<<m>>)
  <2>1. queue[e] \in Seq(Entry)
    BY <1>1 DEF SentTyped
  <2>2. Queued(Payload(m)) \in Entry
    BY <1>1, QueuedIsSafe DEF SafeEntry
  <2>3. Append(queue[e], Queued(Payload(m))) = queue[e] \o <<Queued(Payload(m))>>
    BY <2>1, <2>2, AppendIsConcat
  <2> QED BY <1>1, <2>3, PostedAlone
<1>4. Append(posted[e], m) = posted[e] \o <<m>> /\ <<m>> \in Seq(Msg)
  <2>1. posted[e] \in Seq(Msg)
    BY <1>1 DEF SentTyped
  <2> QED BY <1>1, <2>1, AppendIsConcat
<1>5. Fds(m) = Each(<<m>>, Fds)
  BY <1>1, PostedAlone
<1>6. Posts(e, <<m>>)
  BY <1>2, <1>3, <1>4, <1>5 DEF Posts
<1> QED BY <1>1, <1>4, <1>6 DEF e, m

\* Parsing lets go of what the peer acknowledges, and acknowledges what came.
LEMMA ParseEffect ==
    ASSUME ReadTyped, NEW e \in End, IOParse(e)
    PROVE  LET received == Len(Announced(ParsedUnits(e)))
               acknowledged == Acknowledged(ParsedUnits(e))
           IN /\ Parses(e)
              /\ queue' = IF received = 0 THEN queue
                          ELSE [queue EXCEPT ![e] = Append(@, Queued(Acknowledgement(received)))]
              /\ retained' = [retained EXCEPT ![e] = SubSeq(@, acknowledged + 1, Len(@))]
              /\ received \in Nat
<1>1. /\ bytes' = [bytes EXCEPT ![e] = SubSeq(@, Parsed(e) + 1, Len(@))]
      /\ attached' = [attached EXCEPT ![e] = SubSeq(@, Len(Announced(ParsedUnits(e))) + 1, Len(@))]
      /\ retained' = [retained EXCEPT ![e] = SubSeq(@, Acknowledged(ParsedUnits(e)) + 1, Len(@))]
  BY DEF IOParse, ParsedUnits
<1>2. queue' = IF Len(Announced(ParsedUnits(e))) = 0 THEN queue
               ELSE [queue EXCEPT ![e] = Append(@, Queued(Acknowledgement(Len(Announced(ParsedUnits(e))))))]
  BY DEF IOParse, ParsedUnits
<1>3. UNCHANGED <<queueFds, posted, written, wire>>
  BY DEF IOParse, os, history
<1>4. Len(Announced(ParsedUnits(e))) \in Nat
  BY ParseTyped, AnnouncedTyped, LenProperties
<1> QED BY <1>1, <1>2, <1>3, <1>4 DEF Parses

\* Handling retains and posts the answers in one step.
LEMMA AnswerEffect ==
    ASSUME MessagesTyped, NEW e \in End, ReadHook(e) \/ DeferredHandle(e)
    PROVE  \E R \in Seq(Msg) : /\ R \in Seq(Replies) /\ Posts(e, R)
                               /\ retained' = [retained EXCEPT ![e] = @ \o Each(R, Fds)]
<1>1. PICK M \in Seq(Message) : Handle(e, M)
  <2>1. Drained(e) \in Seq(Message) /\ unprocessed[e] \in Seq(Message)
    BY ConcatProperties DEF Drained, MessagesTyped
  <2> QED BY <2>1 DEF ReadHook, DeferredHandle
<1>2. UNCHANGED <<written, wire, bytes, attached>>
  <2>1. CASE ReadHook(e)
    BY <2>1 DEF ReadHook, os
  <2>2. CASE DeferredHandle(e)
    BY <2>2 DEF DeferredHandle, receiving, os
  <2> QED BY <2>1, <2>2
<1>3. PICK R \in Seq(Msg) :
               /\ R \in Seq(Replies)
               /\ retained' = [retained EXCEPT ![e] = @ \o Each(R, Fds)]
               /\ queue' = [queue EXCEPT ![e] = @ \o Answers(R)]
               /\ queueFds' = [queueFds EXCEPT ![e] = @ \o Each(R, Fds)]
               /\ posted' = [posted EXCEPT ![e] = @ \o R]
  BY <1>1, HandleEffect
<1>4. Posts(e, R)
  BY <1>2, <1>3 DEF Posts
<1> QED BY <1>3, <1>4

LEMMA HangUpEffect ==
    ASSUME ControlTyped, NEW e \in End, Joined(e)
    PROVE  HangsUp(e)
<1>1. up' = [up EXCEPT ![e] = FALSE] /\ wire' = [wire EXCEPT ![Peer(e)] = <<>>]
  BY DEF Joined
<1>2. UNCHANGED <<queue, queueFds, posted, written, bytes, attached>>
  BY DEF Joined, sending, receiving, history
<1>3. ~up'[e]
  BY <1>1 DEF ControlTyped
<1> QED BY <1>1, <1>2, <1>3 DEF HangsUp

LEMMA DeathEffect ==
    ASSUME ControlTyped, NEW e \in End, NEW now, Die(e, now)
    PROVE  Dies(e)
<1>1. up' = [up EXCEPT ![e] = FALSE] /\ main' = [main EXCEPT ![e] = "dead"]
  BY DEF Die
<1>2. ~up'[e] /\ main'[e] = "dead"
  BY <1>1 DEF ControlTyped
<1> QED BY <1>2 DEF Die, Dies

LEMMA WriteStep ==
    ASSUME SentTyped, ControlTyped, NEW e \in End, IOWrite(e)
    PROVE  Writes(e) \/ UNCHANGED flow
<1> USE DEF flow
<1>1. UNCHANGED <<posted, bytes, attached>> /\ io[e] = "write" /\ io'[e] = "loop"
  BY DEF IOWrite, receiving, ControlTyped
<1>2. queue[e] \in Seq(Entry) /\ Len(wire[e]) \in Nat /\ Len(wire[e]) <= SocketCapacity
  BY LenProperties DEF SentTyped
<1>3. \/ UNCHANGED <<queue, queueFds, wire, written>>
      \/ \E n \in 0..UnitsUpTo(queue[e], Covered(queue[e])) :
            /\ Written(e, n)
            /\ Len(wire[e]) + n <= SocketCapacity
            /\ queue[e] # <<>> /\ Len(wire[e]) < SocketCapacity => n > 0
            /\ up[Peer(e)]
  BY <1>2, WriteEffect
<1>4. CASE UNCHANGED <<queue, queueFds, wire, written>>
  BY <1>1, <1>4
<1>5. ASSUME NEW n \in 0..UnitsUpTo(queue[e], Covered(queue[e])),
             Written(e, n), Len(wire[e]) + n <= SocketCapacity,
             queue[e] # <<>> /\ Len(wire[e]) < SocketCapacity => n > 0, up[Peer(e)]
      PROVE  Writes(e)
  BY <1>1, <1>5 DEF Writes
<1> HIDE DEF flow
<1> QED BY <1>3, <1>4, <1>5

LEMMA FlowSteps ==
    ASSUME SentTyped, ReadTyped, PostersTyped, MessagesTyped, ControlTyped, [Next]_vars
    PROVE  \/ UNCHANGED flow
           \/ \E e \in End : \/ \E R \in Seq(Msg) : Posts(e, R)
                             \/ Receives(e) \/ Parses(e) \/ Writes(e) \/ HangsUp(e) \/ Dies(e)
<1>1. CASE UNCHANGED data
  BY <1>1 DEF data, flow
<1>2. ASSUME NEW t \in Thread, PostRetain(t) PROVE UNCHANGED flow
  BY <1>2 DEF PostRetain, receiving, os, history, flow
<1>3. ASSUME NEW t \in Thread, PostEnqueue(t) PROVE \E e \in End, R \in Seq(Msg) : Posts(e, R)
  BY <1>3, EnqueueEffect
<1>4. ASSUME NEW e \in End, IOReceive(e) PROVE Receives(e)
  BY <1>4 DEF IOReceive, Receives, sending, history
<1>5. ASSUME NEW e \in End, ReadHook(e) \/ DeferredHandle(e) PROVE \E R \in Seq(Msg) : Posts(e, R)
  BY <1>5, AnswerEffect
<1>6. ASSUME NEW e \in End, SyncMatch(e) \/ SyncDrain(e) PROVE UNCHANGED flow
  <2>1. CASE SyncMatch(e)
    BY <2>1 DEF SyncMatch, sending, receiving, os, flow
  <2>2. CASE SyncDrain(e)
    BY <2>2 DEF SyncDrain, sending, os, flow
  <2> QED BY <1>6, <2>1, <2>2
<1>7. ASSUME NEW e \in End, IOParse(e) PROVE Parses(e)
  BY <1>7, ParseEffect
<1>8. ASSUME NEW e \in End, Joined(e) PROVE HangsUp(e)
  BY <1>8, HangUpEffect
<1>9. ASSUME NEW e \in End, IOWrite(e) PROVE Writes(e) \/ UNCHANGED flow
  BY <1>9, WriteStep
<1>10. ASSUME NEW e \in End, NEW now, Die(e, now) PROVE Dies(e)
  BY <1>10, DeathEffect
<1> QED BY <1>1, <1>2, <1>3, <1>4, <1>5, <1>6, <1>7, <1>8, <1>9, <1>10, DataSteps

LEMMA SafeIsEntry == SafeEntry \subseteq Entry /\ \A Q \in Seq(SafeEntry) : Q \in Seq(Entry) /\ Q \in Seq(SentEntry)
<1>1. SafeEntry \subseteq Entry
  BY DEF SafeEntry
<1> QED BY <1>1, SeqMonotonic, EntriesMayBeSent

\* The stream of a queue is what a write takes and what it leaves, and so are
\* the descriptors.
LEMMA WriteProperties ==
    ASSUME NEW Q \in Seq(SafeEntry), NEW n \in 0..UnitsUpTo(Q, Covered(Q)),
           NEW F \in Seq(Descriptor), Len(F) = UnsentIn(Q)
    PROVE  LET fds == UnsentUpTo(Q, Covered(Q))
               out == Sent(Q, n, SubSeq(F, 1, fds))
               R == Discard(Q, n, fds)
               left == SubSeq(F, fds + 1, Len(F))
           IN /\ R \in Seq(SafeEntry) /\ out \in Seq(Unit) /\ Len(out) = n
              /\ left \in Seq(Descriptor) /\ Len(left) = UnsentIn(R)
              /\ n > 0 => F = Images(out, fdsOfUnit) \o left
              /\ Announced(Stream(Q)) = Announced(out) \o Announced(Stream(R))
              /\ Marks(Stream(Q)) = Len(Those(out, IsLastOfPayload)) + Marks(Stream(R))
<1> DEFINE fds == UnsentUpTo(Q, Covered(Q))
           sent == SubSeq(F, 1, fds)
           left == SubSeq(F, fds + 1, Len(F))
           out == Sent(Q, n, sent)
           R == Discard(Q, n, fds)
           S == Stream(Q)
<1>0. Q \in Seq(Entry) /\ Q \in Seq(SentEntry) /\ Len(Q) \in Nat /\ Covered(Q) \in 0..Len(Q) /\ Len(F) \in Nat
  <2>1. Q \in Seq(Entry) /\ Q \in Seq(SentEntry)
    BY SafeIsEntry
  <2> QED BY <2>1, CoveredProperties, LenProperties
<1>1. fds \in 0..Len(F)
  <2>1. Len(Q) \in 0..Len(Q)
    BY <1>0
  <2>2. UnsentUpTo(Q, Covered(Q)) <= UnsentUpTo(Q, Len(Q)) /\ UnsentUpTo(Q, Covered(Q)) \in Nat
    BY <1>0, <2>1, UnsentGrows, UnsentProperties
  <2> QED BY <1>0, <2>2 DEF UnsentIn
<1>2. n \in 0..Len(S)
  <2>1. UnitsUpTo(Q, Covered(Q)) \in 0..Len(S) /\ Len(S) \in Nat
    BY <1>0, UnitsUpToProperties, StreamTyped, LenProperties
  <2> HIDE DEF S
  <2> QED BY <2>1
<1>3. /\ R \in Seq(Entry) /\ R \in Seq(SafeEntry)
      /\ Stream(R) = SubSeq(S, n + 1, Len(S))
      /\ UnsentIn(R) = UnsentIn(Q) - fds
  BY <1>0, DiscardProperties
<1> HIDE DEF fds
<1>4. sent \in Seq(Descriptor) /\ left \in Seq(Descriptor) /\ Len(left) = Len(F) - fds /\ sent \o left = F
  BY <1>1, CutInTwo
<1>5. Len(left) = UnsentIn(R)
  BY <1>3, <1>4
<1> HIDE DEF sent, left
<1>6. /\ out \in Seq(Unit) /\ Len(out) = n
      /\ Announced(out) = Announced(SubSeq(S, 1, n))
      /\ Marks(out) = Marks(SubSeq(S, 1, n))
      /\ Images(out, fdsOfUnit) = IF n > 0 THEN sent ELSE <<>>
  BY <1>0, <1>2, <1>4, SentProperties
<1>7. /\ S \in Seq(Unit) /\ SubSeq(S, 1, n) \in Seq(Unit) /\ SubSeq(S, n + 1, Len(S)) \in Seq(Unit)
      /\ S = SubSeq(S, 1, n) \o SubSeq(S, n + 1, Len(S))
  <2>1. S \in Seq(Unit)
    BY <1>0, StreamTyped
  <2> HIDE DEF S
  <2> QED BY <1>2, <2>1, CutInTwo
<1> HIDE DEF out, R, S
<1>8. Announced(S) = Announced(out) \o Announced(Stream(R))
  <2>1. \A U, W \in Seq(Unit) : Announced(U \o W) = Announced(U) \o Announced(W)
    BY AnnouncedTyped
  <2>2. Announced(S) = Announced(SubSeq(S, 1, n)) \o Announced(SubSeq(S, n + 1, Len(S)))
    BY <1>7, <2>1, Zenon
  <2> QED BY <1>3, <1>6, <2>2
<1>9. Marks(S) = Len(Those(out, IsLastOfPayload)) + Marks(Stream(R))
  <2>1. Len(Those(out, IsLastOfPayload)) = Marks(out)
    BY <1>6, MarksTyped
  <2>2. \A U, W \in Seq(Unit) : Marks(U \o W) = Marks(U) + Marks(W)
    BY MarksTyped
  <2>3. Marks(S) = Marks(SubSeq(S, 1, n)) + Marks(SubSeq(S, n + 1, Len(S)))
    BY <1>7, <2>2, Zenon
  <2> QED BY <1>3, <1>6, <2>1, <2>3
<1>10. n > 0 => F = Images(out, fdsOfUnit) \o left
  BY <1>4, <1>6
<1> QED BY <1>3, <1>4, <1>5, <1>6, <1>8, <1>9, <1>10 DEF fds, sent, left, out, R, S

Safe ==
    /\ queue \in [End -> Seq(SafeEntry)]
    /\ \A x \in End : UnsentIn(queue[x]) = Len(queueFds[x])
    /\ \A x \in End : written[x] + Marks(Stream(queue[x])) <= Len(posted[x])

LEMMA SafeStays ==
    ASSUME SentTyped, ReadTyped, Safe, PostersTyped, MessagesTyped, ControlTyped, [Next]_vars
    PROVE  SentTyped' /\ ReadTyped' /\ Safe'
<1> DEFINE Goal == SentTyped' /\ ReadTyped' /\ Safe'
<1>0. /\ queue \in [End -> Seq(SafeEntry)] /\ queueFds \in [End -> Seq(Descriptor)]
      /\ wire \in [End -> Seq(Unit)] /\ posted \in [End -> Seq(Msg)] /\ written \in [End -> Nat]
      /\ bytes \in [End -> Seq(Unit)] /\ attached \in [End -> Seq(Descriptor)]
  BY DEF SentTyped, ReadTyped, Safe
<1>a. \A x \in End : /\ Len(wire[x]) <= SocketCapacity
                     /\ UnsentIn(queue[x]) = Len(queueFds[x])
                     /\ written[x] + Marks(Stream(queue[x])) <= Len(posted[x])
                     /\ Marks(Stream(queue[x])) \in Nat /\ Len(posted[x]) \in Nat /\ written[x] \in Nat
                     /\ Len(queueFds[x]) \in Nat
  <2>1. \A x \in End : Marks(Stream(queue[x])) \in Nat
    BY <1>0, SafeIsEntry, StreamTyped, MarksTyped
  <2>2. \A x \in End : Len(posted[x]) \in Nat /\ written[x] \in Nat /\ Len(queueFds[x]) \in Nat
    BY <1>0, LenProperties
  <2> QED BY <2>1, <2>2 DEF SentTyped, Safe
<1>b. ASSUME queue' \in [End -> Seq(SafeEntry)], queueFds' \in [End -> Seq(Descriptor)],
             wire' \in [End -> Seq(Unit)], posted' \in [End -> Seq(Msg)], written' \in [End -> Nat],
             bytes' \in [End -> Seq(Unit)], attached' \in [End -> Seq(Descriptor)],
             \A x \in End : /\ Len(wire'[x]) <= SocketCapacity
                            /\ UnsentIn(queue'[x]) = Len(queueFds'[x])
                            /\ written'[x] + Marks(Stream(queue'[x])) <= Len(posted'[x])
      PROVE  Goal
  <2>1. queue' \in [End -> Seq(Entry)]
    BY <1>b, SafeIsEntry
  <2> QED BY <1>b, <2>1 DEF SentTyped, ReadTyped, Safe
<1>c. /\ \A S : <<>> \in Seq(S) /\ Len(<<>>) = 0
      /\ UnsentIn(<<>>) = 0 /\ Marks(Stream(<<>>)) = 0
      /\ \A S : \A s, r \in Seq(S) : s \o r \in Seq(S) /\ Len(s \o r) = Len(s) + Len(r)
      /\ SocketCapacity \in Nat
  BY EmptySeq, UnsentOfAppend, StreamTyped, MarksTyped, ConcatProperties, BoundAssumption
<1> HIDE DEF Goal
<1>1. ASSUME UNCHANGED flow PROVE Goal
  <2>1. /\ queue' = queue /\ queueFds' = queueFds /\ wire' = wire /\ posted' = posted /\ written' = written
        /\ bytes' = bytes /\ attached' = attached
    BY <1>1 DEF flow
  <2>2. \A x \in End : /\ Len(wire'[x]) <= SocketCapacity
                       /\ UnsentIn(queue'[x]) = Len(queueFds'[x])
                       /\ written'[x] + Marks(Stream(queue'[x])) <= Len(posted'[x])
    BY <1>a, <2>1, Zenon
  <2>3. /\ queue' \in [End -> Seq(SafeEntry)] /\ queueFds' \in [End -> Seq(Descriptor)]
        /\ wire' \in [End -> Seq(Unit)] /\ posted' \in [End -> Seq(Msg)] /\ written' \in [End -> Nat]
        /\ bytes' \in [End -> Seq(Unit)] /\ attached' \in [End -> Seq(Descriptor)]
    BY <1>0, <2>1
  <2> QED BY <1>b, <2>2, <2>3
<1>2. ASSUME NEW e \in End, NEW R \in Seq(Msg), Posts(e, R) PROVE Goal
  <2>1. /\ queue[e] \o Answers(R) \in Seq(SafeEntry)
        /\ Each(R, Fds) \in Seq(Descriptor)
        /\ UnsentIn(queue[e] \o Answers(R)) = UnsentIn(queue[e]) + Len(Each(R, Fds))
        /\ Marks(Stream(queue[e] \o Answers(R))) = Marks(Stream(queue[e])) + Len(R)
    BY <1>0, AnswersEffect
  <2>2. /\ queueFds[e] \o Each(R, Fds) \in Seq(Descriptor) /\ posted[e] \o R \in Seq(Msg)
        /\ Len(queueFds[e] \o Each(R, Fds)) = Len(queueFds[e]) + Len(Each(R, Fds))
        /\ Len(posted[e] \o R) = Len(posted[e]) + Len(R) /\ Len(R) \in Nat
    <3>1. queueFds[e] \in Seq(Descriptor) /\ posted[e] \in Seq(Msg)
      BY <1>0
    <3> QED BY <1>c, <2>1, <3>1, LenProperties
  <2>3. /\ queue' \in [End -> Seq(SafeEntry)] /\ queueFds' \in [End -> Seq(Descriptor)] /\ posted' \in [End -> Seq(Msg)]
        /\ wire' = wire /\ written' = written /\ bytes' = bytes /\ attached' = attached
    BY <1>0, <1>2, <2>1, <2>2 DEF Posts
  <2>4. ASSUME NEW x \in End
        PROVE  /\ UnsentIn(queue'[x]) = Len(queueFds'[x])
               /\ written'[x] + Marks(Stream(queue'[x])) <= Len(posted'[x])
    <3>1. CASE x # e
      <4>1. queue'[x] = queue[x] /\ queueFds'[x] = queueFds[x] /\ posted'[x] = posted[x]
        BY <1>0, <1>2, <3>1 DEF Posts
      <4> QED BY <1>a, <2>3, <4>1
    <3>2. CASE x = e
      <4>1. queue'[x] = queue[e] \o Answers(R) /\ queueFds'[x] = queueFds[e] \o Each(R, Fds) /\ posted'[x] = posted[e] \o R
        BY <1>0, <1>2, <3>2 DEF Posts
      <4>2. UnsentIn(queue'[x]) = Len(queueFds'[x])
        BY <1>a, <2>1, <2>2, <4>1
      <4>3. Marks(Stream(queue'[x])) = Marks(Stream(queue[e])) + Len(R) /\ Len(posted'[x]) = Len(posted[e]) + Len(R)
        BY <2>1, <2>2, <4>1
      <4>4. \A w, m, p, r \in Nat : w + m <= p => w + (m + r) <= p + r
        OBVIOUS
      <4> QED BY <1>a, <2>2, <2>3, <3>2, <4>2, <4>3, <4>4
    <3> QED BY <3>1, <3>2
  <2> QED BY <1>0, <1>a, <1>b, <2>3, <2>4
<1>3. ASSUME NEW e \in End, Receives(e) PROVE Goal
  <2> DEFINE W == wire[Peer(e)]
             bare == [i \in 1..Len(W) |-> [W[i] EXCEPT !.fds = <<>>]]
             came == Each(W, LAMBDA u : u.fds)
  <2>1. W \in Seq(Unit) /\ Peer(e) \in End
    BY <1>0, PeerProperties
  <2>2. /\ bytes' = [bytes EXCEPT ![e] = @ \o bare] /\ attached' = [attached EXCEPT ![e] = @ \o came]
        /\ wire' = [wire EXCEPT ![Peer(e)] = <<>>]
        /\ UNCHANGED <<queue, queueFds, posted, written>>
    BY <1>3 DEF Receives
  <2> HIDE DEF W
  <2>3. bare \in Seq(Unit)
    <3>1. Len(W) \in Nat /\ \A i \in 1..Len(W) : W[i] \in Unit
      BY <2>1, LenProperties, ElementOfSeq
    <3>2. \A u \in Unit : [u EXCEPT !.fds = <<>>] \in Unit
      BY EmptySeq DEF Unit
    <3>3. bare \in [1..Len(W) -> Unit]
      BY <3>1, <3>2
    <3> QED BY <3>1, <3>3
  <2>4. came \in Seq(Descriptor)
    BY <2>1, MapsTyped, JoinedAreImages, ImagesProperties
  <2> HIDE DEF bare, came
  <2>5. bytes[e] \o bare \in Seq(Unit) /\ attached[e] \o came \in Seq(Descriptor)
    BY <1>0, <1>c, <2>3, <2>4
  <2>6. /\ bytes' \in [End -> Seq(Unit)] /\ attached' \in [End -> Seq(Descriptor)] /\ wire' \in [End -> Seq(Unit)]
        /\ \A x \in End : Len(wire'[x]) <= SocketCapacity
    <3>1. wire' \in [End -> Seq(Unit)]
      BY <1>0, <1>c, <2>2
    <3>2. \A x \in End : wire'[x] = <<>> \/ wire'[x] = wire[x]
      BY <1>0, <2>2
    <3>3. \A x \in End : Len(wire'[x]) <= SocketCapacity
      BY <1>a, <1>c, <3>2
    <3>4. bytes' \in [End -> Seq(Unit)] /\ attached' \in [End -> Seq(Descriptor)]
      BY <1>0, <2>2, <2>5
    <3> QED BY <3>1, <3>3, <3>4
  <2> QED BY <1>0, <1>a, <1>b, <2>2, <2>6
<1>4. ASSUME NEW e \in End, Parses(e) PROVE Goal
  <2>1. /\ SubSeq(bytes[e], Parsed(e) + 1, Len(bytes[e])) \in Seq(Unit)
        /\ SubSeq(attached[e], Len(Announced(ParsedUnits(e))) + 1, Len(attached[e])) \in Seq(Descriptor)
    <3>1. Parsed(e) \in Nat /\ Len(Announced(ParsedUnits(e))) \in Nat
      <4>1. Parsed(e) \in 0..Len(bytes[e]) /\ Len(bytes[e]) \in Nat
        BY <1>0, ParsedProperties, LenProperties
      <4>2. ParsedUnits(e) \in Seq(Unit)
        BY ParseTyped
      <4> QED BY <4>1, <4>2, AnnouncedTyped, LenProperties
    <3> QED BY <1>0, <3>1, RestTyped
  <2>2. /\ bytes' \in [End -> Seq(Unit)] /\ attached' \in [End -> Seq(Descriptor)]
        /\ UNCHANGED <<queueFds, posted, written, wire>>
    BY <1>0, <1>4, <2>1 DEF Parses
  <2>3. CASE UNCHANGED queue
    BY <1>0, <1>a, <1>b, <2>2, <2>3
  <2>4. ASSUME NEW n \in Nat, queue' = [queue EXCEPT ![e] = Append(@, Queued(Acknowledgement(n)))] PROVE Goal
    <3> DEFINE q == Queued(Acknowledgement(n))
    <3>1. q \in SafeEntry /\ q.frame.type # "Payload" /\ q.unsent = 0
      BY QueuedIsSafe
    <3> HIDE DEF q
    <3>2. /\ Append(queue[e], q) \in Seq(SafeEntry)
          /\ UnsentIn(Append(queue[e], q)) = UnsentIn(queue[e]) + 0
          /\ Marks(Stream(Append(queue[e], q))) = Marks(Stream(queue[e])) + 0
      BY <1>0, <3>1, QueueGrows
    <3>3. queue' = [queue EXCEPT ![e] = Append(queue[e], q)]
      BY <2>4 DEF q
    <3>4. queue' \in [End -> Seq(SafeEntry)]
      BY <1>0, <3>2, <3>3
    <3>5. ASSUME NEW x \in End
          PROVE  UnsentIn(queue'[x]) = UnsentIn(queue[x]) /\ Marks(Stream(queue'[x])) = Marks(Stream(queue[x]))
      <4>1. x = e => queue'[x] = Append(queue[e], q)
        BY <1>0, <3>3
      <4>2. x # e => queue'[x] = queue[x]
        BY <1>0, <3>3
      <4>3. UnsentIn(queue[e]) \in Nat /\ Marks(Stream(queue[e])) \in Nat
        BY <1>a
      <4>4. UnsentIn(Append(queue[e], q)) = UnsentIn(queue[e]) /\ Marks(Stream(Append(queue[e], q))) = Marks(Stream(queue[e]))
        BY <3>2, <4>3
      <4> QED BY <4>1, <4>2, <4>4
    <3> QED BY <1>0, <1>a, <1>b, <2>2, <3>4, <3>5
  <2> QED BY <1>4, <2>3, <2>4 DEF Parses
<1>5. ASSUME NEW e \in End, Writes(e) PROVE Goal
  <2>1. PICK n \in 0..UnitsUpTo(queue[e], Covered(queue[e])) :
               Written(e, n) /\ Len(wire[e]) + n <= SocketCapacity /\ UNCHANGED <<posted, bytes, attached>>
    BY <1>5 DEF Writes
  <2> DEFINE Q == queue[e]
             F == queueFds[e]
             fds == UnsentUpTo(Q, Covered(Q))
             out == Sent(Q, n, SubSeq(F, 1, fds))
             R == Discard(Q, n, fds)
             left == SubSeq(F, fds + 1, Len(F))
             k == Len(Those(out, IsLastOfPayload))
  <2>2. Q \in Seq(SafeEntry) /\ F \in Seq(Descriptor) /\ Len(F) = UnsentIn(Q)
    BY <1>0, <1>a
  <2>3. /\ wire' = [wire EXCEPT ![e] = @ \o out] /\ queue' = [queue EXCEPT ![e] = R]
        /\ queueFds' = [queueFds EXCEPT ![e] = left] /\ written' = [written EXCEPT ![e] = @ + k]
    BY <2>1 DEF Written
  <2>4. /\ R \in Seq(SafeEntry) /\ out \in Seq(Unit) /\ Len(out) = n
        /\ left \in Seq(Descriptor) /\ Len(left) = UnsentIn(R)
        /\ Marks(Stream(Q)) = k + Marks(Stream(R))
    <3> HIDE DEF Q, F
    <3> QED BY <2>1, <2>2, WriteProperties DEF Q
  <2>5. k \in Nat /\ Marks(Stream(R)) \in Nat
    <3>1. Stream(R) \in Seq(Unit)
      <4> HIDE DEF R
      <4> QED BY <2>4, SafeIsEntry, StreamTyped
    <3> HIDE DEF out, R
    <3> QED BY <2>4, <3>1, MarksTyped
  <2> HIDE DEF Q, F, fds, out, R, left, k
  <2>6. wire[e] \o out \in Seq(Unit) /\ Len(wire[e] \o out) = Len(wire[e]) + n
    BY <1>0, <1>c, <2>4, ZenonT(30)
  <2>7. /\ wire' \in [End -> Seq(Unit)] /\ queue' \in [End -> Seq(SafeEntry)]
        /\ queueFds' \in [End -> Seq(Descriptor)] /\ written' \in [End -> Nat]
    <3>1. written[e] + k \in Nat
      BY <1>a, <2>5
    <3>2. wire' \in [End -> Seq(Unit)] /\ queue' \in [End -> Seq(SafeEntry)]
      BY <1>0, <2>3, <2>4, <2>6
    <3>3. queueFds' \in [End -> Seq(Descriptor)] /\ written' \in [End -> Nat]
      BY <1>0, <2>3, <2>4, <3>1
    <3> QED BY <3>2, <3>3
  <2>8. ASSUME NEW x \in End
        PROVE  /\ Len(wire'[x]) <= SocketCapacity
               /\ UnsentIn(queue'[x]) = Len(queueFds'[x])
               /\ written'[x] + Marks(Stream(queue'[x])) <= Len(posted'[x])
    <3>0. posted' = posted
      BY <2>1
    <3>1. CASE x # e
      <4>1. queue'[x] = queue[x] /\ queueFds'[x] = queueFds[x] /\ wire'[x] = wire[x] /\ written'[x] = written[x]
        BY <1>0, <2>3, <3>1
      <4> QED BY <1>a, <3>0, <4>1
    <3>2. CASE x = e
      <4>1. queue'[x] = R /\ queueFds'[x] = left
        BY <1>0, <2>3, <3>2
      <4>2. wire'[x] = wire[e] \o out /\ written'[x] = written[e] + k
        BY <1>0, <2>3, <3>2
      <4>3. written[e] + Marks(Stream(Q)) <= Len(posted[e])
        BY <1>a DEF Q
      <4>4. \A w, m, p, r, b \in Nat : w + b <= p /\ b = r + m => (w + r) + m <= p
        OBVIOUS
      <4>5. Marks(Stream(Q)) \in Nat
        BY <1>a DEF Q
      <4>6. (written[e] + k) + Marks(Stream(R)) <= Len(posted[e])
        BY <1>a, <2>4, <2>5, <4>3, <4>4, <4>5
      <4> QED BY <2>1, <2>4, <2>6, <3>0, <3>2, <4>1, <4>2, <4>6
    <3> QED BY <3>1, <3>2
  <2> QED BY <1>0, <1>b, <2>1, <2>7, <2>8
<1>6. ASSUME NEW e \in End, HangsUp(e) PROVE Goal
  <2>1. wire' = [wire EXCEPT ![Peer(e)] = <<>>] /\ UNCHANGED <<queue, queueFds, posted, written, bytes, attached>>
    BY <1>6 DEF HangsUp
  <2>2. \A x \in End : wire'[x] = <<>> \/ wire'[x] = wire[x]
    BY <1>0, <2>1
  <2>3. wire' \in [End -> Seq(Unit)] /\ \A x \in End : Len(wire'[x]) <= SocketCapacity
    <3>1. wire' \in [End -> Seq(Unit)]
      BY <1>0, <1>c, <2>1
    <3>2. \A x \in End : Len(wire'[x]) <= SocketCapacity
      BY <1>a, <1>c, <2>2
    <3> QED BY <3>1, <3>2
  <2> QED BY <1>0, <1>a, <1>b, <2>1, <2>3
<1>7. ASSUME NEW e \in End, Dies(e) PROVE Goal
  <2>1. /\ wire' = [wire EXCEPT ![Peer(e)] = <<>>]
        /\ queue' = [queue EXCEPT ![e] = <<>>] /\ queueFds' = [queueFds EXCEPT ![e] = <<>>]
        /\ bytes' = [bytes EXCEPT ![e] = <<>>] /\ attached' = [attached EXCEPT ![e] = <<>>]
        /\ UNCHANGED <<posted, written>>
    BY <1>7 DEF Dies
  <2>2. \A x \in End : wire'[x] = <<>> \/ wire'[x] = wire[x]
    BY <1>0, <2>1
  <2>3. wire' \in [End -> Seq(Unit)] /\ \A x \in End : Len(wire'[x]) <= SocketCapacity
    <3>1. wire' \in [End -> Seq(Unit)]
      BY <1>0, <1>c, <2>1
    <3>2. \A x \in End : Len(wire'[x]) <= SocketCapacity
      BY <1>a, <1>c, <2>2
    <3> QED BY <3>1, <3>2
  <2>4. queue' \in [End -> Seq(SafeEntry)] /\ queueFds' \in [End -> Seq(Descriptor)]
    BY <1>0, <1>c, <2>1
  <2>5. bytes' \in [End -> Seq(Unit)] /\ attached' \in [End -> Seq(Descriptor)]
    BY <1>0, <1>c, <2>1
  <2>6. ASSUME NEW x \in End
        PROVE  /\ UnsentIn(queue'[x]) = Len(queueFds'[x])
               /\ written'[x] + Marks(Stream(queue'[x])) <= Len(posted'[x])
    <3>1. CASE x # e
      <4>1. queue'[x] = queue[x] /\ queueFds'[x] = queueFds[x]
        BY <1>0, <2>1, <3>1
      <4> QED BY <1>a, <2>1, <4>1
    <3>2. CASE x = e
      <4>1. queue'[x] = <<>> /\ queueFds'[x] = <<>> /\ written'[x] = written[x] /\ posted'[x] = posted[x]
        BY <1>0, <2>1, <3>2
      <4>2. \A w, m, p \in Nat : w + m <= p => w + 0 <= p
        OBVIOUS
      <4>3. written[x] + 0 <= Len(posted[x])
        BY <1>a, <4>2
      <4> QED BY <1>c, <4>1, <4>3
    <3> QED BY <3>1, <3>2
  <2> QED BY <1>0, <1>b, <2>1, <2>3, <2>4, <2>5, <2>6
<1> QED BY <1>1, <1>2, <1>3, <1>4, <1>5, <1>6, <1>7, FlowSteps DEF Goal

LEMMA AcknowledgedTyped == \A U \in Seq(Unit) : Acknowledged(U) \in Nat
<1> TAKE U \in Seq(Unit)
<1> DEFINE N == [i \in 1..Len(U) |-> IF U[i].frame.type = "Payload" THEN 0 ELSE U[i].frame.fds]
<1>1. Len(U) \in Nat /\ \A i \in 1..Len(U) : U[i] \in Unit
  BY LenProperties, ElementOfSeq
<1>2. \A u \in Unit : u.frame \in Frame
  BY DEF Unit
<1>3. \A f \in Frame : f.fds \in Nat
  BY DEF Frame
<1>4. \A i \in 1..Len(U) : (IF U[i].frame.type = "Payload" THEN 0 ELSE U[i].frame.fds) \in Nat
  BY <1>1, <1>2, <1>3
<1>5. N \in [1..Len(U) -> Nat]
  BY <1>4
<1>6. N \in Seq(Nat)
  BY <1>1, <1>5
<1> HIDE DEF N
<1>7. Total(N) \in Nat
  BY <1>6, TotalProperties
<1> QED BY <1>7 DEF Acknowledged, N

LEMMA RetainedStays ==
    ASSUME RetainedTyped, PostersTyped, MessagesTyped, ReadTyped, [Next]_vars
    PROVE  RetainedTyped'
<1> USE DEF RetainedTyped
<1>0. /\ \A e \in End : retained[e] \in Seq(Descriptor)
      /\ \A s, r \in Seq(Descriptor) : s \o r \in Seq(Descriptor)
      /\ <<>> \in Seq(Descriptor)
  BY ConcatProperties, EmptySeq
<1>1. CASE UNCHANGED data
  BY <1>1 DEF data
<1>2. ASSUME NEW t \in Thread, PostRetain(t) PROVE RetainedTyped'
  <2>1. /\ At[t] \in End /\ todo[t] # <<>> /\ retained' = [retained EXCEPT ![At[t]] = @ \o Fds(Head(todo[t]))]
    BY <1>2, ThreadAssumption DEF PostRetain
  <2>2. Head(todo[t]) \in Msg
    <3>1. todo[t] \in Seq(Msg)
      BY DEF PostersTyped
    <3> QED BY <2>1, <3>1, HeadTailProperties
  <2>3. retained[At[t]] \o Fds(Head(todo[t])) \in Seq(Descriptor)
    BY <1>0, <2>1, <2>2, FdsTyped
  <2> QED BY <2>1, <2>3
<1>3. ASSUME NEW t \in Thread, PostEnqueue(t) PROVE RetainedTyped'
  BY <1>3 DEF PostEnqueue
<1>4. ASSUME NEW e \in End, IOReceive(e) \/ IOWrite(e) \/ Joined(e) PROVE RetainedTyped'
  <2>1. retained' = retained
    BY <1>4 DEF IOReceive, IOWrite, Joined, sending
  <2> QED BY <2>1
<1>5. ASSUME NEW e \in End, IOParse(e) PROVE RetainedTyped'
  <2>1. retained' = [retained EXCEPT ![e] = SubSeq(@, Acknowledged(ParsedUnits(e)) + 1, Len(@))]
    BY <1>5 DEF IOParse, ParsedUnits
  <2>2. Acknowledged(ParsedUnits(e)) \in Nat
    BY ParseTyped, AcknowledgedTyped
  <2>3. SubSeq(retained[e], Acknowledged(ParsedUnits(e)) + 1, Len(retained[e])) \in Seq(Descriptor)
    BY <1>0, <2>2, RestTyped
  <2> QED BY <2>1, <2>3
<1>6. ASSUME NEW e \in End, ReadHook(e) \/ DeferredHandle(e) PROVE RetainedTyped'
  <2>1. PICK M \in Seq(Message) : Handle(e, M)
    <3>1. Drained(e) \in Seq(Message) /\ unprocessed[e] \in Seq(Message)
      BY ConcatProperties DEF Drained, MessagesTyped
    <3> QED BY <1>6, <3>1 DEF ReadHook, DeferredHandle
  <2>2. PICK R \in Seq(Msg) : retained' = [retained EXCEPT ![e] = @ \o Each(R, Fds)]
    BY <2>1, HandleEffect
  <2>3. Each(R, Fds) \in Seq(Descriptor)
    BY MapsTyped, JoinedAreImages, ImagesProperties
  <2>4. retained[e] \o Each(R, Fds) \in Seq(Descriptor)
    BY <1>0, <2>3
  <2> QED BY <2>2, <2>4
<1>7. ASSUME NEW e \in End, SyncMatch(e) \/ SyncDrain(e) PROVE RetainedTyped'
  <2>1. retained' = retained
    BY <1>7 DEF SyncMatch, SyncDrain, sending
  <2> QED BY <2>1
<1>8. ASSUME NEW e \in End, NEW now, Die(e, now) PROVE RetainedTyped'
  BY <1>0, <1>8 DEF Die
<1> QED BY <1>1, <1>2, <1>3, <1>4, <1>5, <1>6, <1>7, <1>8, DataSteps

LEMMA CallsStay == ASSUME CallsTyped, [Next]_vars PROVE CallsTyped'
<1> USE DEF CallsTyped
<1> DEFINE Results == {None, "waiting", "answered", "failed"}
<1>1. ASSUME UNCHANGED <<awaited, outcome>> PROVE CallsTyped'
  BY <1>1
<1>2. CASE UNCHANGED vars
  BY <1>1, <1>2 DEF vars, connection, history
<1>3. ASSUME NEW t \in Thread, PostRefused(t) \/ PostRetain(t) \/ PostEnqueue(t) PROVE CallsTyped'
  <2>1. CASE PostRefused(t)
    BY <2>1 DEF PostRefused, connection
  <2>2. CASE PostRetain(t)
    BY <1>1, <2>2 DEF PostRetain, history
  <2>3. CASE PostEnqueue(t)
    BY <2>3 DEF PostEnqueue
  <2> QED BY <1>3, <2>1, <2>2, <2>3
<1>4. ASSUME NEW e \in End, NEW now, Die(e, now) PROVE CallsTyped'
  <2>1. /\ awaited' = [awaited EXCEPT ![e] = None]
        /\ outcome' = [m \in Request |-> IF m = awaited[e] THEN "failed" ELSE outcome[m]]
    BY <1>4 DEF Die
  <2> QED BY <2>1
<1>5. ASSUME NEW e \in End, IOThread(e) PROVE CallsTyped'
  <2>1. CASE IOLoop(e) \/ IOState(e) \/ IOPoll(e) \/ IOReceive(e) \/ IOVerify(e) \/ IOPublishEnd(e)
    <3>1. UNCHANGED <<awaited, outcome>>
      BY <2>1 DEF IOLoop, IOState, IOPoll, IOReceive, IOVerify, IOPublishEnd, connection, history
    <3> QED BY <1>1, <3>1
  <2>2. CASE IOParse(e)
    BY <1>1, <2>2 DEF IOParse, history
  <2>3. CASE IOWrite(e)
    BY <1>1, <2>3 DEF IOWrite, connection
  <2>4. CASE IOVerifyFails(e)
    BY <1>4, <2>4 DEF IOVerifyFails
  <2> QED BY <1>5, <2>1, <2>2, <2>3, <2>4 DEF IOThread
<1>6. ASSUME NEW e \in End, OwnerThread(e) \/ \E how : Close(e, how) PROVE CallsTyped'
  <2>1. CASE ReadHook(e) \/ DeferredHandle(e) \/ DeferredShutdown(e) \/ Joined(e) \/ SyncWait(e)
             \/ \E how : Close(e, how)
    <3>1. UNCHANGED <<awaited, outcome>>
      BY <2>1 DEF ReadHook, DeferredHandle, DeferredShutdown, Joined, SyncWait, Close, connection, history
    <3> QED BY <1>1, <3>1
  <2>2. CASE SyncMatch(e)
    <3>1. UNCHANGED <<awaited, outcome>> \/ SyncEnds(e, "answered") \/ SyncEnds(e, "failed")
      BY <2>2 DEF SyncMatch
    <3> QED BY <1>1, <3>1 DEF SyncEnds
  <2>3. CASE SyncDrain(e)
    <3>1. UNCHANGED <<awaited, outcome>> \/ SyncEnds(e, "answered") \/ SyncEnds(e, "failed")
      BY <2>3 DEF SyncDrain
    <3> QED BY <1>1, <3>1 DEF SyncEnds
  <2> QED BY <1>6, <2>1, <2>2, <2>3 DEF OwnerThread
<1>7. ASSUME NEW e \in End, Crash(e) PROVE CallsTyped'
  BY <1>4, <1>7 DEF Crash
<1> HIDE DEF CallsTyped
<1> QED BY <1>2, <1>3, <1>5, <1>6, <1>7 DEF Next

-----------------------------------------------------------------------------
(***************************************************************************)
(* When the IO thread goes to write there is something to write, and room  *)
(* for it, or the peer is gone: nobody else takes from the queue or adds   *)
(* to the wire.                                                            *)
(***************************************************************************)

Ready ==
    \A e \in End :
        /\ io[e] \in {"state", "poll"} /\ want[e] => queue[e] # <<>>
        /\ io[e] \in {"receive", "parse", "write"} /\ "POLLOUT" \in revents[e]
              => queue[e] # <<>> /\ (Len(wire[e]) < SocketCapacity \/ ~up[Peer(e)])
        /\ io[e] = "write" => "POLLOUT" \in revents[e]

LEMMA QueueKept ==
    ASSUME SentTyped, ReadTyped, Safe, PostersTyped, MessagesTyped, ControlTyped, Life, [Next]_vars,
           NEW x \in End, io'[x] \notin Ended, io'[x] # "loop"
    PROVE  /\ queue[x] # <<>> => queue'[x] # <<>>
           /\ Len(wire[x]) < SocketCapacity \/ ~up[Peer(x)] => Len(wire'[x]) < SocketCapacity \/ ~up'[Peer(x)]
<1> DEFINE Kept == queue[x] # <<>> => queue'[x] # <<>>
           Room == wire'[x] = wire[x] \/ wire'[x] = <<>>
<1>0. /\ queue \in [End -> Seq(Entry)] /\ wire \in [End -> Seq(Unit)] /\ queue[x] \in Seq(Entry)
      /\ queue[x] \in Seq(SafeEntry)
  BY DEF SentTyped, Safe
<1>1. Life' /\ (~up[Peer(x)] => ~up'[Peer(x)]) /\ up'[x]
  BY LifeStays, PeerProperties DEF Life
<1>2. ASSUME NEW S, NEW a \in Seq(S), NEW b \in Seq(S), a # <<>> PROVE a \o b # <<>>
  <2>1. a \o b = <<>> => a = <<>>
    BY ConcatEmptySeq
  <2> QED BY <1>2, <2>1
<1>3. Kept /\ Room
  <2>1. CASE UNCHANGED flow
    BY <2>1 DEF flow
  <2>2. ASSUME NEW e \in End, NEW R \in Seq(Msg), Posts(e, R) PROVE Kept /\ Room
    <3>1. queue' = [queue EXCEPT ![e] = @ \o Answers(R)] /\ wire' = wire
      BY <2>2 DEF Posts
    <3>2. CASE e = x
      <4>1. queue'[x] = queue[x] \o Answers(R)
        BY <1>0, <3>1, <3>2
      <4>2. Answers(R) \in Seq(SafeEntry)
        <5>1. Len(R) \in Nat /\ \A i \in 1..Len(R) : R[i] \in Msg
          BY LenProperties, ElementOfSeq
        <5>2. Answers(R) \in [1..Len(R) -> SafeEntry]
          BY <5>1, QueuedIsSafe DEF Answers
        <5> QED BY <5>1, <5>2
      <4>3. queue[x] # <<>> => queue[x] \o Answers(R) # <<>>
        BY <1>0, <1>2, <4>2
      <4> QED BY <3>1, <4>1, <4>3
    <3>3. CASE e # x
      BY <1>0, <3>1, <3>3
    <3> QED BY <3>2, <3>3
  <2>3. ASSUME NEW e \in End, Receives(e) \/ HangsUp(e) PROVE Kept /\ Room
    <3>1. queue' = queue /\ wire' = [wire EXCEPT ![Peer(e)] = <<>>]
      BY <2>3 DEF Receives, HangsUp
    <3> QED BY <1>0, <3>1
  <2>4. ASSUME NEW e \in End, Parses(e) PROVE Kept /\ Room
    <3>1. /\ wire' = wire
          /\ \/ UNCHANGED queue
             \/ \E n \in Nat : queue' = [queue EXCEPT ![e] = Append(@, Queued(Acknowledgement(n)))]
      BY <2>4 DEF Parses
    <3>2. ASSUME NEW n \in Nat, queue' = [queue EXCEPT ![e] = Append(@, Queued(Acknowledgement(n)))]
          PROVE  queue'[x] = queue[x] \/ queue'[x] # <<>>
      <4>1. Append(queue[x], Queued(Acknowledgement(n))) # <<>>
        <5>1. Queued(Acknowledgement(n)) \in SafeEntry
          BY QueuedIsSafe
        <5>2. Len(Append(queue[x], Queued(Acknowledgement(n)))) = Len(queue[x]) + 1 /\ Len(queue[x]) \in Nat
          BY <1>0, <5>1, AppendProperties, LenProperties
        <5>3. Len(Append(queue[x], Queued(Acknowledgement(n)))) # 0
          BY <5>2
        <5>4. Len(<<>>) = 0
          BY EmptySeq
        <5> QED BY <5>3, <5>4, Zenon
      <4>2. queue'[x] = queue[x] \/ queue'[x] = Append(queue[x], Queued(Acknowledgement(n)))
        BY <1>0, <3>2
      <4> QED BY <4>1, <4>2
    <3> QED BY <3>1, <3>2
  <2>5. ASSUME NEW e \in End, Writes(e) PROVE Kept /\ Room
    <3>1. e # x
      BY <2>5 DEF Writes
    <3>2. PICK n : Written(e, n)
      BY <2>5 DEF Writes
    <3>3. queue'[x] = queue[x] /\ wire'[x] = wire[x]
      BY <1>0, <3>1, <3>2 DEF Written
    <3> QED BY <3>3
  <2>6. ASSUME NEW e \in End, Dies(e) PROVE Kept /\ Room
    <3>1. ~up'[e] /\ queue' = [queue EXCEPT ![e] = <<>>] /\ wire' = [wire EXCEPT ![Peer(e)] = <<>>]
      BY <2>6 DEF Dies
    <3>2. e # x
      BY <1>1, <3>1
    <3> QED BY <1>0, <3>1, <3>2
  <2> HIDE DEF Kept, Room
  <2> QED BY <2>1, <2>2, <2>3, <2>4, <2>5, <2>6, FlowSteps
<1>4. Len(wire[x]) < SocketCapacity => Len(wire'[x]) < SocketCapacity
  <2>1. SocketCapacity \in Nat \ {0} /\ Len(<<>>) = 0
    BY BoundAssumption, EmptySeq
  <2> QED BY <1>3, <2>1
<1> QED BY <1>1, <1>3, <1>4

LEMMA ReadyStays ==
    ASSUME SentTyped, ReadTyped, Safe, PostersTyped, MessagesTyped, ControlTyped, Life, Ready, [Next]_vars
    PROVE  Ready'
<1> SUFFICES ASSUME NEW x \in End
             PROVE  /\ io'[x] \in {"state", "poll"} /\ want'[x] => queue'[x] # <<>>
                    /\ io'[x] \in {"receive", "parse", "write"} /\ "POLLOUT" \in revents'[x]
                          => queue'[x] # <<>> /\ (Len(wire'[x]) < SocketCapacity \/ ~up'[Peer(x)])
                    /\ io'[x] = "write" => "POLLOUT" \in revents'[x]
  BY DEF Ready
<1> DEFINE Goal == /\ io'[x] \in {"state", "poll"} /\ want'[x] => queue'[x] # <<>>
                   /\ io'[x] \in {"receive", "parse", "write"} /\ "POLLOUT" \in revents'[x]
                         => queue'[x] # <<>> /\ (Len(wire'[x]) < SocketCapacity \/ ~up'[Peer(x)])
                   /\ io'[x] = "write" => "POLLOUT" \in revents'[x]
           Room == Len(wire[x]) < SocketCapacity \/ ~up[Peer(x)]
<1>0. /\ io[x] \in {"state", "poll"} /\ want[x] => queue[x] # <<>>
      /\ io[x] \in {"receive", "parse", "write"} /\ "POLLOUT" \in revents[x] => queue[x] # <<>> /\ Room
      /\ io[x] = "write" => "POLLOUT" \in revents[x]
  BY DEF Ready
<1>a. /\ io \in [End -> IOPosition] /\ want \in [End -> BOOLEAN]
      /\ revents \in [End -> SUBSET {"POLLIN", "POLLHUP", "POLLOUT"}]
  BY DEF ControlTyped
<1>1. CASE io'[x] \in Ended \cup {"loop", "verify", "last receive", "last parse", "publish end"}
  BY <1>1 DEF Ended
<1>2. ASSUME io'[x] \notin Ended, io'[x] # "loop"
      PROVE  (queue[x] # <<>> => queue'[x] # <<>>) /\ (Room => Len(wire'[x]) < SocketCapacity \/ ~up'[Peer(x)])
  BY <1>2, QueueKept
<1>3. ASSUME io'[x] = io[x], want'[x] = want[x], revents'[x] = revents[x] PROVE Goal
  <2>1. CASE io'[x] \in Ended \cup {"loop"}
    BY <1>1, <2>1
  <2>2. CASE io'[x] \notin Ended /\ io'[x] # "loop"
    BY <1>0, <1>2, <1>3, <2>2
  <2> QED BY <2>1, <2>2
<1>4. ASSUME UNCHANGED vars PROVE Goal
  BY <1>3, <1>4 DEF vars, ioThread
<1>5. ASSUME NEW t \in Thread, PostRefused(t) \/ PostRetain(t) \/ PostEnqueue(t) PROVE Goal
  <2>1. UNCHANGED <<io, want, revents>>
    BY <1>5 DEF PostRefused, PostRetain, PostEnqueue, ioThread
  <2> QED BY <1>3, <2>1
<1>6. ASSUME NEW e \in End, OwnerThread(e) \/ \E how : Close(e, how) PROVE Goal
  <2>1. UNCHANGED <<io, want, revents>>
    BY <1>6 DEF OwnerThread, ReadHook, DeferredHandle, DeferredShutdown, Joined, SyncMatch, SyncWait, SyncDrain,
                Close, ioThread
  <2> QED BY <1>3, <2>1
<1>7. ASSUME NEW e \in End, NEW now \in {"aborted", "crashed"}, Die(e, now) PROVE Goal
  <2>1. /\ io' = [io EXCEPT ![e] = now] /\ want' = [want EXCEPT ![e] = FALSE]
        /\ revents' = [revents EXCEPT ![e] = {}]
    BY <1>7 DEF Die
  <2>2. CASE e = x
    <3>1. io'[x] \in Ended
      BY <1>a, <2>1, <2>2 DEF Ended
    <3> QED BY <1>1, <3>1
  <2>3. CASE e # x
    BY <1>3, <1>a, <2>1, <2>3
  <2> QED BY <2>2, <2>3
<1>8. ASSUME NEW e \in End, e # x, IOThread(e) PROVE Goal
  <2>1. CASE IOVerifyFails(e)
    BY <1>7, <2>1 DEF IOVerifyFails
  <2>2. CASE ~IOVerifyFails(e)
    <3>1. /\ io' = io \/ \E v : io' = [io EXCEPT ![e] = v]
          /\ want' = want \/ \E v : want' = [want EXCEPT ![e] = v]
          /\ revents' = revents \/ \E v : revents' = [revents EXCEPT ![e] = v]
      <4>1. CASE IOLoop(e) \/ IOState(e) \/ IOPoll(e)
        BY <4>1 DEF IOLoop, IOState, IOPoll
      <4>2. CASE IOReceive(e)
        BY <4>2 DEF IOReceive
      <4>3. CASE IOParse(e)
        <5>1. want' = want /\ \E v : io' = [io EXCEPT ![e] = v]
          BY <4>3 DEF IOParse
        <5>2. revents' = revents \/ \E v : revents' = [revents EXCEPT ![e] = v]
          BY <4>3 DEF IOParse
        <5> QED BY <5>1, <5>2
      <4>4. CASE IOWrite(e)
        <5>1. io' = [io EXCEPT ![e] = "loop"] /\ revents' = [revents EXCEPT ![e] = {}] /\ want' = want
          BY <4>4 DEF IOWrite
        <5> QED BY <5>1
      <4>5. CASE IOVerify(e) \/ IOPublishEnd(e)
        BY <4>5 DEF IOVerify, IOPublishEnd
      <4> QED BY <1>8, <2>2, <4>1, <4>2, <4>3, <4>4, <4>5 DEF IOThread
    <3>2. io'[x] = io[x] /\ want'[x] = want[x] /\ revents'[x] = revents[x]
      BY <1>8, <1>a, <3>1
    <3> QED BY <1>3, <3>2
  <2> QED BY <2>1, <2>2
<1>9. ASSUME IOThread(x) PROVE Goal
  <2>1. CASE IOLoop(x)
    <3>1. io'[x] = "state" /\ want'[x] = (queue[x] # <<>>) /\ queue'[x] = queue[x]
      BY <1>a, <2>1 DEF IOLoop, sending
    <3> QED BY <3>1
  <2>2. CASE IOState(x)
    <3>1. io[x] = "state" /\ want' = want /\ io'[x] \in {"verify", "poll"} /\ queue'[x] = queue[x]
      BY <1>a, <2>2 DEF IOState, sending
    <3> QED BY <1>0, <3>1
  <2>3. CASE IOPoll(x)
    <3>1. /\ io[x] = "poll" /\ want'[x] = FALSE /\ revents'[x] = PollEvents(x)
          /\ io'[x] \in {"receive", "write", "loop"} /\ (io'[x] = "write" => "POLLOUT" \in PollEvents(x))
          /\ UNCHANGED <<queue, wire, up>>
      BY <1>a, <2>3 DEF IOPoll, sending, os
    <3>2. "POLLOUT" \in PollEvents(x) => want[x] /\ Room
      BY DEF PollEvents
    <3> QED BY <1>0, <3>1, <3>2
  <2>4. CASE IOReceive(x)
    <3>1. /\ io[x] \in {"receive", "last receive"} /\ io'[x] = (IF io[x] = "receive" THEN "parse" ELSE "last parse")
          /\ want' = want /\ revents' = revents
      BY <1>a, <2>4 DEF IOReceive
    <3>2. CASE io[x] = "receive"
      BY <1>0, <1>2, <3>1, <3>2 DEF Ended
    <3>3. CASE io[x] # "receive"
      BY <1>1, <3>1, <3>3
    <3> QED BY <3>2, <3>3
  <2>5. CASE IOParse(x)
    <3>1. /\ io[x] \in {"parse", "last parse"}
          /\ io'[x] \in {"verify", "write", "loop", "publish end"}
          /\ io'[x] = "write" => io[x] = "parse" /\ "POLLOUT" \in revents[x] /\ "POLLOUT" \in revents'[x]
      <4>1. /\ io[x] \in {"parse", "last parse"}
            /\ IF io[x] = "parse"
               THEN /\ io' = [io EXCEPT ![x] = IF "POLLHUP" \in revents[x] THEN "verify"
                                              ELSE IF "POLLOUT" \in revents[x] THEN "write"
                                              ELSE "loop"]
                    /\ revents' = [revents EXCEPT ![x] = IF "POLLHUP" \in revents[x] THEN {} ELSE @ \ {"POLLIN"}]
               ELSE io' = [io EXCEPT ![x] = "publish end"]
        BY <2>5 DEF IOParse
      <4> QED BY <1>a, <4>1, ZenonT(30)
    <3>2. CASE io'[x] = "write"
      BY <1>0, <1>2, <3>1, <3>2 DEF Ended
    <3>3. CASE io'[x] # "write"
      BY <1>1, <3>1, <3>3
    <3> QED BY <3>2, <3>3
  <2>6. CASE IOWrite(x)
    <3>1. io'[x] = "loop"
      BY <1>a, <2>6 DEF IOWrite
    <3> QED BY <1>1, <3>1
  <2>7. CASE IOVerify(x) \/ IOPublishEnd(x)
    <3>1. io'[x] \in Ended \cup {"last receive"}
      BY <1>a, <2>7 DEF IOVerify, IOPublishEnd, Ended
    <3> QED BY <1>1, <3>1
  <2>8. CASE IOVerifyFails(x)
    BY <1>7, <2>8 DEF IOVerifyFails
  <2> QED BY <1>9, <2>1, <2>2, <2>3, <2>4, <2>5, <2>6, <2>7, <2>8 DEF IOThread
<1>10. ASSUME NEW e \in End, Crash(e) PROVE Goal
  BY <1>7, <1>10 DEF Crash
<1> HIDE DEF Goal
<1>11. Goal
  BY <1>4, <1>5, <1>6, <1>8, <1>9, <1>10 DEF Next
<1> QED BY <1>11 DEF Goal

-----------------------------------------------------------------------------
(***************************************************************************)
(* Every descriptor arrives before the end of its message.                 *)
(***************************************************************************)

LEMMA JoinedAlike ==
    ASSUME NEW S, NEW a \in Seq(S), NEW b \in Seq(S), NEW c \in Seq(S), NEW d \in Seq(S),
           a \o b = c \o d, Len(a) = Len(c)
    PROVE  a = c /\ b = d
<1>1. SubSeq(a \o b, 1, Len(a)) = a /\ SubSeq(a \o b, Len(a) + 1, Len(a \o b)) = b
  BY CutOfConcat
<1>2. SubSeq(c \o d, 1, Len(c)) = c /\ SubSeq(c \o d, Len(c) + 1, Len(c \o d)) = d
  BY CutOfConcat
<1> QED BY <1>1, <1>2

\* Joining, as an operator that the provers do not look into.
Join(x, y) == x \o y

LEMMA JoinProperties ==
    /\ \A x, y \in Seq(Descriptor) : Join(x, y) \in Seq(Descriptor)
    /\ \A x, y, z \in Seq(Descriptor) : Join(Join(x, y), z) = Join(x, Join(y, z))
    /\ \A x \in Seq(Descriptor) : Join(x, <<>>) = x /\ Join(<<>>, x) = x
    /\ <<>> \in Seq(Descriptor)
<1>1. \A x, y \in Seq(Descriptor) : Join(x, y) \in Seq(Descriptor)
  BY ConcatProperties DEF Join
<1>2. \A x, y, z \in Seq(Descriptor) : Join(Join(x, y), z) = Join(x, Join(y, z))
  BY ConcatAssociative DEF Join
<1>3. \A x \in Seq(Descriptor) : Join(x, <<>>) = x /\ Join(<<>>, x) = x
  BY ConcatEmptySeq DEF Join
<1> QED BY <1>1, <1>2, <1>3, EmptySeq

LEMMA RegroupedFour ==
    \A p, q, r, s \in Seq(Descriptor) : Join(Join(p, q), Join(r, s)) = Join(Join(p, Join(q, r)), s)
BY JoinProperties

LEMMA LongerStartsWith ==
    \A a, b, c, d \in Seq(Descriptor) :
        Join(a, b) = Join(c, d) /\ Len(b) <= Len(d) => \E r \in Seq(Descriptor) : a = Join(c, r)
<1> SUFFICES ASSUME NEW a \in Seq(Descriptor), NEW b \in Seq(Descriptor), NEW c \in Seq(Descriptor),
                    NEW d \in Seq(Descriptor)
             PROVE  Join(a, b) = Join(c, d) /\ Len(b) <= Len(d) => \E r \in Seq(Descriptor) : a = Join(c, r)
  OBVIOUS
<1>1. Len(Join(a, b)) = Len(a) + Len(b) /\ Len(Join(c, d)) = Len(c) + Len(d)
  BY ConcatProperties DEF Join
<1>2. Len(a) \in Nat /\ Len(b) \in Nat /\ Len(c) \in Nat /\ Len(d) \in Nat
  BY LenProperties
<1>3. Len(Join(a, b)) = Len(Join(c, d)) /\ Len(b) <= Len(d) => Len(c) \in 0..Len(a)
  BY <1>1, <1>2
<1>4. Len(c) \in 0..Len(a) => \E f, r \in Seq(Descriptor) : Len(f) = Len(c) /\ Join(f, r) = a
  <2> SUFFICES ASSUME Len(c) \in 0..Len(a)
               PROVE  \E f, r \in Seq(Descriptor) : Len(f) = Len(c) /\ Join(f, r) = a
    OBVIOUS
  <2>1. /\ SubSeq(a, 1, Len(c)) \in Seq(Descriptor) /\ SubSeq(a, Len(c) + 1, Len(a)) \in Seq(Descriptor)
        /\ Len(SubSeq(a, 1, Len(c))) = Len(c)
        /\ Join(SubSeq(a, 1, Len(c)), SubSeq(a, Len(c) + 1, Len(a))) = a
    BY CutInTwo, ZenonT(30) DEF Join
  <2> QED BY <2>1, Zenon
<1>5. \A f, g \in Seq(Descriptor) : Join(f, g) = Join(c, d) /\ Len(f) = Len(c) => f = c
  BY JoinedAlike DEF Join
<1>6. \A f, r \in Seq(Descriptor) : Join(f, r) = a /\ Len(f) = Len(c) /\ Join(a, b) = Join(c, d) => f = c
  BY <1>5, JoinProperties
<1> QED BY <1>3, <1>4, <1>6

LEMMA UnsentIsAnnounced == \A Q \in Seq(SafeEntry) : UnsentIn(Q) <= Len(Announced(Stream(Q)))
<1> DEFINE G == {Q \in Seq(SafeEntry) : UnsentIn(Q) <= Len(Announced(Stream(Q)))}
<1>1. <<>> \in G
  BY EmptySeq, UnsentOfAppend, StreamTyped, AnnouncedTyped
<1>2. ASSUME NEW Q \in Seq(SafeEntry), NEW q \in SafeEntry, Q \in G PROVE Append(Q, q) \in G
  <2>1. /\ Append(Q, q) \in Seq(SafeEntry) /\ UnsentIn(Append(Q, q)) = UnsentIn(Q) + q.unsent
        /\ Announced(Stream(Append(Q, q))) = Announced(Stream(Q)) \o Carried(q.frame)
    BY QueueGrows
  <2>2. Announced(Stream(Q)) \in Seq(Descriptor) /\ UnsentIn(Q) \in Nat
    BY SafeIsEntry, StreamTyped, AnnouncedTyped, UnsentOfAppend
  <2>3. Carried(q.frame) \in Seq(Descriptor) /\ q.unsent <= Len(Carried(q.frame)) /\ q.unsent \in Nat
    <3>1. q \in SafeEntry /\ q \in SentEntry /\ MaxTransferFds \in Nat
      BY SafeIsEntry, EntriesMayBeSent, BoundAssumption
    <3>2. q.frame \in Frame /\ q.unsent \in 0..MaxTransferFds /\ q.unsent <= Len(Carried(q.frame))
      BY <3>1 DEF SafeEntry, SentEntry
    <3> QED BY <3>1, <3>2, CarriedTyped
  <2>4. Len(Announced(Stream(Append(Q, q)))) = Len(Announced(Stream(Q))) + Len(Carried(q.frame))
    BY <2>1, <2>2, <2>3, ConcatProperties
  <2>5. Len(Announced(Stream(Q))) \in Nat /\ Len(Carried(q.frame)) \in Nat /\ UnsentIn(Q) <= Len(Announced(Stream(Q)))
    BY <1>2, <2>2, <2>3, LenProperties
  <2> QED BY <2>1, <2>2, <2>3, <2>4, <2>5
<1>3. Seq(SafeEntry) \subseteq G
  <2> HIDE DEF G
  <2> QED BY <1>1, <1>2, SequencesByAppending
<1> QED BY <1>3

\* The descriptors a that have arrived, those on the wire W and those queued in F
\* are the ones that the bytes B that have arrived, the wire and the queue Q
\* announce, in this order.
Balanced(a, W, F, B, Q) ==
    (a \o Images(W, fdsOfUnit)) \o F = (Announced(B) \o Announced(W)) \o Announced(Stream(Q))

\* None is missing at the reader when the bytes that announce it have left.
Ahead(a, W, B) ==
    \E r \in Seq(Descriptor) : a \o Images(W, fdsOfUnit) = (Announced(B) \o Announced(W)) \o r

LEMMA DescriptorsJoined ==
    /\ \A W \in Seq(Unit) : Images(W, fdsOfUnit) \in Seq(Descriptor)
    /\ \A W, V \in Seq(Unit) : Images(W \o V, fdsOfUnit) = Images(W, fdsOfUnit) \o Images(V, fdsOfUnit)
    /\ Images(<<>>, fdsOfUnit) = <<>>
    /\ \A x, y \in Seq(Descriptor) : x \o y \in Seq(Descriptor)
    /\ \A x, y, z \in Seq(Descriptor) : (x \o y) \o z = x \o (y \o z)
    /\ \A x \in Seq(Descriptor) : x \o <<>> = x /\ <<>> \o x = x
    /\ <<>> \in Seq(Descriptor)
<1>0. Maps(fdsOfUnit, Unit, Descriptor)
  BY MapsTyped
<1>1. \A W \in Seq(Unit) : Images(W, fdsOfUnit) \in Seq(Descriptor)
  BY <1>0, ImagesProperties
<1>2. \A W, V \in Seq(Unit) : Images(W \o V, fdsOfUnit) = Images(W, fdsOfUnit) \o Images(V, fdsOfUnit)
  BY <1>0, ImagesOfConcat
<1>3. Images(<<>>, fdsOfUnit) = <<>>
  BY <1>0, ImagesProperties
<1>4. /\ \A x, y \in Seq(Descriptor) : x \o y \in Seq(Descriptor)
      /\ \A x, y, z \in Seq(Descriptor) : (x \o y) \o z = x \o (y \o z)
  BY ConcatProperties, ConcatAssociative
<1>5. /\ \A x \in Seq(Descriptor) : x \o <<>> = x /\ <<>> \o x = x
      /\ <<>> \in Seq(Descriptor)
  BY ConcatEmptySeq, EmptySeq
<1> QED BY <1>1, <1>2, <1>3, <1>4, <1>5

LEMMA BalancedIsAhead ==
    \A a, F \in Seq(Descriptor) : \A W, B \in Seq(Unit) : \A Q \in Seq(SafeEntry) :
        Len(F) = UnsentIn(Q) /\ Balanced(a, W, F, B, Q) => Ahead(a, W, B)
<1> SUFFICES ASSUME NEW a \in Seq(Descriptor), NEW F \in Seq(Descriptor), NEW W \in Seq(Unit), NEW B \in Seq(Unit),
                    NEW Q \in Seq(SafeEntry)
             PROVE  Len(F) = UnsentIn(Q) /\ Balanced(a, W, F, B, Q) => Ahead(a, W, B)
  OBVIOUS
<1> DEFINE x == a \o Images(W, fdsOfUnit)
           y == Announced(B) \o Announced(W)
           z == Announced(Stream(Q))
<1>1. x \in Seq(Descriptor)
  BY DescriptorsJoined
<1>2. y \in Seq(Descriptor) /\ z \in Seq(Descriptor)
  <2>1. Announced(B) \in Seq(Descriptor) /\ Announced(W) \in Seq(Descriptor)
    BY AnnouncedTyped
  <2>2. Announced(Stream(Q)) \in Seq(Descriptor)
    BY SafeIsEntry, StreamTyped, AnnouncedTyped
  <2> QED BY <2>1, <2>2, DescriptorsJoined
<1>3. UnsentIn(Q) <= Len(z)
  BY UnsentIsAnnounced
<1>4. Balanced(a, W, F, B, Q) => Join(x, F) = Join(y, z)
  BY DEF Balanced, Join
<1>5. (\E r \in Seq(Descriptor) : x = Join(y, r)) => Ahead(a, W, B)
  BY DEF Ahead, Join
<1> HIDE DEF x, y, z
<1>6. Join(x, F) = Join(y, z) /\ Len(F) <= Len(z) => \E r \in Seq(Descriptor) : x = Join(y, r)
  BY <1>1, <1>2, LongerStartsWith
<1>7. Len(F) = UnsentIn(Q) => Len(F) <= Len(z)
  BY <1>3, Zenon
<1> QED BY <1>4, <1>5, <1>6, <1>7, Zenon

\* Two equal joins stay equal when both grow.
LEMMA JoinedGrow ==
    \A x, F, y, z, G \in Seq(Descriptor) :
        Join(x, F) = Join(y, z) => Join(x, Join(F, G)) = Join(y, Join(z, G))
<1> SUFFICES ASSUME NEW x \in Seq(Descriptor), NEW F \in Seq(Descriptor), NEW y \in Seq(Descriptor),
                    NEW z \in Seq(Descriptor), NEW G \in Seq(Descriptor)
             PROVE  Join(x, F) = Join(y, z) => Join(x, Join(F, G)) = Join(y, Join(z, G))
  OBVIOUS
<1>1. Join(Join(x, F), G) = Join(x, Join(F, G)) /\ Join(Join(y, z), G) = Join(y, Join(z, G))
  BY JoinProperties
<1> QED BY <1>1, Zenon

LEMMA BalancedByPost ==
    \A a, F, G \in Seq(Descriptor) : \A W, B \in Seq(Unit) : \A Q \in Seq(SafeEntry) : \A R :
        Balanced(a, W, F, B, Q) /\ Announced(Stream(R)) = Announced(Stream(Q)) \o G
        => Balanced(a, W, F \o G, B, R)
<1> SUFFICES ASSUME NEW a \in Seq(Descriptor), NEW F \in Seq(Descriptor), NEW G \in Seq(Descriptor),
                    NEW W \in Seq(Unit), NEW B \in Seq(Unit), NEW Q \in Seq(SafeEntry), NEW R
             PROVE  Balanced(a, W, F, B, Q) /\ Announced(Stream(R)) = Announced(Stream(Q)) \o G
                    => Balanced(a, W, F \o G, B, R)
  OBVIOUS
<1> DEFINE x == a \o Images(W, fdsOfUnit)
           y == Announced(B) \o Announced(W)
           z == Announced(Stream(Q))
           v == Announced(Stream(R))
<1>1. x \in Seq(Descriptor) /\ y \in Seq(Descriptor) /\ z \in Seq(Descriptor)
  <2>1. Announced(B) \in Seq(Descriptor) /\ Announced(W) \in Seq(Descriptor)
    BY AnnouncedTyped
  <2>2. z \in Seq(Descriptor)
    BY SafeIsEntry, StreamTyped, AnnouncedTyped
  <2> QED BY <2>1, <2>2, DescriptorsJoined
<1>2. Balanced(a, W, F, B, Q) => Join(x, F) = Join(y, z)
  BY DEF Balanced, Join
<1>3. Join(x, Join(F, G)) = Join(y, v) => Balanced(a, W, Join(F, G), B, R)
  BY DEF Balanced, Join
<1> HIDE DEF x, y, z, v
<1>4. Join(x, F) = Join(y, z) => Join(x, Join(F, G)) = Join(y, Join(z, G))
  BY <1>1, JoinedGrow
<1>5. Balanced(a, W, F, B, Q) /\ v = Join(z, G) => Balanced(a, W, Join(F, G), B, R)
  BY <1>2, <1>3, <1>4, Zenon
<1> QED BY <1>5 DEF Join, v, z

LEMMA BalancedByWrite ==
    \A a, F, left \in Seq(Descriptor) : \A W, B, out \in Seq(Unit) : \A Q, R \in Seq(SafeEntry) :
        /\ Balanced(a, W, F, B, Q)
        /\ F = Images(out, fdsOfUnit) \o left
        /\ Announced(Stream(Q)) = Announced(out) \o Announced(Stream(R))
        => Balanced(a, W \o out, left, B, R)
<1> SUFFICES ASSUME NEW a \in Seq(Descriptor), NEW F \in Seq(Descriptor), NEW left \in Seq(Descriptor),
                    NEW W \in Seq(Unit), NEW B \in Seq(Unit), NEW out \in Seq(Unit),
                    NEW Q \in Seq(SafeEntry), NEW R \in Seq(SafeEntry)
             PROVE  /\ Balanced(a, W, F, B, Q)
                    /\ F = Images(out, fdsOfUnit) \o left
                    /\ Announced(Stream(Q)) = Announced(out) \o Announced(Stream(R))
                    => Balanced(a, W \o out, left, B, R)
  OBVIOUS
<1> DEFINE i == Images(W, fdsOfUnit)
           o == Images(out, fdsOfUnit)
           b == Announced(B)
           w == Announced(W)
           u == Announced(out)
           z == Announced(Stream(R))
           v == Announced(Stream(Q))
           j == Images(W \o out, fdsOfUnit)
           k == Announced(W \o out)
<1>1. /\ i \in Seq(Descriptor) /\ o \in Seq(Descriptor) /\ b \in Seq(Descriptor) /\ w \in Seq(Descriptor)
      /\ u \in Seq(Descriptor) /\ z \in Seq(Descriptor)
  <2>1. i \in Seq(Descriptor) /\ o \in Seq(Descriptor)
    BY DescriptorsJoined
  <2>2. b \in Seq(Descriptor) /\ w \in Seq(Descriptor) /\ u \in Seq(Descriptor)
    BY AnnouncedTyped
  <2>3. z \in Seq(Descriptor)
    BY SafeIsEntry, StreamTyped, AnnouncedTyped
  <2> QED BY <2>1, <2>2, <2>3
<1>2. Balanced(a, W, F, B, Q) => Join(Join(a, i), F) = Join(Join(b, w), v)
  BY DEF Balanced, Join
<1>3. j = Join(i, o)
  BY DescriptorsJoined DEF Join
<1>4. k = Join(w, u)
  BY AnnouncedTyped DEF Join
<1>5. Join(Join(a, j), left) = Join(Join(b, k), z) => Balanced(a, W \o out, left, B, R)
  BY DEF Balanced, Join
<1> HIDE DEF i, o, b, w, u, z, v, j, k
<1>6. Join(Join(a, i), Join(o, left)) = Join(Join(a, Join(i, o)), left)
  BY <1>1, RegroupedFour
<1>7. Join(Join(b, w), Join(u, z)) = Join(Join(b, Join(w, u)), z)
  BY <1>1, RegroupedFour
<1>8. Join(Join(a, i), Join(o, left)) = Join(Join(b, w), Join(u, z)) => Join(Join(a, Join(i, o)), left) = Join(Join(b, Join(w, u)), z)
  BY <1>6, <1>7, Zenon
<1>9. Join(Join(a, i), Join(o, left)) = Join(Join(b, w), Join(u, z)) => Balanced(a, W \o out, left, B, R)
  BY <1>3, <1>4, <1>5, <1>8, Zenon
<1>10. Balanced(a, W, F, B, Q) /\ F = Join(o, left) /\ v = Join(u, z) => Balanced(a, W \o out, left, B, R)
  BY <1>2, <1>9, Zenon
<1> QED BY <1>10 DEF Join, o, v, u, z

\* What is received moves from the wire to the reader.
LEMMA BalancedByReceive ==
    \A a, F \in Seq(Descriptor) : \A W, B, bare \in Seq(Unit) : \A Q \in Seq(SafeEntry) :
        Announced(bare) = Announced(W)
        => /\ Balanced(a, W, F, B, Q) => Balanced(a \o Images(W, fdsOfUnit), <<>>, F, B \o bare, Q)
           /\ Ahead(a, W, B) => Ahead(a \o Images(W, fdsOfUnit), <<>>, B \o bare)
<1> SUFFICES ASSUME NEW a \in Seq(Descriptor), NEW F \in Seq(Descriptor), NEW W \in Seq(Unit), NEW B \in Seq(Unit),
                    NEW bare \in Seq(Unit), NEW Q \in Seq(SafeEntry)
             PROVE  Announced(bare) = Announced(W)
                    => /\ Balanced(a, W, F, B, Q) => Balanced(a \o Images(W, fdsOfUnit), <<>>, F, B \o bare, Q)
                       /\ Ahead(a, W, B) => Ahead(a \o Images(W, fdsOfUnit), <<>>, B \o bare)
  OBVIOUS
<1> DEFINE i == Images(W, fdsOfUnit)
           none == Images(<<>>, fdsOfUnit)
           b == Announced(B)
           w == Announced(W)
           v == Announced(bare)
           k == Announced(B \o bare)
           n == Announced(<<>>)
           z == Announced(Stream(Q))
<1>1. i \in Seq(Descriptor) /\ none = <<>>
  BY DescriptorsJoined
<1>2. b \in Seq(Descriptor) /\ w \in Seq(Descriptor) /\ n = <<>>
  BY AnnouncedTyped
<1>3. k = Join(b, v)
  BY AnnouncedTyped DEF Join
<1>4. Balanced(a, W, F, B, Q) => Join(Join(a, i), F) = Join(Join(b, w), z)
  BY DEF Balanced, Join
<1>5. Join(Join(Join(a, i), none), F) = Join(Join(k, n), z)
          => Balanced(a \o Images(W, fdsOfUnit), <<>>, F, B \o bare, Q)
  BY DEF Balanced, Join
<1>6. Ahead(a, W, B) => \E r \in Seq(Descriptor) : Join(a, i) = Join(Join(b, w), r)
  BY DEF Ahead, Join
<1>7. (\E r \in Seq(Descriptor) : Join(Join(a, i), none) = Join(Join(k, n), r))
          => Ahead(a \o Images(W, fdsOfUnit), <<>>, B \o bare)
  BY DEF Ahead, Join
<1> HIDE DEF i, none, b, w, v, k, n, z
<1>8. Join(Join(a, i), none) = Join(a, i)
  BY <1>1, JoinProperties
<1>9. v = w => Join(k, n) = Join(b, w)
  BY <1>2, <1>3, JoinProperties
<1>10. v = w => /\ Balanced(a, W, F, B, Q) => Balanced(a \o Images(W, fdsOfUnit), <<>>, F, B \o bare, Q)
                /\ Ahead(a, W, B) => Ahead(a \o Images(W, fdsOfUnit), <<>>, B \o bare)
  BY <1>4, <1>5, <1>6, <1>7, <1>8, <1>9, Zenon
<1> QED BY <1>10 DEF v, w

LEMMA JoinedEqually ==
    \A a, b, c, d \in Seq(Descriptor) : Join(a, b) = Join(c, d) /\ Len(a) = Len(c) => a = c /\ b = d
BY JoinedAlike DEF Join

\* What is parsed leaves with the descriptors it announces.
LEMMA BalancedByParse ==
    \A d, a, F \in Seq(Descriptor) : \A U, W, B \in Seq(Unit) : \A Q \in Seq(SafeEntry) :
        Len(d) = Len(Announced(U)) /\ Ahead(d \o a, W, U \o B)
        => /\ d = Announced(U) /\ Ahead(a, W, B)
           /\ Balanced(d \o a, W, F, U \o B, Q) => Balanced(a, W, F, B, Q)
<1> SUFFICES ASSUME NEW d \in Seq(Descriptor), NEW a \in Seq(Descriptor), NEW F \in Seq(Descriptor),
                    NEW U \in Seq(Unit), NEW W \in Seq(Unit), NEW B \in Seq(Unit), NEW Q \in Seq(SafeEntry)
             PROVE  Len(d) = Len(Announced(U)) /\ Ahead(d \o a, W, U \o B)
                    => /\ d = Announced(U) /\ Ahead(a, W, B)
                       /\ Balanced(d \o a, W, F, U \o B, Q) => Balanced(a, W, F, B, Q)
  OBVIOUS
<1> DEFINE i == Images(W, fdsOfUnit)
           u == Announced(U)
           b == Announced(B)
           w == Announced(W)
           k == Announced(U \o B)
           z == Announced(Stream(Q))
<1>1. i \in Seq(Descriptor)
  BY DescriptorsJoined
<1>2. u \in Seq(Descriptor) /\ b \in Seq(Descriptor) /\ w \in Seq(Descriptor)
  BY AnnouncedTyped
<1>3. z \in Seq(Descriptor)
  BY SafeIsEntry, StreamTyped, AnnouncedTyped
<1>4. k = Join(u, b)
  BY AnnouncedTyped DEF Join
<1>5. Ahead(d \o a, W, U \o B) => \E r \in Seq(Descriptor) : Join(Join(d, a), i) = Join(Join(k, w), r)
  BY DEF Ahead, Join
<1>6. (\E r \in Seq(Descriptor) : Join(a, i) = Join(Join(b, w), r)) => Ahead(a, W, B)
  BY DEF Ahead, Join
<1>7. Balanced(d \o a, W, F, U \o B, Q) => Join(Join(Join(d, a), i), F) = Join(Join(k, w), z)
  BY DEF Balanced, Join
<1>8. Join(Join(a, i), F) = Join(Join(b, w), z) => Balanced(a, W, F, B, Q)
  BY DEF Balanced, Join
<1> HIDE DEF i, u, b, w, k, z
<1>9. /\ Join(a, i) \in Seq(Descriptor) /\ Join(b, w) \in Seq(Descriptor)
      /\ Join(Join(a, i), F) \in Seq(Descriptor)
      /\ \A r \in Seq(Descriptor) : Join(Join(b, w), r) \in Seq(Descriptor)
  BY <1>1, <1>2, JoinProperties
<1>10. Join(Join(d, a), i) = Join(d, Join(a, i))
  BY <1>1, JoinProperties
<1>11. \A r \in Seq(Descriptor) : Join(Join(k, w), r) = Join(u, Join(Join(b, w), r))
  <2>1. Join(k, w) = Join(u, Join(b, w))
    BY <1>2, <1>4, JoinProperties
  <2> QED BY <1>2, <1>9, <2>1, JoinProperties
<1>12. Join(Join(Join(d, a), i), F) = Join(d, Join(Join(a, i), F))
  BY <1>9, <1>10, JoinProperties
<1>13. ASSUME NEW r \in Seq(Descriptor), Len(d) = Len(u), Join(Join(d, a), i) = Join(Join(k, w), r)
       PROVE  d = u /\ Join(a, i) = Join(Join(b, w), r)
  <2>1. Join(d, Join(a, i)) = Join(u, Join(Join(b, w), r))
    BY <1>10, <1>11, <1>13
  <2> QED BY <1>2, <1>9, <1>13, <2>1, JoinedEqually
<1>14. ASSUME Len(d) = Len(u), Join(Join(Join(d, a), i), F) = Join(Join(k, w), z)
       PROVE  Join(Join(a, i), F) = Join(Join(b, w), z)
  <2>1. Join(d, Join(Join(a, i), F)) = Join(u, Join(Join(b, w), z))
    BY <1>3, <1>11, <1>12, <1>14
  <2> QED BY <1>2, <1>3, <1>9, <1>14, <2>1, JoinedEqually
<1>15. Len(d) = Len(u) /\ Ahead(d \o a, W, U \o B)
       => /\ d = u /\ Ahead(a, W, B)
          /\ Balanced(d \o a, W, F, U \o B, Q) => Balanced(a, W, F, B, Q)
  BY <1>5, <1>6, <1>7, <1>8, <1>13, <1>14
<1> QED BY <1>15 DEF u

\* A reader that is up has been sent the descriptors before the bytes that
\* announce them, and, unless the writer has died, what it has not been sent is
\* queued.
Flow ==
    \A e \in End : up[Peer(e)] =>
        /\ main[e] # "dead" => Balanced(attached[Peer(e)], wire[e], queueFds[e], bytes[Peer(e)], queue[e])
        /\ Ahead(attached[Peer(e)], wire[e], bytes[Peer(e)])

LEMMA BareSaysTheSame ==
    ASSUME NEW W \in Seq(Unit)
    PROVE  LET bare == [i \in 1..Len(W) |-> [W[i] EXCEPT !.fds = <<>>]]
           IN /\ bare \in Seq(Unit) /\ Announced(bare) = Announced(W)
              /\ \A h : Say(bare, h) = Say(W, h)
<1> DEFINE bare == [i \in 1..Len(W) |-> [W[i] EXCEPT !.fds = <<>>]]
<1>1. Len(W) \in Nat /\ \A i \in 1..Len(W) : W[i] \in Unit
  BY LenProperties, ElementOfSeq
<1>2. \A u \in Unit : /\ [u EXCEPT !.fds = <<>>] \in Unit
                      /\ [u EXCEPT !.fds = <<>>].frame = u.frame /\ [u EXCEPT !.fds = <<>>].at = u.at
  BY EmptySeq DEF Unit
<1>3. bare \in [1..Len(W) -> Unit]
  BY <1>1, <1>2
<1>4. bare \in Seq(Unit) /\ Len(bare) = Len(W)
  BY <1>1, <1>3
<1>5. \A i \in 1..Len(W) : bare[i].frame = W[i].frame /\ bare[i].at = W[i].at
  BY <1>1, <1>2
<1> HIDE DEF bare
<1>6. \A h : Say(bare, h) = Say(W, h)
  BY <1>4, <1>5, SayTheSame
<1>7. Announced(bare) = Announced(W)
  BY <1>4, <1>6, AnnouncedIsSaid
<1> QED BY <1>4, <1>6, <1>7 DEF bare

LEMMA FlowStays ==
    ASSUME SentTyped, ReadTyped, Safe, PostersTyped, MessagesTyped, ControlTyped, Life, Ready, Flow, [Next]_vars
    PROVE  Flow'
<1> SUFFICES ASSUME NEW e \in End, up'[Peer(e)]
             PROVE  /\ main'[e] # "dead"
                          => Balanced(attached'[Peer(e)], wire'[e], queueFds'[e], bytes'[Peer(e)], queue'[e])
                    /\ Ahead(attached'[Peer(e)], wire'[e], bytes'[Peer(e)])
  BY DEF Flow
<1> DEFINE p == Peer(e)
           Old == Balanced(attached[p], wire[e], queueFds[e], bytes[p], queue[e])
           New == Balanced(attached'[p], wire'[e], queueFds'[e], bytes'[p], queue'[e])
           OldAhead == Ahead(attached[p], wire[e], bytes[p])
           NewAhead == Ahead(attached'[p], wire'[e], bytes'[p])
           Goal == (main'[e] # "dead" => New) /\ NewAhead
<1>0. p \in End /\ p # e /\ Peer(p) = e /\ \A x \in End : x = e \/ x = p
  BY PeerProperties
<1>1. OldAhead /\ (main'[e] # "dead" => Old) /\ (up[e] => Old)
  <2>1. up[p] /\ (main[e] = "dead" => main'[e] = "dead")
    BY <1>0, LifeStays
  <2>2. main[e] = "dead" => ~up[e]
    BY DEF Life
  <2> QED BY <2>1, <2>2 DEF Flow
<1>2. /\ queue \in [End -> Seq(SafeEntry)] /\ queueFds \in [End -> Seq(Descriptor)]
      /\ wire \in [End -> Seq(Unit)] /\ bytes \in [End -> Seq(Unit)] /\ attached \in [End -> Seq(Descriptor)]
      /\ Len(queueFds[e]) = UnsentIn(queue[e])
  BY DEF SentTyped, ReadTyped, Safe
<1>3. /\ queue[e] \in Seq(SafeEntry) /\ queueFds[e] \in Seq(Descriptor) /\ wire[e] \in Seq(Unit)
      /\ bytes[p] \in Seq(Unit) /\ attached[p] \in Seq(Descriptor)
  BY <1>0, <1>2
<1> HIDE DEF p, Old, New, OldAhead, NewAhead, Goal
<1>4. ASSUME attached'[p] = attached[p], wire'[e] = wire[e], bytes'[p] = bytes[p] PROVE NewAhead
  BY <1>1, <1>4 DEF OldAhead, NewAhead
<1>5. ASSUME attached'[p] = attached[p], wire'[e] = wire[e], bytes'[p] = bytes[p],
             queueFds'[e] = queueFds[e], queue'[e] = queue[e]
      PROVE  Goal
  BY <1>1, <1>4, <1>5 DEF Old, New, Goal
<1>6. ASSUME UNCHANGED flow PROVE Goal
  BY <1>5, <1>6 DEF flow
<1>7. ASSUME NEW x \in End, NEW R \in Seq(Msg), Posts(x, R) PROVE Goal
  <2>1. /\ queue' = [queue EXCEPT ![x] = @ \o Answers(R)] /\ queueFds' = [queueFds EXCEPT ![x] = @ \o Each(R, Fds)]
        /\ wire' = wire /\ bytes' = bytes /\ attached' = attached
    BY <1>7 DEF Posts
  <2>2. CASE x # e
    <3>1. queue'[e] = queue[e] /\ queueFds'[e] = queueFds[e]
      BY <1>2, <2>1, <2>2
    <3> QED BY <1>5, <2>1, <3>1
  <2>3. CASE x = e
    <3>1. queue'[e] = queue[e] \o Answers(R) /\ queueFds'[e] = queueFds[e] \o Each(R, Fds)
      BY <1>2, <2>1, <2>3
    <3>2. /\ Each(R, Fds) \in Seq(Descriptor)
          /\ Announced(Stream(queue[e] \o Answers(R))) = Announced(Stream(queue[e])) \o Each(R, Fds)
      BY <1>3, AnswersEffect
    <3>3. Old => Balanced(attached[p], wire[e], queueFds[e] \o Each(R, Fds), bytes[p], queue[e] \o Answers(R))
      BY <1>3, <3>2, BalancedByPost DEF Old
    <3>4. Old => New
      BY <2>1, <3>1, <3>3 DEF New
    <3>5. NewAhead
      BY <1>4, <2>1
    <3> QED BY <1>1, <3>4, <3>5 DEF Goal
  <2> QED BY <2>2, <2>3
<1>8. ASSUME NEW x \in End, Receives(x) PROVE Goal
  <2> DEFINE W == wire[e]
             bare == [i \in 1..Len(W) |-> [W[i] EXCEPT !.fds = <<>>]]
             came == Each(W, LAMBDA u : u.fds)
  <2>1. CASE x = e
    <3>1. /\ bytes'[p] = bytes[p] /\ attached'[p] = attached[p] /\ wire'[e] = wire[e]
          /\ queue' = queue /\ queueFds' = queueFds
      BY <1>0, <1>2, <1>8, <2>1 DEF Receives, p
    <3> QED BY <1>5, <3>1
  <2>2. CASE x = p
    <3>1. /\ bytes'[p] = bytes[p] \o bare /\ attached'[p] = attached[p] \o came /\ wire'[e] = <<>>
          /\ queue' = queue /\ queueFds' = queueFds
      BY <1>0, <1>2, <1>8, <2>2 DEF Receives
    <3>2. bare \in Seq(Unit) /\ Announced(bare) = Announced(W)
      BY <1>3, BareSaysTheSame
    <3>3. came = Images(W, fdsOfUnit)
      BY <1>3, JoinedAreImages
    <3> HIDE DEF bare, came
    <3>4. /\ Old => Balanced(attached[p] \o came, <<>>, queueFds[e], bytes[p] \o bare, queue[e])
          /\ OldAhead => Ahead(attached[p] \o came, <<>>, bytes[p] \o bare)
      BY <1>3, <3>2, <3>3, BalancedByReceive DEF Old, OldAhead
    <3>5. (Old => New) /\ (OldAhead => NewAhead)
      BY <3>1, <3>4 DEF New, NewAhead
    <3> QED BY <1>1, <3>5 DEF Goal
  <2> QED BY <1>0, <2>1, <2>2
<1>9. ASSUME NEW x \in End, Parses(x) PROVE Goal
  <2>1. CASE x = e
    <3>1. /\ bytes'[p] = bytes[p] /\ attached'[p] = attached[p] /\ wire' = wire /\ queueFds' = queueFds
          /\ \/ queue'[e] = queue[e]
             \/ \E n \in Nat : queue'[e] = Append(queue[e], Queued(Acknowledgement(n)))
      BY <1>0, <1>2, <1>9, <2>1 DEF Parses
    <3>2. ASSUME NEW n \in Nat, queue'[e] = Append(queue[e], Queued(Acknowledgement(n))) PROVE Goal
      <4> DEFINE q == Queued(Acknowledgement(n))
      <4>1. q \in SafeEntry /\ Carried(q.frame) = <<>>
        BY QueuedIsSafe
      <4>2. queue'[e] = Append(queue[e], q)
        BY <3>2
      <4> HIDE DEF q
      <4>3. Announced(Stream(Append(queue[e], q))) = Announced(Stream(queue[e])) \o <<>>
        BY <1>3, <4>1, QueueGrows
      <4>4. <<>> \in Seq(Descriptor) /\ queueFds[e] \o <<>> = queueFds[e]
        BY <1>3, EmptySeq, ConcatEmptySeq
      <4>5. Old => Balanced(attached[p], wire[e], queueFds[e] \o <<>>, bytes[p], Append(queue[e], q))
        BY <1>3, <4>3, <4>4, BalancedByPost DEF Old
      <4>6. Old => New
        BY <3>1, <4>2, <4>4, <4>5 DEF New
      <4>7. NewAhead
        BY <1>4, <3>1
      <4> QED BY <1>1, <4>6, <4>7 DEF Goal
    <3> QED BY <1>5, <3>1, <3>2
  <2>2. CASE x = p
    <3> DEFINE k == Len(Announced(ParsedUnits(p)))
               d == SubSeq(attached[p], 1, k)
               a == SubSeq(attached[p], k + 1, Len(attached[p]))
               U == ParsedUnits(p)
               B == SubSeq(bytes[p], Parsed(p) + 1, Len(bytes[p]))
    <3>1. wire' = wire /\ queueFds' = queueFds /\ queue'[e] = queue[e] /\ bytes'[p] = B /\ attached'[p] = a
      BY <1>0, <1>2, <1>9, <2>2 DEF Parses
    <3>2. U \in Seq(Unit) /\ B \in Seq(Unit) /\ U \o B = bytes[p]
      <4>1. Parsed(p) \in 0..Len(bytes[p])
        BY <1>0, <1>3, ParsedProperties
      <4> QED BY <1>3, <4>1, CutInTwo DEF ParsedUnits
    <3>3. d \in Seq(Descriptor) /\ a \in Seq(Descriptor) /\ d \o a = attached[p] /\ Len(d) = Len(Announced(U))
      <4>1. Announced(U) \in Seq(Descriptor) /\ k <= Len(attached[p])
        BY <1>0, <3>2, ParseTyped, AnnouncedTyped
      <4>2. k \in 0..Len(attached[p])
        BY <1>3, <4>1, LenProperties
      <4> HIDE DEF k
      <4>3. d \in Seq(Descriptor) /\ a \in Seq(Descriptor) /\ d \o a = attached[p] /\ Len(d) = k
        BY <1>3, <4>2, CutInTwo
      <4> QED BY <4>3 DEF k
    <3> HIDE DEF d, a, U, B, k
    <3>4. /\ OldAhead => Ahead(a, wire[e], B)
          /\ OldAhead => (Old => Balanced(a, wire[e], queueFds[e], B, queue[e]))
      <4>1. Ahead(d \o a, wire[e], U \o B)
            => /\ Ahead(a, wire[e], B)
               /\ Balanced(d \o a, wire[e], queueFds[e], U \o B, queue[e]) => Balanced(a, wire[e], queueFds[e], B, queue[e])
        BY <1>3, <3>2, <3>3, BalancedByParse
      <4> QED BY <3>2, <3>3, <4>1 DEF Old, OldAhead
    <3>5. OldAhead => NewAhead /\ (Old => New)
      BY <3>1, <3>4 DEF New, NewAhead
    <3> QED BY <1>1, <3>5 DEF Goal
  <2> QED BY <1>0, <2>1, <2>2
<1>10. ASSUME NEW x \in End, Writes(x) PROVE Goal
  <2>1. PICK n \in 0..UnitsUpTo(queue[x], Covered(queue[x])) :
               /\ Written(x, n) /\ up[Peer(x)] /\ io[x] = "write"
               /\ queue[x] # <<>> /\ Len(wire[x]) < SocketCapacity => n > 0
               /\ UNCHANGED <<bytes, attached>>
    BY <1>10 DEF Writes
  <2>2. CASE x # e
    <3>1. queue'[e] = queue[e] /\ queueFds'[e] = queueFds[e] /\ wire'[e] = wire[e]
      BY <1>2, <2>1, <2>2 DEF Written
    <3> QED BY <1>5, <2>1, <3>1
  <2>3. CASE x = e
    <3> DEFINE Q == queue[e]
               F == queueFds[e]
               fds == UnsentUpTo(Q, Covered(Q))
               out == Sent(Q, n, SubSeq(F, 1, fds))
               R == Discard(Q, n, fds)
               left == SubSeq(F, fds + 1, Len(F))
    <3>1. n > 0
      <4>1. "POLLOUT" \in revents[e] /\ queue[e] # <<>> /\ Len(wire[e]) < SocketCapacity
        BY <2>1, <2>3 DEF Ready
      <4> QED BY <2>1, <2>3, <4>1
    <3>2. up[e]
      BY <2>1, <2>3 DEF Life, Ended
    <3>3. queue'[e] = R /\ queueFds'[e] = left /\ wire'[e] = wire[e] \o out
      BY <1>2, <2>1, <2>3 DEF Written
    <3>4. Q \in Seq(SafeEntry) /\ F \in Seq(Descriptor) /\ Len(F) = UnsentIn(Q)
      BY <1>2, <1>3
    <3>5. /\ R \in Seq(SafeEntry) /\ out \in Seq(Unit) /\ left \in Seq(Descriptor) /\ Len(left) = UnsentIn(R)
          /\ F = Images(out, fdsOfUnit) \o left
          /\ Announced(Stream(Q)) = Announced(out) \o Announced(Stream(R))
      <4> HIDE DEF Q, F
      <4> QED BY <2>1, <2>3, <3>1, <3>4, WriteProperties DEF Q
    <3> HIDE DEF fds, out, R, left
    <3>6. Old => Balanced(attached[p], wire[e] \o out, left, bytes[p], R)
      <4>1. Balanced(attached[p], wire[e], F, bytes[p], Q) => Balanced(attached[p], wire[e] \o out, left, bytes[p], R)
        <5> HIDE DEF Q, F
        <5> QED BY <1>3, <3>4, <3>5, BalancedByWrite
      <4> QED BY <4>1 DEF Old
    <3>7. Balanced(attached[p], wire[e] \o out, left, bytes[p], R)
      BY <1>1, <3>2, <3>6
    <3>8. wire[e] \o out \in Seq(Unit)
      BY <1>3, <3>5, ConcatProperties
    <3>9. Ahead(attached[p], wire[e] \o out, bytes[p])
      BY <1>3, <3>5, <3>7, <3>8, BalancedIsAhead
    <3>10. New /\ NewAhead
      BY <2>1, <3>3, <3>7, <3>9 DEF New, NewAhead
    <3> QED BY <3>10 DEF Goal
  <2> QED BY <2>2, <2>3
<1>11. ASSUME NEW x \in End, HangsUp(x) PROVE Goal
  <2>1. ~up'[x] /\ wire' = [wire EXCEPT ![Peer(x)] = <<>>] /\ UNCHANGED <<queue, queueFds, bytes, attached>>
    BY <1>11 DEF HangsUp
  <2>2. x = e
    BY <1>0, <2>1 DEF p
  <2>3. wire'[e] = wire[e]
    BY <1>0, <1>2, <2>1, <2>2 DEF p
  <2> QED BY <1>5, <2>1, <2>3
<1>12. ASSUME NEW x \in End, Dies(x) PROVE Goal
  <2>1. /\ ~up'[x] /\ main'[x] = "dead" /\ wire' = [wire EXCEPT ![Peer(x)] = <<>>]
        /\ bytes' = [bytes EXCEPT ![x] = <<>>] /\ attached' = [attached EXCEPT ![x] = <<>>]
    BY <1>12 DEF Dies
  <2>2. x = e
    BY <1>0, <2>1 DEF p
  <2>3. wire'[e] = wire[e] /\ bytes'[p] = bytes[p] /\ attached'[p] = attached[p]
    BY <1>0, <1>2, <2>1, <2>2 DEF p
  <2>4. NewAhead
    BY <1>4, <2>3
  <2> QED BY <2>1, <2>2, <2>4 DEF Goal
<1>13. Goal
  BY <1>6, <1>7, <1>8, <1>9, <1>10, <1>11, <1>12, FlowSteps
<1> QED BY <1>13 DEF Goal, p, New, NewAhead

-----------------------------------------------------------------------------
(***************************************************************************)
(* Messages leave the IO thread, and are drained, with their own           *)
(* descriptors.                                                            *)
(***************************************************************************)

Own == {m \in Message : m.fds = Fds(m.msg)}

Owned == incoming \in [End -> Seq(Own)] /\ taken \in [End -> Seq(Own)]

LEMMA ParsedAreOwn ==
    ASSUME SentTyped, ReadTyped, Flow, NEW e \in End, up[e]
    PROVE  ParsedMessages(e) \in Seq(Own)
<1> DEFINE W == wire[Peer(e)]
           U == ParsedUnits(e)
           A == attached[e]
           k == Len(Announced(U))
           d == SubSeq(A, 1, k)
           a == SubSeq(A, k + 1, Len(A))
           B == SubSeq(bytes[e], Parsed(e) + 1, Len(bytes[e]))
           P == Those(U, IsLastOfPayload)
<1>0. Peer(e) \in End /\ Peer(Peer(e)) = e
  BY PeerProperties
<1>1. Ahead(A, W, bytes[e])
  BY <1>0 DEF Flow
<1>2. W \in Seq(Unit) /\ A \in Seq(Descriptor) /\ bytes[e] \in Seq(Unit)
  BY <1>0 DEF SentTyped, ReadTyped
<1>3. U \in Seq(Unit) /\ B \in Seq(Unit) /\ U \o B = bytes[e]
  <2>1. Parsed(e) \in 0..Len(bytes[e])
    BY <1>2, ParsedProperties
  <2> QED BY <1>2, <2>1, CutInTwo DEF ParsedUnits
<1>4. k \in 0..Len(A)
  <2>1. Announced(U) \in Seq(Descriptor) /\ k <= Len(A)
    BY <1>3, ParseTyped, AnnouncedTyped
  <2> QED BY <1>2, <2>1, LenProperties
<1>5. d \in Seq(Descriptor) /\ a \in Seq(Descriptor) /\ d \o a = A /\ Len(d) = k
  <2> HIDE DEF k, A
  <2> QED BY <1>2, <1>4, CutInTwo DEF A
<1> HIDE DEF W, U, A, d, a, B, P
<1>6. d = Announced(U)
  <2>1. Ahead(d \o a, W, U \o B)
    BY <1>1, <1>3, <1>5
  <2>2. <<>> \in Seq(Descriptor) /\ <<>> \in Seq(SafeEntry)
    BY EmptySeq
  <2> QED BY <1>2, <1>3, <1>5, <2>1, <2>2, BalancedByParse
<1>7. /\ Batch(P, A) \in Seq(Message) /\ Len(Batch(P, A)) = Len(P)
      /\ \A i \in 1..Len(P) : Batch(P, A)[i].msg = P[i].frame.msg
      /\ \A i \in 1..Len(P) : Batch(P, A)[i].fds = Fds(P[i].frame.msg)
  <2>1. SubSeq(A, 1, Len(Announced(U))) = Announced(U)
    BY <1>6 DEF d
  <2>2. Len(Announced(U)) <= Len(A)
    BY <1>2, <1>4, LenProperties
  <2>3. P = Those(U, IsLastOfPayload)
    BY DEF P
  <2>4. A \in Seq(Descriptor) /\ U \in Seq(Unit)
    BY <1>2, <1>3
  <2>5. Batch(P, A) \in Seq(Message) /\ Len(Batch(P, A)) = Len(P)
    BY <2>2, <2>3, <2>4, BatchProperties
  <2>6. \A i \in 1..Len(P) : Batch(P, A)[i].msg = P[i].frame.msg
    BY <2>2, <2>3, <2>4, BatchProperties
  <2>7. \A i \in 1..Len(P) : Batch(P, A)[i].fds = Fds(P[i].frame.msg)
    BY <2>1, <2>2, <2>3, <2>4, BatchProperties, SMTT(30)
  <2> QED BY <2>5, <2>6, <2>7
<1>8. Batch(P, A) \in Seq(Own)
  <2> DEFINE M == Batch(P, A)
  <2>1. M \in Seq(Message) /\ Len(M) = Len(P) /\ Len(M) \in Nat
    BY <1>7, LenProperties
  <2>2. \A i \in 1..Len(P) : M[i].fds = Fds(M[i].msg)
    BY <1>7
  <2> HIDE DEF M
  <2>3. \A i \in 1..Len(M) : M[i] \in Own
    BY <2>1, <2>2, ElementOfSeq DEF Own
  <2>4. M \in Seq(Own)
    <3>1. M = [i \in 1..Len(M) |-> M[i]]
      BY <2>1, LenProperties
    <3>2. M \in [1..Len(M) -> Own]
      BY <2>3, <3>1
    <3> QED BY <2>1, <3>2
  <2> QED BY <2>4 DEF M
<1> QED BY <1>8 DEF ParsedMessages, P, U, A

LEMMA OwnedStay ==
    ASSUME SentTyped, ReadTyped, Flow, Life, Owned, [Next]_vars
    PROVE  Owned'
<1> USE DEF Owned
<1>0. /\ \A e \in End : incoming[e] \in Seq(Own) /\ taken[e] \in Seq(Own)
      /\ \A M, N \in Seq(Own) : M \o N \in Seq(Own)
      /\ <<>> \in Seq(Own)
  BY ConcatProperties, EmptySeq
<1>1. ASSUME UNCHANGED <<incoming, taken>> PROVE Owned'
  BY <1>1
<1>2. CASE UNCHANGED data
  BY <1>1, <1>2 DEF data
<1>3. ASSUME NEW t \in Thread, PostRetain(t) \/ PostEnqueue(t) PROVE Owned'
  BY <1>1, <1>3 DEF PostRetain, PostEnqueue, receiving, history
<1>4. ASSUME NEW e \in End, IOReceive(e) \/ IOWrite(e) \/ Joined(e) \/ DeferredHandle(e) \/ SyncMatch(e) PROVE Owned'
  <2>1. CASE IOReceive(e)
    BY <1>1, <2>1 DEF IOReceive, history
  <2>2. CASE IOWrite(e)
    BY <1>1, <2>2 DEF IOWrite, receiving
  <2>3. CASE Joined(e)
    BY <1>1, <2>3 DEF Joined, receiving, history
  <2>4. CASE DeferredHandle(e) \/ SyncMatch(e)
    BY <1>1, <2>4 DEF DeferredHandle, SyncMatch, receiving
  <2> QED BY <1>4, <2>1, <2>2, <2>3, <2>4
<1>5. ASSUME NEW e \in End, IOParse(e) PROVE Owned'
  <2>1. /\ incoming' = [incoming EXCEPT ![e] = @ \o ParsedMessages(e)]
        /\ UNCHANGED taken
        /\ io[e] \in {"parse", "last parse"}
    BY <1>5 DEF IOParse, ParsedMessages, ParsedUnits, history
  <2>2. up[e]
    BY <2>1 DEF Life, Ended
  <2>3. incoming[e] \o ParsedMessages(e) \in Seq(Own)
    BY <1>0, <2>2, ParsedAreOwn
  <2> QED BY <2>1, <2>3
<1>6. ASSUME NEW e \in End, NEW now, Die(e, now) PROVE Owned'
  BY <1>0, <1>6 DEF Die
<1>7. ASSUME NEW e \in End, ReadHook(e) \/ SyncDrain(e) PROVE Owned'
  <2>1. incoming' = [incoming EXCEPT ![e] = <<>>] /\ taken' = [taken EXCEPT ![e] = @ \o incoming[e]]
    BY <1>7 DEF ReadHook, SyncDrain, Drain
  <2> QED BY <1>0, <2>1
<1> QED BY <1>2, <1>3, <1>4, <1>5, <1>6, <1>7, DataSteps

-----------------------------------------------------------------------------
(***************************************************************************)
(* The invariant of both directions, and the theorems.                     *)
(***************************************************************************)

TransportInv ==
    /\ PostersTyped /\ SentTyped /\ RetainedTyped /\ ReadTyped /\ MessagesTyped /\ ControlTyped /\ CallsTyped
    /\ Life /\ Safe /\ Ready /\ Flow /\ Owned /\ DispatchedInOrder

LEMMA InitTransportInv == Init => TransportInv
<1> SUFFICES ASSUME Init PROVE TransportInv
  OBVIOUS
<1>0. \A S : <<>> \in Seq(S) /\ Len(<<>>) = 0
  BY EmptySeq
<1>1. /\ PostersTyped /\ SentTyped /\ RetainedTyped /\ ReadTyped /\ MessagesTyped /\ ControlTyped
      /\ CallsTyped
  BY InitTyped
<1>2. Life
  BY DEF Init, Life
<1>3. Safe
  <2>1. UnsentIn(<<>>) = 0 /\ Marks(Stream(<<>>)) = 0
    BY UnsentOfAppend, StreamTyped, MarksTyped
  <2>2. queue = [e \in End |-> <<>>] /\ queueFds = [e \in End |-> <<>>] /\ posted = [e \in End |-> <<>>]
        /\ written = [e \in End |-> 0]
    BY DEF Init
  <2>3. queue \in [End -> Seq(SafeEntry)]
    BY <1>0, <2>2
  <2>4. \A x \in End : queue[x] = <<>> /\ queueFds[x] = <<>> /\ posted[x] = <<>> /\ written[x] = 0
    BY <2>2
  <2> QED BY <1>0, <2>1, <2>3, <2>4 DEF Safe
<1>4. Ready
  BY DEF Init, Ready
<1>5. Flow
  <2>1. \A x \in End : /\ attached[x] = <<>> /\ wire[x] = <<>> /\ bytes[x] = <<>>
                       /\ queue[x] = <<>> /\ queueFds[x] = <<>>
    BY DEF Init
  <2>2. Images(<<>>, fdsOfUnit) = <<>> /\ Announced(<<>>) = <<>> /\ Stream(<<>>) = <<>>
    BY DescriptorsJoined, AnnouncedTyped, StreamTyped
  <2>3. <<>> \in Seq(Descriptor) /\ <<>> \o <<>> = <<>>
    BY EmptySeq, ConcatEmptySeq
  <2>4. Balanced(<<>>, <<>>, <<>>, <<>>, <<>>)
    BY <2>2, <2>3 DEF Balanced
  <2>5. Ahead(<<>>, <<>>, <<>>)
    BY <2>2, <2>3 DEF Ahead
  <2> QED BY <2>1, <2>4, <2>5, PeerProperties DEF Flow
<1>6. Owned
  BY <1>0 DEF Init, Owned
<1>7. DispatchedInOrder
  <2>1. \A e \in End : taken[e] = <<>> /\ handled[e] = <<>> /\ unprocessed[e] = <<>>
    BY DEF Init
  <2>2. ForEndpoint(<<>>) = <<>> /\ <<>> \o <<>> = <<>>
    BY <1>0, ForEndpointTyped, ConcatEmptySeq
  <2> QED BY <2>1, <2>2 DEF DispatchedInOrder
<1> QED BY <1>1, <1>2, <1>3, <1>4, <1>5, <1>6, <1>7 DEF TransportInv

LEMMA TransportInvStays == TransportInv /\ [Next]_vars => TransportInv'
<1> SUFFICES ASSUME TransportInv, [Next]_vars PROVE TransportInv'
  OBVIOUS
<1>1. /\ PostersTyped /\ SentTyped /\ RetainedTyped /\ ReadTyped /\ MessagesTyped /\ ControlTyped /\ CallsTyped
      /\ Life /\ Safe /\ Ready /\ Flow /\ Owned /\ DispatchedInOrder
  BY DEF TransportInv
<1>2. PostersTyped' /\ RetainedTyped' /\ MessagesTyped' /\ ControlTyped' /\ CallsTyped'
  BY <1>1, PostersStay, RetainedStays, MessagesStay, ControlStays, CallsStay
<1>3. SentTyped' /\ ReadTyped' /\ Safe'
  BY <1>1, SafeStays
<1>4. Life'
  BY <1>1, LifeStays
<1>5. Ready'
  BY <1>1, ReadyStays
<1>6. Flow'
  BY <1>1, FlowStays
<1>7. Owned'
  BY <1>1, OwnedStay
<1>8. DispatchedInOrder'
  BY <1>1, DispatchedStays
<1> QED BY <1>2, <1>3, <1>4, <1>5, <1>6, <1>7, <1>8 DEF TransportInv

LEMMA TransportInvHolds == Spec => []TransportInv
BY InitTransportInv, TransportInvStays, PTL DEF Spec

\* Every variable keeps its type, the socket holds no more than its capacity, and
\* no message is on the wire more often than it was posted.
THEOREM TypeCorrect == Spec => []TypeOK
<1>1. ASSUME TransportInv PROVE TypeOK
  <2>1. /\ PostersTyped /\ SentTyped /\ RetainedTyped /\ ReadTyped /\ MessagesTyped /\ ControlTyped /\ CallsTyped
        /\ Safe
    BY <1>1 DEF TransportInv
  <2>2. \A e \in End : written[e] <= Len(posted[e])
    <3>1. ASSUME NEW e \in End PROVE written[e] <= Len(posted[e])
      <4>1. queue[e] \in Seq(SafeEntry) /\ written[e] \in Nat /\ Len(posted[e]) \in Nat
        BY <2>1, LenProperties DEF Safe, SentTyped
      <4>2. Marks(Stream(queue[e])) \in Nat
        BY <4>1, SafeIsEntry, StreamTyped, MarksTyped
      <4>3. written[e] + Marks(Stream(queue[e])) <= Len(posted[e])
        BY <2>1 DEF Safe
      <4> QED BY <4>1, <4>2, <4>3
    <3> QED BY <3>1
  <2> QED BY <2>1, <2>2, TypeOKInParts
<1> QED BY <1>1, TransportInvHolds, PTL

\* No byte of a message leaves before its descriptors (peek() and discard() of
\* SendQueue), and no message leaves the queue without them.
THEOREM FdsGoFirst == Spec => []FdsBeforeBytes
<1>1. ASSUME TransportInv PROVE FdsBeforeBytes
  <2>1. Safe
    BY <1>1 DEF TransportInv
  <2>2. ASSUME NEW e \in End, NEW i \in 1..Len(queue[e]) PROVE queue[e][i].offset > 0 => queue[e][i].unsent = 0
    <3>1. queue[e] \in Seq(SafeEntry)
      BY <2>1 DEF Safe
    <3>2. queue[e][i] \in SafeEntry
      BY <3>1, ElementOfSeq
    <3> QED BY <3>2 DEF SafeEntry
  <2>3. \A e \in End : UnsentUpTo(queue[e], Len(queue[e])) = Len(queueFds[e])
    BY <2>1 DEF Safe, UnsentIn
  <2> QED BY <2>2, <2>3 DEF FdsBeforeBytes
<1> QED BY <1>1, TransportInvHolds, PTL

\* A message is taken with its own attachments, however writes were cut and joined
\* and however the units and descriptors of several were read together.
THEOREM MessagesKeepTheirAttachments == Spec => []OwnAttachments
<1>1. ASSUME TransportInv PROVE OwnAttachments
  <2>1. Owned
    BY <1>1 DEF TransportInv
  <2>2. ASSUME NEW e \in End, NEW i \in 1..Len(taken[e]) PROVE taken[e][i].fds = Fds(taken[e][i].msg)
    <3>1. taken[e] \in Seq(Own)
      BY <2>1 DEF Owned
    <3>2. taken[e][i] \in Own
      BY <3>1, ElementOfSeq
    <3> QED BY <3>2 DEF Own
  <2> QED BY <2>2 DEF OwnAttachments
<1> QED BY <1>1, TransportInvHolds, PTL

\* The owner dispatches what it has drained in the order of arrival and loses
\* nothing, whichever of the read hook, the deferred call or a wait gets there.
THEOREM NoMessageIsOvertaken == Spec => []DispatchedInOrder
<1>1. TransportInv => DispatchedInOrder
  BY DEF TransportInv
<1> QED BY <1>1, TransportInvHolds, PTL


-----------------------------------------------------------------------------
(***************************************************************************)
(* What the stream of a queue says, as messages are posted and written.    *)
(***************************************************************************)

LEMMA StreamSays ==
    ASSUME NEW V, NEW h, Maps(h, Frame, V), NEW Q \in Seq(Entry), NEW q \in Entry
    PROVE  /\ Say(Stream(Q), h) \in Seq(V) /\ h[q.frame] \in Seq(V)
           /\ Say(Stream(Append(Q, q)), h) = Say(Stream(Q), h) \o h[q.frame]
<1>1. Append(Q, q) = Q \o <<q>> /\ <<q>> \in Seq(Entry) /\ q.frame \in Frame
  BY AppendIsConcat DEF Entry
<1>2. Stream(Append(Q, q)) = Stream(Q) \o UnitsOf(q)
  BY <1>1, StreamTyped
<1>3. Stream(Q) \in Seq(Unit) /\ UnitsOf(q) \in Seq(Unit)
  BY StreamTyped, UnitsOfTyped
<1>4. \A U, W \in Seq(Unit) : Say(U, h) \in Seq(V) /\ Say(U \o W, h) = Say(U, h) \o Say(W, h)
  BY SayTyped
<1>5. Say(UnitsOf(q), h) = h[q.frame]
  BY UnitsSay
<1>6. h[q.frame] \in Seq(V)
  BY <1>1 DEF Maps
<1> QED BY <1>2, <1>3, <1>4, <1>5, <1>6

\* The answers to requests, of each of which h says what g says of the message.
LEMMA AnswersSay ==
    ASSUME NEW V, NEW h, Maps(h, Frame, V), NEW g, Maps(g, Msg, V),
           \A m \in Msg : h[Payload(m)] = g[m],
           NEW Q \in Seq(Entry)
    PROVE  \A R \in Seq(Msg) : Say(Stream(Q \o Answers(R)), h) = Say(Stream(Q), h) \o Images(R, g)
<1> DEFINE G == {R \in Seq(Msg) : /\ Answers(R) \in Seq(Entry)
                                 /\ Say(Stream(Q \o Answers(R)), h) = Say(Stream(Q), h) \o Images(R, g)}
<1>1. <<>> \in G
  <2>1. Answers(<<>>) = <<>>
    BY AnswersTyped
  <2>2. Images(<<>>, g) = <<>> /\ Say(Stream(Q), h) \in Seq(V) /\ Q \o <<>> = Q
    <3>1. Say(Stream(Q), h) \in Seq(V)
      BY StreamTyped, SayTyped
    <3> QED BY <3>1, ImagesProperties, ConcatEmptySeq
  <2> QED BY <2>1, <2>2, EmptySeq, ConcatEmptySeq, ZenonT(30)
<1>2. ASSUME NEW R \in Seq(Msg), NEW m \in Msg, R \in G PROVE Append(R, m) \in G
  <2> DEFINE q == Queued(Payload(m))
             O == Q \o Answers(R)
  <2>1. q \in Entry /\ q.frame = Payload(m)
    BY QueuedIsSafe DEF SafeEntry, Queued
  <2>2. Answers(R) \in Seq(Entry) /\ Say(Stream(O), h) = Say(Stream(Q), h) \o Images(R, g)
    BY <1>2
  <2>3. Append(R, m) \in Seq(Msg) /\ Answers(Append(R, m)) = Append(Answers(R), q)
    BY AnswersTyped, AppendProperties
  <2> HIDE DEF q
  <2>4. O \in Seq(Entry) /\ Q \o Append(Answers(R), q) = Append(O, q) /\ Append(Answers(R), q) \in Seq(Entry)
    <3>1. O \in Seq(Entry) /\ <<q>> \in Seq(Entry)
      BY <2>1, <2>2, ConcatProperties
    <3>2. Append(Answers(R), q) = Answers(R) \o <<q>> /\ Append(O, q) = O \o <<q>>
      BY <2>1, <2>2, <3>1, AppendIsConcat
    <3>3. \A x, y, z \in Seq(Entry) : (x \o y) \o z = x \o (y \o z)
      BY ConcatAssociative
    <3>4. (Q \o Answers(R)) \o <<q>> = Q \o (Answers(R) \o <<q>>)
      BY <2>2, <3>1, <3>3, Zenon
    <3> QED BY <2>1, <2>2, <3>1, <3>2, <3>4, AppendProperties
  <2> HIDE DEF O
  <2>5. Say(Stream(Append(O, q)), h) = Say(Stream(O), h) \o h[q.frame]
    BY <2>1, <2>4, StreamSays
  <2>6. Images(Append(R, m), g) = Images(R, g) \o g[m] /\ Images(R, g) \in Seq(V) /\ g[m] \in Seq(V)
    <3>1. g[m] \in Seq(V)
      BY DEF Maps
    <3>2. \A s \in Seq(Msg), x \in Msg : Images(Append(s, x), g) = Images(s, g) \o g[x] /\ Images(s, g) \in Seq(V)
      BY ImagesProperties
    <3> QED BY <3>1, <3>2
  <2>7. Say(Stream(Append(O, q)), h) = Say(Stream(Q), h) \o Images(Append(R, m), g)
    <3>1. \A x, y, z \in Seq(V) : (x \o y) \o z = x \o (y \o z)
      BY ConcatAssociative, SMTT(30)
    <3>2. Say(Stream(Q), h) \in Seq(V)
      BY StreamTyped, SayTyped
    <3>3. (Say(Stream(Q), h) \o Images(R, g)) \o g[m] = Say(Stream(Q), h) \o (Images(R, g) \o g[m])
      BY <2>6, <3>1, <3>2, Zenon
    <3> QED BY <2>1, <2>2, <2>5, <2>6, <3>3
  <2> QED BY <2>3, <2>4, <2>7
<1>3. Seq(Msg) \subseteq G
  <2> HIDE DEF G
  <2> QED BY <1>1, <1>2, SequencesByAppending
<1> QED BY <1>3

\* A write puts the first part of it on the wire and leaves the second.
LEMMA WriteSays ==
    ASSUME NEW V, NEW h, Maps(h, Frame, V),
           NEW Q \in Seq(SafeEntry), NEW n \in 0..UnitsUpTo(Q, Covered(Q)), NEW F \in Seq(Descriptor)
    PROVE  LET out == Sent(Q, n, F)
               R == Discard(Q, n, UnsentUpTo(Q, Covered(Q)))
           IN Say(Stream(Q), h) = Say(out, h) \o Say(Stream(R), h)
<1> DEFINE S == Stream(Q)
           R == Discard(Q, n, UnsentUpTo(Q, Covered(Q)))
<1>1. Q \in Seq(Entry) /\ Q \in Seq(SentEntry) /\ Len(Q) \in Nat /\ Covered(Q) \in 0..Len(Q)
  <2>1. Q \in Seq(Entry) /\ Q \in Seq(SentEntry)
    BY SafeIsEntry
  <2> QED BY <2>1, CoveredProperties, LenProperties
<1>2. S \in Seq(Unit) /\ n \in 0..Len(S)
  <2>1. UnitsUpTo(Q, Covered(Q)) \in 0..Len(S) /\ Len(S) \in Nat /\ S \in Seq(Unit)
    BY <1>1, UnitsUpToProperties, StreamTyped, LenProperties
  <2> HIDE DEF S
  <2> QED BY <2>1
<1>3. Stream(R) = SubSeq(S, n + 1, Len(S))
  BY <1>1, DiscardProperties
<1>4. Say(Sent(Q, n, F), h) = Say(SubSeq(S, 1, n), h)
  BY <1>1, <1>2, SentProperties
<1> HIDE DEF S, R
<1>5. /\ SubSeq(S, 1, n) \in Seq(Unit) /\ SubSeq(S, n + 1, Len(S)) \in Seq(Unit)
      /\ S = SubSeq(S, 1, n) \o SubSeq(S, n + 1, Len(S))
  BY <1>2, CutInTwo
<1>6. \A U, W \in Seq(Unit) : Say(U \o W, h) = Say(U, h) \o Say(W, h)
  BY SayTyped
<1>7. Say(S, h) = Say(SubSeq(S, 1, n), h) \o Say(SubSeq(S, n + 1, Len(S)), h)
  BY <1>5, <1>6, Zenon
<1> QED BY <1>3, <1>4, <1>7 DEF S, R

-----------------------------------------------------------------------------
(***************************************************************************)
(* Acknowledgements: one for each descriptor that the peer has received.   *)
(***************************************************************************)

ackOf == [f \in Frame |-> IF f.type = "Payload" THEN <<>> ELSE [i \in 1..f.fds |-> 1]]
Acks(U) == Say(U, ackOf)

LEMMA AcksTyped ==
    /\ Maps(ackOf, Frame, {1})
    /\ Acks(<<>>) = <<>>
    /\ \A U \in Seq(Unit) : Acks(U) \in Seq({1}) /\ Len(Acks(U)) \in Nat /\ Acknowledged(U) = Len(Acks(U))
    /\ \A U, W \in Seq(Unit) : Len(Acks(U \o W)) = Len(Acks(U)) + Len(Acks(W))
<1>0. \A f \in Frame : f.fds \in Nat /\ (f.type = "Payload" \/ Size(f) = 1)
  BY DEF Frame, Size
<1>1. Maps(ackOf, Frame, {1})
  <2>1. ASSUME NEW f \in Frame PROVE (IF f.type = "Payload" THEN <<>> ELSE [i \in 1..f.fds |-> 1]) \in Seq({1})
    <3>1. f.fds \in Nat
      BY <1>0
    <3>2. [i \in 1..f.fds |-> 1] \in Seq({1})
      BY <3>1
    <3> QED BY <3>2, EmptySeq
  <2> QED BY <2>1 DEF Maps, ackOf
<1>2. /\ Acks(<<>>) = <<>>
      /\ \A U \in Seq(Unit) : Acks(U) \in Seq({1}) /\ Len(Acks(U)) \in Nat
      /\ \A U, W \in Seq(Unit) : Acks(U \o W) = Acks(U) \o Acks(W)
  BY <1>1, SayTyped DEF Acks
<1>3. \A U, W \in Seq(Unit) : Len(Acks(U \o W)) = Len(Acks(U)) + Len(Acks(W))
  BY <1>2, ConcatProperties
<1> DEFINE count(u) == IF u.frame.type = "Payload" THEN 0 ELSE u.frame.fds
           N(U) == [i \in 1..Len(U) |-> IF U[i].frame.type = "Payload" THEN 0 ELSE U[i].frame.fds]
           G == {U \in Seq(Unit) : Total(N(U)) = Len(Acks(U)) /\ N(U) \in Seq(Nat)}
<1>4. \A u \in Unit : count(u) \in Nat
  BY <1>0 DEF Unit
<1>5. <<>> \in G
  <2>1. N(<<>>) = <<>>
    BY EmptySeq
  <2> QED BY <1>2, <2>1, EmptySeq, TotalProperties
<1>6. ASSUME NEW U \in Seq(Unit), NEW u \in Unit, U \in G PROVE Append(U, u) \in G
  <2>1. /\ Len(U) \in Nat /\ Append(U, u) \in Seq(Unit) /\ Len(Append(U, u)) = Len(U) + 1
        /\ Append(U, u)[Len(U) + 1] = u /\ \A i \in 1..Len(U) : Append(U, u)[i] = U[i]
    BY LenProperties, AppendProperties
  <2>2. N(Append(U, u)) = Append(N(U), count(u))
    <3>1. N(U) \in Seq(Nat) /\ Len(N(U)) = Len(U) /\ \A i \in 1..Len(U) : N(U)[i] = count(U[i])
      BY <1>6, <2>1
    <3>2. /\ Append(N(U), count(u)) \in Seq(Nat) /\ Len(Append(N(U), count(u))) = Len(U) + 1
          /\ Append(N(U), count(u))[Len(U) + 1] = count(u)
          /\ \A i \in 1..Len(U) : Append(N(U), count(u))[i] = count(U[i])
      <4> HIDE DEF N, count
      <4>1. count(u) \in Nat
        BY <1>4
      <4> QED BY <3>1, <4>1, AppendProperties
    <3>3. \A i \in 1..(Len(U) + 1) : count(Append(U, u)[i]) \in Nat
      <4>1. \A i \in 1..(Len(U) + 1) : Append(U, u)[i] \in Unit
        BY <2>1, ElementOfSeq
      <4> HIDE DEF count
      <4> QED BY <1>4, <4>1
    <3>4. N(Append(U, u)) = [i \in 1..(Len(U) + 1) |-> count(Append(U, u)[i])]
      BY <2>1
    <3>5. N(Append(U, u)) \in Seq(Nat) /\ Len(N(Append(U, u))) = Len(U) + 1
          /\ \A i \in 1..(Len(U) + 1) : N(Append(U, u))[i] = count(Append(U, u)[i])
      <4> HIDE DEF N, count
      <4>1. N(Append(U, u)) \in [1..(Len(U) + 1) -> Nat]
        BY <3>3, <3>4
      <4> QED BY <2>1, <3>4, <4>1
    <3> HIDE DEF N, count
    <3>6. \A i \in 1..(Len(U) + 1) : N(Append(U, u))[i] = Append(N(U), count(u))[i]
      <4>1. \A i \in 1..(Len(U) + 1) : i = Len(U) + 1 \/ i \in 1..Len(U)
        BY <2>1
      <4> QED BY <2>1, <3>2, <3>5, <4>1
    <3> QED BY <3>2, <3>5, <3>6, SeqEqual
  <2>3. Total(N(Append(U, u))) = Total(N(U)) + count(u) /\ N(Append(U, u)) \in Seq(Nat)
    <3> HIDE DEF N, count
    <3> QED BY <1>4, <1>6, <2>2, TotalProperties, AppendProperties DEF G
  <2>4. Len(AtEnd(ackOf)[u]) = count(u)
    <3>1. u.frame \in Frame /\ u.at \in 1..Size(u.frame)
      BY DEF Unit
    <3>2. CASE u.frame.type = "Payload"
      BY <3>1, <3>2, EmptySeq DEF AtEnd, ackOf
    <3>3. CASE u.frame.type # "Payload"
      <4>1. IsLastUnit(u) /\ u.frame.fds \in Nat
        BY <1>0, <3>1, <3>3 DEF IsLastUnit
      <4>2. AtEnd(ackOf)[u] = [i \in 1..u.frame.fds |-> 1]
        BY <3>1, <3>3, <4>1 DEF AtEnd, ackOf
      <4> QED BY <3>3, <4>1, <4>2
    <3> QED BY <3>2, <3>3
  <2>5. Acks(Append(U, u)) = Acks(U) \o AtEnd(ackOf)[u] /\ AtEnd(ackOf)[u] \in Seq({1})
    <3>1. Maps(AtEnd(ackOf), Unit, {1})
      BY <1>1, SayTyped
    <3>2. \A s \in Seq(Unit), x \in Unit : Images(Append(s, x), AtEnd(ackOf)) = Images(s, AtEnd(ackOf)) \o AtEnd(ackOf)[x]
      BY <3>1, ImagesProperties
    <3> QED BY <3>1, <3>2 DEF Acks, Say, Maps
  <2>6. Len(Acks(Append(U, u))) = Len(Acks(U)) + count(u)
    <3> HIDE DEF count
    <3> QED BY <1>2, <2>4, <2>5, ConcatProperties
  <2> HIDE DEF N, count
  <2> QED BY <1>6, <2>1, <2>3, <2>6 DEF G
<1>7. Seq(Unit) \subseteq G
  <2> HIDE DEF G
  <2> QED BY <1>5, <1>6, SequencesByAppending
<1>8. \A U \in Seq(Unit) : Acknowledged(U) = Len(Acks(U))
  <2> TAKE U \in Seq(Unit)
  <2>1. Acknowledged(U) = Total(N(U))
    BY DEF Acknowledged
  <2> QED BY <1>7, <2>1
<1> QED BY <1>1, <1>2, <1>3, <1>8

-----------------------------------------------------------------------------
(***************************************************************************)
(* post_message() retains under one lock and enqueues under another: the   *)
(* descriptors are retained in the order in which they are queued when one *)
(* thread of each end posts all messages that have any.  (If two do, the   *)
(* peer's acknowledgement of the one may close the descriptors of the      *)
(* other.)                                                                 *)
(***************************************************************************)

PostsAlone(t, e) ==
    /\ At[t] = e
    /\ \A u \in Thread : At[u] = e /\ u # t => \A i \in 1..Len(Program[u]) : FdCount[Program[u][i]] = 0
    /\ t = Owner[e] \/ \A r \in Request : FdCount[Reply[r]] = 0

OnePoster == \A e \in End : \E t \in Thread : PostsAlone(t, e)

Poster(e) == CHOOSE t \in Thread : PostsAlone(t, e)

LEMMA PosterProperties == OnePoster => \A e \in End : Poster(e) \in Thread /\ PostsAlone(Poster(e), e)
BY DEF OnePoster, Poster

\* Messages without descriptors.
Plain == {m \in Msg : FdCount[m] = 0}

LEMMA PlainProperties ==
    /\ \A m \in Plain : m \in Msg /\ Fds(m) = <<>>
    /\ \A R \in Seq(Plain) : Each(R, Fds) = <<>>
<1>1. \A m \in Plain : m \in Msg /\ Fds(m) = <<>>
  BY EmptySeq, FdsTyped DEF Plain
<1>2. \A R \in Seq(Plain) : Images(R, fdsOfMsg) = <<>>
  <2>1. Maps(fdsOfMsg, Msg, Descriptor) /\ Plain \subseteq Msg
    BY MapsTyped DEF Plain
  <2>2. \A m \in Plain : fdsOfMsg[m] = <<>>
    BY <1>1 DEF fdsOfMsg
  <2> QED BY <2>1, <2>2, ImagesAllEmpty
<1>3. \A R \in Seq(Plain) : R \in Seq(Msg)
  BY SeqMonotonic DEF Plain
<1> QED BY <1>1, <1>2, <1>3, JoinedAreImages

\* The others post nothing with descriptors, and the owner is posting for as long
\* as it retains.
Lone ==
    /\ \A t \in Thread : t # Poster(At[t]) => todo[t] \in Seq(Plain) /\ retaining[t] \in Plain \cup {None}
    /\ \A e \in End : retaining[Owner[e]] # None => main[e] = "posting"

LEMMA InitLone == OnePoster /\ Init => Lone
<1> SUFFICES ASSUME OnePoster, Init PROVE Lone
  OBVIOUS
<1>1. \A t \in Thread : At[t] \in End /\ Program[t] \in Seq(Msg)
  BY ThreadAssumption
<1>2. ASSUME NEW t \in Thread, t # Poster(At[t]) PROVE todo[t] \in Seq(Plain)
  <2>1. \A i \in 1..Len(Program[t]) : FdCount[Program[t][i]] = 0
    BY <1>1, <1>2, PosterProperties DEF PostsAlone
  <2>2. \A i \in 1..Len(Program[t]) : Program[t][i] \in Msg
    BY <1>1, ElementOfSeq
  <2>3. \A i \in 1..Len(Program[t]) : Program[t][i] \in Plain
    BY <2>1, <2>2 DEF Plain
  <2>4. Program[t] = [i \in 1..Len(Program[t]) |-> Program[t][i]] /\ Len(Program[t]) \in Nat
    BY <1>1, LenProperties
  <2>5. Program[t] \in [1..Len(Program[t]) -> Plain]
    BY <2>3, <2>4
  <2>6. Program[t] \in Seq(Plain)
    BY <2>4, <2>5
  <2> QED BY <2>6 DEF Init
<1>3. \A t \in Thread : retaining[t] = None
  BY DEF Init
<1>4. \A e \in End : Owner[e] \in Thread
  BY ThreadAssumption
<1> QED BY <1>2, <1>3, <1>4 DEF Lone

LEMMA LoneStays ==
    ASSUME PostersTyped, ControlTyped, Lone, [Next]_vars
    PROVE  Lone'
<1>0. /\ \A t \in Thread : t # Poster(At[t]) => todo[t] \in Seq(Plain) /\ retaining[t] \in Plain \cup {None}
      /\ \A e \in End : Owner[e] \in Thread /\ At[Owner[e]] = e /\ (retaining[Owner[e]] # None => main[e] = "posting")
      /\ todo \in [Thread -> Seq(Msg)] /\ retaining \in [Thread -> Msg \cup {None}]
      /\ \A t \in Thread : At[t] \in End
      /\ main \in [End -> {"events", "posting", "match", "wait", "blocked", "drain", "joining", "dead"}]
  BY ThreadAssumption DEF Lone, PostersTyped, ControlTyped
<1>1. ASSUME NEW who, todo' = [todo EXCEPT ![who] = Tail(@)],
             who \in Thread, todo[who] # <<>>,
             retaining' = retaining \/ retaining' = [retaining EXCEPT ![who] = Head(todo[who])]
      PROVE  \A t \in Thread : t # Poster(At[t]) => todo'[t] \in Seq(Plain) /\ retaining'[t] \in Plain \cup {None}
  <2>1. \A s \in Seq(Plain) : s # <<>> => Head(s) \in Plain /\ Tail(s) \in Seq(Plain)
    BY HeadTailProperties
  <2> QED BY <1>0, <1>1, <2>1
<1>2. ASSUME UNCHANGED <<todo, retaining>>,
             main' = main \/ \E e \in End : main[e] # "posting" /\ \E now : main' = [main EXCEPT ![e] = now]
      PROVE  Lone'
  BY <1>0, <1>2 DEF Lone
<1>3. CASE UNCHANGED vars
  BY <1>2, <1>3 DEF vars, posters, connection
<1>4. ASSUME NEW t \in Thread, PostRefused(t) PROVE Lone'
  <2>1. todo[t] # <<>> /\ todo' = [todo EXCEPT ![t] = Tail(@)] /\ UNCHANGED <<retaining, main>>
    BY <1>4 DEF PostRefused, connection
  <2> QED BY <1>0, <1>1, <2>1 DEF Lone
<1>5. ASSUME NEW t \in Thread, PostRetain(t) PROVE Lone'
  <2>1. /\ todo[t] # <<>> /\ todo' = [todo EXCEPT ![t] = Tail(@)]
        /\ retaining' = [retaining EXCEPT ![t] = Head(todo[t])]
        /\ main' = IF t = Owner[At[t]] THEN [main EXCEPT ![At[t]] = "posting"] ELSE main
    BY <1>5 DEF PostRetain
  <2>2. ASSUME NEW e \in End, retaining'[Owner[e]] # None PROVE main'[e] = "posting"
    <3>1. CASE t = Owner[e]
      BY <1>0, <2>1, <3>1
    <3>2. CASE t # Owner[e]
      <4>1. retaining'[Owner[e]] = retaining[Owner[e]]
        BY <1>0, <2>1, <3>2
      <4> QED BY <1>0, <2>1, <2>2, <4>1
    <3> QED BY <3>1, <3>2
  <2> QED BY <1>0, <1>1, <2>1, <2>2 DEF Lone
<1>6. ASSUME NEW t \in Thread, PostEnqueue(t) PROVE Lone'
  <2>1. /\ retaining' = [retaining EXCEPT ![t] = None] /\ UNCHANGED todo
        /\ t # Owner[At[t]] => main' = main
        /\ \E now : main' = [main EXCEPT ![At[t]] = now] \/ main' = main
    BY <1>6 DEF PostEnqueue
  <2>2. ASSUME NEW e \in End, retaining'[Owner[e]] # None PROVE main'[e] = "posting"
    <3>1. t # Owner[e] /\ retaining'[Owner[e]] = retaining[Owner[e]]
      BY <1>0, <2>1, <2>2
    <3>2. main'[e] = main[e]
      BY <1>0, <2>1, <3>1
    <3> QED BY <1>0, <2>2, <3>1, <3>2
  <2> QED BY <1>0, <2>1, <2>2 DEF Lone
<1>7. ASSUME NEW e \in End, NEW now, Die(e, now) PROVE Lone'
  <2>1. /\ main' = [main EXCEPT ![e] = "dead"]
        /\ todo' = [t \in Thread |-> IF At[t] = e THEN <<>> ELSE todo[t]]
        /\ retaining' = [t \in Thread |-> IF At[t] = e THEN None ELSE retaining[t]]
    BY <1>7 DEF Die
  <2>2. <<>> \in Seq(Plain)
    BY EmptySeq
  <2> QED BY <1>0, <2>1, <2>2 DEF Lone
<1>8. ASSUME NEW e \in End, IOThread(e) PROVE Lone'
  <2>1. CASE IOVerifyFails(e)
    BY <1>7, <2>1 DEF IOVerifyFails
  <2>2. CASE /\ main' = main \/ (main[e] = "blocked" /\ main' = [main EXCEPT ![e] = "wait"])
             /\ UNCHANGED <<todo, retaining>>
    BY <1>2, <2>2
  <2> QED BY <1>8, <2>1, <2>2, IOSteps
<1>9. ASSUME NEW e \in End, OwnerThread(e) \/ \E how : Close(e, how) PROVE Lone'
  <2>1. /\ main[e] # "posting" /\ UNCHANGED <<todo, retaining>>
        /\ main' = main \/ \E now : main' = [main EXCEPT ![e] = now]
    BY <1>9, OwnerSteps
  <2> QED BY <1>2, <2>1
<1>10. ASSUME NEW e \in End, Crash(e) PROVE Lone'
  BY <1>7, <1>10 DEF Crash
<1> QED BY <1>3, <1>4, <1>5, <1>6, <1>8, <1>9, <1>10 DEF Next

-----------------------------------------------------------------------------
(***************************************************************************)
(* The descriptors an end retains are, in order: some of which the peer    *)
(* has acknowledged or will acknowledge n, those that have arrived (a),    *)
(* those that have left (W), those queued (F) and those of the message in  *)
(* the middle of being posted (P).                                         *)
(***************************************************************************)

Keeps(r, a, W, F, P, n) ==
    \E D \in Seq(Descriptor) : r = Join(D, Join(a, Join(W, Join(F, P)))) /\ n <= Len(D)

LEMMA KeepsWhilePosting ==
    \A r, a, W, F, P \in Seq(Descriptor), n \in Nat :
        /\ Keeps(r, a, W, F, P, n) => Keeps(r, a, W, Join(F, P), <<>>, n)
        /\ Keeps(r, a, W, F, <<>>, n) => Keeps(Join(r, P), a, W, F, P, n)
        /\ Keeps(r, a, W, F, <<>>, n) => Keeps(Join(r, P), a, W, Join(F, P), <<>>, n)
<1> SUFFICES ASSUME NEW r \in Seq(Descriptor), NEW a \in Seq(Descriptor), NEW W \in Seq(Descriptor),
                    NEW F \in Seq(Descriptor), NEW P \in Seq(Descriptor), NEW n \in Nat
             PROVE  /\ Keeps(r, a, W, F, P, n) => Keeps(r, a, W, Join(F, P), <<>>, n)
                    /\ Keeps(r, a, W, F, <<>>, n) => Keeps(Join(r, P), a, W, F, P, n)
                    /\ Keeps(r, a, W, F, <<>>, n) => Keeps(Join(r, P), a, W, Join(F, P), <<>>, n)
  OBVIOUS
<1>1. Join(F, P) \in Seq(Descriptor) /\ Join(Join(F, P), <<>>) = Join(F, P) /\ Join(F, <<>>) = F
  BY JoinProperties
<1>2. Keeps(r, a, W, F, P, n) => Keeps(r, a, W, Join(F, P), <<>>, n)
  BY <1>1 DEF Keeps
<1>3. ASSUME Keeps(r, a, W, F, <<>>, n) PROVE Keeps(Join(r, P), a, W, F, P, n)
  <2>1. PICK D \in Seq(Descriptor) : r = Join(D, Join(a, Join(W, F))) /\ n <= Len(D)
    BY <1>1, <1>3 DEF Keeps
  <2>2. Join(W, F) \in Seq(Descriptor) /\ Join(a, Join(W, F)) \in Seq(Descriptor)
    BY JoinProperties
  <2>3. Join(Join(W, F), P) = Join(W, Join(F, P))
    BY JoinProperties
  <2>4. Join(Join(a, Join(W, F)), P) = Join(a, Join(Join(W, F), P))
    BY <2>2, JoinProperties
  <2>5. Join(Join(D, Join(a, Join(W, F))), P) = Join(D, Join(Join(a, Join(W, F)), P))
    BY <2>2, JoinProperties
  <2> QED BY <2>1, <2>3, <2>4, <2>5 DEF Keeps
<1>4. Keeps(Join(r, P), a, W, F, P, n) => Keeps(Join(r, P), a, W, Join(F, P), <<>>, n)
  BY <1>1 DEF Keeps
<1> QED BY <1>2, <1>3, <1>4

LEMMA KeepsWhileMoving ==
    \A r, a, x, W, F, P \in Seq(Descriptor), n \in Nat :
        /\ Keeps(r, a, W, Join(x, F), P, n) => Keeps(r, a, Join(W, x), F, P, n)
        /\ Keeps(r, a, W, F, P, n) => Keeps(r, Join(a, W), <<>>, F, P, n)
        /\ Keeps(r, Join(x, a), W, F, P, n) => Keeps(r, a, W, F, P, n + Len(x))
        /\ \A m \in Nat : m <= n /\ Keeps(r, a, W, F, P, n) => Keeps(r, a, W, F, P, m)
<1> SUFFICES ASSUME NEW r \in Seq(Descriptor), NEW a \in Seq(Descriptor), NEW x \in Seq(Descriptor),
                    NEW W \in Seq(Descriptor), NEW F \in Seq(Descriptor), NEW P \in Seq(Descriptor), NEW n \in Nat
             PROVE  /\ Keeps(r, a, W, Join(x, F), P, n) => Keeps(r, a, Join(W, x), F, P, n)
                    /\ Keeps(r, a, W, F, P, n) => Keeps(r, Join(a, W), <<>>, F, P, n)
                    /\ Keeps(r, Join(x, a), W, F, P, n) => Keeps(r, a, W, F, P, n + Len(x))
                    /\ \A m \in Nat : m <= n /\ Keeps(r, a, W, F, P, n) => Keeps(r, a, W, F, P, m)
  OBVIOUS
<1>0. /\ Join(F, P) \in Seq(Descriptor) /\ Join(W, Join(F, P)) \in Seq(Descriptor)
      /\ Join(a, Join(W, Join(F, P))) \in Seq(Descriptor)
      /\ Len(x) \in Nat
  BY JoinProperties, LenProperties
<1>1. Join(W, Join(Join(x, F), P)) = Join(Join(W, x), Join(F, P))
  <2>1. Join(Join(x, F), P) = Join(x, Join(F, P))
    BY JoinProperties
  <2>2. Join(W, Join(x, Join(F, P))) = Join(Join(W, x), Join(F, P))
    BY <1>0, JoinProperties
  <2> QED BY <2>1, <2>2
<1>2. Join(a, Join(W, Join(F, P))) = Join(Join(a, W), Join(<<>>, Join(F, P)))
  <2>1. Join(<<>>, Join(F, P)) = Join(F, P)
    BY <1>0, JoinProperties
  <2>2. Join(a, Join(W, Join(F, P))) = Join(Join(a, W), Join(F, P))
    BY <1>0, JoinProperties
  <2> QED BY <2>1, <2>2
<1>3. ASSUME Keeps(r, Join(x, a), W, F, P, n) PROVE Keeps(r, a, W, F, P, n + Len(x))
  <2>1. PICK D \in Seq(Descriptor) : r = Join(D, Join(Join(x, a), Join(W, Join(F, P)))) /\ n <= Len(D)
    BY <1>3 DEF Keeps
  <2>2. Join(D, x) \in Seq(Descriptor) /\ Len(Join(D, x)) = Len(D) + Len(x) /\ Len(D) \in Nat
    BY ConcatProperties, LenProperties DEF Join
  <2>3. Join(Join(x, a), Join(W, Join(F, P))) = Join(x, Join(a, Join(W, Join(F, P))))
    BY <1>0, JoinProperties
  <2>4. Join(D, Join(x, Join(a, Join(W, Join(F, P))))) = Join(Join(D, x), Join(a, Join(W, Join(F, P))))
    BY <1>0, JoinProperties
  <2>5. n + Len(x) <= Len(Join(D, x))
    BY <1>0, <2>1, <2>2
  <2>6. r = Join(Join(D, x), Join(a, Join(W, Join(F, P))))
    BY <2>1, <2>3, <2>4
  <2> QED BY <2>2, <2>5, <2>6 DEF Keeps
<1>4. ASSUME NEW m \in Nat, m <= n, Keeps(r, a, W, F, P, n) PROVE Keeps(r, a, W, F, P, m)
  <2>1. PICK D \in Seq(Descriptor) : r = Join(D, Join(a, Join(W, Join(F, P)))) /\ n <= Len(D)
    BY <1>4 DEF Keeps
  <2>2. m <= Len(D)
    BY <1>4, <2>1, LenProperties
  <2> QED BY <2>1, <2>2 DEF Keeps
<1> QED BY <1>1, <1>2, <1>3, <1>4 DEF Keeps

\* What is acknowledged is let go of.
LEMMA KeepsTheRest ==
    \A r, a, W, F, P \in Seq(Descriptor), n, k \in Nat :
        Keeps(r, a, W, F, P, n + k)
        => Keeps(SubSeq(r, k + 1, Len(r)), a, W, F, P, n) /\ k <= Len(r)
<1> SUFFICES ASSUME NEW r \in Seq(Descriptor), NEW a \in Seq(Descriptor), NEW W \in Seq(Descriptor),
                    NEW F \in Seq(Descriptor), NEW P \in Seq(Descriptor), NEW n \in Nat, NEW k \in Nat,
                    Keeps(r, a, W, F, P, n + k)
             PROVE  Keeps(SubSeq(r, k + 1, Len(r)), a, W, F, P, n) /\ k <= Len(r)
  OBVIOUS
<1> DEFINE T == Join(a, Join(W, Join(F, P)))
<1>0. T \in Seq(Descriptor)
  BY JoinProperties
<1>1. PICK D \in Seq(Descriptor) : r = Join(D, T) /\ n + k <= Len(D)
  BY DEF Keeps
<1>2. k \in 0..Len(D) /\ Len(D) \in Nat
  BY <1>1, LenProperties
<1> DEFINE f == SubSeq(D, 1, k)
           g == SubSeq(D, k + 1, Len(D))
<1>3. f \in Seq(Descriptor) /\ g \in Seq(Descriptor) /\ Len(f) = k /\ Len(g) = Len(D) - k /\ D = f \o g
  BY <1>2, CutInTwo
<1> HIDE DEF T, f, g
<1>4. Join(g, T) \in Seq(Descriptor) /\ r = f \o Join(g, T)
  <2>1. r = Join(Join(f, g), T)
    BY <1>1, <1>3 DEF Join
  <2>2. r = Join(f, Join(g, T)) /\ Join(g, T) \in Seq(Descriptor)
    BY <1>0, <1>3, <2>1, JoinProperties
  <2> QED BY <2>2 DEF Join
<1>5. SubSeq(r, k + 1, Len(r)) = Join(g, T)
  <2>1. SubSeq(f \o Join(g, T), Len(f) + 1, Len(f \o Join(g, T))) = Join(g, T)
    BY <1>3, <1>4, CutOfConcat
  <2> QED BY <1>3, <1>4, <2>1
<1>6. n <= Len(g)
  BY <1>1, <1>2, <1>3
<1>7. k <= Len(r)
  <2>1. Len(r) = Len(D) + Len(T) /\ Len(T) \in Nat
    BY <1>0, <1>1, ConcatProperties, LenProperties DEF Join
  <2> QED BY <1>2, <2>1
<1> QED BY <1>3, <1>5, <1>6, <1>7 DEF Keeps, T

-----------------------------------------------------------------------------
(***************************************************************************)
(* Nothing is on the way to an end that has closed its socket.             *)
(***************************************************************************)

Silent == \A e \in End : ~up[Peer(e)] => wire[e] = <<>>

LEMMA SilentStays ==
    ASSUME SentTyped, ReadTyped, PostersTyped, MessagesTyped, ControlTyped, Life, Silent, [Next]_vars
    PROVE  Silent'
<1> SUFFICES ASSUME NEW e \in End, ~up'[Peer(e)] PROVE wire'[e] = <<>>
  BY DEF Silent
<1> DEFINE p == Peer(e)
<1>0. /\ p \in End /\ p # e /\ Peer(p) = e /\ (\A x \in End : x = e \/ x = p) /\ Peer(e) = p
      /\ wire \in [End -> Seq(Unit)] /\ up \in [End -> BOOLEAN]
      /\ ~up[p] => wire[e] = <<>>
  BY PeerProperties DEF SentTyped, ControlTyped, Silent
<1>a. ~up'[p]
  OBVIOUS
<1> HIDE DEF p
<1>1. ASSUME UNCHANGED <<wire, up>> PROVE wire'[e] = <<>>
  BY <1>0, <1>1, <1>a
<1>2. CASE UNCHANGED data
  BY <1>1, <1>2 DEF data
<1>3. ASSUME NEW t \in Thread, PostRetain(t) \/ PostEnqueue(t) PROVE wire'[e] = <<>>
  BY <1>1, <1>3 DEF PostRetain, PostEnqueue, os
<1>4. ASSUME NEW x \in End, IOReceive(x) PROVE wire'[e] = <<>>
  BY <1>0, <1>4, <1>a DEF IOReceive
<1>5. ASSUME NEW x \in End, IOParse(x) \/ ReadHook(x) \/ DeferredHandle(x) \/ SyncMatch(x) \/ SyncDrain(x)
      PROVE  wire'[e] = <<>>
  <2>1. UNCHANGED <<wire, up>>
    BY <1>5 DEF IOParse, ReadHook, DeferredHandle, SyncMatch, SyncDrain, os
  <2> QED BY <1>1, <2>1
<1>6. ASSUME NEW x \in End, IOWrite(x) PROVE wire'[e] = <<>>
  <2>1. UNCHANGED up
    BY <1>6 DEF IOWrite
  <2>2. ASSUME Writes(x) PROVE up[Peer(x)] /\ \A y \in End : y # x => wire'[y] = wire[y]
    BY <1>0, <2>2 DEF Writes, Written
  <2>3. Writes(x) \/ UNCHANGED wire
    BY <1>6, WriteStep DEF flow
  <2> QED BY <1>0, <1>1, <1>a, <2>1, <2>2, <2>3
<1>7. ASSUME NEW x \in End, Joined(x) \/ \E now : Die(x, now) PROVE wire'[e] = <<>>
  <2>1. up' = [up EXCEPT ![x] = FALSE] /\ wire' = [wire EXCEPT ![Peer(x)] = <<>>]
    BY <1>7 DEF Joined, Die
  <2> QED BY <1>0, <1>a, <2>1
<1> QED BY <1>2, <1>3, <1>4, <1>5, <1>6, <1>7, DataSteps

-----------------------------------------------------------------------------
(***************************************************************************)
(* What an end retains, in the state of the connection.                    *)
(***************************************************************************)

\* The descriptors of the message that the poster of e has retained and not yet
\* enqueued; how many acknowledgements for e are on their way.
Pending(e) == IF retaining[Poster(e)] = None THEN <<>> ELSE Fds(retaining[Poster(e)])
Due(B, W, Q) == (Len(Acks(B)) + Len(Acks(W))) + Len(Acks(Stream(Q)))
Owed(e) == Due(bytes[e], wire[Peer(e)], queue[Peer(e)])

Accounted ==
    \A e \in End : main[e] # "dead" =>
        \E W \in Seq(Descriptor) :
            /\ up[Peer(e)] => W = Images(wire[e], fdsOfUnit)
            /\ Keeps(retained[e], attached[Peer(e)], W, queueFds[e], Pending(e), Owed(e))

LEMMA DueTyped ==
    \A B, W \in Seq(Unit), Q \in Seq(Entry) : Due(B, W, Q) \in Nat
BY StreamTyped, AcksTyped DEF Due

LEMMA DueWhilePosting ==
    \A B, W \in Seq(Unit), Q \in Seq(Entry), R \in Seq(Msg) : Due(B, W, Q \o Answers(R)) = Due(B, W, Q)
<1> DEFINE g == [m \in Msg |-> <<>>]
<1>1. Maps(g, Msg, {1})
  BY EmptySeq DEF Maps
<1>2. \A m \in Msg : ackOf[Payload(m)] = g[m]
  <2>1. \A m \in Msg : Payload(m) \in Frame /\ Payload(m).type = "Payload"
    BY MessageAssumption DEF Payload, Frame
  <2> QED BY <2>1 DEF ackOf
<1>3. \A R \in Seq(Msg) : Images(R, g) = <<>>
  <2>1. \A m \in Msg : g[m] = <<>>
    OBVIOUS
  <2> HIDE DEF g
  <2> QED BY <1>1, <2>1, ImagesAllEmpty
<1> HIDE DEF g
<1>4. ASSUME NEW Q \in Seq(Entry), NEW R \in Seq(Msg) PROVE Acks(Stream(Q \o Answers(R))) = Acks(Stream(Q))
  <2>1. Say(Stream(Q \o Answers(R)), ackOf) = Say(Stream(Q), ackOf) \o Images(R, g)
    BY <1>1, <1>2, AcksTyped, AnswersSay
  <2>2. Stream(Q) \in Seq(Unit)
    BY StreamTyped
  <2>3. Acks(Stream(Q)) \in Seq({1})
    BY <2>2, AcksTyped
  <2> QED BY <1>3, <2>1, <2>3, ConcatEmptySeq DEF Acks
<1> QED BY <1>4 DEF Due

LEMMA DueWhileMoving ==
    ASSUME NEW B \in Seq(Unit), NEW W \in Seq(Unit), NEW Q \in Seq(SafeEntry)
    PROVE  /\ LET bare == [i \in 1..Len(W) |-> [W[i] EXCEPT !.fds = <<>>]]
              IN Due(B \o bare, <<>>, Q) = Due(B, W, Q)
           /\ \A U \in Seq(Unit) : Due(U \o B, W, Q) = Due(B, W, Q) + Acknowledged(U)
           /\ \A n \in Nat : Due(B, W, Append(Q, Queued(Acknowledgement(n)))) = Due(B, W, Q) + n
           /\ \A n \in 0..UnitsUpTo(Q, Covered(Q)), F \in Seq(Descriptor) :
                  Due(B, W \o Sent(Q, n, F), Discard(Q, n, UnsentUpTo(Q, Covered(Q)))) = Due(B, W, Q)
           /\ Due(B, <<>>, Q) <= Due(B, W, Q) /\ Due(B, W, <<>>) <= Due(B, W, Q)
<1>0. /\ Q \in Seq(Entry) /\ Len(Acks(B)) \in Nat /\ Len(Acks(W)) \in Nat /\ Len(Acks(Stream(Q))) \in Nat
      /\ Len(Acks(<<>>)) = 0 /\ Stream(<<>>) = <<>>
  BY SafeIsEntry, StreamTyped, AcksTyped, EmptySeq
<1>1. LET bare == [i \in 1..Len(W) |-> [W[i] EXCEPT !.fds = <<>>]]
      IN Due(B \o bare, <<>>, Q) = Due(B, W, Q)
  <2> DEFINE bare == [i \in 1..Len(W) |-> [W[i] EXCEPT !.fds = <<>>]]
  <2>1. bare \in Seq(Unit) /\ \A h : Say(bare, h) = Say(W, h)
    BY BareSaysTheSame
  <2> HIDE DEF bare
  <2>2. Acks(bare) = Acks(W)
    BY <2>1 DEF Acks
  <2>3. Len(Acks(B \o bare)) = Len(Acks(B)) + Len(Acks(W))
    BY <2>1, <2>2, AcksTyped
  <2>4. Due(B \o bare, <<>>, Q) = Due(B, W, Q)
    BY <1>0, <2>3 DEF Due
  <2> QED BY <2>4 DEF bare
<1>2. ASSUME NEW U \in Seq(Unit) PROVE Due(U \o B, W, Q) = Due(B, W, Q) + Acknowledged(U)
  <2>1. Len(Acks(U \o B)) = Len(Acks(U)) + Len(Acks(B)) /\ Acknowledged(U) = Len(Acks(U)) /\ Len(Acks(U)) \in Nat
    BY AcksTyped
  <2> QED BY <1>0, <2>1 DEF Due
<1>3. ASSUME NEW n \in Nat PROVE Due(B, W, Append(Q, Queued(Acknowledgement(n)))) = Due(B, W, Q) + n
  <2> DEFINE q == Queued(Acknowledgement(n))
  <2>1. q \in Entry
    BY QueuedIsSafe DEF SafeEntry
  <2>2. ackOf[q.frame] \in Seq({1}) /\ Len(ackOf[q.frame]) = n
    <3>1. q.frame = Acknowledgement(n) /\ q.frame \in Frame
      BY <2>1 DEF Queued, Entry
    <3>2. q.frame.type # "Payload" /\ q.frame.fds = n
      BY <3>1 DEF Acknowledgement
    <3>3. ackOf[q.frame] = [i \in 1..n |-> 1]
      BY <3>1, <3>2 DEF ackOf
    <3> QED BY <3>3
  <2> HIDE DEF q
  <2>3. /\ Acks(Stream(Q)) \in Seq({1})
        /\ Acks(Stream(Append(Q, q))) = Acks(Stream(Q)) \o ackOf[q.frame]
    BY <1>0, <2>1, AcksTyped, StreamSays DEF Acks
  <2>4. Len(Acks(Stream(Append(Q, q)))) = Len(Acks(Stream(Q))) + n
    BY <2>2, <2>3, ConcatProperties
  <2>5. Due(B, W, Append(Q, q)) = Due(B, W, Q) + n
    BY <1>0, <2>4 DEF Due
  <2> QED BY <2>5 DEF q
<1>4. ASSUME NEW n \in 0..UnitsUpTo(Q, Covered(Q)), NEW F \in Seq(Descriptor)
      PROVE  Due(B, W \o Sent(Q, n, F), Discard(Q, n, UnsentUpTo(Q, Covered(Q)))) = Due(B, W, Q)
  <2> DEFINE out == Sent(Q, n, F)
             R == Discard(Q, n, UnsentUpTo(Q, Covered(Q)))
  <2>1. out \in Seq(Unit) /\ R \in Seq(Entry)
    <3>1. Len(Q) \in Nat /\ Covered(Q) \in 0..Len(Q) /\ Q \in Seq(SentEntry)
      BY <1>0, SafeIsEntry, CoveredProperties, LenProperties
    <3>2. UnitsUpTo(Q, Covered(Q)) \in 0..Len(Stream(Q)) /\ Len(Stream(Q)) \in Nat
      BY <1>0, <3>1, UnitsUpToProperties, StreamTyped, LenProperties
    <3>3. n \in 0..Len(Stream(Q))
      BY <3>2
    <3>4. R \in Seq(Entry)
      BY <1>0, <3>1, DiscardProperties
    <3> QED BY <1>0, <3>3, <3>4, SentProperties
  <2>2. Say(Stream(Q), ackOf) = Say(out, ackOf) \o Say(Stream(R), ackOf)
    BY AcksTyped, WriteSays
  <2> HIDE DEF out, R
  <2>3. Stream(R) \in Seq(Unit)
    BY <2>1, StreamTyped
  <2>4. Len(Acks(Stream(Q))) = Len(Acks(out)) + Len(Acks(Stream(R)))
    <3>1. Acks(out) \in Seq({1}) /\ Acks(Stream(R)) \in Seq({1})
      BY <2>1, <2>3, AcksTyped
    <3>2. Acks(Stream(Q)) = Acks(out) \o Acks(Stream(R))
      BY <2>2 DEF Acks
    <3> QED BY <3>1, <3>2, ConcatProperties
  <2>5. Len(Acks(W \o out)) = Len(Acks(W)) + Len(Acks(out)) /\ Len(Acks(out)) \in Nat /\ Len(Acks(Stream(R))) \in Nat
    BY <2>1, <2>3, AcksTyped
  <2>6. Due(B, W \o out, R) = Due(B, W, Q)
    BY <1>0, <2>4, <2>5 DEF Due
  <2> QED BY <2>6 DEF out, R
<1>5. Due(B, <<>>, Q) <= Due(B, W, Q) /\ Due(B, W, <<>>) <= Due(B, W, Q)
  BY <1>0 DEF Due
<1> QED BY <1>1, <1>2, <1>3, <1>4, <1>5

LEMMA AccountedStays ==
    ASSUME OnePoster, SentTyped, RetainedTyped, ReadTyped, Safe, PostersTyped, MessagesTyped, ControlTyped, Life,
           Ready, Lone, Accounted, [Next]_vars
    PROVE  Accounted'
<1> SUFFICES ASSUME NEW e \in End, main'[e] # "dead"
             PROVE  \E W \in Seq(Descriptor) :
                        /\ up'[Peer(e)] => W = Images(wire'[e], fdsOfUnit)
                        /\ Keeps(retained'[e], attached'[Peer(e)], W, queueFds'[e], Pending(e)',
                                 Due(bytes'[e], wire'[Peer(e)], queue'[Peer(e)]))
  BY DEF Accounted, Owed
<1> DEFINE p == Peer(e)
           r == retained[e]
           a == attached[p]
           F == queueFds[e]
           P == Pending(e)
           B == bytes[e]
           V == wire[p]
           Q == queue[p]
           n == Due(B, V, Q)
           Now(W) == Keeps(retained'[e], attached'[p], W, queueFds'[e], Pending(e)', Due(bytes'[e], wire'[p], queue'[p]))
           Goal == \E W \in Seq(Descriptor) : (up'[p] => W = Images(wire'[e], fdsOfUnit)) /\ Now(W)
<1>0. p \in End /\ p # e /\ Peer(p) = e /\ Peer(e) = p /\ \A x \in End : x = e \/ x = p
  BY PeerProperties
<1>1. main[e] # "dead" /\ (up'[p] => up[p])
  BY <1>0, LifeStays
<1>2. /\ queue \in [End -> Seq(SafeEntry)] /\ queueFds \in [End -> Seq(Descriptor)]
      /\ wire \in [End -> Seq(Unit)] /\ bytes \in [End -> Seq(Unit)] /\ attached \in [End -> Seq(Descriptor)]
      /\ retained \in [End -> Seq(Descriptor)] /\ retaining \in [Thread -> Msg \cup {None}]
      /\ up \in [End -> BOOLEAN]
      /\ \A x \in End : Len(queueFds[x]) = UnsentIn(queue[x])
  BY DEF SentTyped, ReadTyped, RetainedTyped, PostersTyped, ControlTyped, Safe
<1>3. /\ Poster(e) \in Thread /\ At[Poster(e)] = e
      /\ Poster(e) = Owner[e] \/ \A q \in Request : FdCount[Reply[q]] = 0
      /\ \A t \in Thread : At[t] \in End
  BY PosterProperties, ThreadAssumption DEF PostsAlone
<1>4. /\ r \in Seq(Descriptor) /\ a \in Seq(Descriptor) /\ F \in Seq(Descriptor)
      /\ B \in Seq(Unit) /\ V \in Seq(Unit) /\ Q \in Seq(SafeEntry) /\ Q \in Seq(Entry) /\ wire[e] \in Seq(Unit)
  BY <1>0, <1>2, SafeIsEntry
<1>5. P \in Seq(Descriptor) /\ n \in Nat
  <2>1. retaining[Poster(e)] # None => Fds(retaining[Poster(e)]) \in Seq(Descriptor)
    BY <1>2, <1>3, FdsTyped
  <2> HIDE DEF p, B, V, Q
  <2> QED BY <1>4, <2>1, EmptySeq, DueTyped DEF Pending
<1>6. PICK W \in Seq(Descriptor) : (up[p] => W = Images(wire[e], fdsOfUnit)) /\ Keeps(r, a, W, F, P, n)
  BY <1>1 DEF Accounted, Owed
<1> HIDE DEF p, r, a, F, P, B, V, Q, n, Goal, Now
<1>a. ASSUME retained'[e] = r, attached'[p] = a, queueFds'[e] = F, Pending(e)' = P, bytes'[e] = B, wire'[p] = V,
             queue'[p] = Q, up'[p] => wire'[e] = wire[e]
      PROVE  Goal
  BY <1>1, <1>6, <1>a DEF Goal, Now, n
<1>b. ASSUME UNCHANGED <<retained, attached, queueFds, retaining, bytes, wire, queue>> PROVE Goal
  BY <1>a, <1>b DEF r, a, F, P, B, V, Q, Pending
<1>c. ASSUME NEW x \in End, NEW R \in Seq(Msg), Posts(x, R)
      PROVE  /\ attached'[p] = a /\ bytes'[e] = B /\ wire' = wire
             /\ queueFds'[e] = IF x = e THEN Join(F, Each(R, Fds)) ELSE F
             /\ Due(bytes'[e], wire'[p], queue'[p]) = n
  <2>1. /\ queue' = [queue EXCEPT ![x] = @ \o Answers(R)]
        /\ queueFds' = [queueFds EXCEPT ![x] = @ \o Each(R, Fds)]
        /\ UNCHANGED <<wire, bytes, attached>>
    BY <1>c DEF Posts
  <2>2. queueFds'[e] = IF x = e THEN Join(F, Each(R, Fds)) ELSE F
    BY <1>2, <2>1 DEF F, Join
  <2>3. queue'[p] = IF x = p THEN Q \o Answers(R) ELSE Q
    BY <1>0, <1>2, <2>1 DEF Q
  <2>4. bytes'[e] = B /\ wire'[p] = V /\ attached'[p] = a
    BY <2>1 DEF B, V, a
  <2>5. Due(B, V, Q \o Answers(R)) = Due(B, V, Q)
    BY <1>4, DueWhilePosting
  <2> QED BY <2>1, <2>2, <2>3, <2>4, <2>5 DEF n
<1>7. ASSUME UNCHANGED data PROVE Goal
  BY <1>b, <1>7 DEF data
<1>8. ASSUME NEW t \in Thread, PostRetain(t) PROVE Goal
  <2> DEFINE m == Head(todo[t])
             x == At[t]
  <2>1. /\ todo[t] # <<>> /\ retaining[t] = None
        /\ retaining' = [retaining EXCEPT ![t] = m]
        /\ retained' = [retained EXCEPT ![x] = @ \o Fds(m)]
        /\ UNCHANGED <<attached, queueFds, bytes, wire, queue, up>>
    BY <1>8 DEF PostRetain, receiving, os
  <2>2. m \in Msg /\ m # None /\ (t # Poster(x) => m \in Plain)
    <3>1. todo[t] \in Seq(Msg) /\ (t # Poster(x) => todo[t] \in Seq(Plain))
      BY DEF PostersTyped, Lone
    <3>2. \A S : \A s \in Seq(S) : s # <<>> => Head(s) \in S
      BY HeadTailProperties
    <3> QED BY <2>1, <3>1, <3>2, MessageAssumption
  <2>3. x \in End
    BY <1>3
  <2> HIDE DEF m, x
  <2>4. CASE t # Poster(e)
    <3>1. Pending(e)' = P
      BY <1>2, <1>3, <2>1, <2>4 DEF P, Pending
    <3>2. retained'[e] = r
      <4>1. CASE x = e
        <5>1. Fds(m) = <<>>
          BY <2>2, <2>4, <4>1, PlainProperties
        <5>2. retained'[e] = r \o <<>>
          BY <1>2, <2>1, <4>1, <5>1 DEF r
        <5> QED BY <1>4, <5>2, ConcatEmptySeq
      <4>2. CASE x # e
        BY <1>2, <2>1, <4>2 DEF r
      <4> QED BY <4>1, <4>2
    <3> QED BY <1>a, <2>1, <3>1, <3>2 DEF a, F, B, V, Q
  <2>5. CASE t = Poster(e)
    <3>1. x = e
      BY <1>3, <2>5 DEF x
    <3>2. P = <<>> /\ Pending(e)' = Fds(m)
      BY <1>2, <1>3, <2>1, <2>2, <2>5 DEF P, Pending
    <3>3. retained'[e] = Join(r, Fds(m)) /\ Fds(m) \in Seq(Descriptor)
      BY <1>2, <2>1, <2>2, <3>1, FdsTyped DEF r, Join
    <3>4. Keeps(r, a, W, F, <<>>, n) => Keeps(Join(r, Fds(m)), a, W, F, Fds(m), n)
      BY <1>4, <1>5, <3>3, KeepsWhilePosting
    <3>5. Now(W)
      BY <1>6, <2>1, <3>2, <3>3, <3>4 DEF Now, a, F, n, B, V, Q
    <3> QED BY <1>6, <2>1, <3>5 DEF Goal
  <2> QED BY <2>4, <2>5
<1>9. ASSUME NEW t \in Thread, PostEnqueue(t) PROVE Goal
  <2> DEFINE m == retaining[t]
             x == At[t]
  <2>1. x \in End /\ m \in Msg /\ m # None /\ <<m>> \in Seq(Msg) /\ Posts(x, <<m>>)
    BY <1>9, EnqueueEffect DEF PostEnqueue
  <2>2. retaining' = [retaining EXCEPT ![t] = None] /\ UNCHANGED <<retained, up>>
    BY <1>9 DEF PostEnqueue, os
  <2>3. Each(<<m>>, Fds) = Fds(m) /\ Fds(m) \in Seq(Descriptor)
    BY <2>1, PostedAlone, FdsTyped
  <2>4. t # Poster(x) => m \in Plain
    BY <2>1 DEF Lone
  <2>5. /\ attached'[p] = a /\ wire' = wire
        /\ queueFds'[e] = IF x = e THEN Join(F, Fds(m)) ELSE F
        /\ Due(bytes'[e], wire'[p], queue'[p]) = n
    BY <1>c, <2>1, <2>3
  <2> HIDE DEF x
  <2>6. CASE t # Poster(e)
    <3>1. Pending(e)' = P
      BY <1>2, <1>3, <2>2, <2>6 DEF P, Pending
    <3>2. queueFds'[e] = F
      <4>1. CASE x = e
        <5>1. Fds(m) = <<>>
          BY <2>4, <2>6, <4>1, PlainProperties
        <5> QED BY <1>4, <2>5, <4>1, <5>1, JoinProperties
      <4> QED BY <2>5, <4>1
    <3>3. Now(W)
      BY <1>6, <2>2, <2>5, <3>1, <3>2 DEF Now, r
    <3> QED BY <1>6, <2>2, <2>5, <3>3 DEF Goal
  <2>7. CASE t = Poster(e)
    <3>1. x = e /\ P = Fds(m) /\ Pending(e)' = <<>>
      BY <1>2, <1>3, <2>1, <2>2, <2>7 DEF P, Pending, x
    <3>2. Keeps(r, a, W, F, P, n) => Keeps(r, a, W, Join(F, P), <<>>, n)
      BY <1>4, <1>5, KeepsWhilePosting
    <3>3. Now(W)
      BY <1>6, <2>2, <2>5, <3>1, <3>2 DEF Now, r
    <3> QED BY <1>6, <2>2, <2>5, <3>3 DEF Goal
  <2> QED BY <2>6, <2>7
<1>10. ASSUME NEW x \in End, ReadHook(x) \/ DeferredHandle(x) PROVE Goal
  <2>1. PICK R \in Seq(Msg) : /\ R \in Seq(Replies) /\ Posts(x, R)
                              /\ retained' = [retained EXCEPT ![x] = @ \o Each(R, Fds)]
    BY <1>10, AnswerEffect
  <2>2. main[x] = "events" /\ UNCHANGED <<retaining, up>>
    BY <1>10 DEF ReadHook, DeferredHandle, posters, os
  <2>3. Pending(e)' = P
    BY <2>2 DEF P, Pending
  <2>4. /\ attached'[p] = a /\ wire' = wire
        /\ queueFds'[e] = IF x = e THEN Join(F, Each(R, Fds)) ELSE F
        /\ Due(bytes'[e], wire'[p], queue'[p]) = n
    BY <1>c, <2>1
  <2>5. Each(R, Fds) \in Seq(Descriptor)
    BY MapsTyped, JoinedAreImages, ImagesProperties
  <2>6. CASE x # e
    <3>1. retained'[e] = r /\ queueFds'[e] = F
      BY <1>2, <2>1, <2>4, <2>6 DEF r
    <3>2. Now(W)
      BY <1>6, <2>3, <2>4, <3>1 DEF Now
    <3> QED BY <1>6, <2>2, <2>4, <3>2 DEF Goal
  <2>7. CASE x = e
    <3>1. retained'[e] = Join(r, Each(R, Fds)) /\ queueFds'[e] = Join(F, Each(R, Fds))
      BY <1>2, <2>1, <2>4, <2>7 DEF r, Join
    <3>2. CASE P = <<>>
      <4>1. Keeps(r, a, W, F, <<>>, n) => Keeps(Join(r, Each(R, Fds)), a, W, Join(F, Each(R, Fds)), <<>>, n)
        BY <1>4, <1>5, <2>5, KeepsWhilePosting
      <4>2. Now(W)
        BY <1>6, <2>3, <2>4, <3>1, <3>2, <4>1 DEF Now
      <4> QED BY <1>6, <2>2, <2>4, <4>2 DEF Goal
    <3>3. CASE P # <<>>
      <4>1. retaining[Poster(e)] # None
        BY <3>3 DEF P, Pending
      <4>2. Poster(e) # Owner[e]
        BY <2>2, <2>7, <4>1 DEF Lone
      <4>3. Each(R, Fds) = <<>>
        <5>1. Replies \subseteq Plain
          BY <1>3, <4>2, MessageAssumption DEF Replies, Plain
        <5>2. R \in Seq(Plain)
          BY <2>1, <5>1, SeqMonotonic
        <5> QED BY <5>2, PlainProperties
      <4>4. retained'[e] = r /\ queueFds'[e] = F
        BY <1>4, <3>1, <4>3, JoinProperties
      <4>5. Now(W)
        BY <1>6, <2>3, <2>4, <4>4 DEF Now
      <4> QED BY <1>6, <2>2, <2>4, <4>5 DEF Goal
    <3> QED BY <3>2, <3>3
  <2> QED BY <2>6, <2>7
<1>11. ASSUME NEW x \in End, IOReceive(x) PROVE Goal
  <2> DEFINE bare(T) == [i \in 1..Len(T) |-> [T[i] EXCEPT !.fds = <<>>]]
  <2>1. /\ bytes' = [bytes EXCEPT ![x] = @ \o bare(wire[Peer(x)])]
        /\ attached' = [attached EXCEPT ![x] = @ \o Each(wire[Peer(x)], LAMBDA u : u.fds)]
        /\ wire' = [wire EXCEPT ![Peer(x)] = <<>>]
        /\ UNCHANGED <<retained, retaining, queueFds, queue, up>>
        /\ io[x] \in {"receive", "last receive"}
    BY <1>11 DEF IOReceive, sending, posters
  <2>2. Pending(e)' = P /\ retained'[e] = r /\ queueFds'[e] = F /\ queue'[p] = Q
    BY <2>1 DEF P, Pending, r, F, Q
  <2> HIDE DEF bare
  <2>3. CASE x = e
    <3>1. bytes'[e] = B \o bare(V) /\ wire'[p] = <<>> /\ wire'[e] = wire[e] /\ attached'[p] = a
      BY <1>0, <1>2, <2>1, <2>3 DEF B, V, a
    <3>2. Due(B \o bare(V), <<>>, Q) = n
      BY <1>4, DueWhileMoving DEF n, bare
    <3>3. Now(W)
      BY <1>6, <2>2, <3>1, <3>2 DEF Now
    <3> QED BY <1>6, <2>1, <3>1, <3>3 DEF Goal
  <2>4. CASE x = p
    <3>1. /\ bytes'[e] = B /\ wire'[p] = V /\ wire'[e] = <<>>
          /\ attached'[p] = a \o Each(wire[e], LAMBDA u : u.fds)
      BY <1>0, <1>2, <2>1, <2>4 DEF B, V, a
    <3>2. up[p]
      BY <1>0, <2>1, <2>4 DEF Life, Ended
    <3>3. Each(wire[e], LAMBDA u : u.fds) = Images(wire[e], fdsOfUnit)
      BY <1>4, JoinedAreImages
    <3>4. attached'[p] = Join(a, W)
      BY <1>6, <3>1, <3>2, <3>3 DEF Join
    <3>5. Keeps(r, a, W, F, P, n) => Keeps(r, Join(a, W), <<>>, F, P, n)
      BY <1>4, <1>5, <1>6, KeepsWhileMoving
    <3>6. Now(<<>>)
      BY <1>6, <2>2, <3>1, <3>4, <3>5 DEF Now, n
    <3>7. <<>> = Images(wire'[e], fdsOfUnit) /\ <<>> \in Seq(Descriptor)
      BY <3>1, DescriptorsJoined, EmptySeq
    <3> QED BY <3>6, <3>7 DEF Goal
  <2> QED BY <1>0, <2>3, <2>4
<1>12. ASSUME NEW x \in End, IOParse(x) PROVE Goal
  <2> DEFINE U == ParsedUnits(x)
             rest == SubSeq(bytes[x], Parsed(x) + 1, Len(bytes[x]))
             received == Len(Announced(U))
             k == Acknowledged(U)
  <2>1. /\ Parses(x) /\ received \in Nat
        /\ queue' = IF received = 0 THEN queue
                    ELSE [queue EXCEPT ![x] = Append(@, Queued(Acknowledgement(received)))]
        /\ retained' = [retained EXCEPT ![x] = SubSeq(@, k + 1, Len(@))]
    BY <1>12, ParseEffect
  <2>2. /\ UNCHANGED <<retaining, up>>
    BY <1>12 DEF IOParse, posters, os
  <2>3. /\ bytes' = [bytes EXCEPT ![x] = rest]
        /\ attached' = [attached EXCEPT ![x] = SubSeq(@, received + 1, Len(@))]
        /\ UNCHANGED <<queueFds, wire>>
    BY <2>1 DEF Parses
  <2>4. U \in Seq(Unit) /\ rest \in Seq(Unit) /\ U \o rest = bytes[x]
    <3>1. bytes[x] \in Seq(Unit) /\ Parsed(x) \in 0..Len(bytes[x])
      BY <1>2, ReadTyped, ParsedProperties DEF ReadTyped
    <3> QED BY <3>1, CutInTwo DEF ParsedUnits
  <2>5. k \in Nat /\ received <= Len(attached[x])
    BY <2>4, AcknowledgedTyped, ParseTyped
  <2>6. Pending(e)' = P /\ queueFds'[e] = F /\ wire'[p] = V /\ wire'[e] = wire[e]
    BY <2>2, <2>3 DEF P, Pending, F, V
  <2> HIDE DEF U, rest, received, k
  <2>7. CASE x = e
    <3>1. bytes'[e] = rest /\ attached'[p] = a /\ retained'[e] = SubSeq(r, k + 1, Len(r)) /\ queue'[p] = Q
      BY <1>0, <1>2, <2>1, <2>3, <2>7 DEF a, r, Q
    <3>2. B = U \o rest
      BY <2>4, <2>7 DEF B
    <3>3. n = Due(rest, V, Q) + k
      <4>1. \A X, Y \in Seq(Unit), Z \in Seq(SafeEntry) : \A T \in Seq(Unit) :
                Due(T \o X, Y, Z) = Due(X, Y, Z) + Acknowledged(T)
        BY DueWhileMoving
      <4>2. Due(U \o rest, V, Q) = Due(rest, V, Q) + Acknowledged(U)
        BY <1>4, <2>4, <4>1, ZenonT(30)
      <4>3. n = Due(U \o rest, V, Q)
        BY <3>2 DEF n
      <4>4. k = Acknowledged(U)
        BY DEF k
      <4> QED BY <4>2, <4>3, <4>4
    <3>4. Due(rest, V, Q) \in Nat
      BY <1>4, <2>4, DueTyped
    <3>5. Keeps(SubSeq(r, k + 1, Len(r)), a, W, F, P, Due(rest, V, Q))
      BY <1>4, <1>5, <1>6, <2>5, <3>3, <3>4, KeepsTheRest
    <3>6. Now(W)
      BY <2>6, <3>1, <3>5 DEF Now
    <3> QED BY <1>6, <2>2, <2>6, <3>6 DEF Goal
  <2>8. CASE x = p
    <3> DEFINE d == SubSeq(a, 1, received)
               l == SubSeq(a, received + 1, Len(a))
    <3>1. bytes'[e] = B /\ attached'[p] = l /\ retained'[e] = r
      BY <1>0, <1>2, <2>1, <2>3, <2>8 DEF a, r, B
    <3>2. received \in 0..Len(a)
      BY <1>4, <2>1, <2>5, <2>8, LenProperties DEF a
    <3>3. d \in Seq(Descriptor) /\ l \in Seq(Descriptor) /\ Len(d) = received /\ Join(d, l) = a
      BY <1>4, <3>2, CutInTwo DEF Join
    <3> HIDE DEF d, l
    <3>4. Keeps(r, l, W, F, P, n + received)
      <4>1. Keeps(r, Join(d, l), W, F, P, n) => Keeps(r, l, W, F, P, n + Len(d))
        BY <1>4, <1>5, <1>6, <3>3, KeepsWhileMoving
      <4> QED BY <1>6, <3>3, <4>1
    <3>5. Due(B, V, queue'[p]) = n + received
      <4>1. CASE received = 0
        BY <1>5, <2>1, <4>1 DEF Q, n
      <4>2. CASE received # 0
        <5>1. queue'[p] = Append(Q, Queued(Acknowledgement(received)))
          BY <1>0, <1>2, <2>1, <2>8, <4>2 DEF Q
        <5>2. \A j \in Nat : Due(B, V, Append(Q, Queued(Acknowledgement(j)))) = Due(B, V, Q) + j
          BY <1>4, DueWhileMoving
        <5> QED BY <2>1, <5>1, <5>2 DEF n, received, U
      <4> QED BY <4>1, <4>2
    <3>6. Now(W)
      BY <2>6, <3>1, <3>4, <3>5 DEF Now
    <3> QED BY <1>6, <2>2, <2>6, <3>6 DEF Goal
  <2> QED BY <1>0, <2>7, <2>8
<1>13. ASSUME NEW x \in End, IOWrite(x) PROVE Goal
  <2>1. UNCHANGED <<retained, retaining, attached, bytes, up>>
    BY <1>13 DEF IOWrite, posters, receiving
  <2>2. CASE UNCHANGED flow
    BY <1>b, <2>1, <2>2 DEF flow
  <2>3. CASE Writes(x)
    <3>1. PICK k \in 0..UnitsUpTo(queue[x], Covered(queue[x])) :
                 /\ Written(x, k) /\ up[Peer(x)] /\ io[x] = "write"
                 /\ queue[x] # <<>> /\ Len(wire[x]) < SocketCapacity => k > 0
      BY <2>3 DEF Writes
    <3>2. Pending(e)' = P /\ retained'[e] = r /\ attached'[p] = a /\ bytes'[e] = B
      BY <2>1 DEF P, Pending, r, a, B
    <3> DEFINE S == queue[x]
               fds == UnsentUpTo(S, Covered(S))
               out == Sent(S, k, SubSeq(queueFds[x], 1, fds))
               left == SubSeq(queueFds[x], fds + 1, Len(queueFds[x]))
               R == Discard(S, k, fds)
    <3>3. /\ wire' = [wire EXCEPT ![x] = @ \o out] /\ queue' = [queue EXCEPT ![x] = R]
          /\ queueFds' = [queueFds EXCEPT ![x] = left]
      BY <3>1 DEF Written
    <3>4. S \in Seq(SafeEntry) /\ queueFds[x] \in Seq(Descriptor) /\ Len(queueFds[x]) = UnsentIn(S)
      BY <1>2
    <3>5. /\ out \in Seq(Unit) /\ left \in Seq(Descriptor)
          /\ k > 0 => queueFds[x] = Images(out, fdsOfUnit) \o left
      <4> HIDE DEF S
      <4> QED BY <3>1, <3>4, WriteProperties DEF S
    <3>6. CASE x = e
      <4>1. wire'[e] = wire[e] \o out /\ queueFds'[e] = left /\ wire'[p] = V /\ queue'[p] = Q
        BY <1>0, <1>2, <3>3, <3>6 DEF V, Q
      <4>2. k > 0 /\ up[p]
        <5>1. "POLLOUT" \in revents[e] /\ S # <<>> /\ Len(wire[e]) < SocketCapacity
          BY <1>0, <3>1, <3>6 DEF Ready
        <5> QED BY <1>0, <3>1, <3>6, <5>1
      <4> HIDE DEF out, left, R, fds, S
      <4>3. F = Join(Images(out, fdsOfUnit), left) /\ Images(out, fdsOfUnit) \in Seq(Descriptor)
        BY <3>5, <3>6, <4>2, DescriptorsJoined DEF F, Join
      <4>4. Keeps(r, a, W, Join(Images(out, fdsOfUnit), left), P, n) => Keeps(r, a, Join(W, Images(out, fdsOfUnit)), left, P, n)
        BY <1>4, <1>5, <1>6, <3>5, <4>3, KeepsWhileMoving
      <4>5. Join(W, Images(out, fdsOfUnit)) = Images(wire'[e], fdsOfUnit) /\ Join(W, Images(out, fdsOfUnit)) \in Seq(Descriptor)
        <5>1. Images(wire[e] \o out, fdsOfUnit) = Images(wire[e], fdsOfUnit) \o Images(out, fdsOfUnit)
          BY <1>4, <3>5, DescriptorsJoined
        <5> QED BY <1>6, <4>1, <4>2, <4>3, <5>1, JoinProperties DEF Join
      <4>6. Now(Join(W, Images(out, fdsOfUnit)))
        BY <1>6, <3>2, <4>1, <4>3, <4>4 DEF Now, n
      <4> QED BY <4>5, <4>6 DEF Goal
    <3>7. CASE x = p
      <4>1. wire'[e] = wire[e] /\ queueFds'[e] = F /\ wire'[p] = V \o out /\ queue'[p] = R
        BY <1>0, <1>2, <3>3, <3>7 DEF V, F
      <4>2. S = Q /\ SubSeq(queueFds[x], 1, fds) \in Seq(Descriptor)
        <5>1. fds \in 0..Len(queueFds[x])
          <6>1. S \in Seq(SentEntry) /\ S \in Seq(Entry) /\ Len(S) \in Nat /\ Covered(S) \in 0..Len(S) /\ Len(S) \in 0..Len(S)
            <7> HIDE DEF S
            <7>1. S \in Seq(SentEntry) /\ S \in Seq(Entry)
              BY <3>4, SafeIsEntry
            <7> QED BY <7>1, CoveredProperties, LenProperties
          <6>2. fds <= UnsentUpTo(S, Len(S)) /\ fds \in Nat
            BY <6>1, UnsentGrows, UnsentProperties
          <6> HIDE DEF fds, S
          <6> QED BY <3>4, <6>2, LenProperties DEF UnsentIn
        <5> HIDE DEF fds
        <5> QED BY <3>4, <3>7, <5>1, CutInTwo DEF Q
      <4> HIDE DEF S
      <4>3. Due(B, V \o out, R) = n
        <5> DEFINE G == SubSeq(queueFds[x], 1, fds)
        <5>1. \A j \in 0..UnitsUpTo(Q, Covered(Q)), H \in Seq(Descriptor) :
                  Due(B, V \o Sent(Q, j, H), Discard(Q, j, UnsentUpTo(Q, Covered(Q)))) = Due(B, V, Q)
          BY <1>4, DueWhileMoving
        <5>2. k \in 0..UnitsUpTo(Q, Covered(Q))
          BY <3>1, <4>2 DEF S
        <5>3. G \in Seq(Descriptor)
          BY <4>2
        <5> HIDE DEF G
        <5>4. Due(B, V \o Sent(Q, k, G), Discard(Q, k, UnsentUpTo(Q, Covered(Q)))) = Due(B, V, Q)
          BY <5>1, <5>2, <5>3
        <5> QED BY <4>2, <5>4 DEF n, G
      <4>4. Now(W)
        BY <1>6, <3>2, <4>1, <4>3 DEF Now
      <4> QED BY <1>6, <2>1, <4>1, <4>4 DEF Goal
    <3> QED BY <1>0, <3>6, <3>7
  <2> QED BY <1>13, <2>2, <2>3, WriteStep
<1>14. ASSUME NEW x \in End, Joined(x) PROVE Goal
  <2>1. /\ wire' = [wire EXCEPT ![Peer(x)] = <<>>] /\ up' = [up EXCEPT ![x] = FALSE]
        /\ UNCHANGED <<retained, retaining, attached, queueFds, bytes, queue>>
    BY <1>14 DEF Joined, posters, sending, receiving
  <2>2. Pending(e)' = P /\ retained'[e] = r /\ attached'[p] = a /\ bytes'[e] = B /\ queueFds'[e] = F /\ queue'[p] = Q
    BY <2>1 DEF P, Pending, r, a, B, F, Q
  <2>3. CASE x = p
    <3>1. wire'[p] = V /\ ~up'[p]
      BY <1>0, <1>2, <2>1, <2>3 DEF V
    <3>2. Now(W)
      BY <1>6, <2>2, <3>1 DEF Now, n
    <3> QED BY <3>1, <3>2 DEF Goal
  <2>4. CASE x = e
    <3>1. wire'[p] = <<>> /\ wire'[e] = wire[e] /\ up'[p] = up[p]
      BY <1>0, <1>2, <2>1, <2>4
    <3>2. Due(B, <<>>, Q) <= n /\ Due(B, <<>>, Q) \in Nat
      <4>1. <<>> \in Seq(Unit)
        BY EmptySeq
      <4> QED BY <1>4, <4>1, DueWhileMoving, DueTyped DEF n
    <3>3. Keeps(r, a, W, F, P, Due(B, <<>>, Q))
      BY <1>4, <1>5, <1>6, <3>2, KeepsWhileMoving
    <3>4. Now(W)
      BY <2>2, <3>1, <3>3 DEF Now
    <3> QED BY <1>6, <3>1, <3>4 DEF Goal
  <2> QED BY <1>0, <2>3, <2>4
<1>15. ASSUME NEW x \in End, NEW now, Die(x, now) PROVE Goal
  <2>1. /\ wire' = [wire EXCEPT ![Peer(x)] = <<>>] /\ up' = [up EXCEPT ![x] = FALSE]
        /\ main' = [main EXCEPT ![x] = "dead"]
        /\ retaining' = [t \in Thread |-> IF At[t] = x THEN None ELSE retaining[t]]
        /\ queue' = [queue EXCEPT ![x] = <<>>] /\ queueFds' = [queueFds EXCEPT ![x] = <<>>]
        /\ retained' = [retained EXCEPT ![x] = <<>>]
        /\ bytes' = [bytes EXCEPT ![x] = <<>>] /\ attached' = [attached EXCEPT ![x] = <<>>]
    BY <1>15 DEF Die
  <2>2. x # e
    BY <2>1 DEF ControlTyped
  <2>3. x = p
    BY <1>0, <2>2
  <2>4. /\ retained'[e] = r /\ attached'[p] = <<>> /\ queueFds'[e] = F /\ bytes'[e] = B /\ wire'[p] = V /\ queue'[p] = <<>>
        /\ ~up'[p] /\ Pending(e)' = P
    BY <1>0, <1>2, <1>3, <2>1, <2>3 DEF r, F, B, V, P, Pending
  <2>5. Due(B, V, <<>>) <= n /\ Due(B, V, <<>>) \in Nat
    <3>1. <<>> \in Seq(Entry)
      BY EmptySeq
    <3> QED BY <1>4, <3>1, DueWhileMoving, DueTyped DEF n
  <2>6. Keeps(r, <<>>, W, F, P, n + Len(a))
    <3>1. Join(a, <<>>) = a /\ <<>> \in Seq(Descriptor)
      BY <1>4, JoinProperties
    <3>2. Keeps(r, Join(a, <<>>), W, F, P, n) => Keeps(r, <<>>, W, F, P, n + Len(a))
      BY <1>4, <1>5, <1>6, <3>1, KeepsWhileMoving
    <3> QED BY <1>6, <3>1, <3>2
  <2>7. Keeps(r, <<>>, W, F, P, Due(B, V, <<>>))
    <3>1. n + Len(a) \in Nat /\ Due(B, V, <<>>) <= n + Len(a) /\ <<>> \in Seq(Descriptor)
      BY <1>4, <1>5, <2>5, LenProperties, EmptySeq
    <3> QED BY <1>4, <1>5, <1>6, <2>5, <2>6, <3>1, KeepsWhileMoving
  <2>8. Now(W)
    BY <2>4, <2>7 DEF Now
  <2> QED BY <2>4, <2>8 DEF Goal
<1>16. ASSUME NEW x \in End, SyncMatch(x) \/ SyncDrain(x) PROVE Goal
  <2>1. CASE SyncMatch(x)
    BY <1>b, <2>1 DEF SyncMatch, posters, sending, receiving, os
  <2>2. CASE SyncDrain(x)
    BY <1>b, <2>2 DEF SyncDrain, posters, sending, os
  <2> QED BY <1>16, <2>1, <2>2
<1>17. Goal
  BY <1>7, <1>8, <1>9, <1>10, <1>11, <1>12, <1>13, <1>14, <1>15, <1>16, DataSteps
<1> QED BY <1>17 DEF Goal, Now, p

-----------------------------------------------------------------------------
(***************************************************************************)
(* A descriptor outlives its travel.                                       *)
(***************************************************************************)

LEMMA PartsOfJoin ==
    \A x, y \in Seq(Descriptor) : ToSet(x) \subseteq ToSet(Join(x, y)) /\ ToSet(y) \subseteq ToSet(Join(x, y))
<1> SUFFICES ASSUME NEW x \in Seq(Descriptor), NEW y \in Seq(Descriptor)
             PROVE  ToSet(x) \subseteq ToSet(Join(x, y)) /\ ToSet(y) \subseteq ToSet(Join(x, y))
  OBVIOUS
<1> DEFINE z == Join(x, y)
<1>1. /\ z \in Seq(Descriptor) /\ Len(z) = Len(x) + Len(y) /\ Len(x) \in Nat /\ Len(y) \in Nat
      /\ \A i \in 1..Len(x) : z[i] = x[i]
      /\ \A i \in 1..Len(y) : z[Len(x) + i] = y[i]
  BY ConcatProperties, LenProperties DEF Join
<1> HIDE DEF z
<1>2. DOMAIN x = 1..Len(x) /\ DOMAIN y = 1..Len(y) /\ DOMAIN z = 1..Len(z)
  BY <1>1, LenProperties
<1>3. ASSUME NEW d \in ToSet(x) PROVE d \in ToSet(z)
  <2>1. PICK i \in 1..Len(x) : d = x[i]
    BY <1>2 DEF ToSet
  <2>2. i \in 1..Len(z) /\ d = z[i]
    BY <1>1, <2>1
  <2> QED BY <1>2, <2>2 DEF ToSet
<1>4. ASSUME NEW d \in ToSet(y) PROVE d \in ToSet(z)
  <2>1. PICK i \in 1..Len(y) : d = y[i]
    BY <1>2 DEF ToSet
  <2>2. Len(x) + i \in 1..Len(z) /\ d = z[Len(x) + i]
    BY <1>1, <2>1
  <2> QED BY <1>2, <2>2 DEF ToSet
<1> QED BY <1>3, <1>4 DEF z

\* What a unit on the wire carries is among what all of them carry.
LEMMA CarriedByUnit ==
    ASSUME NEW V \in Seq(Unit), NEW i \in 1..Len(V)
    PROVE  ToSet(V[i].fds) \subseteq ToSet(Images(V, fdsOfUnit))
<1> DEFINE A == Images(SubSeq(V, 1, i - 1), fdsOfUnit)
           B == Images(SubSeq(V, i + 1, Len(V)), fdsOfUnit)
<1>1. A \in Seq(Descriptor) /\ B \in Seq(Descriptor) /\ Images(V, fdsOfUnit) = (A \o fdsOfUnit[V[i]]) \o B
  <2>1. Maps(fdsOfUnit, Unit, Descriptor)
    BY MapsTyped
  <2>2. \A s \in Seq(Unit) : \A j \in 1..Len(s) :
            /\ Images(SubSeq(s, 1, j - 1), fdsOfUnit) \in Seq(Descriptor)
            /\ Images(SubSeq(s, j + 1, Len(s)), fdsOfUnit) \in Seq(Descriptor)
            /\ Images(s, fdsOfUnit) = (Images(SubSeq(s, 1, j - 1), fdsOfUnit) \o fdsOfUnit[s[j]])
                                       \o Images(SubSeq(s, j + 1, Len(s)), fdsOfUnit)
    BY <2>1, ImageAt, ZenonT(30)
  <2> QED BY <2>2
<1>2. V[i] \in Unit
  BY ElementOfSeq
<1>3. fdsOfUnit[V[i]] = V[i].fds /\ V[i].fds \in Seq(Descriptor)
  BY <1>2 DEF fdsOfUnit, Unit
<1> HIDE DEF A, B
<1>4. Images(V, fdsOfUnit) = Join(Join(A, V[i].fds), B) /\ Join(A, V[i].fds) \in Seq(Descriptor)
  BY <1>1, <1>3, JoinProperties DEF Join
<1>5. /\ ToSet(V[i].fds) \subseteq ToSet(Join(A, V[i].fds))
      /\ ToSet(Join(A, V[i].fds)) \subseteq ToSet(Join(Join(A, V[i].fds), B))
  BY <1>1, <1>3, <1>4, PartsOfJoin
<1> QED BY <1>4, <1>5

RetainedInv == TransportInv /\ Lone /\ Silent /\ Accounted

LEMMA InitRetainedInv == OnePoster /\ Init => RetainedInv
<1> SUFFICES ASSUME OnePoster, Init PROVE RetainedInv
  OBVIOUS
<1>1. TransportInv /\ Lone
  BY InitTransportInv, InitLone
<1>2. Silent
  BY DEF Init, Silent
<1>3. Accounted
  <2> SUFFICES ASSUME NEW e \in End
               PROVE  \E W \in Seq(Descriptor) :
                          /\ up[Peer(e)] => W = Images(wire[e], fdsOfUnit)
                          /\ Keeps(retained[e], attached[Peer(e)], W, queueFds[e], Pending(e), Owed(e))
    BY DEF Accounted
  <2>1. Peer(e) \in End /\ Poster(e) \in Thread
    BY PeerProperties, PosterProperties
  <2>2. /\ retained[e] = <<>> /\ attached[Peer(e)] = <<>> /\ queueFds[e] = <<>> /\ wire[e] = <<>>
        /\ bytes[e] = <<>> /\ wire[Peer(e)] = <<>> /\ queue[Peer(e)] = <<>> /\ retaining[Poster(e)] = None
    BY <2>1 DEF Init
  <2>3. Pending(e) = <<>> /\ Owed(e) = Due(<<>>, <<>>, <<>>)
    BY <2>2 DEF Pending, Owed
  <2>4. Due(<<>>, <<>>, <<>>) = 0
    BY StreamTyped, AcksTyped, EmptySeq DEF Due
  <2>5. <<>> \in Seq(Descriptor) /\ Join(<<>>, <<>>) = <<>> /\ Len(<<>>) = 0
    BY JoinProperties, EmptySeq
  <2>6. Keeps(<<>>, <<>>, <<>>, <<>>, <<>>, 0)
    <3>1. <<>> = Join(<<>>, Join(<<>>, Join(<<>>, Join(<<>>, <<>>)))) /\ 0 <= Len(<<>>)
      BY <2>5
    <3> QED BY <2>5, <3>1 DEF Keeps
  <2>7. Images(wire[e], fdsOfUnit) = <<>>
    BY <2>2, DescriptorsJoined
  <2> QED BY <2>2, <2>3, <2>4, <2>5, <2>6, <2>7
<1> QED BY <1>1, <1>2, <1>3 DEF RetainedInv

LEMMA RetainedInvStays == OnePoster /\ RetainedInv /\ [Next]_vars => RetainedInv'
<1> SUFFICES ASSUME OnePoster, RetainedInv, [Next]_vars PROVE RetainedInv'
  OBVIOUS
<1>1. /\ PostersTyped /\ SentTyped /\ RetainedTyped /\ ReadTyped /\ MessagesTyped /\ ControlTyped
      /\ Life /\ Safe /\ Ready /\ TransportInv /\ Lone /\ Silent /\ Accounted
  BY DEF RetainedInv, TransportInv
<1>2. TransportInv'
  BY <1>1, TransportInvStays
<1>3. Lone'
  BY <1>1, LoneStays
<1>4. Silent'
  BY <1>1, SilentStays
<1>5. Accounted'
  BY <1>1, AccountedStays
<1> QED BY <1>2, <1>3, <1>4, <1>5 DEF RetainedInv

\* What has been let go of is not needed any more.
LEMMA RetainedInvMeans == OnePoster /\ RetainedInv => RetainedUntilReceived
<1> SUFFICES ASSUME OnePoster, RetainedInv, NEW e \in End, main[e] # "dead"
             PROVE  /\ ToSet(queueFds[e]) \subseteq ToSet(retained[e])
                    /\ \A i \in 1..Len(wire[e]) : ToSet(wire[e][i].fds) \subseteq ToSet(retained[e])
                    /\ ToSet(attached[Peer(e)]) \subseteq ToSet(retained[e])
  <2>1. ASSUME NEW e \in End, NEW X,
               ToSet(queueFds[e]) \subseteq X, ToSet(attached[Peer(e)]) \subseteq X,
               \A i \in 1..Len(wire[e]) : ToSet(wire[e][i].fds) \subseteq X
        PROVE  ToSet(queueFds[e]) \cup (UNION {ToSet(wire[e][i].fds) : i \in 1..Len(wire[e])})
                   \cup ToSet(attached[Peer(e)]) \subseteq X
    <3>1. UNION {ToSet(wire[e][i].fds) : i \in 1..Len(wire[e])} \subseteq X
      BY <2>1, Zenon
    <3> QED BY <2>1, <3>1
  <2> QED BY <2>1, Zenon DEF RetainedUntilReceived
<1> DEFINE a == attached[Peer(e)]
           F == queueFds[e]
           P == Pending(e)
<1>1. /\ SentTyped /\ ReadTyped /\ PostersTyped /\ ControlTyped /\ Silent /\ Accounted
  BY DEF RetainedInv, TransportInv
<1>2. PICK W \in Seq(Descriptor) :
          /\ up[Peer(e)] => W = Images(wire[e], fdsOfUnit)
          /\ Keeps(retained[e], a, W, F, P, Owed(e))
  BY <1>1 DEF Accounted
<1>3. /\ a \in Seq(Descriptor) /\ F \in Seq(Descriptor) /\ wire[e] \in Seq(Unit)
  BY <1>1, PeerProperties DEF SentTyped, ReadTyped
<1>4. P \in Seq(Descriptor)
  <2>1. Poster(e) \in Thread
    BY PosterProperties
  <2>2. retaining[Poster(e)] \in Msg \cup {None}
    BY <1>1, <2>1 DEF PostersTyped
  <2> QED BY <2>2, FdsTyped, EmptySeq DEF Pending
<1> HIDE DEF a, F, P
<1>5. PICK D \in Seq(Descriptor) : retained[e] = Join(D, Join(a, Join(W, Join(F, P))))
  BY <1>2 DEF Keeps
<1>6. Join(F, P) \in Seq(Descriptor) /\ Join(W, Join(F, P)) \in Seq(Descriptor)
      /\ Join(a, Join(W, Join(F, P))) \in Seq(Descriptor)
  BY <1>3, <1>4, JoinProperties
<1>7. ToSet(Join(a, Join(W, Join(F, P)))) \subseteq ToSet(retained[e])
  BY <1>5, <1>6, PartsOfJoin
<1>8. ToSet(a) \subseteq ToSet(retained[e]) /\ ToSet(Join(W, Join(F, P))) \subseteq ToSet(retained[e])
  BY <1>3, <1>6, <1>7, PartsOfJoin
<1>9. ToSet(W) \subseteq ToSet(retained[e]) /\ ToSet(Join(F, P)) \subseteq ToSet(retained[e])
  BY <1>6, <1>8, PartsOfJoin
<1>10. ToSet(F) \subseteq ToSet(retained[e])
  BY <1>3, <1>4, <1>9, PartsOfJoin
<1>11. ASSUME NEW i \in 1..Len(wire[e]) PROVE ToSet(wire[e][i].fds) \subseteq ToSet(retained[e])
  <2>1. up[Peer(e)]
    BY <1>1, <1>11, EmptySeq DEF Silent
  <2>2. W = Images(wire[e], fdsOfUnit)
    BY <1>2, <2>1
  <2> QED BY <1>3, <1>9, <2>2, CarriedByUnit
<1> QED BY <1>8, <1>10, <1>11 DEF a, F

-----------------------------------------------------------------------------
(***************************************************************************)
(* How many descriptors an end retains, whichever threads post: each one   *)
(* of a message in the middle of being posted, queued, on the wire, not    *)
(* yet in a message, or with an acknowledgement on its way.                *)
(***************************************************************************)

\* BeingPosted(e), for threads that have retained the messages R.
InPosting(R, e) ==
    {d \in Thread \X (1..MaxTransferFds) : At[d[1]] = e /\ R[d[1]] # None /\ d[2] <= FdCount[R[d[1]]]}

Retaining == [Thread -> Msg \cup {None}]

LEMMA PostingFinite ==
    \A R, e : IsFiniteSet(InPosting(R, e)) /\ Cardinality(InPosting(R, e)) \in Nat
<1> TAKE R, e
<1>1. IsFiniteSet(1..MaxTransferFds) /\ IsFiniteSet(Thread)
  BY FiniteAssumption, BoundAssumption, FS_Interval
<1>2. IsFiniteSet(Thread \X (1..MaxTransferFds))
  BY <1>1, FS_Product
<1>3. InPosting(R, e) \in SUBSET (Thread \X (1..MaxTransferFds))
  BY DEF InPosting
<1>4. IsFiniteSet(InPosting(R, e))
  BY <1>2, <1>3, FS_Subset
<1> QED BY <1>4, FS_CardinalityType

LEMMA PostingBegins ==
    \A e : \A R \in Retaining, t \in Thread, m \in Msg : R[t] = None =>
        Cardinality(InPosting([R EXCEPT ![t] = m], e))
            = Cardinality(InPosting(R, e)) + (IF At[t] = e THEN FdCount[m] ELSE 0)
<1> SUFFICES ASSUME NEW e, NEW R \in Retaining, NEW t \in Thread, NEW m \in Msg, R[t] = None
             PROVE  Cardinality(InPosting([R EXCEPT ![t] = m], e))
                        = Cardinality(InPosting(R, e)) + (IF At[t] = e THEN FdCount[m] ELSE 0)
  OBVIOUS
<1> DEFINE S == [R EXCEPT ![t] = m]
           New == {t} \X (1..FdCount[m])
<1>1. /\ FdCount[m] \in 0..MaxTransferFds /\ m # None /\ MaxTransferFds \in Nat
      /\ S[t] = m /\ \A u \in Thread : u # t => S[u] = R[u]
  BY MessageAssumption, BoundAssumption DEF Retaining
<1> HIDE DEF S
<1>2. CASE At[t] # e
  <2>1. InPosting(S, e) = InPosting(R, e)
    BY <1>1, <1>2 DEF InPosting
  <2> QED BY <1>2, <2>1, PostingFinite DEF S
<1>3. CASE At[t] = e
  <2>1. InPosting(S, e) = InPosting(R, e) \cup New
    <3>1. ASSUME NEW d \in InPosting(S, e) PROVE d \in InPosting(R, e) \cup New
      <4>1. d \in Thread \X (1..MaxTransferFds) /\ At[d[1]] = e /\ S[d[1]] # None /\ d[2] <= FdCount[S[d[1]]]
        BY <3>1 DEF InPosting
      <4>2. CASE d[1] = t
        <5>1. d[2] \in 1..FdCount[m] /\ d = <<d[1], d[2]>>
          BY <1>1, <4>1, <4>2
        <5> QED BY <4>2, <5>1
      <4>3. CASE d[1] # t
        <5>1. S[d[1]] = R[d[1]]
          BY <1>1, <4>1, <4>3
        <5> QED BY <4>1, <5>1 DEF InPosting
      <4> QED BY <4>2, <4>3
    <3>2. ASSUME NEW d \in New PROVE d \in InPosting(S, e)
      <4>1. d[1] = t /\ d[2] \in 1..FdCount[m] /\ d = <<d[1], d[2]>>
        BY <3>2
      <4>2. d \in Thread \X (1..MaxTransferFds) /\ d[2] <= FdCount[m]
        BY <1>1, <4>1
      <4> QED BY <1>1, <1>3, <4>1, <4>2 DEF InPosting
    <3>3. ASSUME NEW d \in InPosting(R, e) PROVE d \in InPosting(S, e)
      <4>1. d \in Thread \X (1..MaxTransferFds) /\ At[d[1]] = e /\ R[d[1]] # None /\ d[2] <= FdCount[R[d[1]]]
        BY <3>3 DEF InPosting
      <4>2. S[d[1]] = R[d[1]]
        BY <1>1, <4>1
      <4> QED BY <4>1, <4>2 DEF InPosting
    <3> HIDE DEF New
    <3> QED BY <3>1, <3>2, <3>3
  <2>2. InPosting(R, e) \cap New = {}
    BY DEF InPosting
  <2>3. IsFiniteSet(New) /\ Cardinality(New) = FdCount[m]
    <3> DEFINE k == FdCount[m]
    <3>0. k \in Nat /\ 1 \in Int /\ k \in Int
      BY <1>1
    <3> HIDE DEF k
    <3>a. IsFiniteSet(1..k) /\ Cardinality(1..k) = IF 1 > k THEN 0 ELSE k - 1 + 1
      BY <3>0, FS_Interval
    <3>b. Cardinality(1..k) = k
      BY <3>0, <3>a
    <3>1. IsFiniteSet(1..FdCount[m]) /\ Cardinality(1..FdCount[m]) = FdCount[m]
      BY <3>a, <3>b DEF k
    <3>2. IsFiniteSet({t}) /\ Cardinality({t}) = 1
      BY FS_Singleton
    <3>3. IsFiniteSet(New) /\ Cardinality(New) = Cardinality({t}) * Cardinality(1..FdCount[m])
      BY <3>1, <3>2, FS_Product
    <3> QED BY <1>1, <3>1, <3>2, <3>3
  <2>4. IsFiniteSet(InPosting(R, e)) /\ Cardinality(InPosting(R, e)) \in Nat
    BY PostingFinite
  <2> HIDE DEF New
  <2>5. Cardinality(InPosting(R, e) \cup New)
            = Cardinality(InPosting(R, e)) + Cardinality(New) - Cardinality(InPosting(R, e) \cap New)
    BY <2>3, <2>4, FS_Union
  <2>6. Cardinality(InPosting(R, e) \cap New) = 0
    BY <2>2, FS_EmptySet
  <2>7. FdCount[m] \in Nat
    BY <1>1
  <2>8. Cardinality(InPosting(S, e)) = Cardinality(InPosting(R, e)) + FdCount[m]
    BY <2>1, <2>3, <2>4, <2>5, <2>6, <2>7
  <2> QED BY <1>3, <2>8 DEF S
<1> QED BY <1>2, <1>3

LEMMA PostingEnds ==
    \A e : \A R \in Retaining, t \in Thread : R[t] # None =>
        Cardinality(InPosting(R, e))
            = Cardinality(InPosting([R EXCEPT ![t] = None], e)) + (IF At[t] = e THEN FdCount[R[t]] ELSE 0)
<1> SUFFICES ASSUME NEW e, NEW R \in Retaining, NEW t \in Thread, R[t] # None
             PROVE  Cardinality(InPosting(R, e))
                        = Cardinality(InPosting([R EXCEPT ![t] = None], e)) + (IF At[t] = e THEN FdCount[R[t]] ELSE 0)
  OBVIOUS
<1> DEFINE S == [R EXCEPT ![t] = None]
           m == R[t]
<1>1. S \in Retaining /\ S[t] = None /\ m \in Msg /\ [S EXCEPT ![t] = m] = R
  BY DEF Retaining
<1> HIDE DEF S, m
<1>2. Cardinality(InPosting([S EXCEPT ![t] = m], e)) = Cardinality(InPosting(S, e)) + (IF At[t] = e THEN FdCount[m] ELSE 0)
  BY <1>1, PostingBegins
<1>3. Cardinality(InPosting(R, e)) = Cardinality(InPosting(S, e)) + (IF At[t] = e THEN FdCount[m] ELSE 0)
  BY <1>1, <1>2
<1> QED BY <1>3 DEF S, m

LEMMA LengthsAdd ==
    /\ \A x \in Seq(Descriptor) : Len(x) \in Nat
    /\ \A x, y \in Seq(Descriptor) : x \o y \in Seq(Descriptor) /\ Len(x \o y) = Len(x) + Len(y)
    /\ \A x \in Seq(Descriptor) : \A k \in 0..Len(x) : Len(SubSeq(x, k + 1, Len(x))) = Len(x) - k
    /\ \A x \in Seq(Descriptor) : \A k \in 0..Len(x) : SubSeq(x, 1, k) \in Seq(Descriptor)
    /\ Len(<<>>) = 0
<1>1. \A x \in Seq(Descriptor) : Len(x) \in Nat
  BY LenProperties
<1>2. \A x, y \in Seq(Descriptor) : x \o y \in Seq(Descriptor) /\ Len(x \o y) = Len(x) + Len(y)
  BY ConcatProperties
<1>3. ASSUME NEW x \in Seq(Descriptor), NEW k \in 0..Len(x)
      PROVE  Len(SubSeq(x, k + 1, Len(x))) = Len(x) - k /\ SubSeq(x, 1, k) \in Seq(Descriptor)
  BY CutInTwo
<1> QED BY <1>1, <1>2, <1>3, EmptySeq

\* The load of an end: descriptors that it may not let go of yet.
Load(c, F, W, a, n) == (((c + Len(F)) + Len(Images(W, fdsOfUnit))) + Len(a)) + n

Counted ==
    \A e \in End : main[e] # "dead" =>
        LET load == Load(Cardinality(InPosting(retaining, e)), queueFds[e], wire[e], attached[Peer(e)], Owed(e))
        IN load <= Len(retained[e]) /\ (up[e] /\ up[Peer(e)] => load = Len(retained[e]))

LEMMA CountedStays ==
    ASSUME SentTyped, RetainedTyped, ReadTyped, Safe, PostersTyped, MessagesTyped, ControlTyped, Life, Ready, Counted,
           [Next]_vars, SentTyped', RetainedTyped', ReadTyped', Safe', PostersTyped'
    PROVE  Counted'
<1> SUFFICES ASSUME NEW e \in End, main'[e] # "dead"
             PROVE  LET load == Load(Cardinality(InPosting(retaining', e)), queueFds'[e], wire'[e], attached'[Peer(e)],
                                     Due(bytes'[e], wire'[Peer(e)], queue'[Peer(e)]))
                    IN load <= Len(retained'[e]) /\ (up'[e] /\ up'[Peer(e)] => load = Len(retained'[e]))
  BY DEF Counted, Owed
<1> DEFINE p == Peer(e)
           r == Len(retained[e])
           c == Cardinality(InPosting(retaining, e))
           f == Len(queueFds[e])
           w == Len(Images(wire[e], fdsOfUnit))
           a == Len(attached[p])
           n == Due(bytes[e], wire[p], queue[p])
           b == up[e] /\ up[p]
           r2 == Len(retained'[e])
           c2 == Cardinality(InPosting(retaining', e))
           f2 == Len(queueFds'[e])
           w2 == Len(Images(wire'[e], fdsOfUnit))
           a2 == Len(attached'[p])
           n2 == Due(bytes'[e], wire'[p], queue'[p])
           b2 == up'[e] /\ up'[p]
           Goal == /\ (((c2 + f2) + w2) + a2) + n2 <= r2
                   /\ b2 => (((c2 + f2) + w2) + a2) + n2 = r2
<1>0. p \in End /\ p # e /\ Peer(p) = e /\ Peer(e) = p /\ \A x \in End : x = e \/ x = p
  BY PeerProperties
<1>1. main[e] # "dead" /\ (up'[p] => up[p]) /\ (up'[e] => up[e])
  BY <1>0, LifeStays
<1>2. /\ queue \in [End -> Seq(SafeEntry)] /\ queueFds \in [End -> Seq(Descriptor)]
      /\ wire \in [End -> Seq(Unit)] /\ bytes \in [End -> Seq(Unit)] /\ attached \in [End -> Seq(Descriptor)]
      /\ retained \in [End -> Seq(Descriptor)] /\ retaining \in Retaining
      /\ up \in [End -> BOOLEAN]
      /\ \A x \in End : Len(queueFds[x]) = UnsentIn(queue[x])
  BY DEF SentTyped, ReadTyped, RetainedTyped, PostersTyped, ControlTyped, Safe, Retaining
<1>3. /\ queue' \in [End -> Seq(SafeEntry)] /\ queueFds' \in [End -> Seq(Descriptor)]
      /\ wire' \in [End -> Seq(Unit)] /\ bytes' \in [End -> Seq(Unit)] /\ attached' \in [End -> Seq(Descriptor)]
      /\ retained' \in [End -> Seq(Descriptor)]
  BY DEF SentTyped, ReadTyped, RetainedTyped, Safe
<1>4. \A x \in End : /\ queue[x] \in Seq(SafeEntry) /\ queue[x] \in Seq(Entry)
                     /\ queue'[x] \in Seq(SafeEntry) /\ queue'[x] \in Seq(Entry)
                     /\ wire[x] \in Seq(Unit) /\ bytes[x] \in Seq(Unit) /\ attached[x] \in Seq(Descriptor)
                     /\ wire'[x] \in Seq(Unit) /\ bytes'[x] \in Seq(Unit) /\ attached'[x] \in Seq(Descriptor)
                     /\ queueFds[x] \in Seq(Descriptor) /\ queueFds'[x] \in Seq(Descriptor)
                     /\ retained[x] \in Seq(Descriptor) /\ retained'[x] \in Seq(Descriptor)
  BY <1>2, <1>3, SafeIsEntry
<1>5. r \in Nat /\ c \in Nat /\ f \in Nat /\ w \in Nat /\ a \in Nat /\ n \in Nat
  BY <1>0, <1>4, LengthsAdd, PostingFinite, DescriptorsJoined, DueTyped
<1>6. r2 \in Nat /\ c2 \in Nat /\ f2 \in Nat /\ w2 \in Nat /\ a2 \in Nat /\ n2 \in Nat
  BY <1>0, <1>4, LengthsAdd, PostingFinite, DescriptorsJoined, DueTyped
<1>7. /\ (((c + f) + w) + a) + n <= r
      /\ b => (((c + f) + w) + a) + n = r
  BY <1>1 DEF Counted, Owed, Load
<1>8. b2 => b
  BY <1>1
<1> HIDE DEF p, r, c, f, w, a, n, b, r2, c2, f2, w2, a2, n2, b2
<1>a. ASSUME (((c2 + f2) + w2) + a2) + n2 + r = (((c + f) + w) + a) + n + r2 PROVE Goal
  BY <1>5, <1>6, <1>7, <1>8, <1>a
<1>b. ASSUME (((c2 + f2) + w2) + a2) + n2 + r <= (((c + f) + w) + a) + n + r2, ~b2 PROVE Goal
  BY <1>5, <1>6, <1>7, <1>b
<1> HIDE DEF Goal
<1>c. ASSUME UNCHANGED <<retained, attached, queueFds, retaining, bytes, wire, queue>> PROVE Goal
  <2>1. r2 = r /\ c2 = c /\ f2 = f /\ w2 = w /\ a2 = a /\ n2 = n
    BY <1>c DEF r, c, f, w, a, n, r2, c2, f2, w2, a2, n2
  <2> QED BY <1>a, <2>1
<1>d. ASSUME NEW x \in End, NEW R \in Seq(Msg), Posts(x, R)
      PROVE  /\ a2 = a /\ w2 = w /\ n2 = n
             /\ f2 = IF x = e THEN f + Len(Each(R, Fds)) ELSE f
  <2>1. /\ queue' = [queue EXCEPT ![x] = @ \o Answers(R)]
        /\ queueFds' = [queueFds EXCEPT ![x] = @ \o Each(R, Fds)]
        /\ UNCHANGED <<wire, bytes, attached>>
    BY <1>d DEF Posts
  <2>2. Each(R, Fds) \in Seq(Descriptor)
    BY MapsTyped, JoinedAreImages, ImagesProperties
  <2>3. f2 = IF x = e THEN f + Len(Each(R, Fds)) ELSE f
    <3>1. x = e => queueFds'[e] = queueFds[e] \o Each(R, Fds)
      BY <1>2, <2>1
    <3>2. x # e => queueFds'[e] = queueFds[e]
      BY <1>2, <2>1
    <3>3. Len(queueFds[e] \o Each(R, Fds)) = Len(queueFds[e]) + Len(Each(R, Fds))
      BY <1>4, <2>2, LengthsAdd
    <3> QED BY <3>1, <3>2, <3>3 DEF f, f2
  <2>4. queue'[p] = IF x = p THEN queue[p] \o Answers(R) ELSE queue[p]
    BY <1>0, <1>2, <2>1
  <2>5. Due(bytes[e], wire[p], queue[p] \o Answers(R)) = Due(bytes[e], wire[p], queue[p])
    BY <1>0, <1>4, DueWhilePosting
  <2>6. n2 = n
    BY <2>1, <2>4, <2>5 DEF n, n2
  <2>7. a2 = a /\ w2 = w
    BY <2>1 DEF a, a2, w, w2
  <2> QED BY <2>3, <2>6, <2>7
<1>9. ASSUME UNCHANGED data PROVE Goal
  BY <1>c, <1>9 DEF data
<1>10. ASSUME NEW t \in Thread, PostRetain(t) PROVE Goal
  <2> DEFINE m == Head(todo[t])
             x == At[t]
  <2>1. /\ todo[t] # <<>> /\ retaining[t] = None
        /\ retaining' = [retaining EXCEPT ![t] = m]
        /\ retained' = [retained EXCEPT ![x] = @ \o Fds(m)]
        /\ UNCHANGED <<attached, queueFds, bytes, wire, queue>>
    BY <1>10 DEF PostRetain, receiving, os
  <2>2. m \in Msg
    <3>1. todo[t] \in Seq(Msg)
      BY DEF PostersTyped
    <3>2. \A S : \A s \in Seq(S) : s # <<>> => Head(s) \in S
      BY HeadTailProperties
    <3> QED BY <2>1, <3>1, <3>2
  <2>3. x \in End /\ Fds(m) \in Seq(Descriptor) /\ Len(Fds(m)) = FdCount[m] /\ FdCount[m] \in Nat
    BY <2>2, FdsTyped, ThreadAssumption, MessageAssumption
  <2> HIDE DEF m
  <2>4. c2 = c + (IF x = e THEN FdCount[m] ELSE 0)
    BY <1>2, <2>1, <2>2, PostingBegins DEF c, c2
  <2> HIDE DEF x
  <2>5. r2 = r + (IF x = e THEN FdCount[m] ELSE 0)
    <3>1. x = e => retained'[e] = retained[e] \o Fds(m)
      BY <1>2, <2>1
    <3>2. x # e => retained'[e] = retained[e]
      BY <1>2, <2>1
    <3>3. Len(retained[e] \o Fds(m)) = Len(retained[e]) + FdCount[m] /\ Len(retained[e]) \in Nat
      BY <1>4, <2>3, LengthsAdd
    <3> QED BY <3>1, <3>2, <3>3 DEF r, r2
  <2>6. f2 = f /\ w2 = w /\ a2 = a /\ n2 = n
    BY <2>1 DEF f, w, a, n, f2, w2, a2, n2
  <2> DEFINE k == IF x = e THEN FdCount[m] ELSE 0
  <2>7. k \in Nat /\ c2 = c + k /\ r2 = r + k
    BY <2>3, <2>4, <2>5
  <2> HIDE DEF k
  <2>8. (((c2 + f2) + w2) + a2) + n2 + r = (((c + f) + w) + a) + n + r2
    BY <1>5, <2>6, <2>7
  <2> QED BY <1>a, <2>8
<1>11. ASSUME NEW t \in Thread, PostEnqueue(t) PROVE Goal
  <2> DEFINE m == retaining[t]
             x == At[t]
  <2>1. x \in End /\ m \in Msg /\ m # None /\ <<m>> \in Seq(Msg) /\ Posts(x, <<m>>)
    BY <1>11, EnqueueEffect DEF PostEnqueue
  <2>2. retaining' = [retaining EXCEPT ![t] = None] /\ UNCHANGED retained
    BY <1>11 DEF PostEnqueue
  <2>3. Each(<<m>>, Fds) = Fds(m) /\ Fds(m) \in Seq(Descriptor) /\ Len(Fds(m)) = FdCount[m] /\ FdCount[m] \in Nat
    BY <2>1, PostedAlone, FdsTyped, MessageAssumption
  <2>4. c = c2 + (IF x = e THEN FdCount[m] ELSE 0)
    BY <1>2, <2>1, <2>2, PostingEnds DEF c, c2
  <2> HIDE DEF m, x
  <2>5. a2 = a /\ w2 = w /\ n2 = n /\ f2 = IF x = e THEN f + FdCount[m] ELSE f
    BY <1>d, <2>1, <2>3
  <2>6. r2 = r
    BY <2>2 DEF r, r2
  <2> QED BY <1>5, <1>6, <1>a, <2>3, <2>4, <2>5, <2>6
<1>12. ASSUME NEW x \in End, ReadHook(x) \/ DeferredHandle(x) PROVE Goal
  <2>1. PICK R \in Seq(Msg) : Posts(x, R) /\ retained' = [retained EXCEPT ![x] = @ \o Each(R, Fds)]
    BY <1>12, AnswerEffect
  <2>2. UNCHANGED retaining
    BY <1>12 DEF ReadHook, DeferredHandle, posters
  <2>3. Each(R, Fds) \in Seq(Descriptor)
    BY MapsTyped, JoinedAreImages, ImagesProperties
  <2> DEFINE k == Len(Each(R, Fds))
  <2>4. k \in Nat
    BY <2>3, LengthsAdd
  <2>5. a2 = a /\ w2 = w /\ n2 = n /\ f2 = IF x = e THEN f + k ELSE f
    BY <1>d, <2>1
  <2>6. r2 = IF x = e THEN r + k ELSE r
    <3>1. x = e => retained'[e] = retained[e] \o Each(R, Fds)
      BY <1>2, <2>1
    <3>2. x # e => retained'[e] = retained[e]
      BY <1>2, <2>1
    <3>3. Len(retained[e] \o Each(R, Fds)) = Len(retained[e]) + k
      BY <1>4, <2>3, LengthsAdd
    <3> QED BY <3>1, <3>2, <3>3 DEF r, r2
  <2>7. c2 = c
    BY <2>2 DEF c, c2
  <2> HIDE DEF k
  <2> QED BY <1>5, <1>a, <2>4, <2>5, <2>6, <2>7
<1>13. ASSUME NEW x \in End, IOReceive(x) PROVE Goal
  <2> DEFINE bare(T) == [i \in 1..Len(T) |-> [T[i] EXCEPT !.fds = <<>>]]
  <2>1. /\ bytes' = [bytes EXCEPT ![x] = @ \o bare(wire[Peer(x)])]
        /\ attached' = [attached EXCEPT ![x] = @ \o Each(wire[Peer(x)], LAMBDA u : u.fds)]
        /\ wire' = [wire EXCEPT ![Peer(x)] = <<>>]
        /\ UNCHANGED <<retained, retaining, queueFds, queue>>
    BY <1>13 DEF IOReceive, sending, posters
  <2>2. r2 = r /\ c2 = c /\ f2 = f
    BY <2>1 DEF r, c, f, r2, c2, f2
  <2> HIDE DEF bare
  <2>3. CASE x = e
    <3>1. /\ bytes'[e] = bytes[e] \o bare(wire[p]) /\ wire'[p] = <<>> /\ wire'[e] = wire[e]
          /\ attached'[p] = attached[p] /\ queue'[p] = queue[p]
      BY <1>0, <1>2, <2>1, <2>3
    <3> DEFINE B == bytes[e]
               V == wire[p]
               Q == queue[p]
    <3>a. B \in Seq(Unit) /\ V \in Seq(Unit) /\ Q \in Seq(SafeEntry)
      BY <1>0, <1>4
    <3> HIDE DEF B, V, Q
    <3>b. Due(B \o bare(V), <<>>, Q) = Due(B, V, Q)
      BY <3>a, DueWhileMoving DEF bare
    <3>2. Due(bytes[e] \o bare(wire[p]), <<>>, queue[p]) = n
      BY <3>b DEF n, B, V, Q
    <3>3. n2 = n /\ w2 = w /\ a2 = a
      BY <3>1, <3>2 DEF n2, w, w2, a, a2
    <3> QED BY <1>a, <2>2, <3>3
  <2>4. CASE x = p
    <3>1. /\ bytes'[e] = bytes[e] /\ wire'[p] = wire[p] /\ wire'[e] = <<>> /\ queue'[p] = queue[p]
          /\ attached'[p] = attached[p] \o Each(wire[e], LAMBDA u : u.fds)
      BY <1>0, <1>2, <2>1, <2>4
    <3>2. Each(wire[e], LAMBDA u : u.fds) = Images(wire[e], fdsOfUnit)
      BY <1>4, JoinedAreImages
    <3>3. n2 = n /\ w2 = 0
      BY <3>1, DescriptorsJoined, EmptySeq DEF n, n2, w2
    <3>4. a2 = a + w
      <4>1. attached[p] \in Seq(Descriptor) /\ Images(wire[e], fdsOfUnit) \in Seq(Descriptor)
        BY <1>0, <1>4, DescriptorsJoined
      <4>2. Len(attached[p] \o Images(wire[e], fdsOfUnit)) = Len(attached[p]) + Len(Images(wire[e], fdsOfUnit))
        BY <4>1, LengthsAdd
      <4> QED BY <3>1, <3>2, <4>2 DEF a, a2, w
    <3> QED BY <1>5, <1>a, <2>2, <3>3, <3>4
  <2> QED BY <1>0, <2>3, <2>4
<1>14. ASSUME NEW x \in End, IOParse(x) PROVE Goal
  <2> DEFINE U == ParsedUnits(x)
             rest == SubSeq(bytes[x], Parsed(x) + 1, Len(bytes[x]))
             received == Len(Announced(U))
             k == Acknowledged(U)
  <2>1. /\ Parses(x) /\ received \in Nat
        /\ queue' = IF received = 0 THEN queue
                    ELSE [queue EXCEPT ![x] = Append(@, Queued(Acknowledgement(received)))]
        /\ retained' = [retained EXCEPT ![x] = SubSeq(@, k + 1, Len(@))]
    BY <1>14, ParseEffect
  <2>2. UNCHANGED retaining
    BY <1>14 DEF IOParse, posters
  <2>3. /\ bytes' = [bytes EXCEPT ![x] = rest]
        /\ attached' = [attached EXCEPT ![x] = SubSeq(@, received + 1, Len(@))]
        /\ UNCHANGED <<queueFds, wire>>
    BY <2>1 DEF Parses
  <2>4. U \in Seq(Unit) /\ rest \in Seq(Unit) /\ U \o rest = bytes[x]
    <3>1. bytes[x] \in Seq(Unit) /\ Parsed(x) \in 0..Len(bytes[x])
      BY <1>2, ReadTyped, ParsedProperties DEF ReadTyped
    <3> QED BY <3>1, CutInTwo DEF ParsedUnits
  <2>5. k \in Nat /\ received <= Len(attached[x])
    BY <2>4, AcknowledgedTyped, ParseTyped
  <2>6. c2 = c /\ f2 = f /\ w2 = w
    BY <2>2, <2>3 DEF c, c2, f, f2, w, w2
  <2> DEFINE V == wire[p]
             Q == queue[p]
  <2>a. V \in Seq(Unit) /\ Q \in Seq(SafeEntry)
    BY <1>0, <1>4
  <2>b. wire'[p] = V
    BY <2>3
  <2> HIDE DEF U, rest, received, k, V, Q
  <2>7. CASE x = e
    <3>1. bytes'[e] = rest /\ attached'[p] = attached[p] /\ queue'[p] = Q
          /\ retained'[e] = SubSeq(retained[e], k + 1, Len(retained[e]))
      BY <1>0, <1>2, <2>1, <2>3, <2>7 DEF Q
    <3>2. n = Due(rest, V, Q) + k
      <4>1. \A X, Y \in Seq(Unit), Z \in Seq(SafeEntry) : \A T \in Seq(Unit) :
                Due(T \o X, Y, Z) = Due(X, Y, Z) + Acknowledged(T)
        BY DueWhileMoving
      <4>2. Due(U \o rest, V, Q) = Due(rest, V, Q) + Acknowledged(U)
        BY <2>4, <2>a, <4>1, ZenonT(30)
      <4>3. n = Due(U \o rest, V, Q)
        BY <2>4, <2>7 DEF n, V, Q
      <4>4. k = Acknowledged(U)
        BY DEF k
      <4> QED BY <4>2, <4>3, <4>4
    <3>3. n2 = Due(rest, V, Q) /\ a2 = a
      BY <2>b, <3>1 DEF n2, a, a2
    <3>4. k \in 0..r
      BY <1>5, <1>6, <1>7, <2>5, <3>2, <3>3
    <3>5. r2 = r - k
      <4>1. \A X \in Seq(Descriptor) : \A j \in 0..Len(X) : Len(SubSeq(X, j + 1, Len(X))) = Len(X) - j
        BY LengthsAdd
      <4>2. retained[e] \in Seq(Descriptor) /\ k \in 0..Len(retained[e])
        BY <1>4, <3>4 DEF r
      <4>3. Len(SubSeq(retained[e], k + 1, Len(retained[e]))) = Len(retained[e]) - k
        BY <4>1, <4>2
      <4> QED BY <3>1, <4>3 DEF r, r2
    <3>6. (((c2 + f2) + w2) + a2) + n2 + r = (((c + f) + w) + a) + n + r2
      BY <1>5, <1>6, <2>5, <2>6, <3>2, <3>3, <3>5
    <3> QED BY <1>a, <3>6
  <2>8. CASE x = p
    <3>1. bytes'[e] = bytes[e] /\ attached'[p] = SubSeq(attached[p], received + 1, Len(attached[p])) /\ r2 = r
      BY <1>0, <1>2, <2>1, <2>3, <2>8 DEF r, r2
    <3>2. a2 = a - received
      <4>1. \A X \in Seq(Descriptor) : \A j \in 0..Len(X) : Len(SubSeq(X, j + 1, Len(X))) = Len(X) - j
        BY LengthsAdd
      <4>2. attached[p] \in Seq(Descriptor) /\ received \in 0..Len(attached[p])
        BY <1>4, <2>1, <2>5, <2>8, LengthsAdd DEF received
      <4>3. Len(SubSeq(attached[p], received + 1, Len(attached[p]))) = Len(attached[p]) - received
        BY <4>1, <4>2
      <4> QED BY <3>1, <4>3 DEF a, a2
    <3> DEFINE B == bytes[e]
    <3>3. B \in Seq(Unit) /\ n = Due(B, V, Q) /\ n2 = Due(B, V, queue'[p])
      BY <1>4, <2>b, <3>1 DEF n, n2, V, Q
    <3> HIDE DEF B
    <3>4. n2 = n + received
      <4>1. CASE received = 0
        BY <1>5, <2>1, <3>3, <4>1 DEF Q, received
      <4>2. CASE received # 0
        <5>1. queue'[p] = Append(Q, Queued(Acknowledgement(received)))
          BY <1>0, <1>2, <2>1, <2>8, <4>2 DEF Q, received
        <5>2. \A j \in Nat : Due(B, V, Append(Q, Queued(Acknowledgement(j)))) = Due(B, V, Q) + j
          BY <2>a, <3>3, DueWhileMoving
        <5> QED BY <2>1, <3>3, <5>1, <5>2 DEF received
      <4> QED BY <4>1, <4>2
    <3>5. received \in Nat
      BY <2>1 DEF received
    <3>6. (((c2 + f2) + w2) + a2) + n2 + r = (((c + f) + w) + a) + n + r2
      BY <1>5, <1>6, <2>6, <3>1, <3>2, <3>4, <3>5
    <3> QED BY <1>a, <3>6
  <2> QED BY <1>0, <2>7, <2>8
<1>15. ASSUME NEW x \in End, IOWrite(x) PROVE Goal
  <2>1. UNCHANGED <<retained, retaining, attached, bytes, up>>
    BY <1>15 DEF IOWrite, posters, receiving
  <2>2. CASE UNCHANGED flow
    BY <1>c, <2>1, <2>2 DEF flow
  <2>3. CASE Writes(x)
    <3>1. PICK k \in 0..UnitsUpTo(queue[x], Covered(queue[x])) :
                 /\ Written(x, k) /\ up[Peer(x)] /\ io[x] = "write"
                 /\ queue[x] # <<>> /\ Len(wire[x]) < SocketCapacity => k > 0
      BY <2>3 DEF Writes
    <3>2. c2 = c /\ r2 = r /\ a2 = a
      BY <2>1 DEF c, c2, r, r2, a, a2
    <3> DEFINE S == queue[x]
               fds == UnsentUpTo(S, Covered(S))
               out == Sent(S, k, SubSeq(queueFds[x], 1, fds))
               left == SubSeq(queueFds[x], fds + 1, Len(queueFds[x]))
               R == Discard(S, k, fds)
    <3>3. /\ wire' = [wire EXCEPT ![x] = @ \o out] /\ queue' = [queue EXCEPT ![x] = R]
          /\ queueFds' = [queueFds EXCEPT ![x] = left]
      BY <3>1 DEF Written
    <3>4. S \in Seq(SafeEntry) /\ queueFds[x] \in Seq(Descriptor) /\ Len(queueFds[x]) = UnsentIn(S)
      BY <1>2
    <3>5. /\ out \in Seq(Unit) /\ left \in Seq(Descriptor)
          /\ k > 0 => queueFds[x] = Images(out, fdsOfUnit) \o left
      <4> HIDE DEF S
      <4> QED BY <3>1, <3>4, WriteProperties DEF S
    <3>6. CASE x = e
      <4>1. wire'[e] = wire[e] \o out /\ queueFds'[e] = left /\ n2 = n
        BY <1>0, <1>2, <2>1, <3>3, <3>6 DEF n, n2
      <4>2. k > 0
        <5>1. "POLLOUT" \in revents[e] /\ S # <<>> /\ Len(wire[e]) < SocketCapacity
          BY <1>0, <3>1, <3>6 DEF Ready
        <5> QED BY <1>0, <3>1, <3>6, <5>1
      <4> HIDE DEF out, left, R, fds, S
      <4>3. queueFds[e] = Images(out, fdsOfUnit) \o left /\ Images(out, fdsOfUnit) \in Seq(Descriptor)
        BY <3>5, <3>6, <4>2, DescriptorsJoined
      <4>4. Len(queueFds[e]) = Len(Images(out, fdsOfUnit)) + Len(left)
        BY <3>5, <4>3, LengthsAdd
      <4>5. Images(wire'[e], fdsOfUnit) = Images(wire[e], fdsOfUnit) \o Images(out, fdsOfUnit)
            /\ Images(wire[e], fdsOfUnit) \in Seq(Descriptor)
        <5>1. wire[e] \in Seq(Unit)
          BY <1>4
        <5>2. Images(wire[e] \o out, fdsOfUnit) = Images(wire[e], fdsOfUnit) \o Images(out, fdsOfUnit)
          BY <3>5, <5>1, DescriptorsJoined
        <5> QED BY <4>1, <5>1, <5>2, DescriptorsJoined
      <4>6. w2 = w + Len(Images(out, fdsOfUnit))
        BY <4>3, <4>5, LengthsAdd DEF w, w2
      <4>7. f = Len(Images(out, fdsOfUnit)) + f2 /\ Len(Images(out, fdsOfUnit)) \in Nat
        BY <4>1, <4>3, <4>4, LengthsAdd DEF f, f2
      <4>8. (((c2 + f2) + w2) + a2) + n2 + r = (((c + f) + w) + a) + n + r2
        BY <1>5, <1>6, <3>2, <4>1, <4>6, <4>7
      <4> QED BY <1>a, <4>8
    <3>7. CASE x = p
      <4> DEFINE V == wire[p]
                 Q == queue[p]
                 B == bytes[e]
      <4>1. f2 = f /\ w2 = w /\ wire'[p] = V \o out /\ queue'[p] = R /\ bytes'[e] = B
        BY <1>0, <1>2, <2>1, <3>3, <3>7 DEF f, f2, w, w2
      <4>a. V \in Seq(Unit) /\ Q \in Seq(SafeEntry) /\ B \in Seq(Unit) /\ n = Due(B, V, Q) /\ S = Q
        BY <1>0, <1>4, <3>7 DEF n
      <4>2. SubSeq(queueFds[x], 1, fds) \in Seq(Descriptor)
        <5>1. fds \in 0..Len(queueFds[x])
          <6>1. S \in Seq(SentEntry) /\ S \in Seq(Entry) /\ Len(S) \in Nat /\ Covered(S) \in 0..Len(S) /\ Len(S) \in 0..Len(S)
            <7> HIDE DEF S
            <7>1. S \in Seq(SentEntry) /\ S \in Seq(Entry)
              BY <3>4, SafeIsEntry
            <7> QED BY <7>1, CoveredProperties, LenProperties
          <6>2. fds <= UnsentUpTo(S, Len(S)) /\ fds \in Nat
            BY <6>1, UnsentGrows, UnsentProperties
          <6> HIDE DEF fds, S
          <6> QED BY <3>4, <6>2, LenProperties DEF UnsentIn
        <5> HIDE DEF fds
        <5> QED BY <3>4, <5>1, LengthsAdd
      <4> HIDE DEF S, V, Q, B
      <4>3. Due(B, V \o out, R) = n
        <5> DEFINE G == SubSeq(queueFds[x], 1, fds)
        <5>1. \A j \in 0..UnitsUpTo(Q, Covered(Q)), H \in Seq(Descriptor) :
                  Due(B, V \o Sent(Q, j, H), Discard(Q, j, UnsentUpTo(Q, Covered(Q)))) = Due(B, V, Q)
          BY <4>a, DueWhileMoving
        <5>2. k \in 0..UnitsUpTo(Q, Covered(Q))
          BY <3>1, <4>a DEF S
        <5>3. G \in Seq(Descriptor)
          BY <4>2
        <5> HIDE DEF G
        <5>4. Due(B, V \o Sent(Q, k, G), Discard(Q, k, UnsentUpTo(Q, Covered(Q)))) = Due(B, V, Q)
          BY <5>1, <5>2, <5>3
        <5> QED BY <4>a, <5>4 DEF G
      <4>4. n2 = n
        BY <4>1, <4>3 DEF n2
      <4> QED BY <1>5, <1>a, <3>2, <4>1, <4>4
    <3> QED BY <1>0, <3>6, <3>7
  <2> QED BY <1>15, <2>2, <2>3, WriteStep
<1>16. ASSUME NEW x \in End, Joined(x) PROVE Goal
  <2>1. /\ wire' = [wire EXCEPT ![Peer(x)] = <<>>] /\ up' = [up EXCEPT ![x] = FALSE]
        /\ UNCHANGED <<retained, retaining, attached, queueFds, bytes, queue>>
    BY <1>16 DEF Joined, posters, sending, receiving
  <2>2. c2 = c /\ r2 = r /\ a2 = a /\ f2 = f /\ ~b2
    BY <1>0, <1>2, <2>1 DEF c, c2, r, r2, a, a2, f, f2, b2
  <2>3. w2 <= w /\ n2 <= n
    <3>1. CASE x = p
      <4>1. wire'[p] = wire[p] /\ wire'[e] = <<>>
        BY <1>0, <1>2, <2>1, <3>1
      <4>2. n2 = n /\ w2 = 0
        BY <2>1, <4>1, DescriptorsJoined, EmptySeq DEF n, n2, w2
      <4> QED BY <1>5, <4>2
    <3>2. CASE x = e
      <4>1. wire'[p] = <<>> /\ wire'[e] = wire[e]
        BY <1>0, <1>2, <2>1, <3>2
      <4>2. n2 <= n
        BY <1>0, <1>4, <2>1, <4>1, DueWhileMoving DEF n, n2
      <4> QED BY <1>5, <4>1, <4>2 DEF w, w2
    <3> QED BY <1>0, <3>1, <3>2
  <2> QED BY <1>5, <1>6, <1>b, <2>2, <2>3
<1>17. ASSUME NEW x \in End, NEW now, Die(x, now) PROVE Goal
  <2>1. /\ wire' = [wire EXCEPT ![Peer(x)] = <<>>] /\ up' = [up EXCEPT ![x] = FALSE]
        /\ main' = [main EXCEPT ![x] = "dead"]
        /\ retaining' = [t \in Thread |-> IF At[t] = x THEN None ELSE retaining[t]]
        /\ queue' = [queue EXCEPT ![x] = <<>>] /\ queueFds' = [queueFds EXCEPT ![x] = <<>>]
        /\ retained' = [retained EXCEPT ![x] = <<>>]
        /\ bytes' = [bytes EXCEPT ![x] = <<>>] /\ attached' = [attached EXCEPT ![x] = <<>>]
    BY <1>17 DEF Die
  <2>2. x # e
    BY <2>1 DEF ControlTyped
  <2>3. x = p
    BY <1>0, <2>2
  <2>4. /\ retained'[e] = retained[e] /\ attached'[p] = <<>> /\ queueFds'[e] = queueFds[e] /\ bytes'[e] = bytes[e]
        /\ wire'[p] = wire[p] /\ wire'[e] = <<>> /\ queue'[p] = <<>> /\ ~up'[p]
    BY <1>0, <1>2, <2>1, <2>3
  <2>5. c2 = c
    <3>1. InPosting(retaining', e) = InPosting(retaining, e)
      BY <2>1, <2>2 DEF InPosting
    <3> QED BY <3>1 DEF c, c2
  <2>6. r2 = r /\ a2 = 0 /\ f2 = f /\ w2 = 0 /\ ~b2
    BY <2>4, DescriptorsJoined, EmptySeq DEF r, r2, a2, f, f2, w2, b2
  <2>7. n2 <= n
    BY <1>0, <1>4, <2>4, DueWhileMoving DEF n, n2
  <2> QED BY <1>5, <1>6, <1>b, <2>5, <2>6, <2>7
<1>18. ASSUME NEW x \in End, SyncMatch(x) \/ SyncDrain(x) PROVE Goal
  <2>1. CASE SyncMatch(x)
    BY <1>c, <2>1 DEF SyncMatch, posters, sending, receiving, os
  <2>2. CASE SyncDrain(x)
    BY <1>c, <2>2 DEF SyncDrain, posters, sending, os
  <2> QED BY <1>18, <2>1, <2>2
<1>19. Goal
  BY <1>9, <1>10, <1>11, <1>12, <1>13, <1>14, <1>15, <1>16, <1>17, <1>18, DataSteps
<1> QED BY <1>19 DEF Goal, Load, p, b2, r2, c2, f2, w2, a2, n2

LEMMA InitCounted == Init => Counted
<1> SUFFICES ASSUME Init, NEW e \in End
             PROVE  LET load == Load(Cardinality(InPosting(retaining, e)), queueFds[e], wire[e], attached[Peer(e)], Owed(e))
                    IN load <= Len(retained[e]) /\ (up[e] /\ up[Peer(e)] => load = Len(retained[e]))
  BY DEF Counted
<1>1. Peer(e) \in End
  BY PeerProperties
<1>2. /\ retained[e] = <<>> /\ attached[Peer(e)] = <<>> /\ queueFds[e] = <<>> /\ wire[e] = <<>>
      /\ bytes[e] = <<>> /\ wire[Peer(e)] = <<>> /\ queue[Peer(e)] = <<>>
      /\ \A t \in Thread : retaining[t] = None
  BY <1>1 DEF Init
<1>3. InPosting(retaining, e) = {}
  BY <1>2 DEF InPosting
<1>4. Owed(e) = 0
  <2>1. Due(<<>>, <<>>, <<>>) = 0
    BY StreamTyped, AcksTyped, EmptySeq DEF Due
  <2> QED BY <1>2, <2>1 DEF Owed
<1>5. Cardinality(InPosting(retaining, e)) = 0 /\ Len(Images(<<>>, fdsOfUnit)) = 0 /\ Len(<<>>) = 0
  BY <1>3, FS_EmptySet, DescriptorsJoined, EmptySeq
<1> QED BY <1>2, <1>4, <1>5 DEF Load

CountedInv == TransportInv /\ Counted

LEMMA CountedInvStays == CountedInv /\ [Next]_vars => CountedInv'
<1> SUFFICES ASSUME CountedInv, [Next]_vars PROVE CountedInv'
  OBVIOUS
<1>1. TransportInv'
  BY TransportInvStays DEF CountedInv
<1>2. SentTyped' /\ RetainedTyped' /\ ReadTyped' /\ Safe' /\ PostersTyped'
  BY <1>1 DEF TransportInv
<1>3. /\ SentTyped /\ RetainedTyped /\ ReadTyped /\ Safe /\ PostersTyped /\ MessagesTyped /\ ControlTyped
      /\ Life /\ Ready /\ Counted
  BY DEF CountedInv, TransportInv
<1>4. Counted'
  BY <1>2, <1>3, CountedStays
<1> QED BY <1>1, <1>4 DEF CountedInv

LEMMA CountedInvMeans == CountedInv => RetainedAccounted
<1> SUFFICES ASSUME CountedInv, NEW e \in End, main[e] # "dead"
             PROVE  /\ Travelling(e) + Acknowledging(e) <= Len(retained[e])
                    /\ up[e] /\ up[Peer(e)] => Travelling(e) + Acknowledging(e) = Len(retained[e])
  BY DEF RetainedAccounted
<1> DEFINE p == Peer(e)
           c == Cardinality(InPosting(retaining, e))
           f == Len(queueFds[e])
           w == Len(Images(wire[e], fdsOfUnit))
           a == Len(attached[p])
           n == Owed(e)
<1>1. SentTyped /\ ReadTyped /\ Safe /\ Counted
  BY DEF CountedInv, TransportInv
<1>2. /\ p \in End /\ wire[e] \in Seq(Unit) /\ wire[p] \in Seq(Unit) /\ bytes[e] \in Seq(Unit)
      /\ queue[p] \in Seq(Entry) /\ queueFds[e] \in Seq(Descriptor) /\ attached[p] \in Seq(Descriptor)
  BY <1>1, PeerProperties DEF SentTyped, ReadTyped
<1>3. BeingPosted(e) = InPosting(retaining, e)
  BY DEF BeingPosted, InPosting
<1>4. Each(wire[e], LAMBDA u : u.fds) = Images(wire[e], fdsOfUnit)
  BY <1>2, JoinedAreImages
<1>5. Acknowledging(e) = n
  <2>1. Stream(queue[p]) \in Seq(Unit)
    BY <1>2, StreamTyped
  <2>2. /\ Acknowledged(bytes[e]) = Len(Acks(bytes[e])) /\ Acknowledged(wire[p]) = Len(Acks(wire[p]))
        /\ Acknowledged(Stream(queue[p])) = Len(Acks(Stream(queue[p])))
    BY <1>2, <2>1, AcksTyped
  <2> QED BY <2>2 DEF Acknowledging, Owed, Due
<1>6. Travelling(e) = ((c + f) + w) + a
  BY <1>3, <1>4 DEF Travelling
<1>7. /\ c \in Nat /\ f \in Nat /\ w \in Nat /\ a \in Nat /\ n \in Nat
  BY <1>2, PostingFinite, LengthsAdd, DescriptorsJoined, DueTyped DEF Owed
<1>8. LET load == (((c + f) + w) + a) + n
      IN load <= Len(retained[e]) /\ (up[e] /\ up[p] => load = Len(retained[e]))
  BY <1>1 DEF Counted, Load
<1> HIDE DEF p, c, f, w, a, n
<1>9. Travelling(e) + Acknowledging(e) = (((c + f) + w) + a) + n
  BY <1>5, <1>6, <1>7
<1> QED BY <1>8, <1>9 DEF p

\* An end keeps open as many descriptors as it still has to: those that travel
\* and those with an acknowledgement on the way, however many threads post and in
\* whichever order they retain and enqueue.  So no acknowledgement finds fewer
\* than it counts, and none is kept for ever while both sockets exist.
THEOREM DescriptorsAreAccountedFor == Spec => []RetainedAccounted
<1>1. Init => CountedInv
  BY InitTransportInv, InitCounted DEF CountedInv
<1>2. CountedInv /\ [Next]_vars => CountedInv'
  BY CountedInvStays
<1>3. CountedInv => RetainedAccounted
  BY CountedInvMeans
<1> QED BY <1>1, <1>2, <1>3, PTL DEF Spec
=============================================================================
