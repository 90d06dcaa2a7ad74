--------------------------- MODULE CacheIndexProof ---------------------------
(***************************************************************************)
(* What CacheIndex promises, for any number of variants and any sizes: the *)
(* rows in memory are the rows of the table, the estimate is the sum of    *)
(* their sizes, and eviction restores the limit, takes the least recently  *)
(* used rows first and spares the entry just stored.                       *)
(***************************************************************************)
EXTENDS CacheIndex, FiniteSetTheorems, WellFoundedInduction, TLAPS

-----------------------------------------------------------------------------
(***************************************************************************)
(* The sum of the sizes of some rows.  TotalSize is a fold over a set, in  *)
(* an order nobody chose; the lemmas say that the order does not matter.   *)
(* They are proved by taking a smallest counterexample.                    *)
(***************************************************************************)

LEMMA SmallestSubset ==
    ASSUME NEW S, IsFiniteSet(S), NEW T, T \subseteq SUBSET S, T # {}
    PROVE  \E m \in T : \A y \in SUBSET m : y # m => y \notin T
<1> DEFINE R == StrictSubsetOrdering(S)
<1>1. IsWellFoundedOn(R, SUBSET S)
  BY FS_StrictSubsetOrderingWellFounded, FS_FiniteSubsetsOfFinite
<1>2. PICK m \in T : \A y \in T : <<y, m>> \notin R
  <2> HIDE DEF R
  <2> QED BY <1>1, WFMin
<1>3. ASSUME NEW y \in SUBSET m, y # m, y \in T PROVE FALSE
  <2>1. <<y, m>> \in (SUBSET S) \X (SUBSET S)
    BY <1>3
  <2> QED BY <1>2, <1>3, <2>1 DEF StrictSubsetOrdering
<1> QED BY <1>3

SizeOf(d, p) == EstimatedSize(d[p])

LEMMA SizeTyped ==
    ASSUME NEW d \in Table
    PROVE  \A p \in Variants : SizeOf(d, p) \in Nat /\ (d[p] = NoRow => SizeOf(d, p) = 0)
BY CacheIndexAssumption DEF SizeOf, EstimatedSize, Table, Row, NoRow

\* The element the fold takes next, and the function it computes.
First(s) == CHOOSE x \in s : TRUE

IsFold(d, P, f) ==
    f = [s \in SUBSET P |-> IF s = {} THEN 0 ELSE SizeOf(d, First(s)) + f[s \ {First(s)}]]

LEMMA FirstIn == \A s : s # {} => First(s) \in s
BY DEF First

LEMMA FoldStep ==
    ASSUME NEW d, NEW P, NEW f, IsFold(d, P, f), NEW s \in SUBSET P
    PROVE  f[s] = IF s = {} THEN 0 ELSE SizeOf(d, First(s)) + f[s \ {First(s)}]
BY DEF IsFold

LEMMA TotalSizeIsFold ==
    ASSUME NEW d, NEW P
    PROVE  TotalSize(d, P) = (CHOOSE f : IsFold(d, P, f))[P]
BY DEF TotalSize, MapThenSumSet, MapThenFoldSet, First, IsFold, SizeOf

\* Two folds agree on the sets they are both defined on.
LEMMA FoldsAgree ==
    ASSUME NEW d, NEW A \in SUBSET Variants, NEW B \in SUBSET Variants,
           NEW f, IsFold(d, A, f), NEW g, IsFold(d, B, g)
    PROVE  \A s \in SUBSET (A \cap B) : f[s] = g[s]
<1> DEFINE Bad == {s \in SUBSET (A \cap B) : f[s] # g[s]}
<1>1. ASSUME Bad # {} PROVE FALSE
  <2>1. Bad \subseteq SUBSET Variants /\ IsFiniteSet(Variants)
    BY CacheIndexAssumption
  <2>2. PICK m \in Bad : \A y \in SUBSET m : y # m => y \notin Bad
    <3> HIDE DEF Bad
    <3> QED BY <1>1, <2>1, SmallestSubset
  <2>3. m \in SUBSET A /\ m \in SUBSET B /\ f[m] # g[m]
    BY <2>2
  <2>4. m # {}
    BY <2>3, FoldStep
  <2> DEFINE c == First(m)
  <2>5. c \in m
    BY <2>4, FirstIn
  <2>6. f[m] = SizeOf(d, c) + f[m \ {c}] /\ g[m] = SizeOf(d, c) + g[m \ {c}]
    BY <2>3, <2>4, FoldStep
  <2> HIDE DEF c
  <2>7. f[m \ {c}] = g[m \ {c}]
    BY <2>2, <2>5
  <2> QED BY <2>3, <2>6, <2>7
<1> QED BY <1>1

\* There is a fold over every set of variants.
LEMMA FoldExists ==
    ASSUME NEW d \in Table, NEW P \in SUBSET Variants
    PROVE  \E f \in [SUBSET P -> Nat] : IsFold(d, P, f)
<1> DEFINE Bad == {Q \in SUBSET Variants : ~ \E f \in [SUBSET Q -> Nat] : IsFold(d, Q, f)}
<1>1. ASSUME Bad # {} PROVE FALSE
  <2>1. Bad \subseteq SUBSET Variants /\ IsFiniteSet(Variants)
    BY CacheIndexAssumption
  <2>2. PICK m \in Bad : \A y \in SUBSET m : y # m => y \notin Bad
    <3> HIDE DEF Bad
    <3> QED BY <1>1, <2>1, SmallestSubset
  <2> DEFINE F(s) == CHOOSE f \in [SUBSET s -> Nat] : IsFold(d, s, f)
  <2>3. ASSUME NEW s \in SUBSET m, s # m PROVE F(s) \in [SUBSET s -> Nat] /\ IsFold(d, s, F(s))
    <3>1. \E f \in [SUBSET s -> Nat] : IsFold(d, s, f)
      BY <2>2, <2>3
    <3> QED BY <3>1
  <2> DEFINE c == First(m)
             g == [s \in SUBSET m |-> IF s # m THEN F(s)[s]
                                      ELSE IF m = {} THEN 0 ELSE SizeOf(d, c) + F(m \ {c})[m \ {c}]]
  <2>4. m # {} => c \in m /\ c \in Variants
    BY <2>2, FirstIn
  <2>5. \A p \in Variants : SizeOf(d, p) \in Nat
    BY SizeTyped
  <2> HIDE DEF F, c, Bad
  <2>6. g \in [SUBSET m -> Nat]
    <3>1. ASSUME NEW s \in SUBSET m, s # m PROVE F(s)[s] \in Nat
      BY <2>3, <3>1
    <3>2. m # {} => SizeOf(d, c) + F(m \ {c})[m \ {c}] \in Nat
      <4>1. m # {} => SizeOf(d, c) \in Nat /\ m \ {c} \in SUBSET m /\ m \ {c} # m
        BY <2>4, <2>5
      <4>2. m # {} => F(m \ {c})[m \ {c}] \in Nat
        BY <3>1, <4>1
      <4> QED BY <4>1, <4>2
    <3> QED BY <3>1, <3>2
  <2>7. ASSUME NEW s \in SUBSET m
        PROVE  g[s] = IF s = {} THEN 0 ELSE SizeOf(d, First(s)) + g[s \ {First(s)}]
    <3> DEFINE x == First(s)
    <3>0. s # {} => x \in s /\ s \ {x} \in SUBSET m /\ s \ {x} # m
      BY FirstIn
    <3>1. s # {} => g[s \ {x}] = F(s \ {x})[s \ {x}]
      BY <3>0
    <3>2. CASE s = m
      BY <3>0, <3>1, <3>2 DEF c
    <3>3. CASE s # m
      <4>1. g[s] = F(s)[s] /\ IsFold(d, s, F(s))
        BY <2>3, <3>3
      <4>2. F(s)[s] = IF s = {} THEN 0 ELSE SizeOf(d, x) + F(s)[s \ {x}]
        BY <4>1, FoldStep
      <4>3. s # {} => F(s)[s \ {x}] = F(s \ {x})[s \ {x}]
        <5>1. s # {} => IsFold(d, s \ {x}, F(s \ {x}))
          BY <2>3, <3>0
        <5>2. s \in SUBSET Variants /\ s \ {x} \in SUBSET Variants
          BY <2>1, <2>2
        <5>3. s \ {x} \in SUBSET (s \cap (s \ {x}))
          OBVIOUS
        <5> HIDE DEF x
        <5> QED BY <4>1, <5>1, <5>2, <5>3, FoldsAgree
      <4> QED BY <3>1, <4>1, <4>2, <4>3
    <3> QED BY <3>2, <3>3
  <2> DEFINE h == [s \in SUBSET m |-> IF s = {} THEN 0 ELSE SizeOf(d, First(s)) + g[s \ {First(s)}]]
  <2>8. g = h
    <3>1. g = [s \in SUBSET m |-> g[s]]
      OBVIOUS
    <3>2. \A s \in SUBSET m : g[s] = h[s]
      BY <2>7
    <3> HIDE DEF g, h
    <3>3. g \in [SUBSET m -> Nat] /\ DOMAIN h = SUBSET m /\ h = [s \in SUBSET m |-> h[s]]
      BY <2>6 DEF h
    <3> QED BY <3>2, <3>3
  <2>9. IsFold(d, m, g)
    BY <2>8 DEF IsFold
  <2> QED BY <2>2, <2>6, <2>9 DEF Bad
<1> QED BY <1>1

\* The sum is what any fold over a larger set gives.
LEMMA TotalSizeOfFold ==
    ASSUME NEW d \in Table, NEW P \in SUBSET Variants, NEW f, IsFold(d, P, f), NEW Q \in SUBSET P
    PROVE  TotalSize(d, Q) = f[Q]
<1>1. Q \in SUBSET Variants
  OBVIOUS
<1>2. IsFold(d, Q, CHOOSE g : IsFold(d, Q, g))
  BY <1>1, FoldExists
<1> DEFINE g == CHOOSE h : IsFold(d, Q, h)
<1>3. TotalSize(d, Q) = g[Q]
  BY TotalSizeIsFold
<1> HIDE DEF g
<1>4. Q \in SUBSET (P \cap Q)
  OBVIOUS
<1>5. IsFold(d, Q, g)
  BY <1>2 DEF g
<1>6. f[Q] = g[Q]
  BY <1>1, <1>4, <1>5, FoldsAgree
<1> QED BY <1>3, <1>6

LEMMA TotalSizeTyped ==
    ASSUME NEW d \in Table, NEW P \in SUBSET Variants
    PROVE  TotalSize(d, P) \in Nat /\ TotalSize(d, {}) = 0
<1>1. PICK f \in [SUBSET P -> Nat] : IsFold(d, P, f)
  BY FoldExists
<1>2. TotalSize(d, P) = f[P] /\ TotalSize(d, {}) = f[{}]
  BY <1>1, TotalSizeOfFold
<1>3. f[{}] = 0
  BY <1>1, FoldStep
<1> QED BY <1>1, <1>2, <1>3

LEMMA FirstTaken ==
    ASSUME NEW d \in Table, NEW P \in SUBSET Variants, P # {}
    PROVE  TotalSize(d, P) = SizeOf(d, First(P)) + TotalSize(d, P \ {First(P)})
<1>1. PICK f \in [SUBSET P -> Nat] : IsFold(d, P, f)
  BY FoldExists
<1>2. f[P] = SizeOf(d, First(P)) + f[P \ {First(P)}]
  BY <1>1, FoldStep
<1>3. TotalSize(d, P) = f[P] /\ TotalSize(d, P \ {First(P)}) = f[P \ {First(P)}]
  BY <1>1, TotalSizeOfFold
<1> QED BY <1>2, <1>3

\* Any member of the set can be taken out of the sum, not only the first.
LEMMA OneTaken ==
    ASSUME NEW d \in Table, NEW P \in SUBSET Variants, NEW x \in P
    PROVE  TotalSize(d, P) = SizeOf(d, x) + TotalSize(d, P \ {x})
<1> DEFINE T(Q) == TotalSize(d, Q)
           Bad == {Q \in SUBSET Variants : \E y \in Q : T(Q) # SizeOf(d, y) + T(Q \ {y})}
<1>1. ASSUME Bad # {} PROVE FALSE
  <2>1. Bad \subseteq SUBSET Variants /\ IsFiniteSet(Variants)
    BY CacheIndexAssumption
  <2>2. PICK m \in Bad : \A y \in SUBSET m : y # m => y \notin Bad
    <3> HIDE DEF Bad
    <3> QED BY <1>1, <2>1, SmallestSubset
  <2>3. PICK y \in m : T(m) # SizeOf(d, y) + T(m \ {y})
    BY <2>2
  <2> DEFINE c == First(m)
  <2>4. c \in m /\ T(m) = SizeOf(d, c) + T(m \ {c})
    BY <2>2, <2>3, FirstIn, FirstTaken
  <2> HIDE DEF c
  <2>5. c # y
    BY <2>3, <2>4
  <2>6. T(m \ {c}) = SizeOf(d, y) + T((m \ {c}) \ {y})
    BY <2>2, <2>4, <2>5
  <2>7. T(m \ {y}) = SizeOf(d, c) + T((m \ {y}) \ {c})
    BY <2>2, <2>4, <2>5
  <2> DEFINE rest == T((m \ {c}) \ {y})
  <2>8. (m \ {c}) \ {y} = (m \ {y}) \ {c}
    OBVIOUS
  <2>9. T(m \ {y}) = SizeOf(d, c) + rest
    BY <2>7, <2>8
  <2>10. rest \in Nat /\ SizeOf(d, c) \in Nat /\ SizeOf(d, y) \in Nat
    BY <2>2, <2>3, <2>4, TotalSizeTyped, SizeTyped
  <2>11. T(m) = SizeOf(d, c) + (SizeOf(d, y) + rest)
    BY <2>4, <2>6
  <2>12. T(m) # SizeOf(d, y) + T(m \ {y})
    BY <2>3
  <2> HIDE DEF T, rest
  <2> QED BY <2>9, <2>10, <2>11, <2>12
<1> QED BY <1>1

\* The sum depends only on the sizes of the rows that are summed.
LEMMA SameSizes ==
    ASSUME NEW d \in Table, NEW e \in Table, NEW P \in SUBSET Variants,
           \A p \in P : SizeOf(d, p) = SizeOf(e, p)
    PROVE  TotalSize(d, P) = TotalSize(e, P)
<1> DEFINE Bad == {Q \in SUBSET P : TotalSize(d, Q) # TotalSize(e, Q)}
<1>1. ASSUME Bad # {} PROVE FALSE
  <2>1. Bad \subseteq SUBSET Variants /\ IsFiniteSet(Variants)
    BY CacheIndexAssumption
  <2>2. PICK m \in Bad : \A y \in SUBSET m : y # m => y \notin Bad
    <3> HIDE DEF Bad
    <3> QED BY <1>1, <2>1, SmallestSubset
  <2>3. m # {}
    BY <2>2, TotalSizeTyped
  <2>4. PICK c \in m : TRUE
    BY <2>3
  <2>5. TotalSize(d, m) = SizeOf(d, c) + TotalSize(d, m \ {c})
        /\ TotalSize(e, m) = SizeOf(e, c) + TotalSize(e, m \ {c})
    BY <2>2, OneTaken
  <2>6. TotalSize(d, m \ {c}) = TotalSize(e, m \ {c})
    BY <2>2
  <2> QED BY <2>2, <2>5, <2>6
<1> QED BY <1>1

\* The sum splits along any subset.
LEMMA SumSplits ==
    ASSUME NEW d \in Table, NEW P \in SUBSET Variants, NEW Q \in SUBSET P
    PROVE  TotalSize(d, P) = TotalSize(d, Q) + TotalSize(d, P \ Q)
<1> DEFINE T(R) == TotalSize(d, R)
           Bad == {R \in SUBSET P : T(P) # T(R) + T(P \ R)}
<1>1. ASSUME Bad # {} PROVE FALSE
  <2>1. Bad \subseteq SUBSET Variants /\ IsFiniteSet(Variants)
    BY CacheIndexAssumption
  <2>2. PICK m \in Bad : \A y \in SUBSET m : y # m => y \notin Bad
    <3> HIDE DEF Bad
    <3> QED BY <1>1, <2>1, SmallestSubset
  <2>3. m # {}
    <3>1. T({}) = 0 /\ T(P) \in Nat /\ P \ {} = P
      BY TotalSizeTyped
    <3>2. T({}) + T(P \ {}) = T(P)
      BY <3>1
    <3> QED BY <2>2, <3>2
  <2>4. PICK c \in m : TRUE
    BY <2>3
  <2> DEFINE r == m \ {c}
  <2>5. T(m) = SizeOf(d, c) + T(r)
    BY <2>2, OneTaken
  <2>6. T(P \ r) = SizeOf(d, c) + T(P \ m)
    <3>1. P \ r \in SUBSET Variants /\ c \in P \ r /\ (P \ r) \ {c} = P \ m
      BY <2>2
    <3> HIDE DEF r
    <3> QED BY <3>1, OneTaken
  <2>7. T(P) = T(r) + T(P \ r)
    BY <2>2
  <2>8. T(r) \in Nat /\ T(P \ m) \in Nat /\ SizeOf(d, c) \in Nat
    BY <2>2, TotalSizeTyped, SizeTyped
  <2>9. T(P) # T(m) + T(P \ m)
    BY <2>2
  <2> HIDE DEF T, r
  <2> QED BY <2>5, <2>6, <2>7, <2>8, <2>9
<1> QED BY <1>1

\* A larger set has a larger sum.
LEMMA SumGrows ==
    ASSUME NEW d \in Table, NEW P \in SUBSET Variants, NEW Q \in SUBSET P
    PROVE  TotalSize(d, Q) <= TotalSize(d, P)
<1>1. P \ Q \in SUBSET Variants /\ Q \in SUBSET Variants
  OBVIOUS
<1>2. TotalSize(d, Q) \in Nat /\ TotalSize(d, P \ Q) \in Nat
  BY <1>1, TotalSizeTyped
<1> QED BY <1>2, SumSplits

LEMMA OneSum ==
    ASSUME NEW d \in Table, NEW p \in Variants
    PROVE  TotalSize(d, {p}) = SizeOf(d, p)
<1>1. TotalSize(d, {p}) = SizeOf(d, p) + TotalSize(d, {p} \ {p})
  BY OneTaken
<1>2. {p} \ {p} = {}
  OBVIOUS
<1>3. TotalSize(d, {}) = 0 /\ SizeOf(d, p) \in Nat
  BY TotalSizeTyped, SizeTyped
<1>4. TotalSize(d, {p}) = SizeOf(d, p) + 0
  BY <1>1, <1>2, <1>3
<1> QED BY <1>3, <1>4

LEMMA RowsIn == \A d : Rows(d) \in SUBSET Variants
BY DEF Rows

\* What the table holds once the rows in P are deleted.
LEMMA SizeWithoutRows ==
    ASSUME NEW d \in Table, NEW P
    PROVE  /\ WithoutRows(d, P) \in Table
           /\ Rows(WithoutRows(d, P)) = Rows(d) \ P
           /\ TotalSize(d, P \cap Rows(d)) \in Nat
           /\ TableSize(WithoutRows(d, P)) = TableSize(d) - TotalSize(d, P \cap Rows(d))
           /\ TableSize(WithoutRows(d, P)) = TotalSize(d, Rows(d) \ P)
<1> DEFINE e == WithoutRows(d, P)
<1>1. e \in Table
  BY DEF WithoutRows, Table
<1>2. Rows(e) = Rows(d) \ P
  BY DEF WithoutRows, Rows
<1>3. \A p \in Rows(d) \ P : SizeOf(d, p) = SizeOf(e, p)
  BY RowsIn DEF WithoutRows, SizeOf
<1> HIDE DEF e
<1>4. Rows(d) \ P \in SUBSET Variants /\ P \cap Rows(d) \in SUBSET Rows(d)
      /\ P \cap Rows(d) \in SUBSET Variants
  BY RowsIn
<1>5. TotalSize(d, Rows(d) \ P) = TotalSize(e, Rows(d) \ P)
  BY <1>1, <1>3, <1>4, SameSizes
<1>6. Rows(d) \ (P \cap Rows(d)) = Rows(d) \ P
  OBVIOUS
<1>7. TotalSize(d, Rows(d)) = TotalSize(d, P \cap Rows(d)) + TotalSize(d, Rows(d) \ P)
  BY <1>4, <1>6, RowsIn, SumSplits
<1>8. TotalSize(d, P \cap Rows(d)) \in Nat /\ TotalSize(d, Rows(d) \ P) \in Nat
  BY <1>4, TotalSizeTyped
<1> QED BY <1>1, <1>2, <1>5, <1>7, <1>8 DEF TableSize, e

LEMMA NoRowIsNone == NoRow \notin Row
BY CacheIndexAssumption DEF NoRow, Row

\* What the table holds once a row is put in place of the old one, if any.
LEMMA SizeWithRow ==
    ASSUME NEW d \in Table, NEW p \in Variants, NEW x \in Row
    PROVE  /\ [d EXCEPT ![p] = x] \in Table
           /\ Rows([d EXCEPT ![p] = x]) = Rows(d) \cup {p}
           /\ TotalSize(d, {p} \cap Rows(d)) \in Nat
           /\ TotalSize(d, {p} \cap Rows(d)) = SizeOf(d, p)
           /\ TableSize([d EXCEPT ![p] = x])
                = (TableSize(d) - TotalSize(d, {p} \cap Rows(d))) + EstimatedSize(x)
<1> DEFINE e == [d EXCEPT ![p] = x]
<1>1. e \in Table
  BY DEF Table
<1>2. Rows(e) = Rows(d) \cup {p}
  BY NoRowIsNone DEF Rows, Table
<1>3. \A q \in Rows(d) \ {p} : SizeOf(d, q) = SizeOf(e, q)
  BY RowsIn DEF SizeOf, Table
<1>4. SizeOf(e, p) = EstimatedSize(x)
  BY DEF SizeOf, Table
<1> HIDE DEF e
<1>5. /\ Rows(d) \ {p} \in SUBSET Variants /\ Rows(e) \in SUBSET Variants /\ p \in Rows(e)
      /\ Rows(e) \ {p} = Rows(d) \ {p}
  BY <1>2, RowsIn
<1>6. TotalSize(e, Rows(e)) = EstimatedSize(x) + TotalSize(d, Rows(d) \ {p})
  BY <1>1, <1>3, <1>4, <1>5, OneTaken, SameSizes
<1>7. {p} \cap Rows(d) \in SUBSET Rows(d) /\ Rows(d) \ ({p} \cap Rows(d)) = Rows(d) \ {p}
      /\ {p} \cap Rows(d) \in SUBSET Variants
  BY RowsIn
<1>8. TotalSize(d, Rows(d)) = TotalSize(d, {p} \cap Rows(d)) + TotalSize(d, Rows(d) \ {p})
  BY <1>7, RowsIn, SumSplits
<1>9. TotalSize(d, {p} \cap Rows(d)) \in Nat /\ TotalSize(d, Rows(d) \ {p}) \in Nat
      /\ SizeOf(e, p) \in Nat
  BY <1>1, <1>5, <1>7, TotalSizeTyped, SizeTyped
<1>10. TotalSize(d, {p} \cap Rows(d)) = SizeOf(d, p)
  <2>1. CASE p \in Rows(d)
    <3>1. {p} \cap Rows(d) = {p}
      BY <2>1
    <3> QED BY <3>1, OneSum
  <2>2. CASE p \notin Rows(d)
    <3>1. {p} \cap Rows(d) = {} /\ d[p] = NoRow
      BY <2>2 DEF Rows
    <3> QED BY <3>1, TotalSizeTyped, SizeTyped
  <2> QED BY <2>1, <2>2
<1>11. TableSize(e) = (TableSize(d) - TotalSize(d, {p} \cap Rows(d))) + EstimatedSize(x)
  <2>1. EstimatedSize(x) \in Nat
    BY <1>4, <1>9
  <2>2. TableSize(e) = EstimatedSize(x) + TotalSize(d, Rows(d) \ {p})
    BY <1>6 DEF TableSize
  <2>3. TableSize(d) = TotalSize(d, {p} \cap Rows(d)) + TotalSize(d, Rows(d) \ {p})
    BY <1>8 DEF TableSize
  <2> QED BY <1>9, <2>1, <2>2, <2>3
<1> QED BY <1>1, <1>2, <1>9, <1>10, <1>11 DEF e

-----------------------------------------------------------------------------
(* The invariant, of an index as a value. *)

StoresOK(s) == s.db \in Table /\ s.mem \in Table /\ s.loaded \subseteq CacheKeys

\* MemoryAgrees.
Agrees(s) ==
    \A p \in Variants : s.mem[p] # NoRow => s.mem[p] = s.db[p] /\ p[1] \in s.loaded

\* TotalIsSum.
Counted(s) == s.total = TableSize(s.db)

Good(s) == StoresOK(s) /\ Agrees(s) /\ Counted(s)

IndexInv == Good(Index) /\ maximum \in Nat /\ now \in 0 .. MaxTime

\* The estimate does not saturate as long as the sizes fit.
LEMMA Adjusted ==
    ASSUME NEW t \in Nat, NEW delta \in Int, 0 <= t + delta, t + delta <= MaxTotal
    PROVE  AdjustTotal(t, delta) = t + delta
BY CacheIndexAssumption DEF AdjustTotal, Smaller

LEMMA SizesFit ==
    ASSUME NEW d \in Table
    PROVE  TableSize(d) \in Nat /\ TableSize(d) <= MaxTotal
BY TotalFits, RowsIn, TotalSizeTyped DEF TableSize

\* Deleting rows, as remove_entry and the two bulk removals do, keeps the
\* agreement: a list is dropped only if none of its rows is left.
LEMMA RemovedGood ==
    ASSUME NEW s, Good(s), NEW P
    PROVE  Good(Removed(s, P))
<1> DEFINE r == Removed(s, P)
           gone == TotalSize(s.db, P \cap Rows(s.db))
<1>1. /\ r.db = WithoutRows(s.db, P)
      /\ r.mem = WithoutRows(s.mem, P)
      /\ r.loaded = {k \in s.loaded : (\A p \in P : p[1] # k)
                                       \/ (\E p \in Rows(WithoutRows(s.mem, P)) : p[1] = k)}
      /\ r.total = AdjustTotal(s.total, 0 - gone)
  BY DEF Removed
<1>2. StoresOK(r)
  BY <1>1 DEF WithoutRows, Good, StoresOK, Table
<1>3. ASSUME NEW p \in Variants, r.mem[p] # NoRow
      PROVE  r.mem[p] = r.db[p] /\ p[1] \in r.loaded
  <2>1. p \notin P /\ r.mem[p] = s.mem[p] /\ r.db[p] = s.db[p]
    BY <1>1, <1>3 DEF WithoutRows
  <2>2. s.mem[p] = s.db[p] /\ p[1] \in s.loaded
    BY <1>3, <2>1 DEF Good, Agrees
  <2>3. p \in Rows(WithoutRows(s.mem, P))
    BY <1>1, <1>3 DEF Rows
  <2>4. p[1] \in r.loaded
    <3> HIDE DEF r
    <3> QED BY <1>1, <2>2, <2>3
  <2> QED BY <2>1, <2>2, <2>4
<1>4. Counted(r)
  <2>1. gone \in Nat /\ TableSize(r.db) = TableSize(s.db) - gone /\ r.db \in Table
    <3>1. s.db \in Table
      BY DEF Good, StoresOK
    <3>2. /\ gone \in Nat /\ WithoutRows(s.db, P) \in Table
          /\ TableSize(WithoutRows(s.db, P)) = TableSize(s.db) - gone
      BY <3>1, SizeWithoutRows
    <3> HIDE DEF r, gone
    <3> QED BY <1>1, <3>2
  <2>2. /\ TableSize(r.db) \in Nat /\ TableSize(s.db) \in Nat
        /\ TableSize(s.db) <= MaxTotal /\ s.total = TableSize(s.db)
    BY <2>1, SizesFit DEF Good, StoresOK, Counted
  <2> HIDE DEF r, gone
  <2>3. AdjustTotal(s.total, 0 - gone) = s.total + (0 - gone)
    BY <2>1, <2>2, Adjusted, CacheIndexAssumption
  <2> QED BY <1>1, <2>1, <2>2, <2>3 DEF Counted
<1> HIDE DEF r
<1>5. Good(r)
  BY <1>2, <1>3, <1>4 DEF Good, Agrees
<1> QED BY <1>5 DEF r

\* create_entry writes the same row to both, and subtracts the old row's size.
LEMMA CreatedGood ==
    ASSUME NEW s, Good(s), NEW p \in Variants, NEW x \in Row
    PROVE  Good(Created(s, p, x))
<1> DEFINE r == Created(s, p, x)
           old == TotalSize(s.db, {p} \cap Rows(s.db))
<1>1. /\ r.db = [s.db EXCEPT ![p] = x]
      /\ r.mem = [s.mem EXCEPT ![p] = x]
      /\ r.loaded = s.loaded \cup {p[1]}
      /\ r.total = AdjustTotal(AdjustTotal(s.total, 0 - old), EstimatedSize(x))
  BY DEF Created
<1>2. Counted(r)
  <2>1. /\ r.db \in Table
        /\ old \in Nat
        /\ TableSize(r.db) = (TableSize(s.db) - old) + EstimatedSize(x)
    BY <1>1, SizeWithRow DEF Good, StoresOK
  <2>2. TableSize(s.db) - old \in Nat
    <3>1. TableSize(WithoutRows(s.db, {p})) = TableSize(s.db) - old
          /\ WithoutRows(s.db, {p}) \in Table
      BY SizeWithoutRows DEF Good, StoresOK
    <3> QED BY <3>1, SizesFit
  <2>3. /\ TableSize(r.db) \in Nat /\ TableSize(r.db) <= MaxTotal
        /\ TableSize(s.db) \in Nat /\ TableSize(s.db) <= MaxTotal
        /\ s.total = TableSize(s.db)
    BY <2>1, SizesFit DEF Good, StoresOK, Counted
  <2>4. EstimatedSize(x) \in Nat
    BY CacheIndexAssumption DEF EstimatedSize, Row
  <2> HIDE DEF r, old
  <2>5. AdjustTotal(s.total, 0 - old) = TableSize(s.db) - old
    BY <2>1, <2>2, <2>3, Adjusted, CacheIndexAssumption
  <2>6. AdjustTotal(TableSize(s.db) - old, EstimatedSize(x)) = (TableSize(s.db) - old) + EstimatedSize(x)
    BY <2>1, <2>2, <2>3, <2>4, Adjusted, CacheIndexAssumption
  <2> QED BY <1>1, <2>1, <2>5, <2>6 DEF Counted
<1> HIDE DEF r
<1>3. StoresOK(r) /\ Agrees(r)
  BY <1>1 DEF Good, StoresOK, Agrees, Table, CacheKeys
<1>4. Good(r)
  BY <1>2, <1>3 DEF Good
<1> QED BY <1>4 DEF r

\* find_entry copies what the table holds for the key.
LEMMA LoadedGood ==
    ASSUME NEW s, Good(s), NEW k \in CacheKeys
    PROVE  Good(Loaded(s, k)) /\ Loaded(s, k).db = s.db
<1>1. CASE k \in s.loaded
  BY <1>1 DEF Loaded
<1>2. CASE k \notin s.loaded
  <2> DEFINE r == Loaded(s, k)
  <2>1. /\ r.db = s.db
        /\ r.mem = [p \in Variants |-> IF p[1] = k THEN s.db[p] ELSE s.mem[p]]
        /\ r.loaded = s.loaded \cup {k}
        /\ r.total = s.total
    BY <1>2 DEF Loaded
  <2> HIDE DEF r
  <2>2. StoresOK(r) /\ Agrees(r)
    BY <2>1 DEF Good, StoresOK, Agrees, Table
  <2>3. Counted(r)
    BY <2>1 DEF Good, Counted
  <2>4. Good(r) /\ r.db = s.db
    BY <2>1, <2>2, <2>3 DEF Good
  <2> QED BY <2>4 DEF r
<1> QED BY <1>1, <1>2

\* One size of a row is replaced: the old one subtracted, the new one added.
LEMMA SizeReplaced ==
    ASSUME NEW d \in Table, NEW p \in Variants, d[p] \in Row, NEW x \in Row,
           NEW old \in Nat, NEW new \in Nat, old <= EstimatedSize(d[p]),
           EstimatedSize(x) = (EstimatedSize(d[p]) - old) + new
    PROVE  TableSize([d EXCEPT ![p] = x]) = AdjustTotal(AdjustTotal(TableSize(d), 0 - old), new)
<1> DEFINE e == [d EXCEPT ![p] = x]
           was == TotalSize(d, {p} \cap Rows(d))
<1>1. /\ e \in Table /\ TableSize(e) = (TableSize(d) - was) + EstimatedSize(x)
      /\ was \in Nat /\ was = EstimatedSize(d[p])
  BY SizeWithRow DEF SizeOf
<1>2. TableSize(d) - was \in Nat
  <2>1. TableSize(WithoutRows(d, {p})) = TableSize(d) - was /\ WithoutRows(d, {p}) \in Table
    BY SizeWithoutRows
  <2> QED BY <2>1, SizesFit
<1>3. /\ TableSize(e) \in Nat /\ TableSize(e) <= MaxTotal
      /\ TableSize(d) \in Nat /\ TableSize(d) <= MaxTotal
  BY <1>1, SizesFit
<1> HIDE DEF e, was
<1>4. TableSize(d) - old \in Nat /\ TableSize(e) = (TableSize(d) - old) + new
  BY <1>1, <1>2, <1>3
<1>5. AdjustTotal(TableSize(d), 0 - old) = TableSize(d) - old
  BY <1>3, <1>4, Adjusted, CacheIndexAssumption
<1>6. AdjustTotal(TableSize(d) - old, new) = (TableSize(d) - old) + new
  BY <1>3, <1>4, Adjusted, CacheIndexAssumption
<1> QED BY <1>4, <1>5, <1>6 DEF e

\* update_associated_data_size sets the same field in both.
LEMMA EnlargedGood ==
    ASSUME NEW s, Good(s), NEW p \in Variants, s.mem[p] # NoRow, NEW extra \in ExtraSizes
    PROVE  /\ Good(Enlarged(s, p, extra))
           /\ Rows(Enlarged(s, p, extra).db) = Rows(s.db)
           /\ \A q \in Variants : Enlarged(s, p, extra).db[q].time = s.db[q].time
<1> DEFINE r == Enlarged(s, p, extra)
           x == [s.db[p] EXCEPT !.extra = extra]
<1>1. s.mem[p] = s.db[p] /\ s.db[p] \in Row /\ s.db \in Table
  BY DEF Good, StoresOK, Agrees, Table
<1>2. /\ r.db = [s.db EXCEPT ![p] = x]
      /\ r.mem = [s.mem EXCEPT ![p] = x]
      /\ r.loaded = s.loaded
      /\ r.total = AdjustTotal(AdjustTotal(s.total, 0 - s.db[p].extra), extra)
  BY <1>1 DEF Enlarged
<1>3. x \in Row /\ x.time = s.db[p].time
  BY <1>1 DEF Row
<1>4. Counted(r)
  <2>1. /\ s.db[p].extra \in Nat /\ extra \in Nat
        /\ s.db[p].extra <= EstimatedSize(s.db[p])
        /\ EstimatedSize(x) = (EstimatedSize(s.db[p]) - s.db[p].extra) + extra
    BY <1>1, CacheIndexAssumption DEF EstimatedSize, Row
  <2>2. s.total = TableSize(s.db)
    BY DEF Good, Counted
  <2> HIDE DEF r, x
  <2> QED BY <1>1, <1>2, <1>3, <2>1, <2>2, SizeReplaced DEF Counted
<1>5. Rows(r.db) = Rows(s.db)
  BY <1>1, <1>2, <1>3, NoRowIsNone DEF Rows, Table
<1>6. \A q \in Variants : r.db[q].time = s.db[q].time
  BY <1>1, <1>2, <1>3 DEF Table
<1> HIDE DEF r, x
<1>7. StoresOK(r) /\ Agrees(r)
  BY <1>1, <1>2, <1>3 DEF Good, StoresOK, Agrees, Table
<1>8. Good(r)
  BY <1>4, <1>7 DEF Good
<1> QED BY <1>5, <1>6, <1>8 DEF r

LEMMA TrimmedGood ==
    ASSUME NEW s, Good(s)
    PROVE  Good(Trimmed(s))
BY RemovedGood DEF Trimmed

\* An operation that replaces the index by a good one keeps the invariant.
LEMMA BecomeGood ==
    ASSUME NEW s, Good(s), Become(s)
    PROVE  Good(Index')
<1> USE DEF Become, Index
<1>1. StoresOK(Index') /\ Agrees(Index')
  BY DEF Good, StoresOK, Agrees
<1>2. Counted(Index')
  BY DEF Good, Counted
<1> QED BY <1>1, <1>2 DEF Good

LEMMA NewRowTyped ==
    ASSUME now \in 0 .. MaxTime, NEW body \in BodySizes \cup {0}, NEW head \in HeaderSizes \cup {0}
    PROVE  NewRow(body, head) \in Row
BY DEF NewRow, Row

LEMMA InitIndex == Init => IndexInv
<1> SUFFICES ASSUME Init PROVE IndexInv
  OBVIOUS
<1>1. db \in Table /\ mem \in Table /\ loaded = {} /\ total = 0 /\ now = 0
  BY DEF Init, Table
<1>2. maximum \in Nat /\ now \in 0 .. MaxTime
  BY <1>1, CacheIndexAssumption DEF Init, ComputeMaximumDiskCacheSize, Smaller
<1>3. TableSize(db) = 0
  <2>1. Rows(db) = {}
    BY DEF Init, Rows
  <2> QED BY <1>1, <2>1, TotalSizeTyped DEF TableSize
<1>4. StoresOK(Index) /\ Agrees(Index)
  BY <1>1 DEF Init, StoresOK, Agrees, Index
<1>5. Counted(Index)
  BY <1>1, <1>3 DEF Counted, Index
<1> QED BY <1>2, <1>4, <1>5 DEF IndexInv, Good

LEMMA IndexStep == IndexInv /\ [Next]_vars => IndexInv'
<1> SUFFICES ASSUME IndexInv, [Next]_vars PROVE IndexInv'
  OBVIOUS
<1>0. Good(Index) /\ maximum \in Nat /\ now \in 0 .. MaxTime
  BY DEF IndexInv
<1>a. /\ db \in Table /\ mem \in Table /\ loaded \subseteq CacheKeys
      /\ total = TableSize(db)
  BY <1>0 DEF Good, StoresOK, Counted, Index
<1>b. ASSUME NEW limit \in Nat PROVE ComputeMaximumDiskCacheSize(limit) \in Nat
  BY CacheIndexAssumption DEF ComputeMaximumDiskCacheSize, Smaller
<1>c. ASSUME NEW p \in Variants, mem[p] # NoRow
      PROVE  mem[p] = db[p] /\ db[p] \in Row /\ p[1] \in loaded
  BY <1>0, <1>c, <1>a DEF Good, Agrees, Index, Table
<1>1. ASSUME NEW p \in Variants, NEW body \in BodySizes, NEW head \in HeaderSizes, Flush(p, body, head)
      PROVE  IndexInv'
  <2>1. NewRow(body, head) \in Row
    BY <1>0, NewRowTyped
  <2>2. Good(Removed(Index, {p})) /\ Good(Trimmed(Created(Index, p, NewRow(body, head))))
    BY <1>0, <2>1, RemovedGood, CreatedGood, TrimmedGood
  <2> QED BY <1>0, <1>1, <2>2, BecomeGood DEF Flush, IndexInv
<1>2. ASSUME NEW p \in Variants, CreateSyntheticEntry(p) PROVE IndexInv'
  <2>1. NewRow(0, 0) \in Row
    BY <1>0, NewRowTyped
  <2> QED BY <1>0, <1>2, <2>1, CreatedGood, BecomeGood DEF CreateSyntheticEntry, IndexInv
<1>3. ASSUME NEW p \in Variants, RemoveEntry(p) PROVE IndexInv'
  BY <1>0, <1>3, RemovedGood, BecomeGood DEF RemoveEntry, IndexInv
<1>4. ASSUME NEW p \in Variants, NEW head \in HeaderSizes, RevalidationSucceeded(p, head) PROVE IndexInv'
  <2> DEFINE x == [db[p] EXCEPT !.head = head]
  <2>1. mem[p] = db[p] /\ db[p] \in Row /\ mem[p] # NoRow /\ p[1] \in loaded
    BY <1>4, <1>c DEF RevalidationSucceeded
  <2>2. x \in Row
    BY <2>1 DEF Row
  <2>3. /\ db' = [db EXCEPT ![p] = x]
        /\ mem' = [mem EXCEPT ![p] = x]
        /\ total' = AdjustTotal(AdjustTotal(total, 0 - db[p].head), head)
        /\ loaded' = loaded /\ now' = now /\ maximum' = maximum
    BY <1>4, <2>1 DEF RevalidationSucceeded
  <2>4. /\ db[p].head \in Nat /\ head \in Nat /\ db[p].head <= EstimatedSize(db[p])
        /\ EstimatedSize(x) = (EstimatedSize(db[p]) - db[p].head) + head
    BY <2>1, CacheIndexAssumption DEF EstimatedSize, Row
  <2> HIDE DEF x
  <2>5. Counted(Index')
    BY <1>a, <2>1, <2>2, <2>3, <2>4, SizeReplaced DEF Counted, Index
  <2>6. StoresOK(Index') /\ Agrees(Index')
    BY <1>0, <1>a, <2>1, <2>2, <2>3 DEF StoresOK, Agrees, Index, Good, Table
  <2> QED BY <1>0, <2>3, <2>5, <2>6 DEF IndexInv, Good
<1>5. ASSUME NEW p \in Variants, NEW extra \in ExtraSizes, NEW lookup \in BOOLEAN,
             StoreAssociatedData(p, extra, lookup)
      PROVE  IndexInv'
  <2> DEFINE s == IF lookup THEN Loaded(Index, p[1]) ELSE Index
  <2>1. Good(s)
    <3>1. p[1] \in CacheKeys
      BY DEF CacheKeys
    <3> QED BY <1>0, <3>1, LoadedGood
  <2>2. s.mem[p] # NoRow /\ Become(Trimmed(Enlarged(s, p, extra))) /\ now' = now /\ maximum' = maximum
    BY <1>5 DEF StoreAssociatedData
  <2> HIDE DEF s
  <2>3. Good(Trimmed(Enlarged(s, p, extra)))
    BY <2>1, <2>2, EnlargedGood, TrimmedGood
  <2> QED BY <1>0, <2>2, <2>3, BecomeGood DEF IndexInv
<1>6. ASSUME NEW p \in Variants, UpdateLastAccessTime(p) PROVE IndexInv'
  <2> DEFINE x == [db[p] EXCEPT !.time = now]
  <2>1. mem[p] = db[p] /\ db[p] \in Row /\ mem[p] # NoRow /\ p[1] \in loaded
    BY <1>6, <1>c DEF UpdateLastAccessTime
  <2>2. x \in Row
    BY <1>0, <2>1 DEF Row
  <2>3. /\ db' = [db EXCEPT ![p] = x]
        /\ mem' = [mem EXCEPT ![p] = x]
        /\ total' = total /\ loaded' = loaded /\ now' = now /\ maximum' = maximum
    BY <1>6, <2>1 DEF UpdateLastAccessTime
  <2>4. TableSize(db') = TableSize(db)
    <3>1. EstimatedSize(x) = EstimatedSize(db[p])
      BY <2>1 DEF EstimatedSize, Row
    <3>2. TableSize([db EXCEPT ![p] = x])
            = (TableSize(db) - TotalSize(db, {p} \cap Rows(db))) + EstimatedSize(x)
          /\ TotalSize(db, {p} \cap Rows(db)) = SizeOf(db, p)
          /\ TotalSize(db, {p} \cap Rows(db)) \in Nat
      BY <1>a, <2>2, SizeWithRow
    <3>3. SizeOf(db, p) = EstimatedSize(x)
      BY <3>1 DEF SizeOf
    <3>4. TableSize(db) \in Nat
      BY <1>a, SizesFit
    <3> HIDE DEF x
    <3> QED BY <2>3, <3>2, <3>3, <3>4
  <2> HIDE DEF x
  <2>5. Counted(Index')
    BY <1>a, <2>3, <2>4 DEF Counted, Index
  <2>6. StoresOK(Index') /\ Agrees(Index')
    BY <1>0, <1>a, <2>1, <2>2, <2>3 DEF StoresOK, Agrees, Index, Good, Table
  <2> QED BY <1>0, <2>3, <2>5, <2>6 DEF IndexInv, Good
<1>7. ASSUME NEW k \in CacheKeys, FindEntry(k) PROVE IndexInv'
  BY <1>0, <1>7, LoadedGood, BecomeGood DEF FindEntry, IndexInv
<1>8. ASSUME NEW since, RemoveEntriesAccessedSince(since) PROVE IndexInv'
  BY <1>0, <1>8, RemovedGood, BecomeGood DEF RemoveEntriesAccessedSince, IndexInv
<1>9. ASSUME NEW limit \in Limits, SetMaximumDiskCacheSize(limit) PROVE IndexInv'
  <2>1. maximum' \in Nat /\ now' = now
    BY <1>9, <1>b, CacheIndexAssumption DEF SetMaximumDiskCacheSize
  <2>2. Index' = Index
    BY <1>9 DEF SetMaximumDiskCacheSize, indexVars, Index
  <2> QED BY <1>0, <2>1, <2>2 DEF IndexInv
<1>10. ASSUME NEW lost, Restart(lost) PROVE IndexInv'
  <2>1. /\ db' \in Table /\ mem' = [p \in Variants |-> NoRow] /\ loaded' = {}
        /\ total' = TableSize(db') /\ now' = now
    BY <1>10, <1>a DEF Restart, WithoutRows, Table
  <2>2. maximum' \in Nat
    BY <1>10, <1>b, CacheIndexAssumption DEF Restart
  <2>3. StoresOK(Index') /\ Agrees(Index')
    BY <2>1 DEF StoresOK, Agrees, Index, Table
  <2>4. Counted(Index')
    BY <2>1 DEF Counted, Index
  <2> QED BY <1>0, <2>1, <2>2, <2>3, <2>4 DEF IndexInv, Good
<1>11. CASE Tick
  <2>1. Index' = Index /\ maximum' = maximum /\ now' \in 0 .. MaxTime
    BY <1>0, <1>11, CacheIndexAssumption DEF Tick, indexVars, Index
  <2> QED BY <1>0, <2>1 DEF IndexInv
<1>12. CASE UNCHANGED vars
  <2>1. Index' = Index /\ maximum' = maximum /\ now' = now
    BY <1>12 DEF vars, Index
  <2> QED BY <1>0, <2>1 DEF IndexInv
<1> QED
  BY <1>1, <1>2, <1>3, <1>4, <1>5, <1>6, <1>7, <1>8, <1>9, <1>10, <1>11, <1>12 DEF Next

LEMMA IndexInvariant == Spec => []IndexInv
BY InitIndex, IndexStep, PTL DEF Spec

\* Every variable of the index stays in its type, the estimate in 64 bits.
THEOREM IndexTypeCorrect == Spec => []TypeOK
<1>1. ASSUME IndexInv PROVE TypeOK
  <2>1. db \in Table /\ mem \in Table /\ loaded \subseteq CacheKeys /\ total = TableSize(db)
    BY <1>1 DEF IndexInv, Good, StoresOK, Counted, Index
  <2>2. total \in 0 .. MaxTotal
    BY <2>1, SizesFit, CacheIndexAssumption
  <2> QED BY <1>1, <2>1, <2>2 DEF TypeOK, IndexInv
<1> QED BY <1>1, IndexInvariant, PTL

\* A row in memory is the row in the table, and its key has a list: the sizes
\* update_response_headers and update_associated_data_size subtract are those
\* the table would return.
THEOREM MemoryMatchesTable == Spec => []MemoryAgrees
<1>1. IndexInv => MemoryAgrees
  BY DEF IndexInv, Good, Agrees, Index, MemoryAgrees
<1> QED BY <1>1, IndexInvariant, PTL

\* The estimate that decides what is evicted is the size of the table after any
\* sequence of operations: the deltas create_entry, remove_entry, the bulk
\* removals and the two size updates apply never drift from the rows.
THEOREM EstimateIsExact == Spec => []TotalIsSum
<1>1. IndexInv => TotalIsSum
  BY DEF IndexInv, Good, Counted, Index, TotalIsSum
<1> QED BY <1>1, IndexInvariant, PTL

-----------------------------------------------------------------------------
(* What eviction takes and what it leaves. *)

\* The rows accessed no earlier than row p: what the window function sums up to p.
NotOlder(d, p) == {q \in Rows(d) : d[q].time >= d[p].time}

LEMMA RowTimes ==
    ASSUME NEW d \in Table
    PROVE  \A p \in Rows(d) : p \in Variants /\ d[p] \in Row /\ d[p].time \in Nat
BY CacheIndexAssumption DEF Rows, Table, Row

LEMMA ExceedingIs ==
    ASSUME NEW s
    PROVE  Exceeding(s) = {p \in Rows(s.db) : TotalSize(s.db, NotOlder(s.db, p)) > maximum}
BY DEF Exceeding, NotOlder

\* The rows that stay, among which one is the least recent.
LEMMA OldestRow ==
    ASSUME NEW d \in Table, NEW K \in SUBSET Rows(d), K # {}
    PROVE  \E q \in K : \A r \in K : d[r].time >= d[q].time
<1> DEFINE Older(q) == {r \in K : d[r].time <= d[q].time}
           All == {Older(q) : q \in K}
<1>1. All \subseteq SUBSET Variants /\ IsFiniteSet(Variants) /\ All # {}
  <2>1. K \subseteq Variants
    BY RowsIn
  <2>2. \A q \in K : Older(q) \in SUBSET Variants
    BY <2>1
  <2>3. PICK q \in K : TRUE
    OBVIOUS
  <2>4. Older(q) \in All
    OBVIOUS
  <2> HIDE DEF Older
  <2> QED BY <2>2, <2>4, CacheIndexAssumption
<1>2. PICK m \in All : \A y \in SUBSET m : y # m => y \notin All
  <2> HIDE DEF All
  <2> QED BY <1>1, SmallestSubset
<1>3. PICK q \in K : m = Older(q)
  BY <1>2
<1>4. ASSUME NEW r \in K, ~(d[r].time >= d[q].time) PROVE FALSE
  <2>1. d[r].time \in Nat /\ d[q].time \in Nat
    BY RowTimes
  <2>2. \A x \in K : d[x].time \in Nat
    BY RowTimes
  <2>3. Older(r) \subseteq m /\ q \notin Older(r) /\ q \in m
    BY <1>3, <1>4, <2>1, <2>2
  <2>4. Older(r) \in All
    OBVIOUS
  <2> HIDE DEF All, Older
  <2> QED BY <1>2, <2>3, <2>4
<1> QED BY <1>4

\* remove_entries_exceeding_cache_limit leaves a table within the limit.
LEMMA TrimmedFits ==
    ASSUME NEW s, Good(s), maximum \in Nat
    PROVE  TableSize(Trimmed(s).db) <= maximum
<1>0. s.db \in Table /\ s.total = TableSize(s.db)
  BY DEF Good, StoresOK, Counted
<1>1. CASE s.total <= maximum
  BY <1>0, <1>1 DEF Trimmed
<1>2. CASE ~(s.total <= maximum)
  <2> DEFINE K == Rows(s.db) \ Exceeding(s)
  <2>1. TableSize(Trimmed(s).db) = TotalSize(s.db, K)
    BY <1>0, <1>2, SizeWithoutRows DEF Trimmed, Removed
  <2>2. CASE K = {}
    <3>1. TotalSize(s.db, {}) = 0
      BY <1>0, TotalSizeTyped
    <3> HIDE DEF K
    <3>2. TableSize(Trimmed(s).db) = 0
      BY <2>1, <2>2, <3>1
    <3> QED BY <3>2
  <2>3. CASE K # {}
    <3>1. PICK q \in K : \A r \in K : s.db[r].time >= s.db[q].time
      <4>1. K \in SUBSET Rows(s.db)
        OBVIOUS
      <4> HIDE DEF K
      <4> QED BY <1>0, <2>3, <4>1, OldestRow
    <3>2. K \in SUBSET NotOlder(s.db, q) /\ NotOlder(s.db, q) \in SUBSET Variants
      BY <3>1, RowsIn DEF NotOlder
    <3>3. ~(TotalSize(s.db, NotOlder(s.db, q)) > maximum)
      BY <3>1, ExceedingIs
    <3> HIDE DEF K
    <3>4. /\ TotalSize(s.db, K) <= TotalSize(s.db, NotOlder(s.db, q))
          /\ TotalSize(s.db, K) \in Nat
          /\ TotalSize(s.db, NotOlder(s.db, q)) \in Nat
      BY <1>0, <3>2, SumGrows, TotalSizeTyped
    <3> QED BY <2>1, <3>3, <3>4
  <2> QED BY <2>2, <2>3
<1> QED BY <1>1, <1>2

\* Each row that stays was accessed after each row that goes.
LEMMA TrimmedKeepsRecent ==
    ASSUME NEW s, Good(s), maximum \in Nat
    PROVE  /\ \A q \in Rows(Trimmed(s).db) : q \in Rows(s.db) /\ Trimmed(s).db[q] = s.db[q]
           /\ \A e \in Rows(s.db) \ Rows(Trimmed(s).db), q \in Rows(Trimmed(s).db) :
                 ~(s.db[q].time <= s.db[e].time)
<1>0. s.db \in Table
  BY DEF Good, StoresOK
<1>1. CASE s.total <= maximum
  BY <1>1 DEF Trimmed
<1>2. CASE ~(s.total <= maximum)
  <2>1. /\ Trimmed(s).db = WithoutRows(s.db, Exceeding(s))
        /\ Rows(Trimmed(s).db) = Rows(s.db) \ Exceeding(s)
    BY <1>0, <1>2, SizeWithoutRows DEF Trimmed, Removed
  <2>2. \A q \in Rows(Trimmed(s).db) : q \in Rows(s.db) /\ Trimmed(s).db[q] = s.db[q]
    BY <2>1, RowsIn DEF WithoutRows
  <2>3. ASSUME NEW e \in Rows(s.db) \ Rows(Trimmed(s).db), NEW q \in Rows(Trimmed(s).db),
               s.db[q].time <= s.db[e].time
        PROVE  FALSE
    <3>1. /\ e \in Rows(s.db) /\ q \in Rows(s.db)
          /\ TotalSize(s.db, NotOlder(s.db, e)) > maximum
          /\ ~(TotalSize(s.db, NotOlder(s.db, q)) > maximum)
      BY <2>1, ExceedingIs
    <3>2. \A r \in Rows(s.db) : s.db[r].time \in Nat
      BY <1>0, RowTimes
    <3>3. NotOlder(s.db, e) \in SUBSET NotOlder(s.db, q)
      BY <2>3, <3>1, <3>2 DEF NotOlder
    <3>4. NotOlder(s.db, q) \in SUBSET Variants /\ NotOlder(s.db, e) \in SUBSET Variants
      BY RowsIn DEF NotOlder
    <3>5. /\ TotalSize(s.db, NotOlder(s.db, e)) <= TotalSize(s.db, NotOlder(s.db, q))
          /\ TotalSize(s.db, NotOlder(s.db, e)) \in Nat
          /\ TotalSize(s.db, NotOlder(s.db, q)) \in Nat
      BY <1>0, <3>3, <3>4, SumGrows, TotalSizeTyped
    <3> QED BY <3>1, <3>5
  <2> QED BY <2>2, <2>3
<1> QED BY <1>1, <1>2

\* Both operations that store end in a trim, of an index that differs from the
\* one before in the row they store.
LEMMA StoresTrim ==
    ASSUME IndexInv, NEW p \in Variants, Stores(p)
    PROVE  \E s : /\ Good(s) /\ Become(Trimmed(s)) /\ maximum' = maximum
                  /\ \A e \in Rows(db) \ {p} : e \in Rows(s.db) /\ s.db[e].time = db[e].time
<1>0. Good(Index) /\ db \in Table /\ now \in 0 .. MaxTime
  BY DEF IndexInv, Good, StoresOK, Index
<1>1. ASSUME NEW body \in BodySizes, NEW head \in HeaderSizes,
             ~TooLarge(NewRow(body, head)), Flush(p, body, head)
      PROVE  \E s : /\ Good(s) /\ Become(Trimmed(s)) /\ maximum' = maximum
                    /\ \A e \in Rows(db) \ {p} : e \in Rows(s.db) /\ s.db[e].time = db[e].time
  <2> DEFINE x == NewRow(body, head)
             s == Created(Index, p, x)
  <2>1. x \in Row
    BY <1>0, NewRowTyped
  <2>2. Become(Trimmed(s)) /\ maximum' = maximum
    BY <1>1 DEF Flush
  <2>3. s.db = [db EXCEPT ![p] = x]
    BY DEF Created, Index
  <2>4. \A e \in Rows(db) \ {p} : e \in Rows(s.db) /\ s.db[e].time = db[e].time
    BY <1>0, <2>3, RowsIn DEF Rows, Table
  <2>5. Good(s)
    BY <1>0, <2>1, CreatedGood
  <2> HIDE DEF s
  <2> QED BY <2>2, <2>4, <2>5
<1>2. ASSUME NEW extra \in ExtraSizes, NEW lookup \in BOOLEAN, StoreAssociatedData(p, extra, lookup)
      PROVE  \E s : /\ Good(s) /\ Become(Trimmed(s)) /\ maximum' = maximum
                    /\ \A e \in Rows(db) \ {p} : e \in Rows(s.db) /\ s.db[e].time = db[e].time
  <2> DEFINE l == IF lookup THEN Loaded(Index, p[1]) ELSE Index
             s == Enlarged(l, p, extra)
  <2>1. Good(l) /\ l.db = db
    <3>1. p[1] \in CacheKeys
      BY DEF CacheKeys
    <3> QED BY <1>0, <3>1, LoadedGood DEF Index
  <2>2. l.mem[p] # NoRow /\ Become(Trimmed(s)) /\ maximum' = maximum
    BY <1>2 DEF StoreAssociatedData
  <2> HIDE DEF l
  <2>3. Good(s) /\ Rows(s.db) = Rows(db) /\ \A q \in Variants : s.db[q].time = db[q].time
    BY <2>1, <2>2, EnlargedGood
  <2> HIDE DEF s
  <2>4. \A e \in Rows(db) \ {p} : e \in Rows(s.db) /\ s.db[e].time = db[e].time
    BY <2>3, RowsIn
  <2> QED BY <2>2, <2>3, <2>4
<1> QED BY <1>1, <1>2 DEF Stores

\* Whoever stores a body or associated data leaves the cache within its limit,
\* whatever the limit and the sizes were before.
THEOREM StoringRestoresLimit == Spec => LimitRestored
<1>1. IndexInv /\ [Next]_vars =>
        (TableSize(db') > maximum => \A p \in Variants : ~Stores(p))
  <2> SUFFICES ASSUME IndexInv, [Next]_vars, NEW p \in Variants, Stores(p) PROVE ~(TableSize(db') > maximum)
    OBVIOUS
  <2>1. PICK s : Good(s) /\ Become(Trimmed(s))
    BY StoresTrim
  <2>2. Good(Trimmed(s)) /\ db' = Trimmed(s).db /\ maximum \in Nat
    BY <2>1, TrimmedGood DEF Become, IndexInv
  <2>3. TableSize(db') <= maximum
    BY <2>1, <2>2, TrimmedFits
  <2>4. TableSize(db') \in Nat
    BY <2>2, SizesFit DEF Good, StoresOK
  <2> QED BY <2>2, <2>3, <2>4
<1> QED BY <1>1, IndexInvariant, PTL DEF Spec, LimitRestored

\* Eviction takes the least recently used rows: each row that stays was
\* accessed after every row that an operation on another variant pushed out.
THEOREM EvictionIsLeastRecentFirst == Spec => EvictsLeastRecent
<1>1. IndexInv /\ [Next]_vars =>
             \A e \in Rows(db) \ Rows(db'), q \in Rows(db') :
                db'[q].time <= db[e].time => \A p \in Variants \ {e} : ~Stores(p)
  <2> SUFFICES ASSUME IndexInv, [Next]_vars,
                      NEW e \in Rows(db) \ Rows(db'), NEW q \in Rows(db'),
                      db'[q].time <= db[e].time, NEW p \in Variants \ {e}, Stores(p)
               PROVE  FALSE
    OBVIOUS
  <2>1. PICK s : /\ Good(s) /\ Become(Trimmed(s))
                 /\ \A r \in Rows(db) \ {p} : r \in Rows(s.db) /\ s.db[r].time = db[r].time
    BY StoresTrim
  <2>2. maximum \in Nat /\ db' = Trimmed(s).db
    BY <2>1 DEF Become, IndexInv
  <2>3. e \in Rows(s.db) /\ s.db[e].time = db[e].time
    BY <2>1
  <2>4. q \in Rows(Trimmed(s).db) /\ e \notin Rows(Trimmed(s).db)
    BY <2>2
  <2>5. s.db[q] = db'[q] /\ ~(s.db[q].time <= s.db[e].time)
    BY <2>1, <2>2, <2>3, <2>4, TrimmedKeepsRecent
  <2> QED BY <2>3, <2>5
<1> QED BY <1>1, IndexInvariant, PTL DEF Spec, EvictsLeastRecent

LEMMA EntryBelowMaximum ==
    ASSUME maximum \in Nat, NEW x \in Row, ~TooLarge(x)
    PROVE  EstimatedSize(x) <= maximum
<1>1. maximum \div EntryFraction \in Nat /\ maximum \div EntryFraction <= maximum
  BY CacheIndexAssumption
<1>2. EstimatedSize(x) \in Nat
  BY CacheIndexAssumption DEF EstimatedSize, Row
<1>3. ComputeMaximumDiskCacheEntrySize(maximum) \in Nat
      /\ ComputeMaximumDiskCacheEntrySize(maximum) <= maximum \div EntryFraction
  BY <1>1, CacheIndexAssumption DEF ComputeMaximumDiskCacheEntrySize, Smaller
<1> QED BY <1>1, <1>2, <1>3 DEF TooLarge

\* A flush does not evict the entry it stores if all others were accessed
\* before: create_entry refuses an entry that alone would exceed the limit.
THEOREM FlushKeepsItsEntry == Spec => FlushedSurvives
<1>1. IndexInv /\ [Next]_vars =>
             \A p \in Variants \ Rows(db') :
                (\A q \in Rows(db) \ {p} : db[q].time < now)
                => ~\E body \in BodySizes, head \in HeaderSizes :
                        ~TooLarge(NewRow(body, head)) /\ Flush(p, body, head)
  <2> SUFFICES ASSUME IndexInv, [Next]_vars,
                      NEW p \in Variants \ Rows(db'), \A q \in Rows(db) \ {p} : db[q].time < now,
                      NEW body \in BodySizes, NEW head \in HeaderSizes,
                      ~TooLarge(NewRow(body, head)), Flush(p, body, head)
               PROVE  FALSE
    OBVIOUS
  <2> DEFINE x == NewRow(body, head)
             s == Created(Index, p, x)
  <2>0. Good(Index) /\ db \in Table /\ now \in 0 .. MaxTime /\ maximum \in Nat
    BY DEF IndexInv, Good, StoresOK, Index
  <2>1. x \in Row /\ x.time = now
    BY <2>0, NewRowTyped DEF NewRow
  <2>2. Good(s) /\ db' = Trimmed(s).db
    <3>1. Good(s)
      BY <2>0, <2>1, CreatedGood
    <3> QED BY <3>1 DEF Flush, Become
  <2>3. s.db = [db EXCEPT ![p] = x] /\ s.db \in Table /\ Rows(s.db) = Rows(db) \cup {p}
    BY <2>0, <2>1, SizeWithRow DEF Created, Index
  <2>4. p \in Rows(s.db) /\ s.db[p] = x
    BY <2>0, <2>3 DEF Table
  <2>5. p \in Exceeding(s)
    <3> HIDE DEF s
    <3>1. CASE s.total <= maximum
      BY <2>2, <2>4, <3>1 DEF Trimmed
    <3>2. CASE ~(s.total <= maximum)
      <4>1. Rows(Trimmed(s).db) = Rows(s.db) \ Exceeding(s)
        BY <2>3, <3>2, SizeWithoutRows DEF Trimmed, Removed
      <4> QED BY <2>2, <2>4, <4>1
    <3> QED BY <3>1, <3>2
  <2>6. NotOlder(s.db, p) = {p}
    <3>1. ASSUME NEW q \in Rows(s.db), q # p, s.db[q].time >= s.db[p].time PROVE FALSE
      <4>1. q \in Rows(db) \ {p} /\ s.db[q] = db[q] /\ db[q].time \in Nat
        BY <2>0, <2>3, <3>1, RowTimes DEF Table
      <4>2. db[q].time < now
        BY <4>1
      <4> HIDE DEF s, x
      <4> QED BY <2>0, <2>1, <2>4, <3>1, <4>1, <4>2, CacheIndexAssumption
    <3>2. s.db[p].time >= s.db[p].time
      BY <2>0, <2>1, <2>4, CacheIndexAssumption
    <3> HIDE DEF s, x
    <3> QED BY <2>4, <3>1, <3>2 DEF NotOlder
  <2>7. TotalSize(s.db, {p}) = EstimatedSize(x)
    <3> HIDE DEF s, x
    <3> QED BY <2>3, <2>4, OneSum DEF SizeOf
  <2>8. EstimatedSize(x) <= maximum /\ EstimatedSize(x) \in Nat
    <3> HIDE DEF s
    <3>1. EstimatedSize(x) <= maximum
      BY <2>0, <2>1, EntryBelowMaximum
    <3>2. EstimatedSize(x) \in Nat
      BY <2>1, CacheIndexAssumption DEF EstimatedSize, Row
    <3> QED BY <3>1, <3>2
  <2>9. TotalSize(s.db, NotOlder(s.db, p)) > maximum
    <3> HIDE DEF s
    <3> QED BY <2>5, ExceedingIs
  <2> HIDE DEF s, x
  <2> QED BY <2>0, <2>6, <2>7, <2>8, <2>9
<1> QED BY <1>1, IndexInvariant, PTL DEF Spec, FlushedSurvives
=============================================================================
