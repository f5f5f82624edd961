--------------------------- MODULE ReadPlanProofs ---------------------------
(***************************************************************************)
(* What an epoch draws and what it reads, for every dataset: an order of   *)
(* the rows is laid in blocks that leave no gap, share no chunk and still  *)
(* do when the edges are dropped, the driver reads what the anchors of a   *)
(* chunk need, and the release schedule hands every key back once.         *)
(*                                                                         *)
(* Induction is by the smallest counterexample: a set of naturals that is  *)
(* not empty has a smallest member, which SmallestOf derives from the      *)
(* well-foundedness of inclusion on finite sets.                           *)
(***************************************************************************)
EXTENDS ReadPlan, FiniteSetTheorems, WellFoundedInduction, TLAPS

-----------------------------------------------------------------------------
(* Sums.  SumOn(f, S) is the size of the set Numbered(f, S).               *)

Counts(f, S) == IsFiniteSet(S) /\ \A x \in S : f[x] \in Nat

LEMMA NumberedOfOne ==
  ASSUME NEW f, NEW x, f[x] \in Nat
  PROVE  /\ IsFiniteSet({x} \X (1 .. f[x])) /\ Cardinality({x} \X (1 .. f[x])) = f[x]
<1>1. IsFiniteSet({x}) /\ Cardinality({x}) = 1
  BY FS_Singleton
<1>2. IsFiniteSet(1 .. f[x]) /\ Cardinality(1 .. f[x]) = f[x]
  BY FS_Interval
<1>3. /\ IsFiniteSet({x} \X (1 .. f[x]))
      /\ Cardinality({x} \X (1 .. f[x])) = Cardinality({x}) * Cardinality(1 .. f[x])
  BY <1>1, <1>2, FS_Product
<1> QED
  BY <1>1, <1>2, <1>3

LEMMA NumberedIsFinite ==
  ASSUME NEW f, NEW S, Counts(f, S)
  PROVE  IsFiniteSet(Numbered(f, S)) /\ SumOn(f, S) \in Nat
<1> DEFINE Rows == {{x} \X (1 .. f[x]) : x \in S}
           row == [x \in S |-> {x} \X (1 .. f[x])]
<1>1. row \in Surjection(S, Rows)
  BY DEF Surjection
<1>2. IsFiniteSet(Rows)
  BY <1>1, FS_Surjection DEF Counts
<1>3. \A T \in Rows : IsFiniteSet(T)
  BY NumberedOfOne DEF Counts
<1>4. IsFiniteSet(UNION Rows)
  BY <1>2, <1>3, FS_UNION
<1> QED
  BY <1>4, FS_CardinalityType DEF Numbered, SumOn

LEMMA SumOfNone ==
  ASSUME NEW f
  PROVE  SumOn(f, {}) = 0
<1>1. Numbered(f, {}) = {}
  BY DEF Numbered
<1> QED
  BY <1>1, FS_EmptySet DEF SumOn

(* A sum over two disjoint sets.                                           *)
LEMMA SumOverBoth ==
  ASSUME NEW f, NEW S, NEW T, Counts(f, S), Counts(f, T), S \cap T = {}
  PROVE  SumOn(f, S \cup T) = SumOn(f, S) + SumOn(f, T)
<1>1. Numbered(f, S \cup T) = Numbered(f, S) \cup Numbered(f, T)
  BY DEF Numbered
<1>2. Numbered(f, S) \cap Numbered(f, T) = {}
  BY DEF Numbered
<1>3. IsFiniteSet(Numbered(f, S)) /\ IsFiniteSet(Numbered(f, T))
  BY NumberedIsFinite
<1>4. Cardinality(Numbered(f, S)) \in Nat /\ Cardinality(Numbered(f, T)) \in Nat
  BY <1>3, FS_CardinalityType
<1>5. Cardinality(Numbered(f, S) \cup Numbered(f, T)) =
        Cardinality(Numbered(f, S)) + Cardinality(Numbered(f, T))
        - Cardinality(Numbered(f, S) \cap Numbered(f, T))
  BY <1>3, FS_Union
<1>6. Cardinality(Numbered(f, S) \cap Numbered(f, T)) = 0
  BY <1>2, FS_EmptySet
<1>7. Cardinality(Numbered(f, S) \cup Numbered(f, T)) =
        Cardinality(Numbered(f, S)) + Cardinality(Numbered(f, T))
  BY <1>4, <1>5, <1>6
<1> QED
  BY <1>1, <1>7 DEF SumOn

LEMMA SumOfOne ==
  ASSUME NEW f, NEW x, f[x] \in Nat
  PROVE  Counts(f, {x}) /\ SumOn(f, {x}) = f[x]
<1>1. Numbered(f, {x}) = {x} \X (1 .. f[x])
  BY DEF Numbered
<1> QED
  BY <1>1, NumberedOfOne, FS_Singleton DEF SumOn, Counts

LEMMA SumWithOneMore ==
  ASSUME NEW f, NEW S, NEW x, Counts(f, S), f[x] \in Nat, x \notin S
  PROVE  SumOn(f, S \cup {x}) = SumOn(f, S) + f[x]
<1>1. Counts(f, {x}) /\ SumOn(f, {x}) = f[x] /\ S \cap {x} = {}
  BY SumOfOne
<1> QED
  BY <1>1, SumOverBoth

LEMMA SumOfLess ==
  ASSUME NEW f, NEW T, Counts(f, T), NEW S \in SUBSET T
  PROVE  Counts(f, S) /\ SumOn(f, S) <= SumOn(f, T) /\ SumOn(f, S) \in Nat /\ SumOn(f, T) \in Nat
<1>1. Numbered(f, S) \in SUBSET Numbered(f, T)
  BY DEF Numbered
<1>2. IsFiniteSet(Numbered(f, T))
  BY NumberedIsFinite
<1>3. Counts(f, S)
  BY FS_Subset DEF Counts
<1> QED
  BY <1>1, <1>2, <1>3, FS_Subset, NumberedIsFinite DEF SumOn

LEMMA SumOfSame ==
  ASSUME NEW f, NEW g, NEW S, \A x \in S : f[x] = g[x]
  PROVE  SumOn(f, S) = SumOn(g, S)
<1>1. Numbered(f, S) = Numbered(g, S)
  BY DEF Numbered
<1> QED
  BY <1>1 DEF SumOn

(* One of the summands changes.                                            *)
LEMMA SumWithOneOther ==
  ASSUME NEW f, NEW g, NEW S, NEW x \in S, Counts(f, S), g[x] \in Nat,
         \A y \in S \ {x} : g[y] = f[y]
  PROVE  SumOn(g, S) = SumOn(f, S) - f[x] + g[x] /\ SumOn(f, S) \in Nat
<1> DEFINE R == S \ {x}
<1>1. Counts(f, R) /\ SumOn(f, R) \in Nat
  BY SumOfLess
<1>2. Counts(g, R)
  BY <1>1 DEF Counts
<1>3. SumOn(g, R) = SumOn(f, R)
  BY SumOfSame
<1>4. S = R \cup {x} /\ x \notin R /\ f[x] \in Nat
  BY DEF Counts
<1>5. SumOn(f, S) = SumOn(f, R) + f[x] /\ SumOn(g, S) = SumOn(g, R) + g[x]
  BY <1>1, <1>2, <1>4, SumWithOneMore
<1> QED
  BY <1>1, <1>3, <1>4, <1>5

(* One is taken from each summand of a part.                               *)
LEMMA SumWithOneLess ==
  ASSUME NEW f, NEW g, NEW S, Counts(f, S), NEW R \in SUBSET S,
         \A x \in R : f[x] > 0 /\ g[x] = f[x] - 1,
         \A x \in S \ R : g[x] = f[x]
  PROVE  SumOn(g, S) = SumOn(f, S) - Cardinality(R) /\ SumOn(f, S) \in Nat /\ Cardinality(R) \in Nat
<1> DEFINE Tops == {<<x, f[x]>> : x \in R}
           top == [x \in R |-> <<x, f[x]>>]
<1>1. top \in Surjection(R, Tops) /\ top \in Injection(R, Tops)
  <2>1. top \in [R -> Tops]
    OBVIOUS
  <2>2. \A t \in Tops : \E x \in R : top[x] = t
    OBVIOUS
  <2>3. \A x, y \in R : top[x] = top[y] => x = y
    OBVIOUS
  <2> QED
    BY <2>1, <2>2, <2>3 DEF Surjection, Injection, IsInjective
<1>2. IsFiniteSet(R) /\ Cardinality(R) \in Nat
  BY FS_Subset, FS_CardinalityType DEF Counts
<1>3. Cardinality(Tops) = Cardinality(R) /\ IsFiniteSet(Tops)
  BY <1>1, <1>2, FS_Surjection
<1>4. ASSUME NEW x \in S
      PROVE  {x} \X (1 .. g[x]) = ({x} \X (1 .. f[x])) \ Tops
  <2>1. f[x] \in Nat
    BY DEF Counts
  <2>2. CASE x \in R
    <3>1. 1 .. g[x] = (1 .. f[x]) \ {f[x]}
      BY <2>1, <2>2
    <3>2. \A n : <<x, n>> \in Tops <=> n = f[x]
      BY <2>2
    <3> QED
      BY <3>1, <3>2
  <2>3. CASE x \notin R
    <3>1. \A n : <<x, n>> \notin Tops
      BY <2>3
    <3> QED
      BY <2>3, <3>1
  <2> QED
    BY <2>2, <2>3
<1>5. Numbered(g, S) = Numbered(f, S) \ Tops
  BY <1>4 DEF Numbered
<1>6. Tops \subseteq Numbered(f, S)
  <2>1. ASSUME NEW x \in R
        PROVE  <<x, f[x]>> \in {x} \X (1 .. f[x]) /\ x \in S
    BY <2>1 DEF Counts
  <2> QED
    BY <2>1 DEF Numbered
<1>7. IsFiniteSet(Numbered(f, S)) /\ SumOn(f, S) \in Nat
  BY NumberedIsFinite
<1>8. Cardinality(Numbered(f, S) \ Tops) = Cardinality(Numbered(f, S)) - Cardinality(Numbered(f, S) \cap Tops)
  BY <1>7, FS_Difference
<1>9. Numbered(f, S) \cap Tops = Tops
  BY <1>6
<1> QED
  BY <1>2, <1>3, <1>5, <1>7, <1>8, <1>9 DEF SumOn

-----------------------------------------------------------------------------
(* Numbers.                                                                *)

(* How many two are, and three.                                            *)
LEMMA SmallSets ==
  /\ \A x : Cardinality({x}) = 1
  /\ \A x, y : x # y => IsFiniteSet({x, y}) /\ Cardinality({x, y}) = 2
  /\ \A x, y, z : x # y /\ x # z /\ y # z => Cardinality({x, y, z}) = 3
<1>1. ASSUME NEW x, NEW y, x # y
      PROVE  IsFiniteSet({x, y}) /\ Cardinality({x, y}) = 2
  <2>1. {x, y} = {x} \cup {y} /\ y \notin {x}
    BY <1>1
  <2>2. IsFiniteSet({x}) /\ Cardinality({x}) = 1
    BY FS_Singleton
  <2>3. /\ IsFiniteSet({x} \cup {y})
        /\ Cardinality({x} \cup {y}) = IF y \in {x} THEN Cardinality({x}) ELSE Cardinality({x}) + 1
    BY <2>2, FS_AddElement
  <2> QED
    BY <2>1, <2>2, <2>3
<1>2. ASSUME NEW x, NEW y, NEW z, x # y, x # z, y # z
      PROVE  Cardinality({x, y, z}) = 3
  <2>1. {x, y, z} = {x, y} \cup {z} /\ z \notin {x, y}
    BY <1>2
  <2>2. IsFiniteSet({x, y}) /\ Cardinality({x, y}) = 2
    BY <1>1, <1>2
  <2>3. Cardinality({x, y} \cup {z}) = IF z \in {x, y} THEN Cardinality({x, y}) ELSE Cardinality({x, y}) + 1
    BY <2>2, FS_AddElement
  <2> QED
    BY <2>1, <2>2, <2>3
<1>3. \A x : Cardinality({x}) = 1
  BY FS_Singleton
<1>4. \A x, y : x # y => IsFiniteSet({x, y}) /\ Cardinality({x, y}) = 2
  BY <1>1
<1>5. \A x, y, z : x # y /\ x # z /\ y # z => Cardinality({x, y, z}) = 3
  BY <1>2
<1> QED
  BY <1>3, <1>4, <1>5

(* A set of naturals that is not empty has a smallest member.              *)
LEMMA SmallestOf ==
  ASSUME NEW S \in SUBSET Nat, S # {}
  PROVE  \E n \in S : \A m \in S : n <= m
<1> DEFINE UpTo(n) == {m \in S : m <= n}
           Cuts == {UpTo(n) : n \in S}
           R == StrictSubsetOrdering(S)
           F == FiniteSubsetsOf(S)
<1>1. Cuts \subseteq F /\ Cuts # {}
  <2>1. \A n \in S : IsFiniteSet(UpTo(n))
    <3> SUFFICES ASSUME NEW n \in S PROVE IsFiniteSet(UpTo(n))
      OBVIOUS
    <3>1. UpTo(n) \in SUBSET Nat /\ n \in Nat /\ \A m \in UpTo(n) : m <= n
      OBVIOUS
    <3> QED
      BY <3>1, FS_BoundedSetOfNaturals
  <2> QED
    BY <2>1 DEF FiniteSubsetsOf
<1>2. IsWellFoundedOn(R, F)
  BY FS_StrictSubsetOrderingWellFounded
<1>3. PICK C \in Cuts : \A D \in Cuts : ~ (<<D, C>> \in R)
  <2> HIDE DEF R, F, Cuts
  <2> QED
    BY <1>1, <1>2, WFMin
<1>4. PICK n \in S : C = UpTo(n)
  BY <1>3
<1>5. ASSUME NEW m \in S, m < n
      PROVE  FALSE
  <2>0. n \in Nat /\ m \in Nat /\ \A k \in S : k \in Nat
    OBVIOUS
  <2>1. UpTo(m) \subseteq UpTo(n) /\ n \in UpTo(n) /\ n \notin UpTo(m)
    <3>1. \A k \in Nat : k <= m => k <= n
      BY <1>5, <2>0
    <3>2. n <= n /\ ~(n <= m)
      BY <1>5, <2>0
    <3> QED
      BY <2>0, <3>1, <3>2
  <2>2. UpTo(m) # UpTo(n) /\ UpTo(m) \in SUBSET S /\ UpTo(n) \in SUBSET S
    BY <2>1
  <2>3. <<UpTo(m), UpTo(n)>> \in R
    BY <2>1, <2>2 DEF StrictSubsetOrdering
  <2> QED
    BY <1>3, <1>4, <2>3
<1> QED
  <2>1. \A m \in S : n \in Nat /\ m \in Nat /\ ~(m < n)
    BY <1>5
  <2> QED
    BY <2>1

(* A set of naturals with an upper bound has a largest.                    *)
LEMMA LargestOf ==
  ASSUME NEW n \in Nat, NEW S \in SUBSET (0 .. n), S # {}
  PROVE  \E m \in S : \A k \in S : k <= m
<1> DEFINE T == {n - k : k \in S}
<1>0. \A k \in S : k \in Nat /\ k <= n
  OBVIOUS
<1>1. T \in SUBSET Nat /\ T # {}
  <2>1. \A k \in S : n - k \in Nat
    BY <1>0
  <2> QED
    BY <2>1
<1>2. PICK t \in T : \A u \in T : t <= u
  BY <1>1, SmallestOf
<1>3. PICK m \in S : t = n - m
  OBVIOUS
<1>4. \A k \in S : n - m <= n - k
  BY <1>2, <1>3
<1> QED
  BY <1>0, <1>4

(* The quotient is the only number between its multiples.                  *)
LEMMA QuotientIs ==
  ASSUME NEW a \in Nat, NEW d \in Nat \ {0}, NEW q \in Nat
  PROVE  q = a \div d <=> q * d <= a /\ a < (q + 1) * d
OBVIOUS

LEMMA QuotientOf ==
  ASSUME NEW a \in Nat, NEW d \in Nat \ {0}
  PROVE  a \div d \in Nat /\ (a \div d) * d <= a /\ a < (a \div d + 1) * d
<1>1. a \div d \in Nat
  OBVIOUS
<1> QED
  BY <1>1, QuotientIs

(* The quotients of consecutive numbers are consecutive.                   *)
LEMMA QuotientsOfRange ==
  ASSUME NEW d \in Nat \ {0}, NEW lo \in Nat, NEW hi \in Nat, lo <= hi
  PROVE  {x \div d : x \in lo .. hi} = (lo \div d) .. (hi \div d)
<1>1. ASSUME NEW x \in Nat
      PROVE  x \div d \in Nat /\ (x \div d) * d <= x /\ x < (x \div d + 1) * d
  BY QuotientIs
<1>2. ASSUME NEW p \in Nat, NEW q \in Nat, p * d < (q + 1) * d
      PROVE  p <= q
  BY <1>2
<1>3. ASSUME NEW x \in lo .. hi
      PROVE  x \div d \in (lo \div d) .. (hi \div d)
  <2>0. x \in Nat /\ lo <= x /\ x <= hi
    OBVIOUS
  <2>1. ASSUME NEW y \in Nat, NEW z \in Nat, y <= z
        PROVE  y \div d <= z \div d
    <3>1. PICK p, q \in Nat : p = y \div d /\ q = z \div d
      BY <1>1
    <3>2. p * d <= y /\ z < (q + 1) * d
      BY <1>1, <3>1
    <3>3. p * d \in Nat /\ (q + 1) * d \in Nat
      OBVIOUS
    <3>4. p * d < (q + 1) * d
      BY <2>1, <3>2, <3>3
    <3> QED
      BY <1>2, <3>1, <3>4
  <2>2. lo \div d <= x \div d /\ x \div d <= hi \div d
    BY <2>0, <2>1
  <2> QED
    BY <1>1, <2>0, <2>2
<1>4. ASSUME NEW q \in (lo \div d) .. (hi \div d)
      PROVE  \E x \in lo .. hi : q = x \div d
  <2>0. q \in Nat /\ lo \div d <= q /\ q <= hi \div d
    BY <1>1
  <2>1. PICK p, h \in Nat : p = lo \div d /\ h = hi \div d
    BY <1>1
  <2>2. /\ lo < (p + 1) * d /\ h * d <= hi /\ p <= q /\ q <= h
    BY <1>1, <2>0, <2>1
  <2>3. /\ q * d \in Nat /\ h * d \in Nat /\ q * d <= h * d
        /\ (p + 1) * d \in Nat /\ (q + 1) * d \in Nat /\ (p + 1) * d <= (q + 1) * d
        /\ q * d < (q + 1) * d
    BY <2>0, <2>2
  <2>4. CASE lo <= q * d
    <3>1. q * d \in lo .. hi
      BY <2>2, <2>3, <2>4
    <3>2. q = (q * d) \div d
      BY <2>0, <2>3, QuotientIs
    <3> QED
      BY <3>1, <3>2
  <2>5. CASE ~(lo <= q * d)
    <3>1. q * d <= lo /\ lo < (q + 1) * d
      BY <2>2, <2>3, <2>5
    <3>2. q = lo \div d
      BY <2>0, <3>1, QuotientIs
    <3> QED
      BY <3>2
  <2> QED
    BY <2>4, <2>5
<1> QED
  BY <1>3, <1>4

-----------------------------------------------------------------------------
(* The two accounts of what is read.                                       *)

(* The samples of an array that the anchors of a chunk read.               *)
SamplesRead(view, cid, refSpc) ==
  {a + view.offset : a \in {x \in Span(cid * refSpc, (cid + 1) * refSpc) :
                             /\ x < NSamples(view)
                             /\ x + view.offset \in Span(0, NSamples(view))}}

(* For an anchor chunk the driver reads the chunks of an array that hold   *)
(* the samples its anchors need, and no other (plan.py, _read_chunks).     *)
THEOREM DriverReadsWhatAnchorsNeed ==
  ASSUME NEW view, NSamples(view) \in Nat, SampleChunkSize(view) \in Nat \ {0},
         view.offset \in Int, NEW refSpc \in Nat \ {0}, NEW cid \in Nat
  PROVE  ToSet(ReadChunks(view, cid, refSpc)) =
           {ChunkOf(view, x) : x \in SamplesRead(view, cid, refSpc)}
<1> DEFINE n == NSamples(view)
           d == SampleChunkSize(view)
           o == view.offset
           from == cid * refSpc
           lo == MaxOf(0, from + o)
           hi == MinOf(n - 1, MinOf(from + refSpc, n) - 1 + o)
           reads == ReadChunks(view, cid, refSpc)
<1>0. from \in Nat /\ (cid + 1) * refSpc = from + refSpc /\ n \in Nat /\ o \in Int /\ d \in Nat \ {0}
  OBVIOUS
<1>1. reads = [i \in 1 .. (IF lo > hi THEN 0 ELSE hi \div d - lo \div d + 1) |-> lo \div d + i - 1]
  BY DEF ReadChunks
<1>2. lo \in Nat /\ hi \in Int /\ (lo <= hi => hi \in Nat)
  BY <1>0 DEF MaxOf, MinOf
<1>3. SamplesRead(view, cid, refSpc) = lo .. hi
  <2>1. ASSUME NEW x \in Int
        PROVE  x \in lo .. hi <=>
                 \E a \in Int : from <= a /\ a < from + refSpc /\ a < n /\ 0 <= a + o /\ a + o < n /\ x = a + o
    <3>1. x \in lo .. hi <=>
            0 <= x /\ from + o <= x /\ x <= n - 1 /\ x <= from + refSpc - 1 + o /\ x <= n - 1 + o
      BY <1>0 DEF MaxOf, MinOf
    <3>2. x - o \in Int /\ (x - o) + o = x
      BY <1>0
    <3> HIDE DEF n, o, from, lo, hi
    <3>3. ASSUME 0 <= x, from + o <= x, x <= n - 1, x <= from + refSpc - 1 + o, x <= n - 1 + o
          PROVE  from <= x - o /\ x - o < from + refSpc /\ x - o < n /\ 0 <= (x - o) + o /\ (x - o) + o < n
      BY <1>0, <3>3
    <3>4. ASSUME NEW a \in Int, from <= a, a < from + refSpc, a < n, 0 <= a + o, a + o < n, x = a + o
          PROVE  0 <= x /\ from + o <= x /\ x <= n - 1 /\ x <= from + refSpc - 1 + o /\ x <= n - 1 + o
      BY <1>0, <3>4
    <3> QED
      BY <3>1, <3>2, <3>3, <3>4
  <2>2. SamplesRead(view, cid, refSpc) =
          {x \in Int : \E a \in Int : /\ from <= a /\ a < from + refSpc /\ a < n
                                      /\ 0 <= a + o /\ a + o < n /\ x = a + o}
    BY <1>0 DEF SamplesRead, Span
  <2> HIDE DEF n, o, from, lo, hi
  <2> QED
    BY <1>2, <2>1, <2>2
<1>4. {ChunkOf(view, x) : x \in lo .. hi} = {x \div d : x \in lo .. hi}
  BY DEF ChunkOf
<1> HIDE DEF n, d, o, from, lo, hi, reads
<1>5. CASE lo > hi
  <2>1. lo .. hi = {} /\ DOMAIN reads = {}
    BY <1>1, <1>2, <1>5
  <2> QED
    BY <1>3, <1>4, <2>1 DEF ToSet, reads
<1>6. CASE ~(lo > hi)
  <2>1. lo \in Nat /\ hi \in Nat /\ lo <= hi
    BY <1>2, <1>6
  <2>2. {x \div d : x \in lo .. hi} = (lo \div d) .. (hi \div d)
    BY <1>0, <2>1, QuotientsOfRange
  <2>3. PICK p, q \in Int : p = lo \div d /\ q = hi \div d
    BY <1>0, <2>1
  <2>4. reads = [i \in 1 .. (q - p + 1) |-> p + i - 1]
    BY <1>1, <1>6, <2>3
  <2>5. ToSet(reads) = p .. q
    <3>1. ASSUME NEW c \in p .. q
          PROVE  c - p + 1 \in 1 .. (q - p + 1) /\ p + (c - p + 1) - 1 = c
      BY <2>3
    <3>2. ASSUME NEW i \in 1 .. (q - p + 1)
          PROVE  p + i - 1 \in p .. q
      BY <2>3
    <3>3. PICK range : range = 1 .. (q - p + 1)
      OBVIOUS
    <3>4. ToSet(reads) = {p + i - 1 : i \in range}
      BY <2>4, <3>3 DEF ToSet
    <3>5. \A c \in p .. q : \E i \in range : c = p + i - 1
      BY <3>1, <3>3
    <3>6. \A i \in range : p + i - 1 \in p .. q
      BY <3>2, <3>3
    <3>7. ToSet(reads) \subseteq p .. q
      BY <3>4, <3>6
    <3>8. p .. q \subseteq ToSet(reads)
      BY <3>4, <3>5
    <3> QED
      BY <3>7, <3>8
  <2> QED
    BY <1>3, <1>4, <2>2, <2>3, <2>5 DEF reads
<1> QED
  BY <1>5, <1>6

-----------------------------------------------------------------------------
(* Sequences one after the other.                                          *)

(* f[i] is the first i of some sequences, joined.                          *)
Joins(f, seqs, n) ==
  f = [i \in 1 .. n |-> IF i = 1 THEN seqs[i] ELSE f[i - 1] \o seqs[i]]

LEMMA JoinsExist ==
  ASSUME NEW seqs, NEW n \in Nat
  PROVE  \E f : Joins(f, seqs, n)
<1> DEFINE Bad == {m \in Nat : ~ \E f : Joins(f, seqs, m)}
<1> SUFFICES ASSUME Bad # {} PROVE FALSE
  OBVIOUS
<1>1. PICK m \in Bad : \A k \in Bad : m <= k
  BY SmallestOf
<1>2. CASE m = 0
  <2>1. Joins([i \in 1 .. 0 |-> i], seqs, 0)
    BY DEF Joins
  <2> QED
    BY <1>2, <2>1
<1>3. CASE m # 0
  <2>1. m - 1 \in Nat /\ m - 1 \notin Bad
    BY <1>1, <1>3
  <2>2. PICK f : Joins(f, seqs, m - 1)
    BY <2>1
  <2> DEFINE g == [i \in 1 .. m |-> IF i = m THEN IF m = 1 THEN seqs[m] ELSE f[m - 1] \o seqs[m] ELSE f[i]]
  <2>3. \A i \in 1 .. m : g[i] = IF i = 1 THEN seqs[i] ELSE g[i - 1] \o seqs[i]
    <3> SUFFICES ASSUME NEW i \in 1 .. m
                 PROVE  g[i] = IF i = 1 THEN seqs[i] ELSE g[i - 1] \o seqs[i]
      OBVIOUS
    <3>0. i \in Nat /\ m \in Nat
      BY <2>1
    <3>1. CASE i = m
      <4>1. m # 1 => g[i - 1] = f[m - 1]
        BY <3>0, <3>1
      <4> QED
        BY <3>1, <4>1
    <3>2. CASE i # m
      <4>1. i \in 1 .. m - 1 /\ g[i] = f[i] /\ (i # 1 => i - 1 \in 1 .. m /\ i - 1 # m)
        BY <3>0, <3>2
      <4>2. f[i] = IF i = 1 THEN seqs[i] ELSE f[i - 1] \o seqs[i]
        BY <2>2, <4>1 DEF Joins
      <4>3. i # 1 => g[i - 1] = f[i - 1]
        BY <4>1
      <4> QED
        BY <4>1, <4>2, <4>3
    <3> QED
      BY <3>1, <3>2
  <2>4. g = [i \in 1 .. m |-> g[i]]
    OBVIOUS
  <2>5. Joins(g, seqs, m)
    <3> HIDE DEF g
    <3> QED
      BY <2>3, <2>4 DEF Joins
  <2> QED
    BY <1>1, <2>5
<1> QED
  BY <1>2, <1>3

LEMMA FlattenJoins ==
  ASSUME NEW seqs, Len(seqs) \in Nat \ {0}
  PROVE  \E f : Joins(f, seqs, Len(seqs)) /\ FlattenSeq(seqs) = f[Len(seqs)]
<1> DEFINE g == CHOOSE f : Joins(f, seqs, Len(seqs))
<1>1. Joins(g, seqs, Len(seqs))
  BY JoinsExist
<1>2. FlattenSeq(seqs) = g[Len(seqs)]
  BY DEF FlattenSeq, Joins
<1> QED
  BY <1>1, <1>2

(* Two sequences, one after the other.                                     *)
Terms(s) == {s[k] : k \in 1 .. Len(s)}
TermsUpTo(seqs, n) == UNION {Terms(seqs[i]) : i \in 1 .. n}
Begins(s, t) == Len(s) <= Len(t) /\ \A k \in 1 .. Len(s) : t[k] = s[k]

LEMMA JoinOfTwo ==
  ASSUME NEW E, NEW s \in Seq(E), NEW t \in Seq(E)
  PROVE  /\ s \o t \in Seq(E) /\ Len(s \o t) = Len(s) + Len(t) /\ Len(s) \in Nat /\ Len(t) \in Nat
         /\ Begins(s, s \o t) /\ Terms(s \o t) = Terms(s) \cup Terms(t)
<1> DEFINE u == s \o t
<1>1. u \in Seq(E) /\ Len(s) \in Nat /\ Len(t) \in Nat /\ Len(u) = Len(s) + Len(t)
  OBVIOUS
<1>2. ASSUME NEW k \in 1 .. Len(s)
      PROVE  k \in 1 .. Len(u) /\ u[k] = s[k]
  BY <1>1
<1>3. ASSUME NEW k \in 1 .. Len(u)
      PROVE  u[k] \in Terms(s) \cup Terms(t)
  <2>1. CASE k <= Len(s)
    <3>1. k \in 1 .. Len(s) /\ u[k] = s[k]
      BY <1>1, <2>1
    <3> QED
      BY <3>1 DEF Terms
  <2>2. CASE ~(k <= Len(s))
    <3>1. k - Len(s) \in 1 .. Len(t) /\ u[k] = t[k - Len(s)]
      BY <1>1, <2>2
    <3> QED
      BY <3>1 DEF Terms
  <2> QED
    BY <2>1, <2>2
<1>4. ASSUME NEW k \in 1 .. Len(t)
      PROVE  k + Len(s) \in 1 .. Len(u) /\ u[k + Len(s)] = t[k]
  BY <1>1
<1>5. Terms(u) = Terms(s) \cup Terms(t)
  <2> HIDE DEF u
  <2>1. \A x \in Terms(s) \cup Terms(t) : x \in Terms(u)
    BY <1>2, <1>4 DEF Terms
  <2>2. \A x \in Terms(u) : x \in Terms(s) \cup Terms(t)
    <3>1. \A x \in Terms(u) : \E k \in 1 .. Len(u) : x = u[k]
      BY DEF Terms
    <3> QED
      BY <1>3, <3>1
  <2> QED
    BY <2>1, <2>2
<1>6. Begins(s, u)
  BY <1>1, <1>2 DEF Begins
<1> QED
  BY <1>1, <1>5, <1>6

LEMMA BeginsOnward ==
  ASSUME NEW r, NEW s, NEW t, Len(r) \in Nat, Len(s) \in Nat, Len(t) \in Nat, Begins(r, s), Begins(s, t)
  PROVE  Begins(r, t)
BY DEF Begins

(* What has been joined is a sequence, and begins what is joined later.    *)
LEMMA JoinsGrow ==
  ASSUME NEW E, NEW n \in Nat, NEW seqs, NEW f,
         \A i \in 1 .. n : seqs[i] \in Seq(E), Joins(f, seqs, n)
  PROVE  \A j \in 1 .. n : /\ f[j] \in Seq(E) /\ Terms(f[j]) = TermsUpTo(seqs, j)
                           /\ \A i \in 1 .. j : Begins(f[i], f[j])
<1> DEFINE Good(m) == /\ f[m] \in Seq(E) /\ Terms(f[m]) = TermsUpTo(seqs, m)
                      /\ \A i \in 1 .. m : Begins(f[i], f[m])
           Bad == {m \in 1 .. n : ~Good(m)}
<1>0. /\ Bad \in SUBSET Nat /\ Bad \in SUBSET (1 .. n)
      /\ \A m \in 1 .. n : m \notin Bad => Good(m)
      /\ \A m \in Bad : ~Good(m)
  OBVIOUS
<1> SUFFICES ASSUME Bad # {} PROVE FALSE
  OBVIOUS
<1> HIDE DEF Bad
<1>1. PICK m \in Bad : \A k \in Bad : m <= k
  BY <1>0, SmallestOf
<1>2. m \in 1 .. n /\ m \in Nat /\ n \in Nat
  BY <1>0
<1>3. f[m] = (IF m = 1 THEN seqs[m] ELSE f[m - 1] \o seqs[m]) /\ seqs[m] \in Seq(E)
  BY <1>2 DEF Joins
<1>4. CASE m = 1
  <2>1. f[m] = seqs[m] /\ 1 .. m = {m} /\ Len(f[m]) \in Nat
    BY <1>2, <1>3, <1>4
  <2>2. TermsUpTo(seqs, m) = Terms(seqs[m])
    BY <2>1 DEF TermsUpTo
  <2>3. Begins(f[m], f[m])
    BY <2>1 DEF Begins
  <2>4. Good(m)
    BY <1>3, <2>1, <2>2, <2>3
  <2> QED
    BY <1>0, <2>4
<1>5. CASE m # 1
  <2>1. m - 1 \in 1 .. n /\ m - 1 \in Nat /\ ~(m <= m - 1)
    BY <1>2, <1>5
  <2>2. m - 1 \notin Bad
    BY <1>1, <2>1
  <2>3. Good(m - 1)
    BY <1>0, <2>1, <2>2
  <2>4. 1 .. m = (1 .. m - 1) \cup {m}
    BY <1>2, <2>1
  <2> HIDE DEF Good
  <2>5. f[m - 1] \in Seq(E) /\ f[m] = f[m - 1] \o seqs[m]
    BY <1>3, <1>5, <2>3 DEF Good
  <2>6. /\ f[m] \in Seq(E) /\ Begins(f[m - 1], f[m]) /\ Len(f[m - 1]) \in Nat /\ Len(f[m]) \in Nat
        /\ Terms(f[m]) = Terms(f[m - 1]) \cup Terms(seqs[m])
    <3>1. PICK s \in Seq(E), t \in Seq(E) : s = f[m - 1] /\ t = seqs[m]
      BY <1>3, <2>5
    <3>2. f[m] = s \o t
      BY <2>5, <3>1
    <3>3. /\ s \o t \in Seq(E) /\ Begins(s, s \o t) /\ Terms(s \o t) = Terms(s) \cup Terms(t)
          /\ Len(s) \in Nat /\ Len(s \o t) \in Nat
      BY JoinOfTwo
    <3> QED
      BY <3>1, <3>2, <3>3
  <2>7. Terms(f[m]) = TermsUpTo(seqs, m)
    <3>1. Terms(f[m - 1]) = TermsUpTo(seqs, m - 1)
      BY <2>3 DEF Good
    <3> QED
      BY <2>4, <2>6, <3>1 DEF TermsUpTo
  <2>8. ASSUME NEW i \in 1 .. m
        PROVE  Begins(f[i], f[m])
    <3>1. CASE i = m
      BY <2>6, <3>1 DEF Begins
    <3>2. CASE i # m
      <4>1. i \in 1 .. m - 1 /\ i \in 1 .. n /\ ~(m <= i)
        BY <1>2, <2>4, <3>2
      <4>2. Begins(f[i], f[m - 1])
        BY <2>3, <4>1 DEF Good
      <4>3. f[i] \in Seq(E)
        BY <1>0, <1>1, <4>1 DEF Good
      <4>4. Len(f[i]) \in Nat
        BY <4>3
      <4> QED
        BY <2>6, <4>2, <4>4, BeginsOnward
    <3> QED
      BY <3>1, <3>2
  <2>9. Good(m)
    BY <2>6, <2>7, <2>8 DEF Good
  <2> QED
    BY <1>0, <2>9
<1> QED
  BY <1>4, <1>5

(* Joining depends on the sequences joined alone.                          *)
LEMMA JoinsAgree ==
  ASSUME NEW n \in Nat, NEW b \in 1 .. n, NEW seqs, NEW first, NEW f, NEW g,
         \A i \in 1 .. b : first[i] = seqs[i], Joins(f, seqs, n), Joins(g, first, b)
  PROVE  g[b] = f[b]
<1> DEFINE Bad == {m \in 1 .. b : g[m] # f[m]}
<1> SUFFICES ASSUME Bad # {} PROVE FALSE
  OBVIOUS
<1>1. PICK m \in Bad : \A k \in Bad : m <= k
  <2>1. Bad \in SUBSET Nat
    OBVIOUS
  <2> HIDE DEF Bad
  <2> QED
    BY <2>1, SmallestOf
<1>2. /\ m \in 1 .. b /\ m \in 1 .. n /\ m \in Nat
      /\ f[m] = (IF m = 1 THEN seqs[m] ELSE f[m - 1] \o seqs[m])
      /\ g[m] = (IF m = 1 THEN first[m] ELSE g[m - 1] \o first[m])
  <2>1. m \in 1 .. b /\ m \in 1 .. n /\ m \in Nat
    OBVIOUS
  <2> QED
    BY <2>1 DEF Joins
<1>3. m # 1 => g[m - 1] = f[m - 1]
  <2> SUFFICES ASSUME m # 1 PROVE g[m - 1] = f[m - 1]
    OBVIOUS
  <2>1. m - 1 \in 1 .. b /\ ~(m <= m - 1)
    BY <1>2
  <2> QED
    BY <1>1, <2>1
<1> QED
  BY <1>2, <1>3

(* The first of some sequences, joined, begin all of them joined.          *)
FirstOf(first, b, seqs, n, E) ==
  /\ n \in Nat /\ b \in 1 .. n /\ Len(seqs) = n /\ Len(first) = b
  /\ \A i \in 1 .. n : seqs[i] \in Seq(E)
  /\ \A i \in 1 .. b : first[i] = seqs[i]

LEMMA FlattenBegins ==
  ASSUME NEW E, NEW n, NEW b, NEW seqs, NEW first, FirstOf(first, b, seqs, n, E)
  PROVE  /\ FlattenSeq(first) \in Seq(E) /\ FlattenSeq(seqs) \in Seq(E)
         /\ Begins(FlattenSeq(first), FlattenSeq(seqs))
         /\ Terms(FlattenSeq(first)) = TermsUpTo(seqs, b)
<1>1. /\ n \in Nat \ {0} /\ b \in Nat \ {0} /\ n \in 1 .. n /\ b \in 1 .. n
      /\ Len(seqs) = n /\ Len(first) = b
      /\ \A i \in 1 .. n : seqs[i] \in Seq(E)
      /\ \A i \in 1 .. b : first[i] = seqs[i]
  <2>1. n \in Nat /\ b \in 1 .. n
    BY Zenon DEF FirstOf
  <2>2. n \in Nat \ {0} /\ b \in Nat \ {0} /\ n \in 1 .. n
    BY <2>1
  <2> QED
    BY <2>1, <2>2, Zenon DEF FirstOf
<1>2. \E f : Joins(f, seqs, n) /\ FlattenSeq(seqs) = f[n]
  BY <1>1, FlattenJoins
<1>3. \E g : Joins(g, first, b) /\ FlattenSeq(first) = g[b]
  BY <1>1, FlattenJoins
<1>4. PICK f : Joins(f, seqs, n) /\ FlattenSeq(seqs) = f[n]
  BY <1>2
<1>5. PICK g : Joins(g, first, b) /\ FlattenSeq(first) = g[b]
  BY <1>3
<1>6. g[b] = f[b]
  BY <1>1, <1>4, <1>5, JoinsAgree
<1>7. \A j \in 1 .. n : /\ f[j] \in Seq(E) /\ Terms(f[j]) = TermsUpTo(seqs, j)
                       /\ \A i \in 1 .. j : Begins(f[i], f[j])
  BY <1>1, <1>4, JoinsGrow
<1> QED
  BY <1>1, <1>4, <1>5, <1>6, <1>7

-----------------------------------------------------------------------------
(* The part of a sequence at a set of positions.                           *)

(* How many members of a set are no greater than x.                        *)
RankIn(S, x) == Cardinality({y \in S : y <= x})

LEMMA RankCounts ==
  ASSUME NEW S \in SUBSET Nat, IsFiniteSet(S)
  PROVE  /\ Cardinality(S) \in Nat
         /\ \A x \in S : RankIn(S, x) \in 1 .. Cardinality(S)
         /\ \A x, y \in S : x < y => RankIn(S, x) < RankIn(S, y)
<1> DEFINE upTo(x) == {z \in S : z <= x}
<1>1. Cardinality(S) \in Nat
  BY FS_CardinalityType
<1>2. \A x \in S : /\ IsFiniteSet(upTo(x)) /\ Cardinality(upTo(x)) \in Nat
                   /\ Cardinality(upTo(x)) <= Cardinality(S)
  BY FS_Subset, FS_CardinalityType
<1>3. ASSUME NEW x \in S
      PROVE  Cardinality(upTo(x)) # 0
  <2>1. x \in upTo(x)
    OBVIOUS
  <2> HIDE DEF upTo
  <2> QED
    BY <1>2, <2>1, FS_EmptySet
<1>4. ASSUME NEW x \in S, NEW y \in S, x < y
      PROVE  Cardinality(upTo(x)) < Cardinality(upTo(y))
  <2>0. x \in Nat /\ y \in Nat /\ \A z \in S : z \in Nat
    OBVIOUS
  <2>1. \A z \in S : z <= x => z <= y
    BY <1>4, <2>0
  <2>2. upTo(x) \in SUBSET upTo(y) /\ y \in upTo(y) /\ y \notin upTo(x)
    <3>1. y <= y /\ ~(y <= x)
      BY <1>4, <2>0
    <3> QED
      BY <2>1, <3>1
  <2> HIDE DEF upTo
  <2>3. Cardinality(upTo(x)) <= Cardinality(upTo(y)) /\ Cardinality(upTo(x)) # Cardinality(upTo(y))
    BY <1>2, <2>2, FS_Subset
  <2> QED
    BY <1>2, <2>3
<1> QED
  BY <1>1, <1>2, <1>3, <1>4 DEF RankIn

(* Ascending counts a finite set of naturals in order.                     *)
LEMMA AscendingCounts ==
  ASSUME NEW S \in SUBSET Nat, IsFiniteSet(S)
  PROVE  /\ Cardinality(S) \in Nat
         /\ Ascending(S) \in [1 .. Cardinality(S) -> S]
         /\ \A n \in 1 .. Cardinality(S) : RankIn(S, Ascending(S)[n]) = n
         /\ \A x \in S : Ascending(S)[RankIn(S, x)] = x
<1> DEFINE m == Cardinality(S)
           rank == [x \in S |-> RankIn(S, x)]
<1>1. m \in Nat /\ \A x \in S : RankIn(S, x) \in 1 .. m
  BY RankCounts
<1>2. ASSUME NEW x \in S, NEW y \in S, RankIn(S, x) = RankIn(S, y)
      PROVE  x = y
  <2>1. x \in Nat /\ y \in Nat /\ RankIn(S, x) \in Nat
    BY <1>1
  <2>2. ~(x < y) /\ ~(y < x)
    BY <1>2, <2>1, RankCounts
  <2> QED
    BY <2>1, <2>2
<1>3. rank \in Injection(S, 1 .. m)
  BY <1>1, <1>2 DEF Injection, IsInjective
<1>4. rank \in Surjection(S, 1 .. m)
  <2>1. IsFiniteSet(1 .. m) /\ Cardinality(1 .. m) = m
    <3>1. 1 \in Int /\ m \in Int /\ (IF 1 > m THEN 0 ELSE m - 1 + 1) = m
      BY <1>1
    <3> HIDE DEF m
    <3> QED
      BY <3>1, FS_Interval
  <2> HIDE DEF rank
  <2> QED
    BY <1>3, <2>1, FS_Injection
<1>5. \A n \in 1 .. m : \E x \in S : RankIn(S, x) = n
  <2>1. \A n \in 1 .. m : \E x \in S : rank[x] = n
    BY <1>4 DEF Surjection
  <2> QED
    BY <2>1
<1>6. \A n \in 1 .. m : Ascending(S)[n] \in S /\ RankIn(S, Ascending(S)[n]) = n
  BY <1>5 DEF Ascending, RankIn
<1>7. Ascending(S) \in [1 .. m -> S]
  <2>1. Ascending(S) = [n \in 1 .. m |-> Ascending(S)[n]]
    BY DEF Ascending
  <2> QED
    BY <1>6, <2>1
<1>8. \A x \in S : Ascending(S)[RankIn(S, x)] = x
  BY <1>1, <1>2, <1>6
<1> QED
  BY <1>1, <1>6, <1>7, <1>8

(* What stands in a part of a sequence, and how long it is.                *)
LEMMA PartHolds ==
  ASSUME NEW s, NEW P \in SUBSET Nat, IsFiniteSet(P)
  PROVE  /\ Cardinality(P) \in Nat /\ DOMAIN At(s, P) = 1 .. Cardinality(P)
         /\ \A n \in 1 .. Cardinality(P) : Ascending(P)[n] \in P /\ At(s, P)[n] = s[Ascending(P)[n]]
         /\ ToSet(At(s, P)) = {s[i] : i \in P}
<1>1. /\ Cardinality(P) \in Nat /\ Ascending(P) \in [1 .. Cardinality(P) -> P]
      /\ \A x \in P : Ascending(P)[RankIn(P, x)] = x /\ RankIn(P, x) \in 1 .. Cardinality(P)
  BY AscendingCounts, RankCounts
<1>2. At(s, P) = [n \in 1 .. Cardinality(P) |-> s[Ascending(P)[n]]]
  BY <1>1 DEF At
<1>3. ToSet(At(s, P)) = {s[Ascending(P)[n]] : n \in 1 .. Cardinality(P)}
  BY <1>2 DEF ToSet
<1>4. \A n \in 1 .. Cardinality(P) : Ascending(P)[n] \in P
  BY <1>1
<1>5. \A x \in P : \E n \in 1 .. Cardinality(P) : Ascending(P)[n] = x
  BY <1>1
<1>6. {s[Ascending(P)[n]] : n \in 1 .. Cardinality(P)} = {s[i] : i \in P}
  BY <1>4, <1>5
<1> QED
  BY <1>1, <1>2, <1>3, <1>4, <1>6

(* The positions up to m come first.                                       *)
LEMMA PartBegins ==
  ASSUME NEW P \in SUBSET Nat, IsFiniteSet(P), NEW m \in Nat,
         NEW n \in 1 .. Cardinality({i \in P : i <= m})
  PROVE  /\ n \in 1 .. Cardinality(P)
         /\ Ascending({i \in P : i <= m})[n] = Ascending(P)[n]
<1> DEFINE Q == {i \in P : i <= m}
<1>1. /\ Q \in SUBSET P /\ Q \in SUBSET Nat
      /\ IsFiniteSet(Q) /\ Cardinality(Q) <= Cardinality(P)
      /\ Cardinality(P) \in Nat /\ Cardinality(Q) \in Nat
  <2>1. Q \in SUBSET P
    OBVIOUS
  <2> HIDE DEF Q
  <2> QED
    BY <2>1, FS_Subset, FS_CardinalityType
<1>2. n \in 1 .. Cardinality(P)
  BY <1>1
<1>3. PICK x \in Q : x = Ascending(Q)[n] /\ RankIn(Q, x) = n
  <2>1. n \in 1 .. Cardinality(Q)
    OBVIOUS
  <2> HIDE DEF Q
  <2>2. Ascending(Q)[n] \in Q /\ RankIn(Q, Ascending(Q)[n]) = n
    BY <1>1, <2>1, AscendingCounts
  <2> QED
    BY <2>2
<1>4. RankIn(P, x) = RankIn(Q, x)
  <2>1. \A y \in P : y <= x => y <= m
    <3> SUFFICES ASSUME NEW y \in P, y <= x PROVE y <= m
      OBVIOUS
    <3>1. x \in Nat /\ y \in Nat /\ x <= m
      OBVIOUS
    <3> QED
      BY <3>1
  <2>2. {y \in P : y <= x} = {y \in Q : y <= x}
    BY <2>1
  <2> QED
    BY <2>2 DEF RankIn
<1>5. Ascending(P)[n] = x
  BY <1>3, <1>4, AscendingCounts
<1> QED
  BY <1>2, <1>3, <1>5

-----------------------------------------------------------------------------
(* What is read, without what was read before.                             *)

FirstSeen(reads) == {i \in DOMAIN reads : \A j \in 1 .. i - 1 : reads[j] # reads[i]}

LEMMA FirstSeenCounts ==
  ASSUME NEW E, NEW s \in Seq(E)
  PROVE  /\ FirstSeen(s) \in SUBSET Nat /\ FirstSeen(s) \in SUBSET (1 .. Len(s)) /\ IsFiniteSet(FirstSeen(s))
         /\ Unseen(s) = At(s, FirstSeen(s))
<1>1. DOMAIN s = 1 .. Len(s) /\ Len(s) \in Nat
  OBVIOUS
<1>2. IsFiniteSet(1 .. Len(s)) /\ FirstSeen(s) \in SUBSET (1 .. Len(s))
  BY <1>1, FS_Interval DEF FirstSeen
<1>3. FirstSeen(s) \in SUBSET Nat /\ IsFiniteSet(FirstSeen(s))
  BY <1>2, FS_Subset
<1> QED
  BY <1>2, <1>3 DEF Unseen, FirstSeen

(* Nothing is left out, and nothing is read twice.                         *)
LEMMA UnseenHolds ==
  ASSUME NEW E, NEW s \in Seq(E)
  PROVE  /\ Unseen(s) \in Seq(E) /\ Terms(Unseen(s)) = Terms(s)
         /\ \A i, j \in 1 .. Len(Unseen(s)) : Unseen(s)[i] = Unseen(s)[j] => i = j
         /\ IsFiniteSet(Terms(s)) /\ Len(Unseen(s)) = Cardinality(Terms(s))
<1> DEFINE P == FirstSeen(s)
           u == Unseen(s)
           m == Cardinality(P)
<1>1. /\ P \in SUBSET Nat /\ P \in SUBSET (1 .. Len(s)) /\ IsFiniteSet(P) /\ u = At(s, P)
      /\ Len(s) \in Nat
  BY FirstSeenCounts
<1>2. /\ m \in Nat /\ DOMAIN u = 1 .. m /\ ToSet(u) = {s[i] : i \in P}
      /\ \A n \in 1 .. m : Ascending(P)[n] \in P /\ u[n] = s[Ascending(P)[n]]
  <2> HIDE DEF P, u
  <2> QED
    BY <1>1, PartHolds
<1>3. \A i \in P : \A j \in 1 .. i - 1 : s[j] # s[i]
  BY DEF FirstSeen
<1>4. \A i \in 1 .. Len(s) : (\A j \in 1 .. i - 1 : s[j] # s[i]) => i \in P
  BY DEF FirstSeen
<1> HIDE DEF P, u
<1>5. u \in Seq(E) /\ Len(u) = m
  <2>1. u = [n \in 1 .. m |-> s[Ascending(P)[n]]]
    BY <1>1, <1>2, AscendingCounts DEF At
  <2>2. \A n \in 1 .. m : s[Ascending(P)[n]] \in E
    BY <1>1, <1>2
  <2> HIDE DEF m
  <2> QED
    BY <1>2, <2>1, <2>2
<1>6. ASSUME NEW k \in 1 .. Len(s)
      PROVE  \E i \in P : s[i] = s[k]
  <2> DEFINE Same == {i \in 1 .. Len(s) : s[i] = s[k]}
  <2>1. PICK i \in Same : \A j \in Same : i <= j
    <3>1. Same \in SUBSET Nat /\ Same # {}
      OBVIOUS
    <3> HIDE DEF Same
    <3> QED
      BY <3>1, SmallestOf
  <2>2. ASSUME NEW j \in 1 .. i - 1
        PROVE  s[j] # s[i]
    <3>1. i \in 1 .. Len(s) /\ j \in 1 .. Len(s) /\ ~(i <= j) /\ s[i] = s[k]
      BY <1>1
    <3> QED
      BY <2>1, <3>1
  <2> QED
    BY <1>4, <2>2
<1>7. Terms(u) = Terms(s)
  <2>1. Terms(u) = {s[i] : i \in P}
    BY <1>2, <1>5 DEF Terms, ToSet
  <2> QED
    BY <1>1, <1>6, <2>1 DEF Terms
<1>8. ASSUME NEW i \in P, NEW j \in P, s[i] = s[j]
      PROVE  i = j
  <2>1. i \in Nat /\ j \in Nat /\ i >= 1 /\ j >= 1
    BY <1>1
  <2>2. (i < j => i \in 1 .. j - 1) /\ (j < i => j \in 1 .. i - 1)
    BY <2>1
  <2> QED
    BY <1>3, <1>8, <2>1, <2>2
<1>9. ASSUME NEW i \in 1 .. m, NEW j \in 1 .. m, u[i] = u[j]
      PROVE  i = j
  <2>1. Ascending(P)[i] = Ascending(P)[j]
    BY <1>2, <1>8, <1>9
  <2>2. RankIn(P, Ascending(P)[i]) = i /\ RankIn(P, Ascending(P)[j]) = j
    BY <1>1, AscendingCounts
  <2> QED
    BY <2>1, <2>2
<1>10. IsFiniteSet(Terms(u)) /\ Cardinality(Terms(u)) = m
  <2>1. u \in Surjection(1 .. m, Terms(u)) /\ u \in Injection(1 .. m, Terms(u))
    <3>1. u = [i \in 1 .. m |-> u[i]]
      BY <1>5
    <3>2. u \in [1 .. m -> Terms(u)] /\ \A x \in Terms(u) : \E i \in 1 .. m : u[i] = x
      BY <1>5, <3>1 DEF Terms
    <3> QED
      BY <1>9, <3>2 DEF Surjection, Injection, IsInjective
  <2>2. IsFiniteSet(1 .. m) /\ Cardinality(1 .. m) = m
    <3>1. 1 \in Int /\ m \in Int /\ (IF 1 > m THEN 0 ELSE m - 1 + 1) = m
      BY <1>2
    <3> HIDE DEF m
    <3> QED
      BY <3>1, FS_Interval
  <2> QED
    BY <2>1, <2>2, FS_Surjection
<1> QED
  BY <1>5, <1>7, <1>9, <1>10 DEF u

(* What is first seen in a sequence is so in one that it begins.           *)
LEMMA UnseenBegins ==
  ASSUME NEW E, NEW s \in Seq(E), NEW t \in Seq(E), Begins(s, t)
  PROVE  Begins(Unseen(s), Unseen(t))
<1> DEFINE P == FirstSeen(s)
           Q == FirstSeen(t)
           m == Len(s)
<1>1. /\ P \in SUBSET Nat /\ P \in SUBSET (1 .. m) /\ IsFiniteSet(P) /\ Unseen(s) = At(s, P)
      /\ Q \in SUBSET Nat /\ Q \in SUBSET (1 .. Len(t)) /\ IsFiniteSet(Q) /\ Unseen(t) = At(t, Q)
      /\ m \in Nat /\ Len(t) \in Nat /\ m <= Len(t) /\ \A k \in 1 .. m : t[k] = s[k]
  BY FirstSeenCounts DEF Begins
<1>2. P = {i \in Q : i <= m}
  <2>1. DOMAIN s = 1 .. m /\ DOMAIN t = 1 .. Len(t)
    OBVIOUS
  <2>2. \A i \in 1 .. m : i \in 1 .. Len(t) /\ i <= m /\ \A j \in 1 .. i - 1 : j \in 1 .. m
    BY <1>1
  <2>3. \A i \in 1 .. Len(t) : i <= m => i \in 1 .. m
    BY <1>1
  <2>4. \A i \in 1 .. m : i \in P <=> i \in Q
    <3> SUFFICES ASSUME NEW i \in 1 .. m PROVE i \in P <=> i \in Q
      OBVIOUS
    <3>1. t[i] = s[i] /\ \A j \in 1 .. i - 1 : t[j] = s[j]
      BY <1>1, <2>2
    <3>2. i \in P <=> \A j \in 1 .. i - 1 : s[j] # s[i]
      BY <2>1 DEF FirstSeen
    <3>3. i \in Q <=> \A j \in 1 .. i - 1 : t[j] # t[i]
      BY <2>1, <2>2 DEF FirstSeen
    <3> QED
      BY <3>1, <3>2, <3>3
  <2> HIDE DEF P, Q, m
  <2> QED
    BY <1>1, <2>2, <2>3, <2>4
<1> HIDE DEF P, Q, m
<1>3. /\ Cardinality(P) \in Nat /\ DOMAIN Unseen(s) = 1 .. Cardinality(P)
      /\ \A n \in 1 .. Cardinality(P) : Ascending(P)[n] \in P /\ Unseen(s)[n] = s[Ascending(P)[n]]
  BY <1>1, PartHolds
<1>4. /\ Cardinality(Q) \in Nat /\ DOMAIN Unseen(t) = 1 .. Cardinality(Q)
      /\ \A n \in 1 .. Cardinality(Q) : Unseen(t)[n] = t[Ascending(Q)[n]]
  BY <1>1, PartHolds
<1>5. Unseen(s) \in Seq(E) /\ Unseen(t) \in Seq(E)
  BY UnseenHolds
<1>6. Len(Unseen(s)) = Cardinality(P) /\ Len(Unseen(t)) = Cardinality(Q)
  BY <1>3, <1>4, <1>5
<1>7. ASSUME NEW n \in 1 .. Cardinality(P)
      PROVE  n \in 1 .. Cardinality(Q) /\ Unseen(t)[n] = Unseen(s)[n]
  <2>1. n \in 1 .. Cardinality({i \in Q : i <= m})
    BY <1>2
  <2>2. n \in 1 .. Cardinality(Q) /\ Ascending({i \in Q : i <= m})[n] = Ascending(Q)[n]
    BY <1>1, <2>1, PartBegins
  <2>3. Ascending(P)[n] = Ascending(Q)[n]
    BY <1>2, <2>2
  <2> QED
    BY <1>1, <1>3, <1>4, <2>2, <2>3
<1>8. Cardinality(P) <= Cardinality(Q)
  <2>1. P \in SUBSET Q
    BY <1>2
  <2> QED
    BY <1>1, <2>1, FS_Subset
<1> QED
  BY <1>6, <1>7, <1>8 DEF Begins

(* How long the first of some sequences are together.                      *)
LEMMA FlattenLength ==
  ASSUME NEW E, NEW n, NEW b, NEW seqs, NEW first, FirstOf(first, b, seqs, n, E)
  PROVE  Len(FlattenSeq(first)) = SumOn([i \in 1 .. n |-> Len(seqs[i])], 1 .. b)
<1> DEFINE lens == [i \in 1 .. n |-> Len(seqs[i])]
<1>1. /\ n \in Nat \ {0} /\ b \in Nat \ {0} /\ n \in 1 .. n /\ b \in 1 .. n
      /\ Len(first) = b
      /\ \A i \in 1 .. n : seqs[i] \in Seq(E)
      /\ \A i \in 1 .. b : first[i] = seqs[i]
  <2>1. n \in Nat /\ b \in 1 .. n
    BY Zenon DEF FirstOf
  <2>2. n \in Nat \ {0} /\ b \in Nat \ {0} /\ n \in 1 .. n
    BY <2>1
  <2> QED
    BY <2>1, <2>2, Zenon DEF FirstOf
<1>2. PICK f : Joins(f, first, b) /\ FlattenSeq(first) = f[b]
  BY <1>1, FlattenJoins
<1>3. \A j \in 1 .. b : first[j] \in Seq(E) /\ j \in 1 .. n /\ lens[j] = Len(first[j]) /\ lens[j] \in Nat
  BY <1>1
<1>4. \A j \in 1 .. b : f[j] \in Seq(E)
  <2>1. Joins(f, first, b) /\ b \in Nat /\ \A i \in 1 .. b : first[i] \in Seq(E)
    BY <1>1, <1>2, <1>3
  <2> QED
    BY <2>1, JoinsGrow
<1> HIDE DEF lens
<1> DEFINE Bad == {m \in 1 .. b : Len(f[m]) # SumOn(lens, 1 .. m)}
<1>5. ASSUME Bad # {} PROVE FALSE
  <2>1. PICK m \in Bad : \A k \in Bad : m <= k
    <3>1. Bad \in SUBSET Nat
      BY <1>1
    <3> HIDE DEF Bad
    <3> QED
      BY <1>5, <3>1, SmallestOf
  <2>2. m \in 1 .. b /\ m \in Nat /\ Len(f[m]) # SumOn(lens, 1 .. m)
    BY <1>1
  <2>3. f[m] = IF m = 1 THEN first[m] ELSE f[m - 1] \o first[m]
    BY <1>2, <2>2 DEF Joins
  <2>4. first[m] \in Seq(E) /\ lens[m] = Len(first[m]) /\ lens[m] \in Nat
    BY <1>3, <2>2
  <2>5. Counts(lens, 1 .. m - 1) /\ m \notin 1 .. m - 1 /\ 1 .. m = (1 .. m - 1) \cup {m}
    <3>1. IsFiniteSet(1 .. m - 1)
      <4>1. 1 \in Int /\ m - 1 \in Int
        BY <2>2
      <4> QED
        BY <4>1, FS_Interval
    <3>2. \A x \in 1 .. m - 1 : x \in 1 .. b
      BY <1>1, <2>2
    <3>3. m \notin 1 .. m - 1 /\ 1 .. m = (1 .. m - 1) \cup {m}
      BY <2>2
    <3> QED
      BY <1>3, <3>1, <3>2, <3>3 DEF Counts
  <2>6. SumOn(lens, 1 .. m) = SumOn(lens, 1 .. m - 1) + lens[m]
    <3>1. SumOn(lens, (1 .. m - 1) \cup {m}) = SumOn(lens, 1 .. m - 1) + lens[m]
      BY <2>4, <2>5, SumWithOneMore
    <3> QED
      BY <2>5, <3>1
  <2>7. CASE m = 1
    <3>1. 1 .. m - 1 = {} /\ f[m] = first[m]
      BY <2>3, <2>7
    <3>2. SumOn(lens, 1 .. m - 1) = 0
      BY <3>1, SumOfNone
    <3> QED
      BY <2>2, <2>4, <2>6, <3>1, <3>2
  <2>8. CASE m # 1
    <3>1. m - 1 \in 1 .. b /\ ~(m <= m - 1)
      BY <1>1, <2>2, <2>8
    <3>2. Len(f[m - 1]) = SumOn(lens, 1 .. m - 1)
      BY <2>1, <3>1
    <3>3. PICK s \in Seq(E), t \in Seq(E) : s = f[m - 1] /\ t = first[m]
      BY <1>4, <2>4, <3>1
    <3>4. Len(s \o t) = Len(s) + Len(t)
      BY JoinOfTwo
    <3> QED
      BY <2>2, <2>3, <2>4, <2>6, <2>8, <3>2, <3>3, <3>4
  <2> QED
    BY <2>7, <2>8
<1>6. b \notin Bad
  BY <1>5
<1> QED
  BY <1>1, <1>2, <1>6 DEF lens

(* Sequences one after the other are a sequence.                           *)
LEMMA FlattenIs ==
  ASSUME NEW E, NEW seqs, NEW n \in Nat, DOMAIN seqs = 1 .. n, Len(seqs) = n,
         \A i \in 1 .. n : seqs[i] \in Seq(E), seqs = [i \in 1 .. n |-> seqs[i]]
  PROVE  FlattenSeq(seqs) \in Seq(E)
<1>1. CASE n = 0
  <2>1. FlattenSeq(seqs) = seqs
    BY <1>1 DEF FlattenSeq
  <2>2. seqs \in Seq(E)
    BY <1>1
  <2> QED
    BY <2>1, <2>2
<1>2. CASE n # 0
  <2>1. FirstOf(seqs, n, seqs, n, E)
    BY <1>2 DEF FirstOf
  <2> QED
    BY <2>1, FlattenBegins
<1> QED
  BY <1>1, <1>2

-----------------------------------------------------------------------------
(* How many keys the blocks of a plan hand back.                           *)

(* What disjoint finite sets hold, they hold together.                     *)
Apart(R, F) ==
  /\ IsFiniteSet(F) /\ \A c \in F : IsFiniteSet(R[c])
  /\ \A c, d \in F : R[c] \cap R[d] # {} => c = d

LEMMA SumOfDisjoint ==
  ASSUME NEW R, NEW F, Apart(R, F)
  PROVE  /\ IsFiniteSet(UNION {R[c] : c \in F})
         /\ SumOn([c \in F |-> Cardinality(R[c])], F) = Cardinality(UNION {R[c] : c \in F})
<1> DEFINE U == UNION {R[c] : c \in F}
           counts == [c \in F |-> Cardinality(R[c])]
           N == Numbered(counts, F)
           number(c) == CHOOSE f : f \in Bijection(R[c], 1 .. Cardinality(R[c]))
           home(k) == CHOOSE c \in F : k \in R[c]
           place == [k \in U |-> <<home(k), number(home(k))[k]>>]
<1> USE DEF Apart
<1>1. ASSUME NEW c \in F
      PROVE  /\ Cardinality(R[c]) \in Nat
             /\ number(c) \in Bijection(R[c], 1 .. Cardinality(R[c]))
  <2>1. Cardinality(R[c]) \in Nat /\ IsFiniteSet(R[c])
    BY FS_CardinalityType
  <2>2. /\ IsFiniteSet(1 .. Cardinality(R[c]))
        /\ Cardinality(1 .. Cardinality(R[c])) = Cardinality(R[c])
    BY <2>1, FS_Interval
  <2>3. ExistsBijection(R[c], 1 .. Cardinality(R[c]))
    BY <2>1, <2>2, FS_SameCardinalityBij
  <2> QED
    BY <2>1, <2>3 DEF ExistsBijection
<1>2. ASSUME NEW k \in U
      PROVE  home(k) \in F /\ k \in R[home(k)]
  BY <1>2
<1>3. ASSUME NEW c \in F, NEW k \in R[c]
      PROVE  k \in U /\ home(k) = c
  <2>1. k \in U
    OBVIOUS
  <2>2. k \in R[home(k)] \cap R[c] /\ home(k) \in F
    BY <1>2, <2>1
  <2> QED
    BY <2>1, <2>2
<1>4. N = {p \in F \X Nat : p[2] \in 1 .. Cardinality(R[p[1]])}
  <2>1. N = UNION {{c} \X (1 .. counts[c]) : c \in F}
    BY DEF Numbered
  <2>2. \A c \in F : counts[c] = Cardinality(R[c])
    OBVIOUS
  <2> HIDE DEF counts, N
  <2>3. \A c \in F : {c} \X (1 .. counts[c]) = {p \in {c} \X Nat : p[2] \in 1 .. Cardinality(R[c])}
    BY <1>1, <2>2
  <2> QED
    BY <2>1, <2>3
<1> HIDE DEF U, N, number, home, counts
<1>5. place \in Injection(U, N)
  <2>1. ASSUME NEW k \in U
        PROVE  place[k] \in N
    <3>1. number(home(k))[k] \in 1 .. Cardinality(R[home(k)])
      BY <1>1, <1>2 DEF Bijection, Injection, Surjection
    <3> QED
      BY <1>2, <1>4, <3>1
  <2>2. ASSUME NEW k \in U, NEW l \in U, place[k] = place[l]
        PROVE  k = l
    <3>1. home(k) = home(l) /\ number(home(k))[k] = number(home(k))[l]
      BY <2>2
    <3>2. number(home(k)) \in Injection(R[home(k)], 1 .. Cardinality(R[home(k)]))
      BY <1>1, <1>2 DEF Bijection
    <3> QED
      BY <1>2, <3>1, <3>2 DEF Injection, IsInjective
  <2> QED
    BY <2>1, <2>2 DEF Injection, IsInjective
<1>6. place \in Surjection(U, N)
  <2>1. ASSUME NEW p \in N
        PROVE  \E k \in U : place[k] = p
    <3>1. p[1] \in F /\ p[2] \in 1 .. Cardinality(R[p[1]]) /\ p = <<p[1], p[2]>>
      BY <1>4
    <3>2. PICK k \in R[p[1]] : number(p[1])[k] = p[2]
      BY <1>1, <3>1 DEF Bijection, Surjection
    <3> QED
      BY <1>3, <3>1, <3>2
  <2>2. place \in [U -> N]
    BY <1>5 DEF Injection
  <2> QED
    BY <2>1, <2>2 DEF Surjection
<1>7. IsFiniteSet(U)
  <2> DEFINE held == {R[c] : c \in F}
             holds == [c \in F |-> R[c]]
  <2>1. holds \in Surjection(F, held)
    BY DEF Surjection
  <2>2. IsFiniteSet(held)
    <3> HIDE DEF held, holds
    <3> QED
      BY <2>1, FS_Surjection
  <2>3. \A S \in held : IsFiniteSet(S)
    OBVIOUS
  <2> QED
    BY <2>2, <2>3, FS_UNION DEF U
<1>8. Cardinality(U) = Cardinality(N)
  <2>1. ExistsBijection(U, N)
    BY <1>5, <1>6 DEF ExistsBijection, Bijection
  <2> QED
    BY <1>7, <2>1, FS_Bijection
<1> QED
  BY <1>7, <1>8 DEF SumOn, U, N, counts

-----------------------------------------------------------------------------
(* The draw order.                                                         *)

LEMMA CeilingIs ==
  ASSUME NEW a \in Nat, NEW d \in Nat \ {0}
  PROVE  /\ CeilDiv(a, d) \in Nat /\ a <= CeilDiv(a, d) * d
         /\ \A q \in Nat : q < CeilDiv(a, d) <=> q * d < a
<1> DEFINE m == (a + d - 1) \div d
<1>1. a + d - 1 \in Nat
  OBVIOUS
<1>2. m \in Nat /\ m * d <= a + d - 1 /\ a + d - 1 < (m + 1) * d
  BY <1>1, QuotientOf
<1>3. CeilDiv(a, d) = m
  BY DEF CeilDiv
<1> HIDE DEF m
<1>4. (m + 1) * d = m * d + d
  BY <1>2
<1>5. PICK x \in Nat : x = m * d
  BY <1>2
<1>6. a <= m * d
  BY <1>2, <1>4, <1>5
<1>7. ASSUME NEW q \in Nat
      PROVE  q < m <=> q * d < a
  <2>1. PICK y \in Nat : y = q * d
    OBVIOUS
  <2>2. CASE q < m
    <3>1. PICK r \in Nat : m = q + 1 + r
      <4>1. m - q - 1 \in Nat /\ m = q + 1 + (m - q - 1)
        BY <1>2, <2>2
      <4> QED
        BY <4>1
    <3>2. m * d = q * d + d + r * d /\ r * d \in Nat
      BY <3>1
    <3>3. PICK z \in Nat : z = r * d
      BY <3>2
    <3>4. y + d + z <= a + d - 1
      BY <1>2, <2>1, <3>2, <3>3
    <3> QED
      BY <2>1, <2>2, <3>4
  <2>3. CASE ~(q < m)
    <3>1. PICK r \in Nat : q = m + r
      <4>1. q - m \in Nat /\ q = m + (q - m)
        BY <1>2, <2>3
      <4> QED
        BY <4>1
    <3>2. q * d = m * d + r * d /\ r * d \in Nat
      BY <1>2, <3>1
    <3>3. PICK z \in Nat : z = r * d
      BY <3>2
    <3> QED
      BY <1>5, <1>6, <2>1, <2>3, <3>2, <3>3
  <2> QED
    BY <2>2, <2>3
<1> QED
  BY <1>2, <1>3, <1>6, <1>7

(* The b-th window of a permutation: all of them are full but the last.    *)
WindowFrom(w, perm, from, size, E) ==
  /\ w \in Seq(E) /\ Len(w) \in 1 .. size /\ from \in Nat /\ from + Len(w) <= Len(perm)
  /\ \A j \in 1 .. Len(w) : w[j] = perm[from + j]

LEMMA WindowIs ==
  ASSUME NEW E, NEW perm \in Seq(E), NEW size \in Nat \ {0}, NEW i \in 1 .. CeilDiv(Len(perm), size)
  PROVE  /\ WindowFrom(Windows(perm, size)[i], perm, (i - 1) * size, size, E)
         /\ i < CeilDiv(Len(perm), size) => Len(Windows(perm, size)[i]) = size
<1> DEFINE n == Len(perm)
           k == CeilDiv(n, size)
           W == Windows(perm, size)
<1>1. n \in Nat
  OBVIOUS
<1>2. k \in Nat /\ n <= k * size /\ \A q \in Nat : q < k <=> q * size < n
  BY <1>1, CeilingIs
<1>3. i - 1 \in Nat /\ i \in Nat /\ i - 1 < k
  BY <1>2
<1>4. PICK from \in Nat : from = (i - 1) * size
  BY <1>3
<1>5. from < n
  BY <1>2, <1>3, <1>4
<1>6. i * size = from + size
  BY <1>3, <1>4
<1>7. PICK to \in Nat : to = MinOf(i * size, n)
  BY <1>1, <1>4, <1>6 DEF MinOf
<1>8. to = (IF from + size <= n THEN from + size ELSE n)
  BY <1>6, <1>7 DEF MinOf
<1>9. W[i] = SubSeq(perm, from + 1, to)
  BY <1>4, <1>7 DEF Windows
<1>10. from + 1 \in 1 .. n /\ to \in 1 .. n /\ from + 1 <= to /\ to <= from + size
  BY <1>1, <1>4, <1>5, <1>8
<1> HIDE DEF n, k, W
<1>11. /\ W[i] \in Seq(E) /\ Len(W[i]) = to - from
      /\ \A j \in 1 .. to - from : W[i][j] = perm[from + j]
  <2>1. SubSeq(perm, from + 1, to) = [j \in 1 .. to - from |-> perm[from + j]]
    BY <1>1, <1>4, <1>7, <1>10 DEF n
  <2>2. \A j \in 1 .. to - from : from + j \in 1 .. n
    BY <1>1, <1>4, <1>7, <1>10
  <2>3. \A x \in 1 .. n : perm[x] \in E
    BY DEF n
  <2>4. PICK m \in Nat : m = to - from
    BY <1>4, <1>7, <1>10
  <2>5. W[i] = [j \in 1 .. m |-> perm[from + j]]
    BY <1>9, <2>1, <2>4
  <2>6. \A j \in 1 .. m : perm[from + j] \in E
    BY <2>2, <2>3, <2>4
  <2> QED
    BY <2>4, <2>5, <2>6
<1>12. i < k => to = from + size
  <2> SUFFICES ASSUME i < k PROVE from + size <= n
    BY <1>8
  <2>1. i * size < n
    BY <1>2, <1>3
  <2> QED
    BY <1>1, <1>4, <1>6, <2>1
<1>13. PICK m \in Nat : m = to - from
  BY <1>4, <1>7, <1>10
<1>14. Len(W[i]) = m /\ \A j \in 1 .. m : W[i][j] = perm[from + j]
  BY <1>11, <1>13
<1>15. m \in 1 .. size /\ from + m <= n /\ (i < k => m = size)
  BY <1>1, <1>4, <1>7, <1>10, <1>12, <1>13
<1> QED
  BY <1>4, <1>11, <1>14, <1>15 DEF WindowFrom, n, k, W

(* Every place of a permutation is in a window.                            *)
LEMMA WindowsCover ==
  ASSUME NEW E, NEW perm \in Seq(E), NEW size \in Nat \ {0}, NEW j \in 1 .. Len(perm)
  PROVE  \E i \in 1 .. CeilDiv(Len(perm), size) :
           \E l \in 1 .. Len(Windows(perm, size)[i]) : j = (i - 1) * size + l
<1> DEFINE n == Len(perm)
           k == CeilDiv(n, size)
           W == Windows(perm, size)
<1>1. n \in Nat /\ j \in Nat /\ j - 1 \in Nat /\ j <= n
  OBVIOUS
<1>2. k \in Nat /\ n <= k * size /\ \A q \in Nat : q < k <=> q * size < n
  BY <1>1, CeilingIs
<1>3. PICK q \in Nat : q * size <= j - 1 /\ j - 1 < (q + 1) * size
  BY <1>1, QuotientOf
<1>4. PICK from \in Nat : from = q * size
  BY <1>3
<1>5. (q + 1) * size = from + size /\ (q + 1) - 1 = q
  BY <1>3, <1>4
<1>6. q < k
  BY <1>1, <1>2, <1>3, <1>4
<1>7. q + 1 \in 1 .. k
  BY <1>2, <1>3, <1>6
<1>8. /\ Len(W[q + 1]) \in 1 .. size
      /\ q + 1 < k => Len(W[q + 1]) = size
      /\ W[q + 1] = SubSeq(perm, from + 1, MinOf(from + size, n))
  <2>1. W[q + 1] = SubSeq(perm, from + 1, MinOf(from + size, n))
    BY <1>4, <1>5, <1>7 DEF Windows
  <2>2. PICK b \in 1 .. k : b = q + 1
    BY <1>7
  <2> HIDE DEF W, k, n
  <2>3. WindowFrom(W[b], perm, (b - 1) * size, size, E) /\ (b < k => Len(W[b]) = size)
    BY WindowIs DEF W, k, n
  <2>4. Len(W[b]) \in 1 .. size
    BY <2>3 DEF WindowFrom
  <2> QED
    BY <2>1, <2>2, <2>3, <2>4
<1>9. Len(W[q + 1]) = MinOf(from + size, n) - from
  <2>1. PICK to \in Nat : to = MinOf(from + size, n)
    BY <1>1, <1>4 DEF MinOf
  <2>2. from + 1 \in 1 .. n /\ to \in 1 .. n /\ from + 1 <= to
    BY <1>1, <1>3, <1>4, <2>1 DEF MinOf
  <2> HIDE DEF W, n
  <2>3. Len(SubSeq(perm, from + 1, to)) = to - from
    BY <1>1, <1>4, <2>1, <2>2 DEF n
  <2> QED
    BY <1>8, <2>1, <2>3
<1>10. j - from \in 1 .. Len(W[q + 1]) /\ j = from + (j - from)
  BY <1>1, <1>3, <1>4, <1>5, <1>9 DEF MinOf
<1> QED
  BY <1>4, <1>5, <1>7, <1>10

(* The rows of some chunks: all their anchors that the source has.         *)
RowsOf(chunks, spc, n) ==
  {row \in Nat \X Nat : row[1] \in chunks /\ row[2] < spc /\ Anchor(row, spc) < n}

LEMMA WholeIsMultiple ==
  ASSUME NEW n \in Nat, NEW d \in Nat \ {0}, n % d = 0
  PROVE  n = (n \div d) * d /\ n \div d \in Nat
OBVIOUS

LEMMA ChunkRowsAre ==
  ASSUME NEW n \in Nat, NEW spc \in Nat \ {0}, NEW cid \in Span(0, CeilDiv(n, spc))
  PROVE  LET r == ChunkRows(cid, spc, n)
         IN  /\ r \in Seq(Nat \X Nat) /\ Len(r) \in 1 .. spc
             /\ n % spc = 0 => Len(r) = spc
             /\ Terms(r) = RowsOf({cid}, spc, n)
             /\ \A i, j \in 1 .. Len(r) : r[i] = r[j] => i = j
<1> DEFINE r == ChunkRows(cid, spc, n)
           len == MinOf(spc, n - cid * spc)
<1>1. CeilDiv(n, spc) \in Nat /\ \A q \in Nat : q < CeilDiv(n, spc) <=> q * spc < n
  BY CeilingIs
<1>2. cid \in Nat /\ cid < CeilDiv(n, spc)
  BY <1>1 DEF Span
<1>3. PICK from \in Nat : from = cid * spc
  BY <1>2
<1>4. from < n
  BY <1>1, <1>2, <1>3
<1>5. len \in 1 .. spc /\ len = IF spc <= n - from THEN spc ELSE n - from
  BY <1>3, <1>4 DEF MinOf
<1>6. r = [i \in 1 .. len |-> <<cid, i - 1>>]
  BY DEF ChunkRows
<1>7. n % spc = 0 => len = spc
  <2> SUFFICES ASSUME n % spc = 0 PROVE spc <= n - from
    BY <1>5
  <2>1. PICK q \in Nat : n = q * spc
    BY WholeIsMultiple
  <2>2. cid < q
    <3> SUFFICES ASSUME ~(cid < q) PROVE FALSE
      OBVIOUS
    <3>1. PICK z \in Nat : cid = q + z
      <4>1. cid - q \in Nat /\ cid = q + (cid - q)
        BY <1>2, <2>1
      <4> QED
        BY <4>1
    <3>2. cid * spc = q * spc + z * spc /\ z * spc \in Nat
      BY <2>1, <3>1
    <3>3. PICK y \in Nat : y = z * spc
      BY <3>2
    <3> QED
      BY <1>3, <1>4, <2>1, <3>2, <3>3
  <2>3. PICK z \in Nat : q = cid + 1 + z
    <3>1. q - cid - 1 \in Nat /\ q = cid + 1 + (q - cid - 1)
      BY <1>2, <2>1, <2>2
    <3> QED
      BY <3>1
  <2>4. q * spc = cid * spc + spc + z * spc /\ z * spc \in Nat
    BY <1>2, <2>3
  <2>5. PICK y \in Nat : y = z * spc
    BY <2>4
  <2> QED
    BY <1>3, <2>1, <2>4, <2>5
<1> HIDE DEF r, len
<1>8. PICK m \in 1 .. spc : m = len
  BY <1>5
<1>9. r = [i \in 1 .. m |-> <<cid, i - 1>>] /\ m \in Nat
  BY <1>6, <1>8
<1>10. \A i \in 1 .. m : <<cid, i - 1>> \in Nat \X Nat
  BY <1>2, <1>9
<1>11. r \in Seq(Nat \X Nat) /\ Len(r) = m
  BY <1>9, <1>10
<1>12. Terms(r) = {<<cid, i - 1>> : i \in 1 .. m}
  BY <1>9, <1>11 DEF Terms
<1>13. ASSUME NEW row \in Nat \X Nat, row[1] = cid
       PROVE  row[2] < spc /\ Anchor(row, spc) < n <=> row[2] + 1 \in 1 .. m
  <2>1. Anchor(row, spc) = from + row[2] /\ row[2] \in Nat
    BY <1>3, <1>13 DEF Anchor
  <2> QED
    BY <1>3, <1>4, <1>5, <1>8, <2>1
<1>14. Terms(r) = RowsOf({cid}, spc, n)
  <2>1. ASSUME NEW row \in Terms(r)
        PROVE  row \in RowsOf({cid}, spc, n)
    <3>1. PICK i \in 1 .. m : row = <<cid, i - 1>>
      BY <1>12
    <3>2. row \in Nat \X Nat /\ row[1] = cid /\ row[2] + 1 \in 1 .. m
      BY <1>10, <3>1
    <3> QED
      BY <1>13, <3>2 DEF RowsOf
  <2>2. ASSUME NEW row \in RowsOf({cid}, spc, n)
        PROVE  row \in Terms(r)
    <3>1. row \in Nat \X Nat /\ row[1] = cid /\ row[2] < spc /\ Anchor(row, spc) < n
      BY DEF RowsOf
    <3>2. row[2] + 1 \in 1 .. m
      BY <1>13, <3>1
    <3>3. row = <<cid, (row[2] + 1) - 1>>
      BY <3>1
    <3> QED
      BY <1>12, <3>2, <3>3
  <2> QED
    BY <2>1, <2>2
<1>15. \A i, j \in 1 .. Len(r) : r[i] = r[j] => i = j
  BY <1>9, <1>11
<1> QED
  BY <1>5, <1>7, <1>8, <1>11, <1>14, <1>15 DEF r

(* What is the same for every member sums up to a product.                 *)
LEMMA SumOfEqual ==
  ASSUME NEW m \in Nat, NEW d \in Nat
  PROVE  SumOn([i \in 1 .. m |-> d], 1 .. m) = m * d
<1>1. Numbered([i \in 1 .. m |-> d], 1 .. m) = (1 .. m) \X (1 .. d)
  BY DEF Numbered
<1>2. /\ IsFiniteSet(1 .. m) /\ Cardinality(1 .. m) = m
      /\ IsFiniteSet(1 .. d) /\ Cardinality(1 .. d) = d
  BY FS_Interval
<1>3. Cardinality((1 .. m) \X (1 .. d)) = Cardinality(1 .. m) * Cardinality(1 .. d)
  BY <1>2, FS_Product
<1> QED
  BY <1>1, <1>2, <1>3 DEF SumOn

(* Some sequences, and what they are when joined.                          *)
Rowed(seqs, k, E) ==
  /\ k \in Nat /\ Len(seqs) = k /\ DOMAIN seqs = 1 .. k
  /\ seqs = [i \in 1 .. k |-> seqs[i]]
  /\ \A i \in 1 .. k : seqs[i] \in Seq(E)
LengthsOf(seqs) == [i \in DOMAIN seqs |-> Len(seqs[i])]

LEMMA Joined ==
  ASSUME NEW E, NEW k, NEW seqs, Rowed(seqs, k, E)
  PROVE  /\ FlattenSeq(seqs) \in Seq(E) /\ Terms(FlattenSeq(seqs)) = TermsUpTo(seqs, k)
         /\ Len(FlattenSeq(seqs)) = SumOn(LengthsOf(seqs), 1 .. k)
         /\ Counts(LengthsOf(seqs), 1 .. k)
<1>1. LengthsOf(seqs) = [i \in 1 .. k |-> Len(seqs[i])] /\ k \in Nat
  BY DEF LengthsOf, Rowed
<1>2. Counts(LengthsOf(seqs), 1 .. k)
  <2>1. IsFiniteSet(1 .. k)
    BY <1>1, FS_Interval
  <2>2. \A i \in 1 .. k : Len(seqs[i]) \in Nat
    BY DEF Rowed
  <2> QED
    BY <1>1, <2>1, <2>2 DEF Counts
<1>3. CASE k = 0
  <2>1. seqs \in Seq(E) /\ Len(seqs) = 0
    <3>1. seqs = [i \in 1 .. 0 |-> seqs[i]] /\ \A i \in 1 .. 0 : seqs[i] \in E
      BY <1>3 DEF Rowed
    <3> QED
      BY <1>3, <3>1 DEF Rowed
  <2>2. FlattenSeq(seqs) = seqs
    BY <2>1 DEF FlattenSeq
  <2>3. Terms(seqs) = {} /\ TermsUpTo(seqs, k) = {}
    BY <1>3, <2>1 DEF Terms, TermsUpTo
  <2>4. SumOn(LengthsOf(seqs), 1 .. k) = 0
    <3>1. Numbered(LengthsOf(seqs), 1 .. k) = {}
      BY <1>3 DEF Numbered
    <3> QED
      BY <3>1, FS_EmptySet DEF SumOn
  <2> QED
    BY <1>2, <2>1, <2>2, <2>3, <2>4
<1>4. CASE k # 0
  <2>1. FirstOf(seqs, k, seqs, k, E)
    BY <1>1, <1>4 DEF FirstOf, Rowed
  <2>2. /\ FlattenSeq(seqs) \in Seq(E) /\ Terms(FlattenSeq(seqs)) = TermsUpTo(seqs, k)
    BY <2>1, FlattenBegins
  <2>3. Len(FlattenSeq(seqs)) = SumOn([i \in 1 .. k |-> Len(seqs[i])], 1 .. k)
    BY <2>1, FlattenLength
  <2> QED
    BY <1>1, <1>2, <2>2, <2>3
<1> QED
  BY <1>3, <1>4

(* A window of chunks, drawn: its rows are those of its chunks.            *)
ChunkIdsOf(window) == {window[i] : i \in 1 .. Len(window)}
WindowOf(window, spc, n) ==
  /\ Len(window) \in Nat \ {0} /\ DOMAIN window = 1 .. Len(window)
  /\ \A i \in 1 .. Len(window) : window[i] \in Span(0, CeilDiv(n, spc))

LEMMA RowsOfWindowAre ==
  ASSUME NEW n \in Nat, NEW spc \in Nat \ {0}, NEW window, WindowOf(window, spc, n)
  PROVE  /\ RowsOfWindow(window, spc, n) \in Seq(Nat \X Nat)
         /\ Len(RowsOfWindow(window, spc, n)) > 0
         /\ n % spc = 0 => Len(RowsOfWindow(window, spc, n)) = Len(window) * spc
         /\ Terms(RowsOfWindow(window, spc, n)) = RowsOf(ChunkIdsOf(window), spc, n)
<1> DEFINE k == Len(window)
           seqs == [i \in DOMAIN window |-> ChunkRows(window[i], spc, n)]
           E == Nat \X Nat
           rows == FlattenSeq(seqs)
<1>1. k \in Nat \ {0} /\ DOMAIN window = 1 .. k
  BY DEF WindowOf
<1>2. RowsOfWindow(window, spc, n) = rows
  BY DEF RowsOfWindow
<1>3. ASSUME NEW i \in 1 .. k
      PROVE  /\ seqs[i] \in Seq(E) /\ Len(seqs[i]) \in 1 .. spc
             /\ n % spc = 0 => Len(seqs[i]) = spc
             /\ Terms(seqs[i]) = RowsOf({window[i]}, spc, n)
  <2>1. window[i] \in Span(0, CeilDiv(n, spc))
    BY DEF WindowOf
  <2>2. seqs[i] = ChunkRows(window[i], spc, n)
    BY <1>1
  <2> HIDE DEF seqs, k
  <2>3. PICK cid \in Span(0, CeilDiv(n, spc)) : cid = window[i]
    BY <2>1
  <2>4. /\ ChunkRows(cid, spc, n) \in Seq(E) /\ Len(ChunkRows(cid, spc, n)) \in 1 .. spc
        /\ n % spc = 0 => Len(ChunkRows(cid, spc, n)) = spc
        /\ Terms(ChunkRows(cid, spc, n)) = RowsOf({cid}, spc, n)
    BY ChunkRowsAre
  <2> QED
    BY <2>2, <2>3, <2>4
<1>4. Rowed(seqs, k, E)
  <2>1. DOMAIN seqs = 1 .. k /\ Len(seqs) = k /\ seqs = [i \in 1 .. k |-> seqs[i]]
    BY <1>1
  <2> HIDE DEF seqs, k, E
  <2> QED
    BY <1>1, <1>3, <2>1 DEF Rowed
<1> HIDE DEF seqs, rows, E, k
<1>5. /\ rows \in Seq(E) /\ Terms(rows) = TermsUpTo(seqs, k)
      /\ Len(rows) = SumOn(LengthsOf(seqs), 1 .. k)
  BY <1>4, Joined DEF rows
<1>6. Terms(rows) = RowsOf(ChunkIdsOf(window), spc, n)
  <2>1. Terms(rows) = UNION {RowsOf({window[i]}, spc, n) : i \in 1 .. k}
    <3>1. \A i \in 1 .. k : Terms(seqs[i]) = RowsOf({window[i]}, spc, n)
      BY <1>3
    <3> QED
      BY <1>5, <3>1 DEF TermsUpTo
  <2> QED
    BY <2>1 DEF RowsOf, ChunkIdsOf, k
<1>7. Len(rows) > 0
  <2>1. 1 \in 1 .. k
    BY <1>1
  <2>2. Len(seqs[1]) \in 1 .. spc
    BY <1>3, <2>1
  <2>3. seqs[1][1] \in Terms(rows)
    <3>1. 1 \in 1 .. Len(seqs[1])
      BY <2>2
    <3>2. seqs[1][1] \in Terms(seqs[1])
      BY <3>1 DEF Terms
    <3> QED
      BY <1>5, <2>1, <3>2 DEF TermsUpTo
  <2>4. PICK m \in Nat : m = Len(rows)
    BY <1>5
  <2> QED
    BY <2>3, <2>4 DEF Terms
<1>8. n % spc = 0 => Len(rows) = k * spc
  <2> SUFFICES ASSUME n % spc = 0 PROVE Len(rows) = k * spc
    OBVIOUS
  <2>1. LengthsOf(seqs) = [i \in 1 .. k |-> spc]
    <3>1. \A i \in 1 .. k : Len(seqs[i]) = spc
      BY <1>3
    <3> QED
      BY <1>4, <3>1 DEF LengthsOf, Rowed
  <2> QED
    BY <1>1, <1>5, <2>1, SumOfEqual
<1> QED
  BY <1>2, <1>5, <1>6, <1>7, <1>8 DEF k, E

(* Where the b-th of some sequences stands in what they are joined to.     *)
LEMMA Placed ==
  ASSUME NEW E, NEW k, NEW seqs, Rowed(seqs, k, E), NEW b \in 1 .. k
  PROVE  LET before == SumOn(LengthsOf(seqs), 1 .. b - 1)
         IN  /\ before \in Nat
             /\ SumOn(LengthsOf(seqs), 1 .. b) = before + Len(seqs[b])
             /\ before + Len(seqs[b]) <= Len(FlattenSeq(seqs))
             /\ \A i \in 1 .. Len(seqs[b]) : FlattenSeq(seqs)[before + i] = seqs[b][i]
<1> DEFINE lens == LengthsOf(seqs)
           before == SumOn(lens, 1 .. b - 1)
           all == FlattenSeq(seqs)
<1>1. /\ k \in Nat /\ Len(seqs) = k /\ \A i \in 1 .. k : seqs[i] \in Seq(E)
      /\ b \in Nat /\ b - 1 \in Nat /\ b <= k /\ k # 0
  BY DEF Rowed
<1>2. /\ Counts(lens, 1 .. k) /\ lens[b] = Len(seqs[b]) /\ Len(all) = SumOn(lens, 1 .. k)
      /\ lens = [i \in 1 .. k |-> Len(seqs[i])]
  <2>1. lens = [i \in 1 .. k |-> Len(seqs[i])]
    BY DEF LengthsOf, Rowed
  <2>2. Counts(lens, 1 .. k) /\ Len(all) = SumOn(lens, 1 .. k)
    BY Joined
  <2> QED
    BY <2>1, <2>2
<1>3. Counts(lens, 1 .. b) /\ Counts(lens, 1 .. b - 1) /\ before \in Nat /\ SumOn(lens, 1 .. b) <= Len(all)
  <2>1. 1 .. b \in SUBSET (1 .. k) /\ 1 .. b - 1 \in SUBSET (1 .. k)
    BY <1>1
  <2> HIDE DEF lens, all
  <2> QED
    BY <1>2, <2>1, SumOfLess
<1>4. SumOn(lens, 1 .. b) = before + Len(seqs[b])
  <2>1. 1 .. b = (1 .. b - 1) \cup {b} /\ b \notin 1 .. b - 1
    BY <1>1
  <2>2. lens[b] \in Nat
    BY <1>1, <1>2
  <2>3. SumOn(lens, (1 .. b - 1) \cup {b}) = SumOn(lens, 1 .. b - 1) + lens[b]
    <3> DEFINE S == 1 .. b - 1
    <3>1. Counts(lens, S) /\ b \notin S
      BY <1>3, <2>1
    <3> HIDE DEF lens, S
    <3>2. SumOn(lens, S \cup {b}) = SumOn(lens, S) + lens[b]
      BY <2>2, <3>1, SumWithOneMore
    <3> QED
      BY <3>2 DEF S
  <2> QED
    BY <1>2, <2>1, <2>3
<1>5. PICK f : Joins(f, seqs, k) /\ all = f[k]
  BY <1>1, FlattenJoins
<1>6. f[b] = IF b = 1 THEN seqs[b] ELSE f[b - 1] \o seqs[b]
  <2>1. f = [i \in 1 .. k |-> IF i = 1 THEN seqs[i] ELSE f[i - 1] \o seqs[i]]
    BY <1>5 DEF Joins
  <2> QED
    BY <2>1
<1>7. Begins(f[b], all) /\ f[b] \in Seq(E)
  <2>1. k \in 1 .. k /\ b \in 1 .. k
    BY <1>1
  <2>2. \A j \in 1 .. k : f[j] \in Seq(E) /\ \A i \in 1 .. j : Begins(f[i], f[j])
    BY <1>1, <1>5, JoinsGrow
  <2> QED
    BY <1>5, <2>1, <2>2
<1>8. \A i \in 1 .. Len(seqs[b]) : f[b][before + i] = seqs[b][i] /\ before + i \in 1 .. Len(f[b])
  <2>1. CASE b = 1
    <3>1. before = 0
      <4>1. 1 .. b - 1 = {}
        BY <2>1
      <4> QED
        BY <4>1, SumOfNone
    <3> QED
      BY <1>1, <1>6, <2>1, <3>1
  <2>2. CASE b # 1
    <3>1. PICK a \in 1 .. k : a = b - 1
      BY <1>1, <2>2
    <3>2. f[a] \in Seq(E)
      BY <1>1, <1>5, <3>1, JoinsGrow
    <3>3. Len(f[a]) = before
      <4> DEFINE first == [i \in 1 .. a |-> seqs[i]]
      <4>1. /\ Len(first) = a /\ a \in Nat \ {0} /\ \A i \in 1 .. a : first[i] = seqs[i]
        BY <3>1
      <4> HIDE DEF first
      <4>2. FirstOf(first, a, seqs, k, E)
        BY <1>1, <3>1, <4>1 DEF FirstOf
      <4>3. Len(FlattenSeq(first)) = SumOn(lens, 1 .. a)
        BY <1>2, <4>2, FlattenLength
      <4>4. PICK g : Joins(g, first, a) /\ FlattenSeq(first) = g[a]
        BY <4>1, FlattenJoins
      <4>5. g[a] = f[a]
        BY <1>1, <1>5, <3>1, <4>1, <4>4, JoinsAgree
      <4> QED
        BY <3>1, <4>3, <4>4, <4>5
    <3>4. f[b] = f[a] \o seqs[b] /\ seqs[b] \in Seq(E)
      BY <1>1, <1>6, <2>2, <3>1
    <3> HIDE DEF before
    <3>5. PICK s \in Seq(E), t \in Seq(E) : s = f[a] /\ t = seqs[b]
      BY <3>2, <3>4
    <3>6. \A i \in 1 .. Len(t) : (s \o t)[Len(s) + i] = t[i] /\ Len(s) + i \in 1 .. Len(s \o t)
      OBVIOUS
    <3> QED
      BY <3>3, <3>4, <3>5, <3>6
  <2> QED
    BY <2>1, <2>2
<1> HIDE DEF before, all
<1>9. \A i \in 1 .. Len(seqs[b]) : all[before + i] = seqs[b][i]
  BY <1>7, <1>8 DEF Begins
<1> QED
  BY <1>3, <1>4, <1>9 DEF before, all

(* Blocks that are contiguous, gapless and cover every row, and no one of  *)
(* them is empty (shuffle.py, DrawOrder).                                  *)
Laid(order) ==
  /\ order.rows \in Seq(Nat \X Nat) /\ order.bounds \in Seq(Nat) /\ Len(order.bounds) > 0
  /\ order.bounds[1] = 0 /\ order.bounds[Len(order.bounds)] = Len(order.rows)
  /\ \A a, b \in 1 .. Len(order.bounds) : a < b => order.bounds[a] < order.bounds[b]

LEMMA BlocksAreLaid ==
  ASSUME NEW k, NEW blocks, Rowed(blocks, k, Nat \X Nat), \A b \in 1 .. k : Len(blocks[b]) > 0
  PROVE  /\ Laid(FromBlocks(blocks)) /\ Len(FromBlocks(blocks).bounds) = k + 1
         /\ FromBlocks(blocks).rows = FlattenSeq(blocks)
         /\ \A b \in 1 .. k :
              /\ FromBlocks(blocks).bounds[b] = SumOn(LengthsOf(blocks), 1 .. b - 1)
              /\ FromBlocks(blocks).bounds[b + 1] = FromBlocks(blocks).bounds[b] + Len(blocks[b])
<1> DEFINE lens == LengthsOf(blocks)
           E == Nat \X Nat
           order == FromBlocks(blocks)
           upTo(b) == SumOn(lens, 1 .. b - 1)
<1>1. k \in Nat /\ Len(blocks) = k /\ \A b \in 1 .. k : blocks[b] \in Seq(E)
  BY DEF Rowed
<1>2. /\ FlattenSeq(blocks) \in Seq(E) /\ Len(FlattenSeq(blocks)) = SumOn(lens, 1 .. k) /\ Counts(lens, 1 .. k)
  BY Joined
<1>3. order.rows = FlattenSeq(blocks) /\ order.bounds = [b \in 1 .. k + 1 |-> upTo(b)]
  BY <1>1 DEF FromBlocks, Order, LengthsOf
<1> HIDE DEF order, upTo, E, lens
<1>4. ASSUME NEW a \in 1 .. k + 1, NEW b \in 1 .. k + 1, a <= b
      PROVE  upTo(a) \in Nat /\ upTo(a) <= upTo(b)
  <2>1. 1 .. a - 1 \in SUBSET (1 .. b - 1) /\ 1 .. b - 1 \in SUBSET (1 .. k)
    BY <1>1, <1>4
  <2>2. Counts(lens, 1 .. b - 1)
    BY <1>2, <2>1, SumOfLess
  <2> QED
    BY <2>1, <2>2, SumOfLess DEF upTo
<1>5. ASSUME NEW b \in 1 .. k
      PROVE  upTo(b + 1) = upTo(b) + Len(blocks[b]) /\ upTo(b) < upTo(b + 1)
  <2>1. upTo(b + 1) = upTo(b) + Len(blocks[b]) /\ upTo(b) \in Nat
    <3>1. (b + 1) - 1 = b
      BY <1>1
    <3> QED
      BY <3>1, Placed DEF upTo, lens
  <2>2. Len(blocks[b]) \in Nat /\ Len(blocks[b]) > 0
    BY <1>1
  <2> QED
    BY <2>1, <2>2
<1>6. \A a, b \in 1 .. k + 1 : a < b => upTo(a) < upTo(b)
  <2> SUFFICES ASSUME NEW a \in 1 .. k + 1, NEW b \in 1 .. k + 1, a < b
               PROVE  upTo(a) < upTo(b)
    OBVIOUS
  <2>1. a \in 1 .. k /\ a + 1 \in 1 .. k + 1 /\ a + 1 <= b
    BY <1>1
  <2>2. upTo(a) < upTo(a + 1) /\ upTo(a + 1) <= upTo(b)
    BY <1>4, <1>5, <2>1
  <2>3. upTo(a) \in Nat /\ upTo(a + 1) \in Nat /\ upTo(b) \in Nat
    BY <1>4, <2>1
  <2> QED
    BY <2>2, <2>3
<1>7. \A b \in 1 .. k + 1 : upTo(b) \in Nat
  BY <1>1, <1>4
<1>8. order.bounds \in Seq(Nat) /\ Len(order.bounds) = k + 1
  BY <1>1, <1>3, <1>7
<1>9. upTo(1) = 0
  <2>1. 1 .. 1 - 1 = {}
    OBVIOUS
  <2> QED
    BY <2>1, SumOfNone DEF upTo
<1>10. upTo(k + 1) = Len(order.rows)
  <2>1. (k + 1) - 1 = k
    BY <1>1
  <2> QED
    BY <1>2, <1>3, <2>1 DEF upTo
<1>11. Laid(order)
  <2>1. 1 \in 1 .. k + 1 /\ k + 1 \in 1 .. k + 1 /\ k + 1 > 0
    BY <1>1
  <2> QED
    BY <1>2, <1>3, <1>6, <1>8, <1>9, <1>10, <2>1 DEF Laid, E
<1>12. \A b \in 1 .. k : order.bounds[b] = upTo(b) /\ order.bounds[b + 1] = upTo(b + 1)
  BY <1>1, <1>3
<1> QED
  BY <1>3, <1>5, <1>8, <1>11, <1>12 DEF order, upTo, lens

(* The members of a set in ascending order rise.                           *)
LEMMA AscendingRises ==
  ASSUME NEW S \in SUBSET Nat, IsFiniteSet(S), NEW i \in 1 .. Cardinality(S), NEW j \in 1 .. Cardinality(S), i < j
  PROVE  Ascending(S)[i] \in S /\ Ascending(S)[j] \in S /\ Ascending(S)[i] < Ascending(S)[j]
<1>1. /\ Ascending(S) \in [1 .. Cardinality(S) -> S] /\ Cardinality(S) \in Nat
      /\ RankIn(S, Ascending(S)[i]) = i /\ RankIn(S, Ascending(S)[j]) = j
  BY AscendingCounts
<1>2. PICK x \in S, y \in S : x = Ascending(S)[i] /\ y = Ascending(S)[j]
  BY <1>1
<1>3. RankIn(S, x) = i /\ RankIn(S, y) = j
  BY <1>1, <1>2
<1>4. x \in Nat /\ y \in Nat /\ i \in Nat /\ j \in Nat
  BY <1>1, <1>2
<1>5. ~(y < x)
  <2> SUFFICES ASSUME y < x PROVE FALSE
    OBVIOUS
  <2>1. RankIn(S, y) < RankIn(S, x)
    BY <1>2, RankCounts
  <2> QED
    BY <1>3, <1>4, <2>1
<1>6. x # y
  BY <1>3, <1>4
<1> QED
  BY <1>2, <1>4, <1>5, <1>6

(* The steps of a sequence that never falls.                               *)
Climbs(moved, n) ==
  /\ n \in Nat \ {0} /\ moved \in [1 .. n -> Nat] /\ moved[1] = 0
  /\ \A a, b \in 1 .. n : a <= b => moved[a] <= moved[b]
StepsOf(moved) == {b \in DOMAIN moved : b = 1 \/ moved[b] > moved[b - 1]}

LEMMA StepsRise ==
  ASSUME NEW n, NEW moved, Climbs(moved, n)
  PROVE  /\ At(moved, StepsOf(moved)) \in Seq(Nat) /\ Len(At(moved, StepsOf(moved))) > 0
         /\ At(moved, StepsOf(moved))[1] = 0
         /\ At(moved, StepsOf(moved))[Len(At(moved, StepsOf(moved)))] = moved[n]
         /\ \A a, b \in 1 .. Len(At(moved, StepsOf(moved))) :
              a < b => At(moved, StepsOf(moved))[a] < At(moved, StepsOf(moved))[b]
         /\ \A a \in 1 .. Len(At(moved, StepsOf(moved))) :
              \E b \in 1 .. n : At(moved, StepsOf(moved))[a] = moved[b]
         /\ \A b \in 1 .. n :
              \E a \in 1 .. Len(At(moved, StepsOf(moved))) : At(moved, StepsOf(moved))[a] = moved[b]
<1> DEFINE S == StepsOf(moved)
           A == Ascending(S)
           q == Cardinality(S)
           left == At(moved, S)
<1>1. n \in Nat /\ n # 0 /\ DOMAIN moved = 1 .. n /\ \A a \in 1 .. n : moved[a] \in Nat
  BY DEF Climbs
<1>2. S \in SUBSET (1 .. n) /\ S \in SUBSET Nat /\ IsFiniteSet(S)
  <2>1. S \in SUBSET (1 .. n)
    BY <1>1 DEF StepsOf
  <2>2. IsFiniteSet(1 .. n)
    BY <1>1, FS_Interval
  <2> HIDE DEF S
  <2>3. IsFiniteSet(S)
    BY <2>1, <2>2, FS_Subset
  <2> QED
    BY <1>1, <2>1, <2>3
<1>3. 1 \in S
  BY <1>1 DEF StepsOf
<1>4. \A b \in 1 .. n : b # 1 /\ moved[b] > moved[b - 1] <=> b \in S /\ b # 1
  BY <1>1 DEF StepsOf
<1> HIDE DEF S
<1>5. /\ q \in Nat /\ A \in [1 .. q -> S] /\ \A x \in S : RankIn(S, x) \in 1 .. q /\ A[RankIn(S, x)] = x
  BY <1>2, AscendingCounts, RankCounts
<1>6. DOMAIN left = 1 .. q /\ \A i \in 1 .. q : left[i] = moved[A[i]] /\ A[i] \in S
  <2>1. /\ DOMAIN At(moved, S) = 1 .. Cardinality(S)
        /\ \A i \in 1 .. Cardinality(S) : Ascending(S)[i] \in S /\ At(moved, S)[i] = moved[Ascending(S)[i]]
    BY <1>2, PartHolds
  <2> QED
    BY <2>1
<1>7. \A i, j \in 1 .. q : i < j => A[i] < A[j]
  BY <1>2, AscendingRises
<1>8. left = [i \in 1 .. q |-> moved[A[i]]]
  BY <1>5 DEF At
<1> HIDE DEF A, q, left
<1>9. \A i \in 1 .. q : A[i] \in 1 .. n /\ moved[A[i]] \in Nat
  BY <1>1, <1>2, <1>6
<1>10. left \in Seq(Nat) /\ Len(left) = q
  BY <1>5, <1>8, <1>9
<1>11. q > 0 /\ 1 \in 1 .. q /\ q \in 1 .. q
  BY <1>3, <1>5
<1>12. A[1] = 1
  <2>1. PICK r \in 1 .. q : A[r] = 1
    BY <1>3, <1>5
  <2>2. CASE r = 1
    BY <2>1, <2>2
  <2>3. CASE r # 1
    <3>1. A[1] < A[r]
      BY <1>5, <1>7, <1>11, <2>3
    <3> QED
      BY <1>1, <1>9, <1>11, <2>1, <3>1
  <2> QED
    BY <2>2, <2>3
<1>13. PICK m \in 1 .. n : m = A[q]
  BY <1>9, <1>11
<1>14. \A x \in S : x <= m
  <2> SUFFICES ASSUME NEW x \in S PROVE x <= m
    OBVIOUS
  <2>1. PICK r \in 1 .. q : A[r] = x
    BY <1>5
  <2>2. CASE r = q
    BY <1>1, <1>2, <1>13, <2>1, <2>2
  <2>3. CASE r # q
    <3>1. A[r] < A[q]
      BY <1>5, <1>7, <1>11, <2>3
    <3> QED
      BY <1>1, <1>2, <1>13, <2>1, <3>1
  <2> QED
    BY <2>2, <2>3
<1>15. moved[n] = moved[m]
  <2> SUFFICES ASSUME moved[n] # moved[m] PROVE FALSE
    OBVIOUS
  <2> DEFINE T == {b \in 1 .. n : moved[b] > moved[m]}
  <2>1. moved[m] <= moved[n] /\ moved[m] \in Nat /\ moved[n] \in Nat /\ n \in 1 .. n
    BY <1>1 DEF Climbs
  <2>2. T \in SUBSET Nat /\ n \in T
    BY <1>1, <2>1
  <2> HIDE DEF T
  <2>3. PICK b \in T : \A x \in T : b <= x
    BY <2>2, SmallestOf
  <2>4. b \in 1 .. n /\ moved[b] > moved[m] /\ moved[b] \in Nat
    BY <1>1, <2>3 DEF T
  <2>5. m < b
    BY <1>1, <2>1, <2>4 DEF Climbs
  <2>6. b - 1 \in 1 .. n /\ b # 1
    BY <1>1, <2>4, <2>5
  <2>7. b - 1 \notin T
    BY <1>1, <2>3, <2>4
  <2>8. moved[b - 1] <= moved[m] /\ moved[b - 1] \in Nat
    BY <1>1, <2>1, <2>6, <2>7 DEF T
  <2>9. b \in S
    BY <1>4, <2>1, <2>4, <2>6, <2>8
  <2> QED
    BY <1>1, <1>14, <2>4, <2>5, <2>9
<1>16. \A a, b \in 1 .. q : a < b => left[a] < left[b]
  <2> SUFFICES ASSUME NEW a \in 1 .. q, NEW b \in 1 .. q, a < b
               PROVE  moved[A[a]] < moved[A[b]]
    BY <1>6
  <2>1. PICK x \in 1 .. n, y \in 1 .. n : x = A[a] /\ y = A[b]
    BY <1>9
  <2>2. x < y /\ y \in S
    BY <1>6, <1>7, <2>1
  <2>3. y # 1 /\ x <= y - 1 /\ y - 1 \in 1 .. n
    BY <1>1, <2>1, <2>2
  <2>4. moved[y] > moved[y - 1]
    BY <1>4, <2>1, <2>2, <2>3
  <2>5. moved[x] <= moved[y - 1]
    BY <2>1, <2>3 DEF Climbs
  <2>6. moved[x] \in Nat /\ moved[y] \in Nat /\ moved[y - 1] \in Nat
    BY <1>1, <2>3
  <2>7. moved[x] < moved[y]
    BY <2>4, <2>5, <2>6
  <2> QED
    BY <2>1, <2>7
<1>17. left[1] = 0 /\ left[q] = moved[n]
  BY <1>6, <1>11, <1>12, <1>13, <1>15 DEF Climbs
<1>18. \A a \in 1 .. q : \E b \in 1 .. n : left[a] = moved[b]
  BY <1>6, <1>9
<1>19. ASSUME NEW b \in 1 .. n
       PROVE  \E a \in 1 .. q : left[a] = moved[b]
  <2> DEFINE T == {c \in 1 .. n : moved[c] = moved[b]}
  <2>1. T \in SUBSET Nat /\ b \in T
    BY <1>1
  <2>2. PICK c \in T : \A x \in T : c <= x
    BY <2>1, SmallestOf
  <2>3. c \in 1 .. n /\ moved[c] = moved[b]
    BY <2>2
  <2>4. c - 1 \notin T
    BY <1>1, <2>2, <2>3
  <2>5. c \in S
    <3>1. CASE c = 1
      BY <1>3, <3>1
    <3>2. CASE c # 1
      <4>1. c - 1 \in 1 .. n /\ c - 1 <= c
        BY <1>1, <2>3, <3>2
      <4>2. moved[c - 1] # moved[c] /\ moved[c - 1] <= moved[c]
        BY <2>3, <2>4, <4>1 DEF Climbs
      <4>3. moved[c - 1] \in Nat /\ moved[c] \in Nat
        BY <1>1, <2>3, <4>1
      <4>4. moved[c] > moved[c - 1]
        BY <4>2, <4>3
      <4> QED
        BY <1>4, <2>3, <3>2, <4>4
    <3> QED
      BY <3>1, <3>2
  <2>6. PICK a \in 1 .. q : A[a] = c
    BY <1>5, <2>5
  <2> QED
    BY <1>6, <2>3, <2>6
<1> QED
  BY <1>10, <1>11, <1>16, <1>17, <1>18, <1>19 DEF left, S

(* Dropping rows narrows the blocks that held them and leaves no gap       *)
(* (shuffle.py, keep).                                                     *)
KeptAt(mask) == {i \in DOMAIN mask : mask[i]}

LEMMA KeepIsLaid ==
  ASSUME NEW order, Laid(order), NEW mask \in [1 .. Len(order.rows) -> BOOLEAN]
  PROVE  /\ Laid(Keep(order, mask))
         /\ Terms(Keep(order, mask).rows) = {order.rows[i] : i \in KeptAt(mask)}
         /\ Keep(order, mask).rows = At(order.rows, KeptAt(mask))
         /\ \A a \in 1 .. Len(Keep(order, mask).bounds) :
              \E b \in 1 .. Len(order.bounds) :
                Keep(order, mask).bounds[a] = Cardinality({i \in KeptAt(mask) : i <= order.bounds[b]})
         /\ \A b \in 1 .. Len(order.bounds) :
              \E a \in 1 .. Len(Keep(order, mask).bounds) :
                Keep(order, mask).bounds[a] = Cardinality({i \in KeptAt(mask) : i <= order.bounds[b]})
<1> DEFINE rows == order.rows
           bounds == order.bounds
           P == KeptAt(mask)
           r == Len(rows)
           n == Len(bounds)
           moved == [b \in DOMAIN bounds |-> KeptBefore(mask, bounds[b])]
           left == At(moved, StepsOf(moved))
<1>1. /\ rows \in Seq(Nat \X Nat) /\ bounds \in Seq(Nat) /\ n \in Nat /\ n # 0 /\ r \in Nat
      /\ DOMAIN bounds = 1 .. n /\ DOMAIN rows = 1 .. r
      /\ bounds[1] = 0 /\ bounds[n] = r
      /\ \A a, b \in 1 .. n : a < b => bounds[a] < bounds[b]
  BY DEF Laid
<1>2. DOMAIN mask = 1 .. r
  OBVIOUS
<1>3. /\ Keep(order, mask).rows = At(rows, P) /\ Keep(order, mask).bounds = left
  BY <1>1 DEF Keep, Order, Kept, KeptAt, StepsOf
<1>4. P \in SUBSET (1 .. r) /\ P \in SUBSET Nat /\ IsFiniteSet(P)
  <2>1. P \in SUBSET (1 .. r)
    BY DEF KeptAt
  <2> HIDE DEF r, P
  <2>2. IsFiniteSet(1 .. r)
    BY <1>1, FS_Interval
  <2>3. IsFiniteSet(P)
    BY <2>1, <2>2, FS_Subset
  <2> QED
    BY <1>1, <2>1, <2>3
<1>5. ASSUME NEW b \in 1 .. n
      PROVE  bounds[b] \in 0 .. r
  <2> HIDE DEF bounds, n, r
  <2>1. bounds[b] \in Nat /\ n \in 1 .. n
    BY <1>1
  <2>2. bounds[b] <= bounds[n]
    <3>1. CASE b = n
      BY <2>1, <3>1
    <3>2. CASE b # n
      <4>1. b < n
        BY <1>1, <3>2
      <4>2. bounds[b] < bounds[n] /\ bounds[n] \in Nat
        BY <1>1, <2>1, <4>1
      <4> QED
        BY <2>1, <4>2
    <3> QED
      BY <3>1, <3>2
  <2> QED
    BY <1>1, <2>1, <2>2
<1>6. ASSUME NEW b \in 1 .. n
      PROVE  moved[b] = Cardinality({i \in P : i <= bounds[b]})
  <2>1. {i \in 1 .. bounds[b] : mask[i]} = {i \in P : i <= bounds[b]}
    BY <1>1, <1>2, <1>5 DEF KeptAt
  <2> QED
    BY <1>1, <2>1 DEF KeptBefore
<1> HIDE DEF moved, left
<1>7. Climbs(moved, n)
  <2> DEFINE before(b) == {i \in P : i <= bounds[b]}
  <2>1. ASSUME NEW b \in 1 .. n
        PROVE  IsFiniteSet(before(b)) /\ Cardinality(before(b)) \in Nat
    <3>1. before(b) \in SUBSET P
      OBVIOUS
    <3> HIDE DEF before
    <3> QED
      BY <1>4, <3>1, FS_Subset, FS_CardinalityType
  <2>2. ASSUME NEW a \in 1 .. n, NEW b \in 1 .. n, a <= b
        PROVE  Cardinality(before(a)) <= Cardinality(before(b))
    <3>1. bounds[a] <= bounds[b]
      <4>1. CASE a = b
        BY <1>1, <4>1
      <4>2. CASE a # b
        BY <1>1, <2>2, <4>2
      <4> QED
        BY <4>1, <4>2
    <3>2. before(a) \in SUBSET before(b)
      <4> HIDE DEF P, bounds, n, r
      <4>1. PICK from \in Nat, to \in Nat : from = bounds[a] /\ to = bounds[b] /\ from <= to
        BY <1>1, <1>5, <3>1
      <4>2. \A i \in P : i <= from => i <= to
        BY <1>4, <4>1
      <4> QED
        BY <4>1, <4>2
    <3> HIDE DEF before
    <3> QED
      BY <2>1, <3>2, FS_Subset
  <2>3. before(1) = {}
    BY <1>1, <1>4
  <2>4. Cardinality(before(1)) = 0
    BY <2>3, FS_EmptySet
  <2>5. moved = [b \in 1 .. n |-> moved[b]]
    BY <1>1 DEF moved
  <2> HIDE DEF before
  <2>6. \A b \in 1 .. n : moved[b] = Cardinality(before(b))
    BY <1>6 DEF before
  <2>7. 1 \in 1 .. n
    BY <1>1
  <2>8. moved \in [1 .. n -> Nat]
    BY <2>1, <2>5, <2>6
  <2>9. moved[1] = 0
    BY <2>4, <2>6, <2>7
  <2>10. \A a, b \in 1 .. n : a <= b => moved[a] <= moved[b]
    BY <2>2, <2>6
  <2> QED
    BY <1>1, <2>8, <2>9, <2>10 DEF Climbs
<1>8. /\ left \in Seq(Nat) /\ Len(left) > 0 /\ left[1] = 0 /\ left[Len(left)] = moved[n]
      /\ \A a, b \in 1 .. Len(left) : a < b => left[a] < left[b]
      /\ \A a \in 1 .. Len(left) : \E b \in 1 .. n : left[a] = moved[b]
      /\ \A b \in 1 .. n : \E a \in 1 .. Len(left) : left[a] = moved[b]
  BY <1>7, StepsRise DEF left
<1>9. /\ At(rows, P) \in Seq(Nat \X Nat) /\ Len(At(rows, P)) = Cardinality(P)
      /\ Terms(At(rows, P)) = {rows[i] : i \in P}
  <2>1. /\ Cardinality(P) \in Nat /\ DOMAIN At(rows, P) = 1 .. Cardinality(P)
        /\ \A i \in 1 .. Cardinality(P) : Ascending(P)[i] \in P /\ At(rows, P)[i] = rows[Ascending(P)[i]]
        /\ ToSet(At(rows, P)) = {rows[i] : i \in P}
    BY <1>4, PartHolds
  <2>2. At(rows, P) = [i \in 1 .. Cardinality(P) |-> At(rows, P)[i]]
    <3>1. At(rows, P) = [i \in DOMAIN Ascending(P) |-> rows[Ascending(P)[i]]]
      BY DEF At
    <3> QED
      BY <2>1, <3>1
  <2> HIDE DEF rows, P, r
  <2>3. PICK c \in Nat : c = Cardinality(P)
    BY <2>1
  <2>4. \A i \in 1 .. c : At(rows, P)[i] \in Nat \X Nat
    <3> SUFFICES ASSUME NEW i \in 1 .. c PROVE At(rows, P)[i] \in Nat \X Nat
      OBVIOUS
    <3>1. \A x \in 1 .. r : rows[x] \in Nat \X Nat
      BY <1>1 DEF rows, r
    <3>2. PICK x \in P : At(rows, P)[i] = rows[x]
      BY <2>1, <2>3
    <3>3. x \in 1 .. r
      BY <1>4
    <3> QED
      BY <3>1, <3>2, <3>3
  <2>5. At(rows, P) \in Seq(Nat \X Nat) /\ Len(At(rows, P)) = c
    BY <2>2, <2>3, <2>4
  <2>6. Terms(At(rows, P)) = ToSet(At(rows, P))
    BY <2>1, <2>3, <2>5 DEF Terms, ToSet
  <2> QED
    BY <2>1, <2>3, <2>5, <2>6
<1>10. moved[n] = Cardinality(P)
  <2> HIDE DEF bounds, n, P, r
  <2>1. {i \in P : i <= bounds[n]} = P
    <3>1. bounds[n] = r /\ r \in Nat
      BY <1>1
    <3>2. \A i \in P : i \in 1 .. r
      BY <1>4
    <3>3. \A i \in P : i <= bounds[n]
      BY <3>1, <3>2
    <3> QED
      BY <3>3
  <2>2. n \in 1 .. n
    BY <1>1
  <2>3. moved[n] = Cardinality({i \in P : i <= bounds[n]})
    BY <1>6, <2>2
  <2> QED
    BY <2>1, <2>3
<1>11. Laid(Keep(order, mask))
  BY <1>3, <1>8, <1>9, <1>10 DEF Laid
<1>12. \A a \in 1 .. Len(left) : \E b \in 1 .. n : left[a] = Cardinality({i \in P : i <= bounds[b]})
  BY <1>6, <1>8
<1>13. \A b \in 1 .. n : \E a \in 1 .. Len(left) : left[a] = Cardinality({i \in P : i <= bounds[b]})
  BY <1>6, <1>8
<1> QED
  BY <1>3, <1>9, <1>11, <1>12, <1>13

(* Each place in what some sequences are joined to belongs to one of them. *)
LEMMA PlaceOf ==
  ASSUME NEW E, NEW k, NEW seqs, Rowed(seqs, k, E), NEW j \in 1 .. Len(FlattenSeq(seqs))
  PROVE  \E b \in 1 .. k : \E i \in 1 .. Len(seqs[b]) : j = SumOn(LengthsOf(seqs), 1 .. b - 1) + i
<1> DEFINE all == FlattenSeq(seqs)
           upTo(b) == SumOn(LengthsOf(seqs), 1 .. b)
           S == {b \in 1 .. k : j <= upTo(b)}
<1>1. k \in Nat /\ Len(all) = upTo(k) /\ Len(all) \in Nat /\ j \in Nat /\ j >= 1 /\ j <= Len(all)
  <2>1. all \in Seq(E) /\ Len(all) = upTo(k)
    BY Joined
  <2>2. k \in Nat
    BY DEF Rowed
  <2> HIDE DEF all, upTo
  <2>3. Len(all) \in Nat
    BY <2>1
  <2>4. j \in 1 .. Len(all)
    BY DEF all
  <2> QED
    BY <2>1, <2>2, <2>3, <2>4
<1>2. upTo(0) = 0
  <2>1. 1 .. 0 = {}
    OBVIOUS
  <2> QED
    BY <2>1, SumOfNone
<1>3. ASSUME NEW b \in 1 .. k
      PROVE  upTo(b - 1) \in Nat /\ upTo(b) = upTo(b - 1) + Len(seqs[b]) /\ Len(seqs[b]) \in Nat
  <2>1. Len(seqs[b]) \in Nat
    BY DEF Rowed
  <2> QED
    BY <2>1, Placed
<1> HIDE DEF upTo, all
<1>4. k # 0 /\ k \in S /\ S \in SUBSET Nat
  BY <1>1, <1>2
<1> HIDE DEF S
<1>5. PICK b \in S : \A c \in S : b <= c
  BY <1>4, SmallestOf
<1>6. b \in 1 .. k /\ j <= upTo(b) /\ b \in Nat /\ b - 1 \in Nat
  BY <1>1, <1>5 DEF S
<1>7. upTo(b - 1) < j
  <2>1. CASE b = 1
    <3>1. b - 1 = 0
      BY <2>1
    <3> QED
      BY <1>1, <1>2, <3>1
  <2>2. CASE b # 1
    <3>1. b - 1 \in 1 .. k /\ b - 1 \notin S
      BY <1>1, <1>5, <1>6, <2>2
    <3>2. upTo(b - 1) \in Nat
      BY <1>3, <1>6
    <3> QED
      BY <1>1, <3>1, <3>2 DEF S
  <2> QED
    BY <2>1, <2>2
<1>8. j - upTo(b - 1) \in 1 .. Len(seqs[b]) /\ j = upTo(b - 1) + (j - upTo(b - 1))
  BY <1>1, <1>3, <1>6, <1>7
<1> QED
  BY <1>6, <1>8 DEF upTo

(* No two places hold the same.                                            *)
Distinct(s) == \A i, j \in 1 .. Len(s) : s[i] = s[j] => i = j
AllApart(seqs, k) == \A a, b \in 1 .. k : a # b => Terms(seqs[a]) \cap Terms(seqs[b]) = {}

LEMMA JoinedDistinct ==
  ASSUME NEW E, NEW k, NEW seqs, Rowed(seqs, k, E), \A b \in 1 .. k : Distinct(seqs[b]), AllApart(seqs, k)
  PROVE  Distinct(FlattenSeq(seqs))
<1> DEFINE all == FlattenSeq(seqs)
           upTo(b) == SumOn(LengthsOf(seqs), 1 .. b - 1)
<1>1. ASSUME NEW j \in 1 .. Len(all)
      PROVE  \E b \in 1 .. k : \E i \in 1 .. Len(seqs[b]) : j = upTo(b) + i /\ all[j] = seqs[b][i]
  <2>1. PICK b \in 1 .. k : \E i \in 1 .. Len(seqs[b]) : j = upTo(b) + i
    BY PlaceOf
  <2>2. PICK i \in 1 .. Len(seqs[b]) : j = upTo(b) + i
    BY <2>1
  <2>3. all[upTo(b) + i] = seqs[b][i]
    BY Placed
  <2> QED
    BY <2>2, <2>3
<1> HIDE DEF all, upTo
<1>2. ASSUME NEW x \in 1 .. Len(all), NEW y \in 1 .. Len(all), all[x] = all[y]
      PROVE  x = y
  <2>1. PICK b \in 1 .. k : \E i \in 1 .. Len(seqs[b]) : x = upTo(b) + i /\ all[x] = seqs[b][i]
    BY <1>1
  <2>2. PICK i \in 1 .. Len(seqs[b]) : x = upTo(b) + i /\ all[x] = seqs[b][i]
    BY <2>1
  <2>3. PICK c \in 1 .. k : \E l \in 1 .. Len(seqs[c]) : y = upTo(c) + l /\ all[y] = seqs[c][l]
    BY <1>1
  <2>4. PICK l \in 1 .. Len(seqs[c]) : y = upTo(c) + l /\ all[y] = seqs[c][l]
    BY <2>3
  <2>5. seqs[b][i] \in Terms(seqs[b]) /\ seqs[c][l] \in Terms(seqs[c])
    BY DEF Terms
  <2>6. b = c
    BY <1>2, <2>2, <2>4, <2>5 DEF AllApart
  <2>7. i = l
    BY <1>2, <2>2, <2>4, <2>6 DEF Distinct
  <2> QED
    BY <2>2, <2>4, <2>6, <2>7
<1> QED
  BY <1>2 DEF Distinct, all

(* No bound stands between two rows of the same chunk.                     *)
Unbroken(order) ==
  \A i, j \in 1 .. Len(order.rows) : order.rows[i][1] = order.rows[j][1] =>
    \A b \in 1 .. Len(order.bounds) : i <= order.bounds[b] <=> j <= order.bounds[b]

LEMMA BlocksAreUnbroken ==
  ASSUME NEW k, NEW blocks, Rowed(blocks, k, Nat \X Nat), \A b \in 1 .. k : Len(blocks[b]) > 0,
         \A a, b \in 1 .. k : \A x \in Terms(blocks[a]), y \in Terms(blocks[b]) : x[1] = y[1] => a = b
  PROVE  Unbroken(FromBlocks(blocks))
<1> DEFINE order == FromBlocks(blocks)
           rows == order.rows
           bounds == order.bounds
           upTo(b) == SumOn(LengthsOf(blocks), 1 .. b - 1)
<1>1. /\ Laid(order) /\ Len(bounds) = k + 1 /\ rows = FlattenSeq(blocks) /\ k \in Nat
      /\ \A b \in 1 .. k : bounds[b] = upTo(b) /\ bounds[b + 1] = bounds[b] + Len(blocks[b])
      /\ \A b \in 1 .. k : Len(blocks[b]) \in Nat
  <2>1. k \in Nat /\ \A b \in 1 .. k : Len(blocks[b]) \in Nat
    BY DEF Rowed
  <2> QED
    BY <2>1, BlocksAreLaid
<1>2. ASSUME NEW j \in 1 .. Len(rows)
      PROVE  \E b \in 1 .. k : /\ rows[j] \in Terms(blocks[b])
                               /\ bounds[b] < j /\ j <= bounds[b + 1]
  <2>1. PICK b \in 1 .. k : \E i \in 1 .. Len(blocks[b]) : j = upTo(b) + i
    BY <1>1, PlaceOf
  <2>2. PICK i \in 1 .. Len(blocks[b]) : j = upTo(b) + i
    BY <2>1
  <2>3. rows[upTo(b) + i] = blocks[b][i] /\ upTo(b) \in Nat
    BY <1>1, Placed
  <2>4. blocks[b][i] \in Terms(blocks[b])
    BY DEF Terms
  <2>5. /\ bounds[b] = upTo(b) /\ bounds[b + 1] = bounds[b] + Len(blocks[b])
        /\ Len(blocks[b]) \in Nat /\ rows[j] = blocks[b][i]
    BY <1>1, <2>2, <2>3
  <2> HIDE DEF upTo, rows, bounds, order
  <2>6. PICK u \in Nat, l \in Nat : u = upTo(b) /\ l = Len(blocks[b])
    BY <2>3, <2>5
  <2>7. bounds[b] < j /\ j <= bounds[b + 1]
    BY <2>2, <2>5, <2>6
  <2> QED
    BY <2>4, <2>5, <2>7
<1> HIDE DEF order, upTo
<1>3. ASSUME NEW i \in 1 .. Len(rows), NEW j \in 1 .. Len(rows), rows[i][1] = rows[j][1],
             NEW b \in 1 .. Len(bounds), i <= bounds[b]
      PROVE  j <= bounds[b]
  <2>1. PICK a \in 1 .. k : rows[i] \in Terms(blocks[a]) /\ bounds[a] < i /\ i <= bounds[a + 1]
    BY <1>2
  <2>2. PICK c \in 1 .. k : rows[j] \in Terms(blocks[c]) /\ bounds[c] < j /\ j <= bounds[c + 1]
    BY <1>2
  <2>3. a = c
    BY <1>3, <2>1, <2>2
  <2>4. a \in 1 .. k + 1 /\ a + 1 \in 1 .. k + 1 /\ b \in 1 .. k + 1
    BY <1>1
  <2>5. bounds[a] \in Nat /\ bounds[a + 1] \in Nat /\ bounds[b] \in Nat /\ i \in Nat /\ j \in Nat
    <3>1. bounds \in Seq(Nat)
      BY <1>1 DEF Laid
    <3>2. \A x \in 1 .. k + 1 : bounds[x] \in Nat
      <4>1. PICK t \in Seq(Nat) : t = bounds
        BY <3>1
      <4>2. Len(t) = k + 1
        BY <1>1, <4>1
      <4> HIDE DEF bounds
      <4>3. \A x \in 1 .. Len(t) : t[x] \in Nat
        OBVIOUS
      <4> QED
        BY <4>1, <4>2, <4>3
    <3> HIDE DEF bounds
    <3> QED
      BY <2>4, <3>2
  <2>6. a < b
    <3> SUFFICES ASSUME ~(a < b) PROVE FALSE
      OBVIOUS
    <3>1. b = a \/ b < a
      BY <1>1, <2>4
    <3>2. b < a => bounds[b] < bounds[a]
      BY <1>1, <2>4 DEF Laid
    <3> QED
      BY <1>3, <2>1, <2>5, <3>1, <3>2
  <2>7. a + 1 = b \/ a + 1 < b
    BY <1>1, <2>4, <2>6
  <2>8. a + 1 < b => bounds[a + 1] < bounds[b]
    BY <1>1, <2>4 DEF Laid
  <2> QED
    BY <2>2, <2>3, <2>5, <2>7, <2>8
<1> QED
  BY <1>3 DEF Unbroken, order

(* Numbers below d apart from multiples of d.                              *)
LEMMA SameMultiple ==
  ASSUME NEW d \in Nat \ {0}, NEW p \in Nat, NEW q \in Nat, NEW i \in 0 .. d - 1, NEW j \in 0 .. d - 1,
         p * d + i = q * d + j
  PROVE  p = q
<1>1. PICK a \in Nat : a = p * d + i
  OBVIOUS
<1>2. p * d <= a /\ a < (p + 1) * d
  <2>1. PICK y \in Nat : y = p * d
    OBVIOUS
  <2>2. (p + 1) * d = y + d
    BY <2>1
  <2> QED
    BY <1>1, <2>1, <2>2
<1>3. q * d <= a /\ a < (q + 1) * d
  <2>1. PICK y \in Nat : y = q * d
    OBVIOUS
  <2>2. (q + 1) * d = y + d
    BY <2>1
  <2> QED
    BY <1>1, <2>1, <2>2
<1>4. p = a \div d /\ q = a \div d
  BY <1>2, <1>3, QuotientIs
<1> QED
  BY <1>4

LEMMA RowsOfWindowDistinct ==
  ASSUME NEW n \in Nat, NEW spc \in Nat \ {0}, NEW window, WindowOf(window, spc, n), Distinct(window)
  PROVE  Distinct(RowsOfWindow(window, spc, n))
<1> DEFINE k == Len(window)
           seqs == [i \in DOMAIN window |-> ChunkRows(window[i], spc, n)]
           E == Nat \X Nat
<1>1. k \in Nat \ {0} /\ DOMAIN window = 1 .. k
  BY DEF WindowOf
<1>2. RowsOfWindow(window, spc, n) = FlattenSeq(seqs)
  BY DEF RowsOfWindow
<1>3. ASSUME NEW i \in 1 .. k
      PROVE  /\ seqs[i] \in Seq(E) /\ Distinct(seqs[i])
             /\ Terms(seqs[i]) = RowsOf({window[i]}, spc, n)
  <2>1. window[i] \in Span(0, CeilDiv(n, spc))
    BY DEF WindowOf
  <2>2. seqs[i] = ChunkRows(window[i], spc, n)
    BY <1>1
  <2> HIDE DEF seqs, k
  <2>3. PICK cid \in Span(0, CeilDiv(n, spc)) : cid = window[i]
    BY <2>1
  <2>4. PICK r : r = ChunkRows(cid, spc, n)
    OBVIOUS
  <2>5. /\ r \in Seq(E) /\ Terms(r) = RowsOf({cid}, spc, n)
        /\ \A x, y \in 1 .. Len(r) : r[x] = r[y] => x = y
    BY <2>4, ChunkRowsAre
  <2>6. Distinct(r)
    BY <2>5 DEF Distinct
  <2>7. seqs[i] = r
    BY <2>2, <2>3, <2>4
  <2> QED
    BY <2>3, <2>5, <2>6, <2>7
<1>4. Rowed(seqs, k, E)
  <2>1. DOMAIN seqs = 1 .. k /\ Len(seqs) = k /\ seqs = [i \in 1 .. k |-> seqs[i]]
    BY <1>1
  <2> HIDE DEF seqs, k, E
  <2> QED
    BY <1>1, <1>3, <2>1 DEF Rowed
<1> HIDE DEF seqs, E, k
<1>5. AllApart(seqs, k)
  <2> SUFFICES ASSUME NEW a \in 1 .. k, NEW b \in 1 .. k, a # b, NEW x, x \in Terms(seqs[a]), x \in Terms(seqs[b])
               PROVE  FALSE
    BY DEF AllApart
  <2>1. x[1] = window[a] /\ x[1] = window[b]
    BY <1>3 DEF RowsOf
  <2> QED
    BY <2>1 DEF Distinct, k
<1>6. \A b \in 1 .. k : Distinct(seqs[b])
  BY <1>3
<1> QED
  BY <1>2, <1>4, <1>5, <1>6, JoinedDistinct

(* The same rows in the opposite order.                                    *)
LEMMA ReverseIs ==
  ASSUME NEW E, NEW s \in Seq(E)
  PROVE  /\ Reverse(s) \in Seq(E) /\ Len(Reverse(s)) = Len(s) /\ Terms(Reverse(s)) = Terms(s)
         /\ Distinct(s) => Distinct(Reverse(s))
<1> DEFINE r == Reverse(s)
<1>1. PICK m \in Nat : m = Len(s) /\ \A i \in 1 .. m : s[i] \in E
  OBVIOUS
<1>2. r = [i \in 1 .. m |-> s[(m - i) + 1]]
  BY <1>1 DEF Reverse
<1>3. \A i \in 1 .. m : (m - i) + 1 \in 1 .. m /\ (m - ((m - i) + 1)) + 1 = i
  BY <1>1
<1>4. \A i \in 1 .. m : r[i] = s[(m - i) + 1]
  BY <1>2
<1>5. r \in Seq(E) /\ Len(r) = m
  BY <1>1, <1>2, <1>3
<1> HIDE DEF r
<1>6. Terms(r) = Terms(s)
  <2>1. \A i \in 1 .. m : r[i] \in Terms(s)
    BY <1>1, <1>3, <1>4 DEF Terms
  <2>2. \A i \in 1 .. m : s[i] \in Terms(r)
    <3> SUFFICES ASSUME NEW i \in 1 .. m PROVE s[i] \in Terms(r)
      OBVIOUS
    <3>1. r[(m - i) + 1] = s[i] /\ (m - i) + 1 \in 1 .. m
      BY <1>3, <1>4
    <3> QED
      BY <1>5, <3>1 DEF Terms
  <2> QED
    BY <1>1, <1>5, <2>1, <2>2 DEF Terms
<1>7. Distinct(s) => Distinct(r)
  <2> SUFFICES ASSUME Distinct(s), NEW i \in 1 .. m, NEW j \in 1 .. m, r[i] = r[j]
               PROVE  i = j
    BY <1>5 DEF Distinct
  <2>1. (m - i) + 1 = (m - j) + 1
    <3>1. PICK x \in 1 .. m, y \in 1 .. m : /\ x = (m - i) + 1 /\ y = (m - j) + 1
                                           /\ r[i] = s[x] /\ r[j] = s[y]
      BY <1>1, <1>3, <1>4
    <3>2. x = y
      BY <1>1, <3>1 DEF Distinct
    <3> QED
      BY <3>1, <3>2
  <2> QED
    BY <1>1, <2>1
<1> QED
  BY <1>1, <1>5, <1>6, <1>7 DEF r

(* What the two builders make of a permutation: blocks of the rows of its  *)
(* windows, each in some order.                                            *)
Drawn(order, chunks, spc, n) ==
  /\ Laid(order) /\ Terms(order.rows) = RowsOf(chunks, spc, n)
  /\ Distinct(order.rows) /\ Unbroken(order)
BlockedBy(blocks, perm, size, spc, n) ==
  /\ Rowed(blocks, CeilDiv(Len(perm), size), Nat \X Nat)
  /\ \A b \in 1 .. CeilDiv(Len(perm), size) :
       LET rows == RowsOfWindow(Windows(perm, size)[b], spc, n)
       IN  Len(blocks[b]) = Len(rows) /\ Terms(blocks[b]) = Terms(rows) /\ Distinct(blocks[b])
PermOf(perm, spc, n) == perm \in Seq(Span(0, CeilDiv(n, spc))) /\ Distinct(perm)

LEMMA WindowsAreChunks ==
  ASSUME NEW n \in Nat, NEW spc \in Nat \ {0}, NEW size \in Nat \ {0}, NEW perm, PermOf(perm, spc, n),
         NEW b \in 1 .. CeilDiv(Len(perm), size)
  PROVE  WindowOf(Windows(perm, size)[b], spc, n) /\ Distinct(Windows(perm, size)[b])
<1> DEFINE w == Windows(perm, size)[b]
           from == (b - 1) * size
           C == Span(0, CeilDiv(n, spc))
<1>1. /\ w \in Seq(C) /\ Len(w) \in 1 .. size /\ from \in Nat /\ from + Len(w) <= Len(perm)
      /\ \A j \in 1 .. Len(w) : w[j] = perm[from + j]
  <2>1. perm \in Seq(C)
    BY DEF PermOf
  <2> HIDE DEF C, w, from
  <2>2. WindowFrom(w, perm, from, size, C)
    BY <2>1, WindowIs DEF w, from
  <2> QED
    BY <2>2 DEF WindowFrom
<1> HIDE DEF w, C
<1>2. WindowOf(w, spc, n)
  <2>1. PICK m \in 1 .. size : m = Len(w)
    BY <1>1
  <2>2. m \in Nat \ {0} /\ DOMAIN w = 1 .. m /\ \A i \in 1 .. m : w[i] \in C
    BY <1>1, <2>1
  <2> QED
    BY <2>1, <2>2 DEF WindowOf, C
<1>3. Distinct(w)
  <2> SUFFICES ASSUME NEW i \in 1 .. Len(w), NEW j \in 1 .. Len(w), w[i] = w[j]
               PROVE  i = j
    BY DEF Distinct
  <2>1. PICK m \in Nat, p \in Nat, f \in Nat : m = Len(w) /\ p = Len(perm) /\ f = from
    BY <1>1 DEF PermOf
  <2>2. f + i \in 1 .. p /\ f + j \in 1 .. p
    BY <1>1, <2>1
  <2>3. perm[f + i] = perm[f + j]
    BY <1>1, <2>1
  <2>4. f + i = f + j
    BY <2>1, <2>2, <2>3 DEF PermOf, Distinct
  <2> QED
    BY <2>1, <2>4
<1> QED
  BY <1>2, <1>3 DEF w

LEMMA BlockedAre ==
  ASSUME NEW n \in Nat, NEW spc \in Nat \ {0}, NEW size \in Nat \ {0}, NEW perm, PermOf(perm, spc, n),
         NEW blocks, BlockedBy(blocks, perm, size, spc, n)
  PROVE  Drawn(FromBlocks(blocks), ChunkIdsOf(perm), spc, n)
<1> DEFINE k == CeilDiv(Len(perm), size)
           W == Windows(perm, size)
           E == Nat \X Nat
           C == Span(0, CeilDiv(n, spc))
           order == FromBlocks(blocks)
<1>1. perm \in Seq(C) /\ Len(perm) \in Nat /\ Distinct(perm)
  BY DEF PermOf
<1>2. k \in Nat /\ Rowed(blocks, k, E)
  BY <1>1, CeilingIs DEF BlockedBy
<1>3. ASSUME NEW b \in 1 .. k
      PROVE  /\ WindowOf(W[b], spc, n) /\ Distinct(blocks[b]) /\ Len(blocks[b]) > 0
             /\ Terms(blocks[b]) = RowsOf(ChunkIdsOf(W[b]), spc, n)
  <2>1. WindowOf(W[b], spc, n)
    BY WindowsAreChunks
  <2>2. /\ Len(RowsOfWindow(W[b], spc, n)) > 0
        /\ Terms(RowsOfWindow(W[b], spc, n)) = RowsOf(ChunkIdsOf(W[b]), spc, n)
    BY <2>1, RowsOfWindowAre
  <2>3. /\ Len(blocks[b]) = Len(RowsOfWindow(W[b], spc, n)) /\ Distinct(blocks[b])
        /\ Terms(blocks[b]) = Terms(RowsOfWindow(W[b], spc, n))
    BY DEF BlockedBy
  <2> QED
    BY <2>1, <2>2, <2>3
<1>4. ASSUME NEW b \in 1 .. k, NEW j \in 1 .. Len(W[b])
      PROVE  /\ (b - 1) * size \in Nat /\ (b - 1) * size + j \in 1 .. Len(perm)
             /\ W[b][j] = perm[(b - 1) * size + j]
  <2> HIDE DEF C
  <2>1. WindowFrom(W[b], perm, (b - 1) * size, size, C)
    BY <1>1, WindowIs
  <2> DEFINE f == (b - 1) * size
  <2> HIDE DEF f, W
  <2>2. /\ f \in Nat /\ f + Len(W[b]) <= Len(perm) /\ Len(W[b]) \in 1 .. size
        /\ W[b][j] = perm[f + j]
    BY <2>1 DEF WindowFrom, f
  <2>3. f + j \in 1 .. Len(perm)
    BY <1>1, <2>2
  <2> QED
    BY <2>2, <2>3 DEF f
<1>5. \A a, b \in 1 .. k : \A x \in Terms(blocks[a]), y \in Terms(blocks[b]) : x[1] = y[1] => a = b
  <2> SUFFICES ASSUME NEW a \in 1 .. k, NEW b \in 1 .. k, NEW x \in Terms(blocks[a]),
                      NEW y \in Terms(blocks[b]), x[1] = y[1]
               PROVE  a = b
    OBVIOUS
  <2>1. x[1] \in ChunkIdsOf(W[a]) /\ y[1] \in ChunkIdsOf(W[b])
    BY <1>3 DEF RowsOf
  <2>2. PICK i \in 1 .. Len(W[a]), j \in 1 .. Len(W[b]) : W[a][i] = x[1] /\ W[b][j] = y[1]
    BY <2>1 DEF ChunkIdsOf
  <2>3. (a - 1) * size + i = (b - 1) * size + j
    <3> HIDE DEF W, k, C
    <3>1. PICK p \in 1 .. Len(perm) : p = (a - 1) * size + i /\ W[a][i] = perm[p]
      BY <1>4
    <3>2. PICK q \in 1 .. Len(perm) : q = (b - 1) * size + j /\ W[b][j] = perm[q]
      BY <1>4
    <3>3. p = q
      BY <1>1, <2>2, <3>1, <3>2 DEF Distinct
    <3> QED
      BY <3>1, <3>2, <3>3
  <2>4. i \in 1 .. size /\ j \in 1 .. size
    <3> HIDE DEF C
    <3>1. Len(W[a]) \in 1 .. size /\ Len(W[b]) \in 1 .. size
      BY <1>1, WindowIs DEF WindowFrom
    <3> QED
      BY <3>1
  <2> HIDE DEF W, k
  <2>5. a - 1 \in Nat /\ b - 1 \in Nat
    BY <1>2
  <2>6. PICK p \in Nat, q \in Nat : p = a - 1 /\ q = b - 1
    BY <2>5
  <2>7. p * size + (i - 1) = q * size + (j - 1) /\ i - 1 \in 0 .. size - 1 /\ j - 1 \in 0 .. size - 1
    BY <2>3, <2>4, <2>6
  <2>8. p = q
    BY <2>7, SameMultiple
  <2> QED
    BY <1>2, <2>6, <2>8
<1>6. Distinct(order.rows) /\ order.rows = FlattenSeq(blocks) /\ Laid(order)
  <2>1. AllApart(blocks, k)
    <3> SUFFICES ASSUME NEW a \in 1 .. k, NEW b \in 1 .. k, a # b, NEW x, x \in Terms(blocks[a]), x \in Terms(blocks[b])
                 PROVE  FALSE
      BY DEF AllApart
    <3> QED
      BY <1>5
  <2>2. \A b \in 1 .. k : Distinct(blocks[b]) /\ Len(blocks[b]) > 0
    BY <1>3
  <2> HIDE DEF k, E
  <2>3. Laid(order) /\ order.rows = FlattenSeq(blocks)
    BY <1>2, <2>2, BlocksAreLaid DEF E
  <2>4. Distinct(FlattenSeq(blocks))
    BY <1>2, <2>1, <2>2, JoinedDistinct
  <2> QED
    BY <2>3, <2>4
<1>7. Unbroken(order)
  <2>1. \A b \in 1 .. k : Len(blocks[b]) > 0
    BY <1>3
  <2> HIDE DEF k
  <2> QED
    BY <1>2, <1>5, <2>1, BlocksAreUnbroken DEF E
<1>8. Terms(order.rows) = RowsOf(ChunkIdsOf(perm), spc, n)
  <2>1. Terms(order.rows) = TermsUpTo(blocks, k)
    BY <1>2, <1>6, Joined
  <2>2. ASSUME NEW row
        PROVE  row \in TermsUpTo(blocks, k) <=> \E b \in 1 .. k : row \in RowsOf(ChunkIdsOf(W[b]), spc, n)
    BY <1>3 DEF TermsUpTo
  <2>3. ASSUME NEW c
        PROVE  c \in ChunkIdsOf(perm) <=> \E b \in 1 .. k : c \in ChunkIdsOf(W[b])
    <3>1. ASSUME NEW b \in 1 .. k, c \in ChunkIdsOf(W[b])
          PROVE  c \in ChunkIdsOf(perm)
      <4> HIDE DEF W, k, C
      <4>1. PICK l \in 1 .. Len(W[b]) : c = W[b][l]
        BY <3>1 DEF ChunkIdsOf
      <4>2. PICK x \in 1 .. Len(perm) : c = perm[x]
        BY <1>4, <4>1
      <4> QED
        BY <4>2 DEF ChunkIdsOf
    <3>2. ASSUME c \in ChunkIdsOf(perm)
          PROVE  \E b \in 1 .. k : c \in ChunkIdsOf(W[b])
      <4>1. PICK j \in 1 .. Len(perm) : c = perm[j]
        BY <3>2 DEF ChunkIdsOf
      <4> HIDE DEF C
      <4>2. PICK b \in 1 .. k : \E l \in 1 .. Len(W[b]) : j = (b - 1) * size + l
        BY <1>1, WindowsCover
      <4>3. PICK l \in 1 .. Len(W[b]) : j = (b - 1) * size + l
        BY <4>2
      <4>4. W[b][l] = c
        BY <1>4, <4>1, <4>3
      <4> QED
        BY <4>4 DEF ChunkIdsOf
    <3> QED
      BY <3>1, <3>2
  <2> HIDE DEF W, k, order
  <2> QED
    BY <2>1, <2>2, <2>3 DEF RowsOf
<1> QED
  BY <1>6, <1>7, <1>8 DEF Drawn

(* Where chunks are full, so are the blocks.                               *)
FullTo(order, full) == \A b \in 1 .. Len(order.bounds) - 1 : order.bounds[b] = (b - 1) * full

LEMMA BlockedAreFull ==
  ASSUME NEW n \in Nat, NEW spc \in Nat \ {0}, NEW size \in Nat \ {0}, NEW perm, PermOf(perm, spc, n),
         NEW blocks, BlockedBy(blocks, perm, size, spc, n), n % spc = 0
  PROVE  FullTo(FromBlocks(blocks), size * spc)
<1> DEFINE k == CeilDiv(Len(perm), size)
           W == Windows(perm, size)
           E == Nat \X Nat
           C == Span(0, CeilDiv(n, spc))
           order == FromBlocks(blocks)
           full == size * spc
           lens == LengthsOf(blocks)
<1>1. perm \in Seq(C) /\ Len(perm) \in Nat
  BY DEF PermOf
<1>2. k \in Nat /\ Rowed(blocks, k, E)
  BY <1>1, CeilingIs DEF BlockedBy
<1>3. ASSUME NEW b \in 1 .. k
      PROVE  Len(blocks[b]) > 0 /\ (b < k => Len(blocks[b]) = full)
  <2>1. WindowOf(W[b], spc, n)
    BY WindowsAreChunks
  <2>2. /\ Len(RowsOfWindow(W[b], spc, n)) > 0
        /\ Len(RowsOfWindow(W[b], spc, n)) = Len(W[b]) * spc
    BY <2>1, RowsOfWindowAre
  <2>3. Len(blocks[b]) = Len(RowsOfWindow(W[b], spc, n))
    BY DEF BlockedBy
  <2> HIDE DEF C
  <2>4. b < k => Len(W[b]) = size
    BY <1>1, WindowIs
  <2> QED
    BY <2>2, <2>3, <2>4
<1> HIDE DEF W, C, order, full, k
<1>4. /\ Len(order.bounds) = k + 1
      /\ \A b \in 1 .. k : order.bounds[b] = SumOn(lens, 1 .. b - 1)
  <2>1. \A b \in 1 .. k : Len(blocks[b]) > 0
    BY <1>3
  <2>2. Rowed(blocks, k, Nat \X Nat)
    BY <1>2
  <2> HIDE DEF lens, E
  <2>3. /\ Len(FromBlocks(blocks).bounds) = k + 1
        /\ \A b \in 1 .. k : FromBlocks(blocks).bounds[b] = SumOn(LengthsOf(blocks), 1 .. b - 1)
    BY <2>1, <2>2, BlocksAreLaid
  <2> QED
    BY <2>3 DEF order, lens
<1>5. ASSUME NEW b \in 1 .. k
      PROVE  SumOn(lens, 1 .. b - 1) = (b - 1) * full
  <2> DEFINE same == [i \in 1 .. b - 1 |-> full]
  <2>1. \A c \in 1 .. b - 1 : lens[c] = same[c]
    <3> SUFFICES ASSUME NEW c \in 1 .. b - 1 PROVE lens[c] = same[c]
      OBVIOUS
    <3>1. c \in 1 .. k /\ c < k
      BY <1>2
    <3> QED
      BY <1>2, <1>3, <3>1 DEF LengthsOf, Rowed
  <2> HIDE DEF lens
  <2>2. SumOn(lens, 1 .. b - 1) = SumOn(same, 1 .. b - 1)
    <3> HIDE DEF same
    <3> QED
      BY <2>1, SumOfSame
  <2>3. b - 1 \in Nat /\ full \in Nat
    BY <1>2 DEF full
  <2>4. SumOn(same, 1 .. b - 1) = (b - 1) * full
    BY <2>3, SumOfEqual
  <2> QED
    BY <2>2, <2>4
<1>6. \A b \in 1 .. Len(order.bounds) - 1 : b \in 1 .. k
  BY <1>2, <1>4
<1>7. \A b \in 1 .. Len(order.bounds) - 1 : order.bounds[b] = (b - 1) * full
  BY <1>4, <1>5, <1>6
<1> QED
  BY <1>7 DEF FullTo, order, full

(* The two builders (shuffle.py, BlockShuffle.order and sequential_order). *)
BuiltOrder(perm, shuffle, mixed, spc, n, size) ==
  IF shuffle THEN BlockShuffledOrder(perm, mixed, spc, n, size)
             ELSE SequentialOrder(perm, spc, n, size)

LEMMA BuildersBlock ==
  ASSUME NEW n \in Nat, NEW spc \in Nat \ {0}, NEW size \in Nat \ {0}, NEW perm, PermOf(perm, spc, n),
         NEW shuffle, NEW mixed
  PROVE  \E blocks : /\ BlockedBy(blocks, perm, size, spc, n)
                     /\ BuiltOrder(perm, shuffle, mixed, spc, n, size) = FromBlocks(blocks)
<1> DEFINE k == CeilDiv(Len(perm), size)
           W == Windows(perm, size)
           E == Nat \X Nat
           R(b) == RowsOfWindow(W[b], spc, n)
           plain == [b \in DOMAIN W |-> R(b)]
           turned == [b \in DOMAIN W |-> Reverse(R(b))]
<1>1. k \in Nat /\ DOMAIN W = 1 .. k
  <2> DEFINE C == Span(0, CeilDiv(n, spc))
  <2>1. perm \in Seq(C) /\ Len(perm) \in Nat
    BY DEF PermOf
  <2>2. k \in Nat
    BY <2>1, CeilingIs
  <2> HIDE DEF C
  <2> QED
    BY <2>2 DEF Windows
<1>2. ASSUME NEW b \in 1 .. k
      PROVE  R(b) \in Seq(E) /\ Distinct(R(b))
  <2>1. WindowOf(W[b], spc, n) /\ Distinct(W[b])
    BY WindowsAreChunks
  <2> HIDE DEF W
  <2> QED
    BY <2>1, RowsOfWindowAre, RowsOfWindowDistinct
<1> HIDE DEF W, R
<1>3. BlockedBy(plain, perm, size, spc, n)
  <2>1. \A b \in 1 .. k : plain[b] = R(b)
    BY <1>1
  <2>2. DOMAIN plain = 1 .. k /\ Len(plain) = k /\ plain = [i \in 1 .. k |-> plain[i]]
    BY <1>1
  <2> HIDE DEF plain
  <2>3. Rowed(plain, k, E)
    BY <1>1, <1>2, <2>1, <2>2 DEF Rowed
  <2>4. \A b \in 1 .. k : Len(plain[b]) = Len(R(b)) /\ Terms(plain[b]) = Terms(R(b)) /\ Distinct(plain[b])
    BY <1>2, <2>1
  <2> QED
    BY <2>3, <2>4 DEF BlockedBy, R, W
<1>4. BlockedBy(turned, perm, size, spc, n)
  <2>1. \A b \in 1 .. k : turned[b] = Reverse(R(b))
    BY <1>1
  <2>2. DOMAIN turned = 1 .. k /\ Len(turned) = k /\ turned = [i \in 1 .. k |-> turned[i]]
    BY <1>1
  <2> HIDE DEF turned
  <2>3. \A b \in 1 .. k : /\ turned[b] \in Seq(E) /\ Len(turned[b]) = Len(R(b))
                          /\ Terms(turned[b]) = Terms(R(b)) /\ Distinct(turned[b])
    BY <1>2, <2>1, ReverseIs
  <2>4. Rowed(turned, k, E)
    BY <1>1, <2>2, <2>3 DEF Rowed
  <2> QED
    BY <2>3, <2>4 DEF BlockedBy, R, W
<1>5. SequentialOrder(perm, spc, n, size) = FromBlocks(plain)
  BY DEF SequentialOrder, W, R
<1>6. CASE shuffle /\ mixed
  <2>1. BlockShuffledOrder(perm, mixed, spc, n, size) = FromBlocks(turned)
    BY <1>6 DEF BlockShuffledOrder, W, R
  <2> QED
    BY <1>4, <1>6, <2>1 DEF BuiltOrder
<1>7. CASE shuffle /\ ~mixed
  <2>1. BlockShuffledOrder(perm, mixed, spc, n, size) = FromBlocks(plain)
    BY <1>7 DEF BlockShuffledOrder, W, R
  <2> QED
    BY <1>3, <1>7, <2>1 DEF BuiltOrder
<1>8. CASE ~shuffle
  BY <1>3, <1>5, <1>8 DEF BuiltOrder
<1> QED
  BY <1>6, <1>7, <1>8

LEMMA BuiltIsDrawn ==
  ASSUME NEW n \in Nat, NEW spc \in Nat \ {0}, NEW size \in Nat \ {0}, NEW perm, PermOf(perm, spc, n),
         NEW shuffle, NEW mixed
  PROVE  /\ Drawn(BuiltOrder(perm, shuffle, mixed, spc, n, size), ChunkIdsOf(perm), spc, n)
         /\ n % spc = 0 => FullTo(BuiltOrder(perm, shuffle, mixed, spc, n, size), size * spc)
<1>1. PICK blocks : /\ BlockedBy(blocks, perm, size, spc, n)
                    /\ BuiltOrder(perm, shuffle, mixed, spc, n, size) = FromBlocks(blocks)
  BY BuildersBlock
<1> QED
  BY <1>1, BlockedAre, BlockedAreFull

(* The i-th member is no greater than m if that many members are not.      *)
LEMMA RankBelow ==
  ASSUME NEW P \in SUBSET Nat, IsFiniteSet(P), NEW m \in Nat, NEW i \in 1 .. Cardinality(P)
  PROVE  i <= Cardinality({x \in P : x <= m}) <=> Ascending(P)[i] <= m
<1> DEFINE Q == {x \in P : x <= m}
<1>1. Q \in SUBSET P /\ Q \in SUBSET Nat /\ IsFiniteSet(Q) /\ Cardinality(Q) \in Nat
  <2>1. Q \in SUBSET P
    OBVIOUS
  <2> HIDE DEF Q
  <2> QED
    BY <2>1, FS_Subset, FS_CardinalityType
<1>2. PICK x \in P : x = Ascending(P)[i] /\ RankIn(P, x) = i
  <2>1. PICK c \in Nat : c = Cardinality(P) /\ Ascending(P) \in [1 .. c -> P]
    BY AscendingCounts
  <2>2. i \in 1 .. c /\ RankIn(P, Ascending(P)[i]) = i
    BY <2>1, AscendingCounts
  <2> QED
    BY <2>1, <2>2
<1>3. i \in Nat /\ Cardinality(P) \in Nat
  BY FS_CardinalityType
<1>4. ASSUME i <= Cardinality(Q)
      PROVE  x <= m
  <2>1. i \in 1 .. Cardinality(Q)
    BY <1>1, <1>3, <1>4
  <2>2. Ascending(Q)[i] = Ascending(P)[i]
    BY <2>1, PartBegins
  <2> HIDE DEF Q
  <2>3. Ascending(Q)[i] \in Q
    BY <1>1, <2>1, AscendingCounts
  <2> QED
    BY <1>2, <2>2, <2>3 DEF Q
<1>5. ASSUME x <= m
      PROVE  i <= Cardinality(Q)
  <2>1. x \in Q
    BY <1>5
  <2>2. \A y \in P : y <= x => y <= m
    <3> SUFFICES ASSUME NEW y \in P, y <= x PROVE y <= m
      OBVIOUS
    <3>1. x \in Nat /\ y \in Nat
      OBVIOUS
    <3> QED
      BY <1>5, <3>1
  <2>3. {y \in P : y <= x} = {y \in Q : y <= x}
    BY <2>2
  <2>4. RankIn(Q, x) = i
    BY <1>2, <2>3 DEF RankIn
  <2> HIDE DEF Q
  <2>5. RankIn(Q, x) \in 1 .. Cardinality(Q)
    BY <1>1, <2>1, RankCounts
  <2> QED
    BY <1>1, <2>4, <2>5
<1> QED
  BY <1>2, <1>4, <1>5

(* What is dropped neither repeats a row nor breaks a chunk.               *)
LEMMA KeepIsDrawn ==
  ASSUME NEW order, Laid(order), Distinct(order.rows), Unbroken(order),
         NEW mask \in [1 .. Len(order.rows) -> BOOLEAN]
  PROVE  /\ Laid(Keep(order, mask)) /\ Distinct(Keep(order, mask).rows) /\ Unbroken(Keep(order, mask))
         /\ Terms(Keep(order, mask).rows) = {order.rows[i] : i \in KeptAt(mask)}
<1> DEFINE P == KeptAt(mask)
           r == Len(order.rows)
           q == Cardinality(P)
           kept == Keep(order, mask)
           A == Ascending(P)
<1>1. /\ Laid(kept) /\ Terms(kept.rows) = {order.rows[i] : i \in P} /\ kept.rows = At(order.rows, P)
      /\ \A a \in 1 .. Len(kept.bounds) : \E b \in 1 .. Len(order.bounds) :
           kept.bounds[a] = Cardinality({i \in P : i <= order.bounds[b]})
  <2>1. /\ Laid(Keep(order, mask)) /\ Terms(Keep(order, mask).rows) = {order.rows[i] : i \in KeptAt(mask)}
        /\ Keep(order, mask).rows = At(order.rows, KeptAt(mask))
        /\ \A a \in 1 .. Len(Keep(order, mask).bounds) : \E b \in 1 .. Len(order.bounds) :
             Keep(order, mask).bounds[a] = Cardinality({i \in KeptAt(mask) : i <= order.bounds[b]})
    BY KeepIsLaid, Zenon
  <2> QED
    BY <2>1, Zenon DEF kept, P
<1>2. r \in Nat /\ order.bounds \in Seq(Nat)
  BY DEF Laid
<1>3. P \in SUBSET (1 .. r) /\ P \in SUBSET Nat /\ IsFiniteSet(P)
  <2>1. P \in SUBSET (1 .. r)
    BY DEF KeptAt
  <2> HIDE DEF r, P
  <2>2. IsFiniteSet(1 .. r)
    BY <1>2, FS_Interval
  <2>3. IsFiniteSet(P)
    BY <2>1, <2>2, FS_Subset
  <2> QED
    BY <1>2, <2>1, <2>3
<1> HIDE DEF P, r, kept
<1>4. /\ DOMAIN At(order.rows, P) = 1 .. q /\ q \in Nat
      /\ \A i \in 1 .. q : A[i] \in P /\ At(order.rows, P)[i] = order.rows[A[i]]
  BY <1>3, PartHolds
<1>5. \A i, j \in 1 .. q : i < j => A[i] < A[j]
  BY <1>3, AscendingRises
<1>6. Len(kept.rows) = q /\ \A i \in 1 .. q : A[i] \in 1 .. r /\ kept.rows[i] = order.rows[A[i]]
  <2>1. Len(kept.rows) \in Nat /\ DOMAIN kept.rows = 1 .. Len(kept.rows)
    BY <1>1 DEF Laid
  <2>2. 1 .. Len(kept.rows) = 1 .. q
    BY <1>1, <1>4, <2>1
  <2>3. PICK l \in Nat, c \in Nat : l = Len(kept.rows) /\ c = q
    BY <1>4, <2>1
  <2>4. l = c
    <3>1. 1 .. l = 1 .. c
      BY <2>2, <2>3
    <3>2. l \in 1 .. l \/ l = 0
      BY <2>3
    <3>3. c \in 1 .. c \/ c = 0
      BY <2>3
    <3> QED
      BY <2>3, <3>1, <3>2, <3>3
  <2> QED
    BY <1>1, <1>3, <1>4, <2>3, <2>4
<1>7. Distinct(kept.rows)
  <2> SUFFICES ASSUME NEW i \in 1 .. q, NEW j \in 1 .. q, kept.rows[i] = kept.rows[j]
               PROVE  i = j
    BY <1>6 DEF Distinct
  <2> HIDE DEF A, q
  <2>1. A[i] = A[j]
    <3>1. A[i] \in 1 .. r /\ A[j] \in 1 .. r /\ order.rows[A[i]] = order.rows[A[j]]
      BY <1>6
    <3> HIDE DEF A
    <3>2. PICK x \in 1 .. r, y \in 1 .. r : x = A[i] /\ y = A[j] /\ order.rows[x] = order.rows[y]
      BY <3>1
    <3>3. x = y
      BY <3>2 DEF Distinct, r
    <3> QED
      BY <3>2, <3>3
  <2>2. ~(i < j) /\ ~(j < i)
    <3>1. A[i] \in Nat /\ A[j] \in Nat
      BY <1>2, <1>6
    <3> QED
      BY <1>5, <2>1, <3>1
  <2> QED
    BY <1>4, <2>2
<1>8. Unbroken(kept)
  <2> SUFFICES ASSUME NEW i \in 1 .. q, NEW j \in 1 .. q, kept.rows[i][1] = kept.rows[j][1],
                      NEW a \in 1 .. Len(kept.bounds)
               PROVE  i <= kept.bounds[a] <=> j <= kept.bounds[a]
    BY <1>6 DEF Unbroken
  <2>1. PICK b \in 1 .. Len(order.bounds) : kept.bounds[a] = Cardinality({x \in P : x <= order.bounds[b]})
    BY <1>1
  <2>2. PICK m \in Nat : m = order.bounds[b]
    BY <1>2
  <2>3. A[i] <= m <=> A[j] <= m
    <3>1. A[i] \in 1 .. r /\ A[j] \in 1 .. r /\ order.rows[A[i]][1] = order.rows[A[j]][1]
      BY <1>6
    <3> HIDE DEF A
    <3> QED
      BY <2>2, <3>1 DEF Unbroken, r
  <2>4. i <= Cardinality({x \in P : x <= m}) <=> A[i] <= m
    BY <1>3, RankBelow
  <2>5. j <= Cardinality({x \in P : x <= m}) <=> A[j] <= m
    BY <1>3, RankBelow
  <2> QED
    BY <2>1, <2>2, <2>3, <2>4, <2>5
<1> QED
  BY <1>1, <1>7, <1>8 DEF kept, P

(* Some integers have a largest and a smallest.                            *)
LEMMA ExtremesOf ==
  ASSUME NEW k \in Nat \ {0}, NEW f, \A i \in 1 .. k : f[i] \in Int
  PROVE  (\E i \in 1 .. k : \A j \in 1 .. k : f[i] >= f[j]) /\ (\E i \in 1 .. k : \A j \in 1 .. k : f[i] <= f[j])
<1> DEFINE Good(m) == /\ \E i \in 1 .. m : \A j \in 1 .. m : f[i] >= f[j]
                      /\ \E i \in 1 .. m : \A j \in 1 .. m : f[i] <= f[j]
           Bad == {m \in 1 .. k : ~Good(m)}
<1>1. Bad \in SUBSET Nat /\ \A m \in Bad : m \in 1 .. k /\ ~Good(m)
  OBVIOUS
<1>2. \A m \in 1 .. k : m \notin Bad => Good(m)
  OBVIOUS
<1> SUFFICES ASSUME Bad # {} PROVE FALSE
  <2>1. k \in 1 .. k
    OBVIOUS
  <2> HIDE DEF Bad
  <2> QED
    BY <1>2, <2>1
<1> HIDE DEF Bad
<1>3. PICK m \in Bad : \A x \in Bad : m <= x
  BY <1>1, SmallestOf
<1>4. m \in 1 .. k /\ ~Good(m) /\ m \in Nat
  BY <1>1
<1>5. m # 1
  <2>1. 1 .. 1 = {1} /\ f[1] \in Int
    OBVIOUS
  <2>2. Good(1)
    BY <2>1
  <2> HIDE DEF Good
  <2> QED
    BY <1>4, <2>2
<1>6. m - 1 \in 1 .. k /\ m - 1 \notin Bad
  BY <1>3, <1>4, <1>5
<1>7. Good(m - 1)
  BY <1>2, <1>6
<1>8. PICK h \in 1 .. m - 1 : \A j \in 1 .. m - 1 : f[h] >= f[j]
  BY <1>7
<1>9. PICK l \in 1 .. m - 1 : \A j \in 1 .. m - 1 : f[l] <= f[j]
  BY <1>7
<1>10. /\ 1 .. m = (1 .. m - 1) \cup {m} /\ h \in 1 .. m /\ l \in 1 .. m /\ m \in 1 .. m
       /\ f[h] \in Int /\ f[l] \in Int /\ f[m] \in Int /\ \A j \in 1 .. m - 1 : f[j] \in Int
  <2>1. /\ 1 .. m = (1 .. m - 1) \cup {m} /\ h \in 1 .. m /\ l \in 1 .. m /\ m \in 1 .. m
        /\ \A j \in 1 .. m : j \in 1 .. k
    BY <1>4
  <2> QED
    BY <2>1
<1>11. \E i \in 1 .. m : \A j \in 1 .. m : f[i] >= f[j]
  <2>1. CASE f[m] >= f[h]
    BY <1>8, <1>10, <2>1
  <2>2. CASE ~(f[m] >= f[h])
    BY <1>8, <1>10, <2>2
  <2> QED
    BY <2>1, <2>2
<1>12. \E i \in 1 .. m : \A j \in 1 .. m : f[i] <= f[j]
  <2>1. CASE f[m] <= f[l]
    BY <1>9, <1>10, <2>1
  <2>2. CASE ~(f[m] <= f[l])
    BY <1>9, <1>10, <2>2
  <2> QED
    BY <2>1, <2>2
<1> QED
  BY <1>4, <1>11, <1>12

(* The anchors at which each view has a sample (split.py,                  *)
(* valid_anchor_range).                                                    *)
OnEach(a, views, n) == \A v \in DOMAIN views : a + views[v].offset \in Span(0, n)
Viewing(views) == Readable(views) /\ views # <<>>

(* The extreme offsets are those of some views and bound those of all.     *)
LEMMA OffsetsLie ==
  ASSUME NEW views, Viewing(views)
  PROVE  /\ MaxOffset(views) \in Int /\ MinOffset(views) \in Int /\ MinOffset(views) <= MaxOffset(views)
         /\ \A v \in DOMAIN views :
              MinOffset(views) <= views[v].offset /\ views[v].offset <= MaxOffset(views)
         /\ \E v, w \in DOMAIN views : MaxOffset(views) = views[v].offset /\ MinOffset(views) = views[w].offset
<1> DEFINE k == Len(views)
           O == Offsets(views)
           top == MaxOffset(views)
           low == MinOffset(views)
           f == [i \in 1 .. k |-> views[i].offset]
<1>1. k \in Nat \ {0} /\ DOMAIN views = 1 .. k /\ \A i \in 1 .. k : views[i].offset \in Int
  BY DEF Viewing, Readable
<1>2. O = {views[i].offset : i \in 1 .. k}
  BY <1>1 DEF Offsets
<1>3. \A i \in 1 .. k : f[i] = views[i].offset /\ f[i] \in Int
  BY <1>1
<1> HIDE DEF k, f
<1>4. PICK h \in 1 .. k : \A j \in 1 .. k : f[h] >= f[j]
  BY <1>1, <1>3, ExtremesOf
<1>5. PICK l \in 1 .. k : \A j \in 1 .. k : f[l] <= f[j]
  BY <1>1, <1>3, ExtremesOf
<1>6. (\E o \in O : \A p \in O : o >= p) /\ (\E o \in O : \A p \in O : o <= p)
  BY <1>2, <1>3, <1>4, <1>5
<1>7. /\ top \in O /\ \A p \in O : top >= p
      /\ low \in O /\ \A p \in O : low <= p
  BY <1>6 DEF MaxOffset, MinOffset
<1>8. top \in Int /\ low \in Int
  BY <1>1, <1>2, <1>7
<1>9. PICK x \in 1 .. k, y \in 1 .. k : top = views[x].offset /\ low = views[y].offset
  BY <1>2, <1>7
<1>10. \A i \in 1 .. k : low <= views[i].offset /\ views[i].offset <= top
  BY <1>1, <1>2, <1>7, <1>8
<1>11. low <= top
  BY <1>8, <1>9, <1>10
<1> QED
  BY <1>1, <1>8, <1>9, <1>10, <1>11

LEMMA ValidRangeIs ==
  ASSUME NEW n \in Nat, NEW views, Viewing(views)
  PROVE  /\ ValidAnchorRange(views, n).lo \in Nat /\ ValidAnchorRange(views, n).hi \in Int
         /\ \A a \in Span(0, n) :
              a \in Span(ValidAnchorRange(views, n).lo, ValidAnchorRange(views, n).hi) <=> OnEach(a, views, n)
         /\ (\A v \in DOMAIN views : views[v].offset = 0) =>
              ValidAnchorRange(views, n).lo = 0 /\ ValidAnchorRange(views, n).hi = n
<1> DEFINE k == Len(views)
           top == MaxOffset(views)
           low == MinOffset(views)
<1>1. k \in Nat \ {0} /\ DOMAIN views = 1 .. k /\ \A i \in 1 .. k : views[i].offset \in Int
  BY DEF Viewing, Readable
<1>8. top \in Int /\ low \in Int
  BY OffsetsLie
<1>9. PICK x \in 1 .. k, y \in 1 .. k : top = views[x].offset /\ low = views[y].offset
  BY <1>1, OffsetsLie
<1>10. \A i \in 1 .. k : low <= views[i].offset /\ views[i].offset <= top
  BY <1>1, OffsetsLie
<1> HIDE DEF k, top, low
<1> DEFINE lo == MaxOf(0, 0 - low)
           hi == MaxOf(lo, n - MaxOf(0, top))
<1>11. ValidAnchorRange(views, n).lo = lo /\ ValidAnchorRange(views, n).hi = hi
  BY DEF ValidAnchorRange, top, low
<1>12. lo \in Nat /\ hi \in Int
  BY <1>8 DEF MaxOf
<1>13. ASSUME NEW a \in Span(0, n)
       PROVE  a \in Span(lo, hi) <=> OnEach(a, views, n)
  <2>1. a \in Nat /\ a < n
    BY DEF Span
  <2>2. OnEach(a, views, n) <=> (0 <= a + low /\ a + top < n)
    <3>1. ASSUME OnEach(a, views, n)
          PROVE  0 <= a + low /\ a + top < n
      <4>1. a + views[x].offset \in Span(0, n) /\ a + views[y].offset \in Span(0, n)
        BY <1>1, <3>1 DEF OnEach
      <4> QED
        BY <1>8, <1>9, <2>1, <4>1 DEF Span
    <3>2. ASSUME 0 <= a + low, a + top < n, NEW i \in 1 .. k
          PROVE  a + views[i].offset \in Span(0, n)
      <4>1. PICK o \in Int : o = views[i].offset /\ low <= o /\ o <= top
        BY <1>1, <1>10
      <4> QED
        BY <1>8, <2>1, <3>2, <4>1 DEF Span
    <3> QED
      BY <1>1, <3>1, <3>2 DEF OnEach
  <2>3. a \in Span(lo, hi) <=> (0 <= a + low /\ a + top < n)
    BY <1>8, <1>12, <2>1 DEF Span, MaxOf
  <2> QED
    BY <2>2, <2>3
<1>14. ASSUME \A v \in DOMAIN views : views[v].offset = 0
       PROVE  lo = 0 /\ hi = n
  <2>1. top = 0 /\ low = 0
    BY <1>1, <1>9, <1>14
  <2> QED
    BY <2>1 DEF MaxOf
<1> QED
  BY <1>11, <1>12, <1>13, <1>14

(* The rows of some chunks that each view has a sample for.                *)
RowsOn(chunks, views, spc, n) == {row \in RowsOf(chunks, spc, n) : OnEach(Anchor(row, spc), views, n)}

LEMMA DropIsDrawn ==
  ASSUME NEW n \in Nat, NEW spc \in Nat \ {0}, NEW views, Viewing(views),
         NEW chunks, NEW order, Drawn(order, chunks, spc, n)
  PROVE  LET left == DropEdgeAnchors(order, views, spc, n)
         IN  /\ Laid(left) /\ Distinct(left.rows) /\ Unbroken(left)
             /\ Terms(left.rows) = RowsOn(chunks, views, spc, n)
             /\ (\A v \in DOMAIN views : views[v].offset = 0) => left = order
<1> DEFINE range == ValidAnchorRange(views, n)
           mask == [i \in DOMAIN order.rows |-> Anchor(order.rows[i], spc) \in Span(range.lo, range.hi)]
           r == Len(order.rows)
           left == DropEdgeAnchors(order, views, spc, n)
<1>1. /\ Laid(order) /\ Terms(order.rows) = RowsOf(chunks, spc, n) /\ Distinct(order.rows) /\ Unbroken(order)
  BY DEF Drawn
<1>2. left = IF range.lo = 0 /\ range.hi = n THEN order ELSE Keep(order, mask)
  BY DEF DropEdgeAnchors
<1>3. r \in Nat /\ DOMAIN order.rows = 1 .. r
  BY <1>1 DEF Laid
<1>4. /\ range.lo \in Nat /\ range.hi \in Int
      /\ \A a \in Span(0, n) : a \in Span(range.lo, range.hi) <=> OnEach(a, views, n)
      /\ (\A v \in DOMAIN views : views[v].offset = 0) => range.lo = 0 /\ range.hi = n
  BY ValidRangeIs
<1>5. ASSUME NEW i \in 1 .. r
      PROVE  order.rows[i] \in RowsOf(chunks, spc, n) /\ Anchor(order.rows[i], spc) \in Span(0, n)
  <2>1. order.rows[i] \in RowsOf(chunks, spc, n)
    BY <1>1 DEF Terms
  <2>2. Anchor(order.rows[i], spc) \in Nat /\ Anchor(order.rows[i], spc) < n
    <3>1. PICK row : row = order.rows[i]
      OBVIOUS
    <3>2. row \in Nat \X Nat /\ Anchor(row, spc) < n
      BY <2>1, <3>1 DEF RowsOf
    <3>3. Anchor(row, spc) \in Nat
      BY <3>2 DEF Anchor
    <3> QED
      BY <3>1, <3>2, <3>3
  <2> QED
    BY <2>1, <2>2 DEF Span
<1> HIDE DEF range, left, r
<1>6. CASE range.lo = 0 /\ range.hi = n
  <2>1. \A i \in 1 .. r : OnEach(Anchor(order.rows[i], spc), views, n)
    BY <1>4, <1>5, <1>6
  <2>2. RowsOn(chunks, views, spc, n) = RowsOf(chunks, spc, n)
    <3>1. \A row \in RowsOf(chunks, spc, n) : \E i \in 1 .. r : row = order.rows[i]
      BY <1>1 DEF Terms, r
    <3> QED
      BY <2>1, <3>1 DEF RowsOn
  <2> QED
    BY <1>1, <1>2, <1>6, <2>2 DEF left
<1>7. CASE ~(range.lo = 0 /\ range.hi = n)
  <2>1. mask \in [1 .. r -> BOOLEAN] /\ \A i \in 1 .. r : mask[i] <=> OnEach(Anchor(order.rows[i], spc), views, n)
    <3>1. mask = [i \in 1 .. r |-> Anchor(order.rows[i], spc) \in Span(range.lo, range.hi)]
      BY <1>3
    <3>2. \A i \in 1 .. r : mask[i] = (Anchor(order.rows[i], spc) \in Span(range.lo, range.hi))
      BY <1>3
    <3>3. mask \in [1 .. r -> BOOLEAN]
      <4>1. \A i \in 1 .. r : mask[i] = TRUE \/ mask[i] = FALSE
        <5>1. \A S : \A x : (x \in S) = TRUE \/ (x \in S) = FALSE
          BY SMT
        <5> HIDE DEF mask
        <5> QED
          BY <3>2, <5>1
      <4>2. mask = [i \in 1 .. r |-> mask[i]]
        BY <3>1
      <4> HIDE DEF mask
      <4> QED
        BY <4>1, <4>2
    <3> HIDE DEF mask
    <3>4. \A i \in 1 .. r : (Anchor(order.rows[i], spc) \in Span(range.lo, range.hi))
                               <=> OnEach(Anchor(order.rows[i], spc), views, n)
      BY <1>4, <1>5
    <3> QED
      BY <3>2, <3>3, <3>4, Zenon
  <2> HIDE DEF mask
  <2>2. /\ Laid(Keep(order, mask)) /\ Distinct(Keep(order, mask).rows) /\ Unbroken(Keep(order, mask))
        /\ Terms(Keep(order, mask).rows) = {order.rows[i] : i \in KeptAt(mask)}
    BY <1>1, <2>1, KeepIsDrawn DEF r
  <2>3. KeptAt(mask) = {i \in 1 .. r : OnEach(Anchor(order.rows[i], spc), views, n)}
    BY <2>1 DEF KeptAt
  <2>4. {order.rows[i] : i \in KeptAt(mask)} = RowsOn(chunks, views, spc, n)
    <3>1. \A i \in KeptAt(mask) : order.rows[i] \in RowsOn(chunks, views, spc, n)
      BY <1>5, <2>3 DEF RowsOn
    <3>2. \A row \in RowsOn(chunks, views, spc, n) : \E i \in KeptAt(mask) : order.rows[i] = row
      <4> SUFFICES ASSUME NEW row \in RowsOn(chunks, views, spc, n)
                   PROVE  \E i \in KeptAt(mask) : order.rows[i] = row
        OBVIOUS
      <4>1. PICK i \in 1 .. r : order.rows[i] = row
        BY <1>1 DEF RowsOn, Terms, r
      <4>2. OnEach(Anchor(order.rows[i], spc), views, n)
        BY <4>1 DEF RowsOn
      <4> QED
        BY <2>3, <4>1, <4>2
    <3> QED
      BY <3>1, <3>2
  <2> QED
    BY <1>2, <1>4, <1>7, <2>2, <2>4 DEF left
<1> QED
  BY <1>6, <1>7 DEF left

(* The draw order of a pass.                                               *)
LEMMA DrawIs ==
  ASSUME NEW n \in Nat, NEW spc \in Nat \ {0}, NEW size \in Nat \ {0}, NEW perm, PermOf(perm, spc, n),
         NEW shuffle, NEW mixed, NEW views, Viewing(views)
  PROVE  LET order == Draw(perm, shuffle, mixed, views, spc, n, size)
         IN  /\ Laid(order) /\ Distinct(order.rows) /\ Unbroken(order)
             /\ Terms(order.rows) = RowsOn(ChunkIdsOf(perm), views, spc, n)
             /\ n % spc = 0 /\ (\A v \in DOMAIN views : views[v].offset = 0) => FullTo(order, size * spc)
<1> DEFINE built == BuiltOrder(perm, shuffle, mixed, spc, n, size)
<1>1. Draw(perm, shuffle, mixed, views, spc, n, size) = DropEdgeAnchors(built, views, spc, n)
  BY DEF Draw, BuiltOrder
<1>2. Drawn(built, ChunkIdsOf(perm), spc, n) /\ (n % spc = 0 => FullTo(built, size * spc))
  BY BuiltIsDrawn
<1> HIDE DEF built
<1> QED
  BY <1>1, <1>2, DropIsDrawn

-----------------------------------------------------------------------------
(* Splits.                                                                 *)

(* A slice of a sequence, wherever it begins and ends.                     *)
Between(s, from, to) == {s[i] : i \in {j \in 1 .. Len(s) : from < j /\ j <= to}}

LEMMA SliceHolds ==
  ASSUME NEW s \in Seq(Nat), NEW from \in Nat, NEW to \in Nat
  PROVE  ToSet(Slice(s, from, to)) = Between(s, from, to)
<1>1. PICK n \in Nat : n = Len(s) /\ DOMAIN s = 1 .. n
  OBVIOUS
<1>2. PICK last \in Nat : last = MinOf(to, n) /\ last <= n /\ \A j \in 1 .. n : j <= to <=> j <= last
  BY <1>1 DEF MinOf
<1> DEFINE t == SubSeq(s, from + 1, last)
<1>3. Slice(s, from, to) = t
  BY <1>1, <1>2 DEF Slice
<1>4. t = [j \in 1 .. last - from |-> s[from + j]]
  BY <1>1, <1>2
<1> HIDE DEF t
<1>5. DOMAIN t = 1 .. last - from /\ \A j \in 1 .. last - from : t[j] = s[from + j] /\ from + j \in 1 .. n /\ from < from + j /\ from + j <= last
  BY <1>1, <1>2, <1>4
<1>6. \A i \in {j \in 1 .. n : from < j /\ j <= last} : i - from \in 1 .. last - from /\ from + (i - from) = i
  BY <1>1, <1>2
<1>7. ToSet(t) = {s[i] : i \in {j \in 1 .. n : from < j /\ j <= last}}
  <2>1. ToSet(t) = {t[j] : j \in 1 .. last - from}
    BY <1>5 DEF ToSet
  <2>2. PICK range : range = 1 .. last - from
    OBVIOUS
  <2>3. PICK places : places = {j \in 1 .. n : from < j /\ j <= last}
    OBVIOUS
  <2>4. \A j \in range : from + j \in places /\ t[j] = s[from + j]
    BY <1>5, <2>2, <2>3
  <2>5. \A i \in places : i - from \in range /\ t[i - from] = s[i]
    BY <1>5, <1>6, <2>2, <2>3
  <2>6. ToSet(t) = {t[j] : j \in range}
    BY <2>1, <2>2
  <2>7. {t[j] : j \in range} = {s[i] : i \in places}
    BY <2>4, <2>5
  <2> QED
    BY <2>3, <2>6, <2>7
<1>8. {j \in 1 .. n : from < j /\ j <= last} = {j \in 1 .. n : from < j /\ j <= to}
  BY <1>2
<1> QED
  BY <1>1, <1>3, <1>7, <1>8 DEF Between

LEMMA RoundedIs ==
  ASSUME NEW num \in Nat
  PROVE  RoundHalfEven(num, 100) \in Nat
<1>1. num \div 100 \in Nat
  OBVIOUS
<1> QED
  BY <1>1 DEF RoundHalfEven

(* A split deals each of its chunks to one part, however the fractions     *)
(* round (split.py, split_by_chunk).                                       *)
THEOREM SplitDealsOnce ==
  ASSUME NEW order \in Seq(Nat), Distinct(order), NEW pct \in Nat \X Nat
  PROVE  LET manifest == SplitByChunk(order, pct)
         IN  /\ ChunkIds(manifest, "all") = ToSet(order)
             /\ \A p, q \in Parts : p # q => manifest[p] \cap manifest[q] = {}
<1> DEFINE m == Len(order)
           train == RoundHalfEven(pct[1] * m, 100)
           val == RoundHalfEven(pct[2] * m, 100)
           manifest == SplitByChunk(order, pct)
<1>1. m \in Nat /\ pct[1] * m \in Nat /\ pct[2] * m \in Nat /\ DOMAIN order = 1 .. m
  OBVIOUS
<1>2. train \in Nat /\ val \in Nat
  <2> HIDE DEF m
  <2> QED
    BY <1>1, RoundedIs
<1>3. /\ manifest["train"] = ToSet(Slice(order, 0, train))
      /\ manifest["val"] = ToSet(Slice(order, train, train + val))
      /\ manifest["test"] = ToSet(Slice(order, train + val, m))
  BY DEF SplitByChunk
<1> HIDE DEF m, train, val, manifest
<1>4. /\ manifest["train"] = Between(order, 0, train)
      /\ manifest["val"] = Between(order, train, train + val)
      /\ manifest["test"] = Between(order, train + val, m)
  <2>1. PICK a \in Nat, c \in Nat, d \in Nat : a = train /\ c = train + val /\ d = m
    BY <1>1, <1>2
  <2>2. 0 \in Nat
    OBVIOUS
  <2>3. /\ ToSet(Slice(order, 0, a)) = Between(order, 0, a)
        /\ ToSet(Slice(order, a, c)) = Between(order, a, c)
        /\ ToSet(Slice(order, c, d)) = Between(order, c, d)
    BY <2>2, SliceHolds
  <2> QED
    BY <1>3, <2>1, <2>3
<1>5. \A i, j \in 1 .. m : order[i] = order[j] => i = j
  BY DEF Distinct, m
<1>6. ChunkIds(manifest, "all") = manifest["train"] \cup manifest["val"] \cup manifest["test"]
  BY DEF ChunkIds, Parts
<1>7. ToSet(order) = {order[i] : i \in 1 .. m}
  BY <1>1 DEF ToSet
<1>8. \A i \in 1 .. m : i <= train \/ (train < i /\ i <= train + val) \/ train + val < i
  BY <1>1, <1>2
<1>9. ChunkIds(manifest, "all") = ToSet(order)
  BY <1>1, <1>2, <1>4, <1>6, <1>7, <1>8, SMTT(30) DEF Between, m
<1>10. /\ manifest["train"] \cap manifest["val"] = {} /\ manifest["train"] \cap manifest["test"] = {}
       /\ manifest["val"] \cap manifest["test"] = {}
  <2>1. \A i \in 1 .. m : /\ ~(i <= train /\ train < i) /\ ~(i <= train /\ train + val < i)
                          /\ ~(i <= train + val /\ train + val < i)
    BY <1>1, <1>2
  <2>2. ASSUME NEW from, NEW to, NEW next, NEW upto,
               \A i \in 1 .. m : ~((from < i /\ i <= to) /\ (next < i /\ i <= upto))
        PROVE  Between(order, from, to) \cap Between(order, next, upto) = {}
    BY <1>5, <2>2, SMTT(30) DEF Between, m
  <2>3. /\ Between(order, 0, train) \cap Between(order, train, train + val) = {}
        /\ Between(order, 0, train) \cap Between(order, train + val, m) = {}
        /\ Between(order, train, train + val) \cap Between(order, train + val, m) = {}
    BY <2>1, <2>2
  <2> QED
    BY <1>4, <2>3
<1> QED
  BY <1>9, <1>10 DEF manifest, Parts

-----------------------------------------------------------------------------
(* Sums, and what is charged to them.                                      *)

LEMMA UpToIsFinite ==
  ASSUME NEW n \in Nat
  PROVE  IsFiniteSet(1 .. n) /\ Cardinality(1 .. n) = n
BY FS_Interval

(* A sum grows with its terms.                                             *)
LEMMA SumOfSmaller ==
  ASSUME NEW f, NEW g, NEW S, Counts(g, S), \A x \in S : f[x] \in Nat /\ f[x] <= g[x]
  PROVE  Counts(f, S) /\ SumOn(f, S) <= SumOn(g, S) /\ SumOn(f, S) \in Nat /\ SumOn(g, S) \in Nat
<1>1. Counts(f, S)
  BY DEF Counts
<1>2. SumOn(f, S) \in Nat /\ SumOn(g, S) \in Nat /\ IsFiniteSet(Numbered(g, S))
  BY <1>1, NumberedIsFinite
<1>3. \A x \in S : {x} \X (1 .. f[x]) \subseteq {x} \X (1 .. g[x])
  <2> SUFFICES ASSUME NEW x \in S PROVE 1 .. f[x] \subseteq 1 .. g[x]
    OBVIOUS
  <2>1. f[x] \in Nat /\ g[x] \in Nat /\ f[x] <= g[x]
    BY DEF Counts
  <2> QED
    BY <2>1
<1>4. Numbered(f, S) \subseteq Numbered(g, S)
  BY <1>3 DEF Numbered
<1> QED
  BY <1>1, <1>2, <1>4, FS_Subset DEF SumOn

(* m times a sum has room for m times each of its terms.                   *)
LEMMA SumOfMultiples ==
  ASSUME NEW f, NEW g, NEW S, NEW m \in Nat, Counts(f, S), \A x \in S : g[x] \in Nat /\ g[x] <= m * f[x]
  PROVE  Counts(g, S) /\ SumOn(g, S) <= m * SumOn(f, S) /\ SumOn(g, S) \in Nat /\ SumOn(f, S) \in Nat
<1> DEFINE h == [x \in S |-> m * f[x]]
           from == (1 .. m) \X Numbered(f, S)
           place == [q \in from |-> <<q[2][1], (q[1] - 1) * f[q[2][1]] + q[2][2]>>]
<1>1. \A x \in S : f[x] \in Nat /\ m * f[x] \in Nat /\ h[x] = m * f[x]
  BY DEF Counts
<1> HIDE DEF h
<1>2. Counts(h, S)
  BY <1>1 DEF Counts
<1>3. /\ IsFiniteSet(from) /\ Cardinality(from) = m * SumOn(f, S)
      /\ SumOn(f, S) \in Nat
  <2>1. IsFiniteSet(Numbered(f, S)) /\ SumOn(f, S) \in Nat
    BY NumberedIsFinite
  <2>2. IsFiniteSet(1 .. m) /\ Cardinality(1 .. m) = m
    BY FS_Interval
  <2> QED
    BY <2>1, <2>2, FS_Product DEF SumOn
<1>4. Numbered(f, S) = {p \in S \X Nat : p[2] \in 1 .. f[p[1]]}
  BY <1>1 DEF Numbered
<1>5. Numbered(h, S) = {p \in S \X Nat : p[2] \in 1 .. m * f[p[1]]}
  BY <1>1 DEF Numbered
<1>6. place \in [from -> Numbered(h, S)]
  <2> SUFFICES ASSUME NEW a \in 1 .. m, NEW x \in S, NEW j \in 1 .. f[x]
               PROVE  <<x, (a - 1) * f[x] + j>> \in Numbered(h, S)
    BY <1>4
  <2>1. PICK k \in Nat : k = f[x]
    BY <1>1
  <2>2. (a - 1) * k \in Nat /\ (a - 1) * k + k = a * k /\ a * k <= m * k
    BY SMT
  <2>3. (a - 1) * k + j \in 1 .. m * k
    BY <2>1, <2>2
  <2> QED
    BY <1>5, <2>1, <2>3
<1>7. ASSUME NEW p \in Numbered(h, S)
      PROVE  \E q \in from : place[q] = p
  <2>1. PICK x \in S, t \in Nat : p = <<x, t>> /\ t \in 1 .. m * f[x]
    BY <1>5
  <2>2. PICK k \in Nat : k = f[x]
    BY <1>1
  <2>3. k # 0
    BY <2>1, <2>2
  <2>4. PICK a \in Nat : a = (t - 1) \div k /\ a * k <= t - 1 /\ t - 1 < (a + 1) * k
    <3>1. t - 1 \in Nat
      BY <2>1
    <3> QED
      BY <2>3, <3>1, QuotientOf
  <2>5. a < m
    <3> SUFFICES ASSUME a >= m PROVE FALSE
      OBVIOUS
    <3>1. a * k >= m * k
      BY SMT
    <3> QED
      BY <2>1, <2>2, <2>4, <3>1
  <2>6. t - a * k \in 1 .. k
    <3>1. (a + 1) * k = a * k + k /\ a * k \in Nat
      OBVIOUS
    <3> QED
      BY <2>4, <3>1
  <2>7. <<x, t - a * k>> \in Numbered(f, S)
    BY <1>4, <2>2, <2>6
  <2>8. a + 1 \in 1 .. m /\ (a + 1 - 1) * k + (t - a * k) = t
    BY <2>1, <2>5
  <2>9. <<a + 1, <<x, t - a * k>>>> \in from
    BY <2>7, <2>8
  <2>10. place[<<a + 1, <<x, t - a * k>>>>] = <<x, (a + 1 - 1) * f[x] + (t - a * k)>>
    BY <2>9
  <2> HIDE DEF from, place
  <2>11. place[<<a + 1, <<x, t - a * k>>>>] = p
    BY <2>1, <2>2, <2>8, <2>10
  <2> QED
    BY <2>9, <2>11
<1>8. SumOn(h, S) <= m * SumOn(f, S)
  <2> HIDE DEF from, place
  <2>1. place \in Surjection(from, Numbered(h, S))
    BY <1>6, <1>7 DEF Surjection
  <2> QED
    BY <1>3, <2>1, FS_Surjection DEF SumOn
<1>9. Counts(g, S) /\ SumOn(g, S) <= SumOn(h, S) /\ SumOn(g, S) \in Nat /\ SumOn(h, S) \in Nat
  BY <1>1, <1>2, SumOfSmaller
<1> QED
  BY <1>3, <1>8, <1>9

(* What is charged to some accounts, each of which may charge so much for  *)
(* each of its keys, is within m times their sum if each account's keys    *)
(* are within m times its own.                                             *)
LEMMA SumCharged ==
  ASSUME NEW I, NEW f, Counts(f, I), NEW m \in Nat,
         NEW K, NEW B, \A i \in I : /\ IsFiniteSet(K[i]) /\ B[i] \in Nat
                                    /\ Cardinality(K[i]) * B[i] <= m * f[i],
         NEW w, NEW S, S \subseteq UNION {K[i] : i \in I},
         \A i \in I : \A k \in K[i] \cap S : w[k] \in Nat /\ w[k] <= B[i]
  PROVE  Counts(w, S) /\ SumOn(w, S) <= m * SumOn(f, I) /\ SumOn(w, S) \in Nat /\ SumOn(f, I) \in Nat
<1> DEFINE home(k) == CHOOSE i \in I : k \in K[i]
           part(i) == {k \in S : home(k) = i}
           R == [i \in I |-> Numbered(w, part(i))]
           sizes == [i \in I |-> Cardinality(R[i])]
<1>1. ASSUME NEW k \in S
      PROVE  home(k) \in I /\ k \in K[home(k)]
  <2>1. \E i \in I : k \in K[i]
    OBVIOUS
  <2> QED
    BY <2>1
<1>2. IsFiniteSet(I)
  BY DEF Counts
<1>3. IsFiniteSet(S)
  <2> DEFINE all == {K[i] : i \in I}
             at == [i \in I |-> K[i]]
  <2>1. at \in Surjection(I, all)
    BY DEF Surjection
  <2>2. \A T \in all : IsFiniteSet(T)
    OBVIOUS
  <2>3. S \subseteq UNION all
    OBVIOUS
  <2> HIDE DEF all, at
  <2>4. IsFiniteSet(all)
    BY <1>2, <2>1, FS_Surjection
  <2> QED
    BY <2>2, <2>3, <2>4, FS_UNION, FS_Subset
<1>4. Counts(w, S)
  BY <1>1, <1>3 DEF Counts
<1> HIDE DEF home
<1>5. ASSUME NEW i \in I
      PROVE  /\ IsFiniteSet(Numbered(w, part(i)))
             /\ Cardinality(Numbered(w, part(i))) \in Nat
             /\ Cardinality(Numbered(w, part(i))) <= m * f[i]
  <2>1. part(i) \subseteq K[i] /\ part(i) \subseteq S
    BY <1>1
  <2>2. Counts(w, part(i))
    BY <1>4, <2>1, SumOfLess
  <2>3. IsFiniteSet(Numbered(w, part(i))) /\ Cardinality(Numbered(w, part(i))) \in Nat
    BY <2>2, NumberedIsFinite DEF SumOn
  <2>4. \A k \in part(i) : w[k] \in Nat /\ w[k] <= B[i] /\ k \in K[i]
    BY <2>1
  <2>5. IsFiniteSet(K[i]) /\ B[i] \in Nat /\ Cardinality(K[i]) * B[i] <= m * f[i]
    OBVIOUS
  <2> HIDE DEF part
  <2>6. \A k \in part(i) : {k} \X (1 .. w[k]) \subseteq K[i] \X (1 .. B[i])
    <3> SUFFICES ASSUME NEW k \in part(i) PROVE 1 .. w[k] \subseteq 1 .. B[i]
      BY <2>4
    <3>1. w[k] \in Nat /\ w[k] <= B[i] /\ B[i] \in Nat
      BY <2>4, <2>5
    <3> QED
      BY <3>1
  <2>7. Numbered(w, part(i)) \subseteq K[i] \X (1 .. B[i])
    BY <2>6 DEF Numbered
  <2>8. /\ IsFiniteSet(K[i] \X (1 .. B[i]))
        /\ Cardinality(K[i] \X (1 .. B[i])) = Cardinality(K[i]) * B[i]
    <3>1. IsFiniteSet(1 .. B[i]) /\ Cardinality(1 .. B[i]) = B[i]
      BY <2>5, UpToIsFinite
    <3>2. IsFiniteSet(K[i])
      BY <2>5
    <3>3. /\ IsFiniteSet(K[i] \X (1 .. B[i]))
          /\ Cardinality(K[i] \X (1 .. B[i])) = Cardinality(K[i]) * Cardinality(1 .. B[i])
      BY <3>1, <3>2, FS_Product, Zenon
    <3> QED
      BY <3>1, <3>3
  <2>9. Cardinality(Numbered(w, part(i))) <= Cardinality(K[i]) * B[i]
    BY <2>7, <2>8, FS_Subset
  <2>10. Cardinality(K[i]) \in Nat /\ f[i] \in Nat
    BY <2>5, FS_CardinalityType DEF Counts
  <2>11. Cardinality(K[i]) * B[i] \in Nat /\ m * f[i] \in Nat
    BY <2>5, <2>10
  <2> QED
    BY <2>3, <2>5, <2>9, <2>11
<1>6. \A i \in I : R[i] = Numbered(w, part(i)) /\ sizes[i] = Cardinality(Numbered(w, part(i)))
  OBVIOUS
<1>7. Numbered(w, S) = UNION {R[i] : i \in I}
  BY <1>1, <1>6 DEF Numbered
<1>8. Apart(R, I)
  <2>1. \A i \in I : \A q \in R[i] : home(q[1]) = i
    BY <1>6 DEF Numbered
  <2> HIDE DEF R
  <2>2. \A i \in I : IsFiniteSet(R[i])
    BY <1>5, <1>6
  <2> QED
    BY <1>2, <2>1, <2>2 DEF Apart
<1>9. SumOn(w, S) = SumOn(sizes, I)
  <2> HIDE DEF R, part
  <2>1. SumOn([i \in I |-> Cardinality(R[i])], I) = Cardinality(UNION {R[i] : i \in I})
    BY <1>8, SumOfDisjoint
  <2> QED
    BY <1>7, <2>1 DEF SumOn
<1> HIDE DEF R, sizes, part
<1>10. \A i \in I : sizes[i] \in Nat /\ sizes[i] <= m * f[i]
  BY <1>5, <1>6
<1>11. SumOn(sizes, I) <= m * SumOn(f, I) /\ SumOn(sizes, I) \in Nat /\ SumOn(f, I) \in Nat
  BY <1>10, SumOfMultiples
<1> QED
  BY <1>4, <1>9, <1>11
-----------------------------------------------------------------------------
(* Products, and the bytes that the pool charges for a chunk.              *)

(* p[k] is the product of the first k terms.                               *)
Multiplies(p, s, n) == p = [k \in 0 .. n |-> IF k = 0 THEN 1 ELSE p[k - 1] * s[k]]

LEMMA ProductsExist ==
  ASSUME NEW s, NEW n \in Nat
  PROVE  \E p : Multiplies(p, s, n)
<1> DEFINE Bad == {m \in Nat : ~ \E p : Multiplies(p, s, m)}
<1> SUFFICES ASSUME Bad # {} PROVE FALSE
  OBVIOUS
<1>1. PICK m \in Bad : \A k \in Bad : m <= k
  BY SmallestOf
<1>2. CASE m = 0
  <2>1. Multiplies([k \in 0 .. 0 |-> 1], s, 0)
    BY DEF Multiplies
  <2> QED
    BY <1>2, <2>1
<1>3. CASE m # 0
  <2>1. m - 1 \in Nat /\ m - 1 \notin Bad
    BY <1>1, <1>3
  <2>2. PICK p : Multiplies(p, s, m - 1)
    BY <2>1
  <2> DEFINE g == [k \in 0 .. m |-> IF k = m THEN p[m - 1] * s[m] ELSE p[k]]
  <2>3. \A k \in 0 .. m : g[k] = IF k = 0 THEN 1 ELSE g[k - 1] * s[k]
    <3> SUFFICES ASSUME NEW k \in 0 .. m
                 PROVE  g[k] = IF k = 0 THEN 1 ELSE g[k - 1] * s[k]
      OBVIOUS
    <3>0. k \in Nat /\ m \in Nat
      BY <2>1
    <3>1. CASE k = m
      <4>1. g[k - 1] = p[m - 1] /\ g[k] = p[m - 1] * s[m]
        BY <1>3, <3>0, <3>1
      <4> QED
        BY <1>3, <3>1, <4>1
    <3>2. CASE k # m
      <4>1. k \in 0 .. m - 1 /\ g[k] = p[k] /\ (k # 0 => k - 1 \in 0 .. m /\ k - 1 # m)
        BY <3>0, <3>2
      <4>2. p[k] = IF k = 0 THEN 1 ELSE p[k - 1] * s[k]
        BY <2>2, <4>1 DEF Multiplies
      <4>3. k # 0 => g[k - 1] = p[k - 1]
        BY <4>1
      <4> QED
        BY <4>1, <4>2, <4>3
    <3> QED
      BY <3>1, <3>2
  <2>4. g = [k \in 0 .. m |-> g[k]]
    OBVIOUS
  <2>5. Multiplies(g, s, m)
    <3> HIDE DEF g
    <3> QED
      BY <2>3, <2>4 DEF Multiplies
  <2> QED
    BY <1>1, <2>5
<1> QED
  BY <1>2, <1>3

LEMMA ProductMultiplies ==
  ASSUME NEW s, Len(s) \in Nat
  PROVE  \E p : Multiplies(p, s, Len(s)) /\ Product(s) = p[Len(s)]
<1> DEFINE g == CHOOSE p : Multiplies(p, s, Len(s))
<1>1. Multiplies(g, s, Len(s))
  BY ProductsExist
<1>2. Product(s) = g[Len(s)]
  BY DEF Product, Multiplies
<1> QED
  BY <1>1, <1>2

LEMMA TimesGrows ==
  ASSUME NEW a \in Nat, NEW b \in Nat, NEW c \in Nat, NEW d \in Nat, a <= b, c <= d
  PROVE  a * c \in Nat /\ b * d \in Nat /\ a * c <= b * d
<1>1. PICK e \in Nat : b = a + e
  <2>1. b - a \in Nat /\ b = a + (b - a)
    OBVIOUS
  <2> QED
    BY <2>1
<1>2. PICK f \in Nat : d = c + f
  <2>1. d - c \in Nat /\ d = c + (d - c)
    OBVIOUS
  <2> QED
    BY <2>1
<1>3. a * c \in Nat /\ a * f \in Nat /\ e * c \in Nat /\ e * f \in Nat
  OBVIOUS
<1>4. (a + e) * (c + f) = a * c + a * f + e * c + e * f
  OBVIOUS
<1> QED
  BY <1>1, <1>2, <1>3, <1>4

(* A product of naturals is one, and grows with its terms.                 *)
LEMMA ProductGrows ==
  ASSUME NEW s \in Seq(Nat), NEW t \in Seq(Nat), Len(s) = Len(t),
         \A i \in 1 .. Len(s) : s[i] <= t[i]
  PROVE  Product(s) \in Nat /\ Product(t) \in Nat /\ Product(s) <= Product(t)
<1>1. PICK n \in Nat : n = Len(s) /\ n = Len(t)
  OBVIOUS
<1>2. PICK p : Multiplies(p, s, n) /\ Product(s) = p[n]
  BY <1>1, ProductMultiplies
<1>3. PICK q : Multiplies(q, t, n) /\ Product(t) = q[n]
  BY <1>1, ProductMultiplies
<1> DEFINE Bad == {k \in 0 .. n : ~(p[k] \in Nat /\ q[k] \in Nat /\ p[k] <= q[k])}
<1> SUFFICES ASSUME Bad # {} PROVE FALSE
  BY <1>2, <1>3
<1>4. PICK m \in Bad : \A k \in Bad : m <= k
  <2>1. Bad \in SUBSET Nat
    OBVIOUS
  <2> HIDE DEF Bad
  <2> QED
    BY <2>1, SmallestOf
<1>5. m \in 0 .. n /\ m \in Nat /\ p[0] = 1 /\ q[0] = 1
  BY <1>2, <1>3 DEF Multiplies
<1>6. m # 0
  BY <1>5
<1>7. m - 1 \in 0 .. n /\ m - 1 \notin Bad
  BY <1>4, <1>5, <1>6
<1>8. PICK a, b \in Nat : a = p[m - 1] /\ b = q[m - 1] /\ a <= b
  BY <1>7
<1>9. PICK c, d \in Nat : c = s[m] /\ d = t[m] /\ c <= d
  <2>1. m \in 1 .. n
    BY <1>5, <1>6
  <2> QED
    BY <1>1, <2>1
<1>10. p[m] = a * c /\ q[m] = b * d
  BY <1>2, <1>3, <1>5, <1>6, <1>8, <1>9 DEF Multiplies
<1>11. a * c \in Nat /\ b * d \in Nat /\ a * c <= b * d
  BY <1>8, <1>9, TimesGrows
<1> QED
  BY <1>5, <1>10, <1>11

LEMMA ProductOf ==
  ASSUME NEW s \in Seq(Nat)
  PROVE  Product(s) \in Nat
<1>1. \A i \in 1 .. Len(s) : s[i] <= s[i]
  OBVIOUS
<1> QED
  BY <1>1, ProductGrows

-----------------------------------------------------------------------------
(* The axes of an array.                                                    *)

LEMMA JoinIs ==
  ASSUME NEW E, NEW s \in Seq(E), NEW t \in Seq(E)
  PROVE  /\ s \o t \in Seq(E) /\ Len(s \o t) = Len(s) + Len(t) /\ Len(s) \in Nat /\ Len(t) \in Nat
         /\ \A i \in 1 .. Len(s) + Len(t) : (s \o t)[i] = IF i <= Len(s) THEN s[i] ELSE t[i - Len(s)]
OBVIOUS

(* A sequence without its b-th term.                                       *)
LEMMA AxisDropped ==
  ASSUME NEW E, NEW s \in Seq(E), NEW b \in 1 .. Len(s)
  PROVE  /\ RemoveAt(s, b) \in Seq(E) /\ Len(RemoveAt(s, b)) = Len(s) - 1
         /\ \A i \in 1 .. Len(s) - 1 : RemoveAt(s, b)[i] = s[IF i < b THEN i ELSE i + 1]
<1> DEFINE head == SubSeq(s, 1, b - 1)
           tail == SubSeq(s, b + 1, Len(s))
<1>1. PICK n \in Nat, a \in Nat : n = Len(s) /\ b = a + 1 /\ a < n
  <2>1. b - 1 \in Nat /\ b = b - 1 + 1 /\ b - 1 < Len(s) /\ Len(s) \in Nat
    OBVIOUS
  <2> QED
    BY <2>1
<1>2. head \in Seq(E) /\ Len(head) = a /\ \A i \in 1 .. a : head[i] = s[i]
  BY <1>1
<1>3. tail \in Seq(E) /\ Len(tail) = n - b /\ \A i \in 1 .. n - b : tail[i] = s[b + i]
  BY <1>1
<1>4. RemoveAt(s, b) = head \o tail
  BY DEF RemoveAt
<1> HIDE DEF head, tail
<1>5. /\ head \o tail \in Seq(E) /\ Len(head \o tail) = n - 1
      /\ \A i \in 1 .. n - 1 : (head \o tail)[i] = IF i <= a THEN head[i] ELSE tail[i - a]
  <2>1. /\ head \o tail \in Seq(E) /\ Len(head \o tail) = Len(head) + Len(tail)
        /\ \A i \in 1 .. Len(head) + Len(tail) :
             (head \o tail)[i] = IF i <= Len(head) THEN head[i] ELSE tail[i - Len(head)]
    BY <1>2, <1>3, JoinIs
  <2>2. Len(head) = a /\ Len(head) + Len(tail) = n - 1
    BY <1>1, <1>2, <1>3
  <2> QED
    BY <2>1, <2>2
<1>6. ASSUME NEW i \in 1 .. n - 1
      PROVE  (head \o tail)[i] = s[IF i < b THEN i ELSE i + 1]
  <2>1. CASE i < b
    BY <1>1, <1>2, <1>5, <2>1
  <2>2. CASE ~(i < b)
    <3>1. i - a \in 1 .. n - b /\ b + (i - a) = i + 1
      BY <1>1, <2>2
    <3> QED
      BY <1>1, <1>3, <1>5, <2>2, <3>1
  <2> QED
    BY <2>1, <2>2
<1> QED
  BY <1>1, <1>4, <1>5, <1>6

(* A term put in the b-th place, and taken away again.                     *)
LEMMA AxisInserted ==
  ASSUME NEW E, NEW s \in Seq(E), NEW x \in E, NEW b \in 1 .. Len(s) + 1
  PROVE  /\ InsertAt(s, b, x) \in Seq(E) /\ Len(InsertAt(s, b, x)) = Len(s) + 1
         /\ InsertAt(s, b, x)[b] = x /\ RemoveAt(InsertAt(s, b, x), b) = s
<1> DEFINE head == SubSeq(s, 1, b - 1)
           tail == SubSeq(s, b, Len(s))
           whole == InsertAt(s, b, x)
<1>1. PICK n \in Nat, a \in Nat : n = Len(s) /\ b = a + 1 /\ a <= n
  <2>1. b - 1 \in Nat /\ b = b - 1 + 1 /\ b - 1 <= Len(s) /\ Len(s) \in Nat
    OBVIOUS
  <2> QED
    BY <2>1
<1>2. head \in Seq(E) /\ Len(head) = a /\ \A i \in 1 .. a : head[i] = s[i]
  BY <1>1
<1>3. tail \in Seq(E) /\ Len(tail) = n - a /\ \A i \in 1 .. n - a : tail[i] = s[a + i]
  BY <1>1
<1>4. whole = head \o <<x>> \o tail
  BY DEF InsertAt
<1> HIDE DEF head, tail, whole
<1>5. PICK h : h = head \o <<x>>
  OBVIOUS
<1>6. h \in Seq(E) /\ Len(h) = b /\ h[b] = x /\ \A i \in 1 .. a : h[i] = s[i]
  BY <1>1, <1>2, <1>5
<1>7. /\ whole \in Seq(E) /\ Len(whole) = n + 1 /\ whole[b] = x
      /\ \A i \in 1 .. a : whole[i] = s[i]
      /\ \A i \in b .. n : whole[i + 1] = s[i]
  <2>1. whole = h \o tail
    BY <1>4, <1>5
  <2>2. /\ whole \in Seq(E) /\ Len(whole) = n + 1
        /\ \A i \in 1 .. n + 1 : whole[i] = IF i <= b THEN h[i] ELSE tail[i - b]
    <3>1. /\ h \o tail \in Seq(E) /\ Len(h \o tail) = Len(h) + Len(tail)
          /\ \A i \in 1 .. Len(h) + Len(tail) : (h \o tail)[i] = IF i <= Len(h) THEN h[i] ELSE tail[i - Len(h)]
      BY <1>3, <1>6, JoinIs
    <3>2. Len(h) = b /\ Len(h) + Len(tail) = n + 1
      BY <1>1, <1>3, <1>6
    <3> QED
      BY <2>1, <3>1, <3>2
  <2>3. ASSUME NEW i \in b .. n PROVE whole[i + 1] = s[i]
    <3>1. PICK j \in 1 .. n + 1, k \in 1 .. n - a : j = i + 1 /\ ~(j <= b) /\ k = j - b /\ i = a + k
      <4>1. i + 1 \in 1 .. n + 1 /\ i + 1 - b \in 1 .. n - a /\ ~(i + 1 <= b) /\ i = a + (i + 1 - b)
        BY <1>1
      <4> QED
        BY <4>1
    <3>2. whole[j] = tail[k] /\ tail[k] = s[a + k]
      BY <1>3, <2>2, <3>1
    <3> QED
      BY <3>1, <3>2
  <2>4. b \in 1 .. n + 1 /\ b <= b /\ \A i \in 1 .. a : i \in 1 .. n + 1 /\ i <= b
    BY <1>1
  <2>5. whole[b] = x /\ \A i \in 1 .. a : whole[i] = s[i]
    BY <1>6, <2>2, <2>4
  <2>6. \A i \in b .. n : whole[i + 1] = s[i]
    BY <2>3
  <2> QED
    BY <2>2, <2>5, <2>6
<1>8. /\ RemoveAt(whole, b) \in Seq(E) /\ Len(RemoveAt(whole, b)) = n
      /\ \A i \in 1 .. n : RemoveAt(whole, b)[i] = whole[IF i < b THEN i ELSE i + 1]
  <2>1. b \in 1 .. Len(whole) /\ Len(whole) - 1 = n
    BY <1>1, <1>7
  <2> QED
    BY <1>7, <2>1, AxisDropped
<1>9. ASSUME NEW i \in 1 .. n
      PROVE  RemoveAt(whole, b)[i] = s[i]
  <2>1. CASE i < b
    BY <1>1, <1>7, <1>8, <2>1
  <2>2. CASE ~(i < b)
    <3>1. RemoveAt(whole, b)[i] = whole[i + 1]
      BY <1>8, <2>2
    <3>2. i \in b .. n
      BY <1>1, <2>2
    <3> QED
      BY <1>7, <3>1, <3>2
  <2> QED
    BY <2>1, <2>2
<1>10. RemoveAt(whole, b) = s
  BY <1>1, <1>8, <1>9
<1> QED
  BY <1>1, <1>7, <1>10 DEF whole

(* What is measured along each axis.                                       *)
LEMMA AxesAre ==
  ASSUME NEW g, Measured(g)
  PROVE  /\ NSamples(g) \in Nat /\ SampleChunkSize(g) \in Nat \ {0} /\ g.item \in Nat
         /\ InnerShape(g) \in Seq(Nat) /\ InnerChunks(g) \in Seq(Nat \ {0})
         /\ Len(InnerShape(g)) = Len(InnerChunks(g))
         /\ g.axis \in 0 .. Len(InnerShape(g))
<1>1. /\ g.shape \in Seq(Nat) /\ g.chunks \in Seq(Nat \ {0}) /\ Len(g.shape) = Len(g.chunks) /\ g.item \in Nat
      /\ g.axis \in 0 .. Len(g.shape) - 1
  BY DEF Measured, WellFormed, Span
<1>2. PICK b \in Nat : b = g.axis + 1 /\ b \in 1 .. Len(g.shape) /\ b \in 1 .. Len(g.chunks)
  BY <1>1
<1>3. RemoveAt(g.shape, b) \in Seq(Nat) /\ Len(RemoveAt(g.shape, b)) = Len(g.shape) - 1
  BY <1>1, <1>2, AxisDropped
<1>4. RemoveAt(g.chunks, b) \in Seq(Nat \ {0}) /\ Len(RemoveAt(g.chunks, b)) = Len(g.chunks) - 1
  BY <1>1, <1>2, AxisDropped
<1>5. g.shape[b] \in Nat /\ g.chunks[b] \in Nat \ {0}
  <2>2. PICK s, t : s = g.shape /\ t = g.chunks
    OBVIOUS
  <2>3. PICK E : E = Nat \ {0}
    OBVIOUS
  <2>4. s \in Seq(Nat) /\ t \in Seq(E) /\ b \in 1 .. Len(s) /\ b \in 1 .. Len(t)
    BY <1>1, <1>2, <2>2, <2>3
  <2>5. s[b] \in Nat /\ t[b] \in E
    BY <2>4
  <2> QED
    BY <2>2, <2>3, <2>5
<1> QED
  BY <1>1, <1>2, <1>3, <1>4, <1>5 DEF NSamples, SampleChunkSize, InnerShape, InnerChunks, DropSample

(* A slot is charged a number of bytes, and no slot more than the first.   *)
LEMMA FirstSlotIsLargest ==
  ASSUME NEW g, NEW cid \in Nat, Measured(g)
  PROVE  /\ Cardinality(SamplesInChunk(g, cid)) \in Nat /\ Cardinality(SamplesInChunk(g, 0)) \in Nat
         /\ Cardinality(SamplesInChunk(g, cid)) <= Cardinality(SamplesInChunk(g, 0))
<1> DEFINE s == SampleChunkSize(g)
           n == NSamples(g)
<1>1. s \in Nat \ {0} /\ n \in Nat
  BY AxesAre
<1> HIDE DEF s, n
<1>2. PICK a \in Nat : a = cid * s /\ (cid + 1) * s = a + s
  <2>1. cid * s \in Nat /\ (cid + 1) * s = cid * s + s
    BY <1>1
  <2> QED
    BY <2>1
<1>3. SamplesInChunk(g, cid) = a .. (MinOf(a + s, n) - 1) /\ SamplesInChunk(g, 0) = 0 .. (MinOf(s, n) - 1)
  <2>1. 0 * s = 0 /\ (0 + 1) * s = s
    BY <1>1
  <2> QED
    BY <1>2, <2>1 DEF SamplesInChunk, Span, s, n
<1>4. MinOf(a + s, n) \in Nat /\ MinOf(s, n) \in Nat
  BY <1>1 DEF MinOf
<1>5. /\ Cardinality(SamplesInChunk(g, cid)) = IF a > MinOf(a + s, n) - 1 THEN 0 ELSE MinOf(a + s, n) - a
      /\ Cardinality(SamplesInChunk(g, 0)) = IF 0 > MinOf(s, n) - 1 THEN 0 ELSE MinOf(s, n)
  <2>1. PICK x, y \in Nat : x = MinOf(a + s, n) /\ y = MinOf(s, n)
    BY <1>4
  <2>2. /\ Cardinality(a .. (x - 1)) = IF a > x - 1 THEN 0 ELSE x - 1 - a + 1
        /\ Cardinality(0 .. (y - 1)) = IF 0 > y - 1 THEN 0 ELSE y - 1 - 0 + 1
    <3>1. a \in Int /\ x - 1 \in Int /\ 0 \in Int /\ y - 1 \in Int
      OBVIOUS
    <3> QED
      BY <3>1, FS_Interval
  <2> QED
    BY <1>3, <2>1, <2>2
<1> QED
  BY <1>1, <1>5 DEF MinOf

LEMMA TilesOf ==
  ASSUME NEW g, Measured(g)
  PROVE  /\ InnerGrid(g) \in Seq(Nat) /\ Len(InnerGrid(g)) = Len(InnerShape(g))
         /\ \A i \in 1 .. Len(InnerShape(g)) :
              InnerGrid(g)[i] = CeilDiv(InnerShape(g)[i], InnerChunks(g)[i])
         /\ TileShape(g) \in Seq(Nat) /\ NInnerChunks(g) \in Nat /\ ChunkBytes(g) \in Nat
<1>1. PICK k \in Nat : k = Len(InnerShape(g)) /\ k = Len(InnerChunks(g)) /\ DOMAIN InnerShape(g) = 1 .. k
  BY AxesAre
<1>2. \A i \in 1 .. k : CeilDiv(InnerShape(g)[i], InnerChunks(g)[i]) \in Nat
  <2> SUFFICES ASSUME NEW i \in 1 .. k PROVE CeilDiv(InnerShape(g)[i], InnerChunks(g)[i]) \in Nat
    OBVIOUS
  <2>1. InnerShape(g)[i] \in Nat /\ InnerChunks(g)[i] \in Nat \ {0}
    BY <1>1, AxesAre
  <2> QED
    BY <2>1, CeilingIs
<1>3. InnerGrid(g) = [i \in 1 .. k |-> CeilDiv(InnerShape(g)[i], InnerChunks(g)[i])]
  BY <1>1 DEF InnerGrid
<1>4. /\ InnerGrid(g) \in Seq(Nat) /\ Len(InnerGrid(g)) = k
      /\ \A i \in 1 .. k : InnerGrid(g)[i] = CeilDiv(InnerShape(g)[i], InnerChunks(g)[i])
  BY <1>2, <1>3
<1>5. TileShape(g) \in Seq(Nat)
  <2>1. InnerChunks(g) \in Seq(Nat) /\ <<SampleChunkSize(g)>> \in Seq(Nat)
    BY AxesAre
  <2> QED
    BY <2>1 DEF TileShape
<1>6. NInnerChunks(g) \in Nat /\ Product(TileShape(g)) \in Nat /\ g.item \in Nat
  BY <1>4, <1>5, ProductOf, AxesAre DEF NInnerChunks
<1>7. ChunkBytes(g) \in Nat
  <2>1. \A x, y, z \in Nat : x * y * z \in Nat
    OBVIOUS
  <2> QED
    BY <1>6, <2>1 DEF ChunkBytes
<1> QED
  BY <1>1, <1>4, <1>5, <1>6, <1>7

LEMMA SlotsAreCharged ==
  ASSUME NEW g, NEW out, Measured(g), Measured(out), NEW assembles, NEW cid \in Nat
  PROVE  /\ SlotChargeBytes(g, out, cid, assembles) \in Nat
         /\ SlotChargeBytes(g, out, 0, assembles) \in Nat
         /\ SlotChargeBytes(g, out, cid, assembles) <= SlotChargeBytes(g, out, 0, assembles)
<1> DEFINE here == SlotShape(out, cid)
           first == SlotShape(out, 0)
<1>1. ChunkBytes(g) \in Nat
  BY TilesOf
<1>2. PICK a, b \in Nat : a = Cardinality(SamplesInChunk(out, cid)) /\ b = Cardinality(SamplesInChunk(out, 0)) /\ a <= b
  BY FirstSlotIsLargest
<1>3. PICK s \in Seq(Nat) : s = InnerShape(out)
  BY AxesAre
<1>4. here = <<a>> \o s /\ first = <<b>> \o s
  BY <1>2, <1>3 DEF SlotShape
<1> HIDE DEF here, first
<1>5. here \in Seq(Nat) /\ first \in Seq(Nat) /\ Len(here) = Len(first) /\ \A i \in 1 .. Len(here) : here[i] <= first[i]
  <2>1. /\ <<a>> \o s \in Seq(Nat) /\ <<b>> \o s \in Seq(Nat)
        /\ Len(<<a>> \o s) = 1 + Len(s) /\ Len(<<b>> \o s) = 1 + Len(s)
    OBVIOUS
  <2>2. ASSUME NEW i \in 1 .. 1 + Len(s)
        PROVE  (<<a>> \o s)[i] <= (<<b>> \o s)[i]
    <3>1. CASE i = 1
      <4>1. (<<a>> \o s)[i] = a /\ (<<b>> \o s)[i] = b
        BY <3>1
      <4> QED
        BY <1>2, <4>1
    <3>2. CASE i # 1
      <4>1. (<<a>> \o s)[i] = s[i - 1] /\ (<<b>> \o s)[i] = s[i - 1] /\ s[i - 1] \in Nat
        BY <3>2
      <4> QED
        BY <4>1
    <3> QED
      BY <3>1, <3>2
  <2> QED
    BY <1>4, <2>1, <2>2
<1>6. PICK x, y, z \in Nat : x = Product(here) /\ y = Product(first) /\ z = out.item /\ x <= y
  BY <1>5, ProductGrows, AxesAre
<1>7. x * z \in Nat /\ y * z \in Nat /\ x * z <= y * z
  BY <1>6, TimesGrows
<1>8. AssembledBytes(out, cid) = x * z /\ AssembledBytes(out, 0) = y * z
  BY <1>6 DEF AssembledBytes, here, first
<1> QED
  BY <1>1, <1>7, <1>8 DEF SlotChargeBytes, MaxOf

(* What is charged does not depend on the offset of a view.                *)
LEMMA OffsetsCostNothing ==
  ASSUME NEW g, Measured(g), NEW k, NEW pipeline, NEW assembles, NEW cid
  PROVE  LET h == Shift(g, k)
         IN  /\ SlotChargeBytes(h, OutputGeometry(h, pipeline), cid, assembles)
                  = SlotChargeBytes(g, OutputGeometry(g, pipeline), cid, assembles)
             /\ SampleChunkSize(h) = SampleChunkSize(g) /\ h.path = g.path
<1> DEFINE h == Shift(g, k)
           outG == OutputGeometry(g, pipeline)
           outH == OutputGeometry(h, pipeline)
           final == Declaring([inner |-> InnerShape(g), item |-> g.item], TransformsFor(g.path, pipeline))
<1>1. DOMAIN g = {"path", "shape", "chunks", "item", "offset", "axis"}
  BY DEF Measured
<1>2. h = [g EXCEPT !.offset = @ + k]
  BY DEF Shift
<1>3. h.path = g.path /\ h.shape = g.shape /\ h.chunks = g.chunks /\ h.item = g.item /\ h.axis = g.axis
      /\ DOMAIN h = DOMAIN g
  BY <1>1, <1>2
<1> HIDE DEF h
<1>4. /\ InnerShape(h) = InnerShape(g) /\ InnerChunks(h) = InnerChunks(g)
      /\ NSamples(h) = NSamples(g) /\ SampleChunkSize(h) = SampleChunkSize(g)
  BY <1>3 DEF InnerShape, InnerChunks, DropSample, NSamples, SampleChunkSize
<1>5. outG = Rebuild(g, final.inner, final.item) /\ outH = Rebuild(h, final.inner, final.item)
  BY <1>3, <1>4 DEF OutputGeometry
<1> HIDE DEF outG, outH, final
<1>6. outH.shape = outG.shape /\ outH.chunks = outG.chunks /\ outH.item = outG.item /\ outH.axis = outG.axis
  BY <1>1, <1>3, <1>4, <1>5 DEF Rebuild
<1>7. ChunkBytes(h) = ChunkBytes(g)
  BY <1>3, <1>4 DEF ChunkBytes, NInnerChunks, InnerGrid, TileShape
<1>8. AssembledBytes(outH, cid) = AssembledBytes(outG, cid)
  <2>1. /\ InnerShape(outH) = InnerShape(outG) /\ NSamples(outH) = NSamples(outG)
        /\ SampleChunkSize(outH) = SampleChunkSize(outG)
    BY <1>6 DEF InnerShape, DropSample, NSamples, SampleChunkSize
  <2>2. SlotShape(outH, cid) = SlotShape(outG, cid)
    BY <2>1 DEF SlotShape, SamplesInChunk
  <2> QED
    BY <1>6, <2>2 DEF AssembledBytes
<1> QED
  BY <1>3, <1>4, <1>7, <1>8 DEF SlotChargeBytes, h, outG, outH

-----------------------------------------------------------------------------
(* Products.                                                               *)

(* The product of the products term by term.                               *)
LEMMA ProductOfBoth ==
  ASSUME NEW s \in Seq(Nat), NEW t \in Seq(Nat), NEW u \in Seq(Nat), Len(s) = Len(t), Len(u) = Len(s),
         \A i \in 1 .. Len(s) : u[i] = s[i] * t[i]
  PROVE  Product(u) = Product(s) * Product(t)
<1>1. PICK n \in Nat : n = Len(s) /\ n = Len(t) /\ n = Len(u)
  OBVIOUS
<1>2. PICK p : Multiplies(p, s, n) /\ Product(s) = p[n]
  BY <1>1, ProductMultiplies
<1>3. PICK q : Multiplies(q, t, n) /\ Product(t) = q[n]
  BY <1>1, ProductMultiplies
<1>4. PICK r : Multiplies(r, u, n) /\ Product(u) = r[n]
  BY <1>1, ProductMultiplies
<1> DEFINE Bad == {k \in 0 .. n : ~(p[k] \in Nat /\ q[k] \in Nat /\ r[k] = p[k] * q[k])}
<1> SUFFICES ASSUME Bad # {} PROVE FALSE
  BY <1>2, <1>3, <1>4
<1>5. PICK m \in Bad : \A k \in Bad : m <= k
  <2>1. Bad \in SUBSET Nat
    OBVIOUS
  <2> HIDE DEF Bad
  <2> QED
    BY <2>1, SmallestOf
<1>6. m \in 0 .. n /\ m \in Nat /\ p[0] = 1 /\ q[0] = 1 /\ r[0] = 1
  BY <1>2, <1>3, <1>4 DEF Multiplies
<1>7. m # 0
  BY <1>6
<1>8. m - 1 \in 0 .. n /\ m - 1 \notin Bad
  BY <1>5, <1>6, <1>7
<1>9. PICK a, b \in Nat : a = p[m - 1] /\ b = q[m - 1] /\ r[m - 1] = a * b
  BY <1>8
<1>10. PICK c, d \in Nat : c = s[m] /\ d = t[m] /\ u[m] = c * d
  <2>1. m \in 1 .. Len(s)
    BY <1>1, <1>6, <1>7
  <2>2. u[m] = s[m] * t[m]
    BY <2>1
  <2>3. PICK c \in Nat : c = s[m]
    BY <2>1
  <2>4. PICK d \in Nat : d = t[m]
    BY <1>1, <2>1
  <2>5. u[m] = c * d
    BY <2>2, <2>3, <2>4
  <2> QED
    BY <2>3, <2>4, <2>5
<1>11. p[m] = a * c /\ q[m] = b * d /\ r[m] = (a * b) * (c * d)
  <2>1. p[m] = p[m - 1] * s[m] /\ q[m] = q[m - 1] * t[m] /\ r[m] = r[m - 1] * u[m]
    BY <1>2, <1>3, <1>4, <1>6, <1>7 DEF Multiplies
  <2> QED
    BY <1>9, <1>10, <2>1
<1>12. a * c \in Nat /\ b * d \in Nat /\ (a * b) * (c * d) = (a * c) * (b * d)
  OBVIOUS
<1>13. m \notin Bad
  BY <1>6, <1>11, <1>12
<1> QED
  BY <1>5, <1>13

(* A factor in front.                                                      *)
LEMMA ProductWithFirst ==
  ASSUME NEW a \in Nat, NEW s \in Seq(Nat)
  PROVE  /\ <<a>> \o s \in Seq(Nat) /\ Len(<<a>> \o s) = Len(s) + 1 /\ (<<a>> \o s)[1] = a
         /\ \A i \in 1 .. Len(s) : (<<a>> \o s)[i + 1] = s[i]
         /\ Product(<<a>> \o s) = a * Product(s)
<1>1. PICK n \in Nat : n = Len(s)
  OBVIOUS
<1>2. PICK t : t = <<a>> \o s
  OBVIOUS
<1>3. /\ t \in Seq(Nat) /\ Len(t) = n + 1 /\ t[1] = a
      /\ \A i \in 1 .. n : t[i + 1] = s[i]
  <2>1. PICK h : h = <<a>>
    OBVIOUS
  <2>2. h \in Seq(Nat) /\ Len(h) = 1 /\ h[1] = a
    BY <2>1
  <2>3. /\ h \o s \in Seq(Nat) /\ Len(h \o s) = Len(h) + Len(s)
        /\ \A i \in 1 .. Len(h) + Len(s) : (h \o s)[i] = IF i <= Len(h) THEN h[i] ELSE s[i - Len(h)]
    BY <2>2, JoinIs
  <2>4. /\ t \in Seq(Nat) /\ Len(t) = n + 1
        /\ \A i \in 1 .. n + 1 : t[i] = IF i <= 1 THEN h[i] ELSE s[i - 1]
    BY <1>1, <1>2, <2>1, <2>2, <2>3
  <2>5. t[1] = a
    <3>1. t[1] = h[1]
      BY <1>1, <2>4
    <3> QED
      BY <2>2, <3>1
  <2>6. ASSUME NEW i \in 1 .. n PROVE t[i + 1] = s[i]
    <3>1. PICK j \in 1 .. n + 1 : j = i + 1 /\ ~(j <= 1) /\ j - 1 = i
      BY <1>1
    <3>2. t[j] = s[j - 1]
      BY <2>4, <3>1
    <3> QED
      BY <3>1, <3>2
  <2> QED
    BY <2>4, <2>5, <2>6
<1>4. PICK p : Multiplies(p, s, n) /\ Product(s) = p[n]
  BY <1>1, ProductMultiplies
<1>5. PICK q : Multiplies(q, t, n + 1) /\ Product(t) = q[n + 1]
  BY <1>3, ProductMultiplies
<1> DEFINE Bad == {k \in 0 .. n : ~(p[k] \in Nat /\ q[k + 1] = a * p[k])}
<1>6. Bad = {}
  <2> SUFFICES ASSUME Bad # {} PROVE FALSE
    OBVIOUS
  <2>1. PICK m \in Bad : \A k \in Bad : m <= k
    <3>1. Bad \in SUBSET Nat
      OBVIOUS
    <3> HIDE DEF Bad
    <3> QED
      BY <3>1, SmallestOf
  <2>2. m \in 0 .. n /\ m \in Nat /\ p[0] = 1
    BY <1>4 DEF Multiplies
  <2>3. q[0] = 1 /\ \A k \in 0 .. n : q[k + 1] = q[k] * t[k + 1]
    <3>1. \A k \in 0 .. n + 1 : q[k] = IF k = 0 THEN 1 ELSE q[k - 1] * t[k]
      BY <1>5 DEF Multiplies
    <3>2. \A k \in 0 .. n : k + 1 \in 0 .. n + 1 /\ k + 1 # 0 /\ k + 1 - 1 = k
      OBVIOUS
    <3>3. 0 \in 0 .. n + 1
      OBVIOUS
    <3> QED
      BY <3>1, <3>2, <3>3
  <2>4. m # 0
    <3>1. q[1] = q[0] * t[1] /\ 1 * a = a /\ a * 1 = a
      BY <2>2, <2>3
    <3>2. q[1] = a
      BY <1>3, <2>3, <3>1
    <3> QED
      BY <2>2, <3>1, <3>2
  <2>5. m - 1 \in 0 .. n /\ m - 1 \notin Bad
    BY <2>1, <2>2, <2>4
  <2>6. PICK b \in Nat : b = p[m - 1] /\ q[m] = a * b
    BY <2>2, <2>5
  <2>7. PICK c \in Nat : c = s[m] /\ c = t[m + 1]
    <3>1. m \in 1 .. n
      BY <2>2, <2>4
    <3> QED
      BY <1>1, <1>3, <3>1
  <2>8. p[m] = b * c /\ q[m + 1] = (a * b) * c
    <3>1. p[m] = p[m - 1] * s[m]
      BY <1>4, <2>2, <2>4 DEF Multiplies
    <3> QED
      BY <2>2, <2>3, <2>6, <2>7, <3>1
  <2>9. b * c \in Nat /\ (a * b) * c = a * (b * c)
    OBVIOUS
  <2>10. m \notin Bad
    BY <2>2, <2>8, <2>9
  <2> QED
    BY <2>1, <2>10
<1>7. Product(t) = a * Product(s)
  BY <1>4, <1>5, <1>6
<1> QED
  BY <1>1, <1>2, <1>3, <1>7

(* A factor of zero.                                                       *)
LEMMA ProductOfZero ==
  ASSUME NEW s \in Seq(Nat), NEW i \in 1 .. Len(s), s[i] = 0
  PROVE  Product(s) = 0
<1>1. PICK n \in Nat : n = Len(s)
  OBVIOUS
<1>2. PICK p : Multiplies(p, s, n) /\ Product(s) = p[n]
  BY <1>1, ProductMultiplies
<1> DEFINE Bad == {k \in i .. n : p[k] # 0}
<1> SUFFICES ASSUME Bad # {} PROVE FALSE
  BY <1>1, <1>2
<1>3. PICK m \in Bad : \A k \in Bad : m <= k
  <2>1. Bad \in SUBSET Nat
    OBVIOUS
  <2> HIDE DEF Bad
  <2> QED
    BY <2>1, SmallestOf
<1>4. m \in i .. n /\ m \in Nat /\ m \in 0 .. n /\ m # 0 /\ p[m] = p[m - 1] * s[m]
  <2>1. m \in i .. n
    OBVIOUS
  <2>2. m \in Nat /\ m \in 0 .. n /\ m # 0
    BY <1>1, <2>1
  <2>3. p[m] = p[m - 1] * s[m]
    BY <1>2, <2>2 DEF Multiplies
  <2> QED
    BY <2>1, <2>2, <2>3
<1>5. \A k \in 0 .. n : p[k] \in Nat
  <2> DEFINE Odd == {k \in 0 .. n : p[k] \notin Nat}
  <2> SUFFICES ASSUME Odd # {} PROVE FALSE
    OBVIOUS
  <2>1. PICK j \in Odd : \A k \in Odd : j <= k
    <3>1. Odd \in SUBSET Nat
      OBVIOUS
    <3> HIDE DEF Odd
    <3> QED
      BY <3>1, SmallestOf
  <2>2. j \in 0 .. n /\ p[0] = 1
    BY <1>2 DEF Multiplies
  <2>3. j # 0 /\ j - 1 \in 0 .. n /\ j - 1 \notin Odd /\ j \in 1 .. n
    BY <2>1, <2>2
  <2>4. p[j] = p[j - 1] * s[j]
    BY <1>2, <2>2, <2>3 DEF Multiplies
  <2>5. PICK a \in Nat, b \in Nat : a = p[j - 1] /\ b = s[j]
    BY <1>1, <2>3
  <2>6. a * b \in Nat
    OBVIOUS
  <2> QED
    BY <2>2, <2>4, <2>5, <2>6
<1>6. CASE m = i
  <2>1. PICK a \in Nat : a = p[m - 1] /\ p[m] = a * 0
    BY <1>4, <1>5, <1>6
  <2>2. a * 0 = 0
    OBVIOUS
  <2> QED
    BY <2>1, <2>2
<1>7. CASE m # i
  <2>1. m - 1 \in i .. n /\ m - 1 \notin Bad
    BY <1>3, <1>4, <1>7
  <2>2. PICK b \in Nat : b = s[m]
    BY <1>1, <1>4
  <2>3. p[m] = 0 * b /\ 0 * b = 0
    BY <1>4, <2>1, <2>2
  <2> QED
    BY <2>3
<1> QED
  BY <1>6, <1>7

(* A strict rise in one of two positive factors.                           *)
LEMMA TimesRises ==
  ASSUME NEW a \in Nat, NEW b \in Nat, NEW c \in Nat, NEW d \in Nat,
         0 < a, 0 < c, a <= b, c <= d
  PROVE  /\ a * c \in Nat /\ b * d \in Nat /\ 0 < a * c /\ a * c <= b * d
         /\ a < b \/ c < d => a * c < b * d
<1>1. PICK x \in Nat : b = a + x
  <2>1. b - a \in Nat /\ b = a + (b - a)
    OBVIOUS
  <2> QED
    BY <2>1
<1>2. PICK y \in Nat : d = c + y
  <2>1. d - c \in Nat /\ d = c + (d - c)
    OBVIOUS
  <2> QED
    BY <2>1
<1>3. PICK e \in Nat : a = e + 1
  <2>1. a - 1 \in Nat /\ a = a - 1 + 1
    OBVIOUS
  <2> QED
    BY <2>1
<1>4. PICK f \in Nat : c = f + 1
  <2>1. c - 1 \in Nat /\ c = c - 1 + 1
    OBVIOUS
  <2> QED
    BY <2>1
<1>5. PICK u \in Nat : u = e * f
  <2>1. e * f \in Nat
    OBVIOUS
  <2> QED
    BY <2>1
<1>6. a * c = u + e + f + 1
  <2>1. (e + 1) * (f + 1) = e * f + e + f + 1
    OBVIOUS
  <2> QED
    BY <1>3, <1>4, <1>5, <2>1
<1>7. PICK v, w, z \in Nat : v = e * y /\ w = x * f /\ z = x * y
  <2>1. e * y \in Nat /\ x * f \in Nat /\ x * y \in Nat
    OBVIOUS
  <2> QED
    BY <2>1
<1>8. b * d = u + e + f + 1 + v + y + w + x + z
  <2>1. (e + 1 + x) * (f + 1 + y)
          = e * f + e + f + 1 + e * y + y + x * f + x + x * y
    OBVIOUS
  <2> QED
    BY <1>1, <1>2, <1>3, <1>4, <1>5, <1>7, <2>1
<1>9. a < b => x # 0
  BY <1>1
<1>10. c < d => y # 0
  BY <1>2
<1> QED
  BY <1>6, <1>8, <1>9, <1>10

(* A product of positive terms rises with any of them.                     *)
LEMMA ProductRises ==
  ASSUME NEW s \in Seq(Nat), NEW t \in Seq(Nat), Len(s) = Len(t),
         \A i \in 1 .. Len(s) : 0 < s[i] /\ s[i] <= t[i],
         NEW j \in 1 .. Len(s), s[j] < t[j]
  PROVE  Product(s) < Product(t)
<1>1. PICK n \in Nat : n = Len(s) /\ n = Len(t)
  OBVIOUS
<1>2. PICK p : Multiplies(p, s, n) /\ Product(s) = p[n]
  BY <1>1, ProductMultiplies
<1>3. PICK q : Multiplies(q, t, n) /\ Product(t) = q[n]
  BY <1>1, ProductMultiplies
<1> DEFINE Fine(k) == p[k] \in Nat /\ q[k] \in Nat /\ 0 < p[k] /\ p[k] <= q[k]
                        /\ (j <= k => p[k] < q[k])
<1> DEFINE Bad == {k \in 0 .. n : ~Fine(k)}
<1> SUFFICES ASSUME Bad # {} PROVE FALSE
  BY <1>1, <1>2, <1>3
<1>4. PICK m \in Bad : \A k \in Bad : m <= k
  <2>1. Bad \in SUBSET Nat
    OBVIOUS
  <2> HIDE DEF Bad
  <2> QED
    BY <2>1, SmallestOf
<1>5. m \in 0 .. n /\ m \in Nat /\ p[0] = 1 /\ q[0] = 1
  BY <1>2, <1>3 DEF Multiplies
<1>6. m # 0
  BY <1>5
<1>7. Fine(m - 1)
  <2>1. m - 1 \in 0 .. n /\ ~(m <= m - 1)
    BY <1>5, <1>6
  <2>2. m - 1 \notin Bad
    <3> HIDE DEF Bad
    <3> QED
      BY <1>4, <2>1
  <2> HIDE DEF Fine
  <2> QED
    BY <2>1, <2>2
<1>8. PICK a \in Nat, b \in Nat :
        a = p[m - 1] /\ b = q[m - 1] /\ 0 < a /\ a <= b /\ (j <= m - 1 => a < b)
  BY <1>7
<1>9. PICK c \in Nat, d \in Nat : c = s[m] /\ d = t[m] /\ 0 < c /\ c <= d /\ (m = j => c < d)
  <2>1. m \in 1 .. Len(s)
    BY <1>1, <1>5, <1>6
  <2> QED
    BY <1>1, <2>1
<1>10. p[m] = a * c /\ q[m] = b * d
  <2>1. p[m] = p[m - 1] * s[m] /\ q[m] = q[m - 1] * t[m]
    BY <1>2, <1>3, <1>5, <1>6 DEF Multiplies
  <2> QED
    BY <1>8, <1>9, <2>1
<1>11. /\ a * c \in Nat /\ b * d \in Nat /\ 0 < a * c /\ a * c <= b * d
       /\ a < b \/ c < d => a * c < b * d
  <2>1. 0 < a /\ 0 < c /\ a <= b /\ c <= d
    BY <1>8, <1>9
  <2> HIDE DEF Bad, Fine
  <2> QED
    BY <2>1, TimesRises
<1>12. PICK x \in Nat, y \in Nat :
         x = p[m] /\ y = q[m] /\ 0 < x /\ x <= y /\ (a < b \/ c < d => x < y)
  BY <1>10, <1>11
<1>13. j <= m => a < b \/ c < d
  BY <1>5, <1>8, <1>9
<1>14. Fine(m)
  <2>1. j <= m => x < y
    BY <1>12, <1>13
  <2> QED
    BY <1>12, <2>1
<1> QED
  BY <1>4, <1>14
=============================================================================
