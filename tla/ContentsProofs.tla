--------------------------- MODULE ContentsProofs ---------------------------
(***************************************************************************)
(* What is in a batch, for every dataset whose transforms keep the shape   *)
(* of their chunk: each element of each row is the stored element of the   *)
(* row's sample, put through the transforms of its array, by whichever way *)
(* it came.  And a cache entry is shared by two pipelines exactly if they  *)
(* do the same to its array.                                               *)
(***************************************************************************)
EXTENDS SummaryProofs

-----------------------------------------------------------------------------
(* Places in row-major order.                                              *)

(* q[d] is the place of the first d members of an index tuple.             *)
Places(q, s, i, n) == q = [d \in 0 .. n |-> IF d = 0 THEN 0 ELSE q[d - 1] * s[d] + i[d]]

(* There are such places for every tuple.                                  *)
LEMMA PlacesExist ==
  ASSUME NEW s, NEW i, NEW n \in Nat
  PROVE  \E q : Places(q, s, i, n)
<1> DEFINE Bad == {m \in Nat : ~ \E q : Places(q, s, i, m)}
<1> SUFFICES ASSUME Bad # {} PROVE FALSE
  OBVIOUS
<1>1. PICK m \in Bad : \A k \in Bad : m <= k
  BY SmallestOf
<1>2. CASE m = 0
  <2>1. Places([k \in 0 .. 0 |-> 0], s, i, 0)
    BY DEF Places
  <2> QED
    BY <1>2, <2>1
<1>3. CASE m # 0
  <2>1. m - 1 \in Nat /\ m - 1 \notin Bad
    BY <1>1, <1>3
  <2>2. PICK p : Places(p, s, i, m - 1)
    BY <2>1
  <2> DEFINE g == [k \in 0 .. m |-> IF k = m THEN p[m - 1] * s[m] + i[m] ELSE p[k]]
  <2>3. \A k \in 0 .. m : g[k] = IF k = 0 THEN 0 ELSE g[k - 1] * s[k] + i[k]
    <3> SUFFICES ASSUME NEW k \in 0 .. m
                 PROVE  g[k] = IF k = 0 THEN 0 ELSE g[k - 1] * s[k] + i[k]
      OBVIOUS
    <3>0. k \in Nat /\ m \in Nat
      BY <2>1
    <3>1. CASE k = m
      <4>1. g[k - 1] = p[m - 1] /\ g[k] = p[m - 1] * s[m] + i[m]
        BY <1>3, <3>0, <3>1
      <4> QED
        BY <1>3, <3>1, <4>1
    <3>2. CASE k # m
      <4>1. k \in 0 .. m - 1 /\ g[k] = p[k] /\ (k # 0 => k - 1 \in 0 .. m /\ k - 1 # m)
        BY <3>0, <3>2
      <4>2. p[k] = IF k = 0 THEN 0 ELSE p[k - 1] * s[k] + i[k]
        BY <2>2, <4>1 DEF Places
      <4>3. k # 0 => g[k - 1] = p[k - 1]
        BY <4>1
      <4> QED
        BY <4>1, <4>2, <4>3
    <3> QED
      BY <3>1, <3>2
  <2>4. g = [k \in 0 .. m |-> g[k]]
    OBVIOUS
  <2>5. Places(g, s, i, m)
    <3> HIDE DEF g
    <3> QED
      BY <2>3, <2>4 DEF Places
  <2> QED
    BY <1>1, <2>5
<1> QED
  BY <1>2, <1>3

(* The row-major place of a tuple is the last of them.                     *)
LEMMA RowMajorPlaces ==
  ASSUME NEW s, NEW i, Len(s) \in Nat
  PROVE  \E q : Places(q, s, i, Len(s)) /\ RowMajor(s, i) = q[Len(s)]
<1> DEFINE g == CHOOSE q : Places(q, s, i, Len(s))
<1>1. Places(g, s, i, Len(s))
  BY PlacesExist
<1>2. RowMajor(s, i) = g[Len(s)]
  BY DEF RowMajor, Places
<1> QED
  BY <1>1, <1>2

(* One row more holds its elements.                                        *)
LEMMA RowHolds ==
  ASSUME NEW a \in Nat, NEW p \in Nat, a < p, NEW s \in Nat, NEW x \in Nat, x < s,
         NEW u, u = a * s + x, NEW v, v = p * s
  PROVE  u \in Nat /\ v \in Nat /\ u < v
<1>1. PICK e \in Nat : p = a + 1 + e
  <2>1. p - a - 1 \in Nat /\ p = a + 1 + (p - a - 1)
    OBVIOUS
  <2> QED
    BY <2>1
<1>2. PICK t \in Nat, w \in Nat : t = a * s /\ w = e * s
  OBVIOUS
<1>3. (a + 1 + e) * s = a * s + s + e * s
  OBVIOUS
<1>4. u = t + x /\ v = t + s + w
  BY <1>1, <1>2, <1>3
<1> QED
  BY <1>4

(* A place in a row of rows is of one row only.                            *)
InRow(u, a, s, x) == a \in Nat /\ s \in Nat /\ x \in Nat /\ x < s /\ u = a * s + x

(* A number is in one row, at one place of it.                             *)
LEMMA RowIsOne ==
  ASSUME NEW a, NEW b, NEW s, NEW x, NEW y, NEW u, InRow(u, a, s, x), InRow(u, b, s, y)
  PROVE  a = b /\ x = y
<1> USE DEF InRow
<1>1. PICK v \in Nat, w \in Nat : v = a * s /\ w = b * s
  OBVIOUS
<1>2. u = v + x /\ u = w + y
  BY <1>1
<1>3. CASE a < b
  <2>1. u < w
    BY <1>1, <1>3, RowHolds
  <2> QED
    BY <1>2, <2>1
<1>4. CASE b < a
  <2>1. u < v
    BY <1>1, <1>4, RowHolds
  <2> QED
    BY <1>2, <2>1
<1>5. CASE a = b
  BY <1>1, <1>2, <1>5
<1> QED
  BY <1>3, <1>4, <1>5

Tuple(i, s, n) == \A d \in 1 .. n : i[d] \in Nat /\ i[d] < s[d]

(* A place lies within the box.                                            *)
LEMMA PlaceWithin ==
  ASSUME NEW s \in Seq(Nat), NEW i, NEW n \in Nat, n <= Len(s), Tuple(i, s, n),
         NEW q, Places(q, s, i, n), NEW p, Multiplies(p, s, n)
  PROVE  \A d \in 0 .. n : q[d] \in Nat /\ p[d] \in Nat /\ q[d] < p[d]
<1> DEFINE Bad == {d \in 0 .. n : ~(q[d] \in Nat /\ p[d] \in Nat /\ q[d] < p[d])}
<1> SUFFICES ASSUME Bad # {} PROVE FALSE
  OBVIOUS
<1>1. PICK m \in Bad : \A k \in Bad : m <= k
  <2>1. Bad \in SUBSET Nat
    OBVIOUS
  <2> HIDE DEF Bad
  <2> QED
    BY <2>1, SmallestOf
<1>2. m \in 0 .. n /\ m \in Nat /\ q[0] = 0 /\ p[0] = 1
  BY DEF Places, Multiplies
<1>3. m # 0
  BY <1>2
<1>4. m - 1 \in 0 .. n /\ m - 1 \notin Bad
  BY <1>1, <1>2, <1>3
<1>5. PICK a, b \in Nat : a = q[m - 1] /\ b = p[m - 1] /\ a < b
  BY <1>4
<1>6. PICK x, y \in Nat : x = i[m] /\ y = s[m] /\ x < y
  <2>1. m \in 1 .. n /\ m \in 1 .. Len(s)
    BY <1>2, <1>3
  <2> QED
    BY <2>1 DEF Tuple
<1>7. q[m] = a * y + x /\ p[m] = b * y
  BY <1>2, <1>3, <1>5, <1>6 DEF Places, Multiplies
<1>8. q[m] \in Nat /\ p[m] \in Nat /\ q[m] < p[m]
  BY <1>5, <1>6, <1>7, RowHolds
<1> QED
  BY <1>8

(* Two index tuples of one place are one.                                  *)
LEMMA PlaceApart ==
  ASSUME NEW s \in Seq(Nat), NEW i, NEW j, NEW n \in Nat, n <= Len(s), Tuple(i, s, n), Tuple(j, s, n),
         NEW q, Places(q, s, i, n), NEW r, Places(r, s, j, n)
  PROVE  \A d \in 0 .. n : q[d] = r[d] => \A e \in 1 .. d : i[e] = j[e]
<1> DEFINE Bad == {d \in 0 .. n : ~(q[d] = r[d] => \A e \in 1 .. d : i[e] = j[e])}
<1> SUFFICES ASSUME Bad # {} PROVE FALSE
  OBVIOUS
<1>1. PICK m \in Bad : \A k \in Bad : m <= k
  <2>1. Bad \in SUBSET Nat
    OBVIOUS
  <2> HIDE DEF Bad
  <2> QED
    BY <2>1, SmallestOf
<1>2. m \in 0 .. n /\ m \in Nat /\ q[m] = r[m]
  OBVIOUS
<1>3. m # 0
  <2>1. 1 .. 0 = {}
    OBVIOUS
  <2> QED
    BY <1>1, <2>1
<1>4. m - 1 \in 0 .. n /\ m - 1 \notin Bad
  BY <1>1, <1>2, <1>3
<1>5. PICK p : Multiplies(p, s, n)
  BY ProductsExist
<1>6. PICK a, b \in Nat : a = q[m - 1] /\ b = r[m - 1]
  <2>1. q[m - 1] \in Nat
    BY <1>4, <1>5, PlaceWithin
  <2>2. r[m - 1] \in Nat
    BY <1>4, <1>5, PlaceWithin
  <2> QED
    BY <2>1, <2>2
<1>7. PICK x, y, z \in Nat : x = i[m] /\ y = j[m] /\ z = s[m] /\ x < z /\ y < z
  <2>1. m \in 1 .. n /\ m \in 1 .. Len(s)
    BY <1>2, <1>3
  <2>2. i[m] \in Nat /\ i[m] < s[m] /\ j[m] \in Nat /\ j[m] < s[m] /\ s[m] \in Nat
    BY <2>1 DEF Tuple
  <2> QED
    BY <2>2
<1>8. q[m] = a * z + x /\ r[m] = b * z + y
  BY <1>2, <1>3, <1>6, <1>7 DEF Places
<1>9. a = b /\ x = y
  <2>1. InRow(q[m], a, z, x)
    BY <1>7, <1>8 DEF InRow
  <2>2. InRow(q[m], b, z, y)
    BY <1>2, <1>7, <1>8 DEF InRow
  <2> QED
    BY <2>1, <2>2, RowIsOne
<1>10. \A e \in 1 .. m - 1 : i[e] = j[e]
  BY <1>4, <1>6, <1>9
<1>11. \A e \in 1 .. m : i[e] = j[e]
  <2>1. \A e \in 1 .. m : e \in 1 .. m - 1 \/ e = m
    BY <1>2
  <2> QED
    BY <1>7, <1>9, <1>10, <2>1
<1> QED
  BY <1>1, <1>11

(* Each place below the product is that of an index tuple.                 *)
LEMMA PlaceReached ==
  ASSUME NEW s \in Seq(Nat), NEW p, Multiplies(p, s, Len(s))
  PROVE  \A d \in 0 .. Len(s) : p[d] \in Nat /\ \A k \in Nat : k < p[d] =>
           \E i, q : i = [e \in 1 .. d |-> i[e]] /\ Tuple(i, s, d) /\ Places(q, s, i, d) /\ q[d] = k
<1> DEFINE Reached(k, d) ==
             \E i, q : i = [e \in 1 .. d |-> i[e]] /\ Tuple(i, s, d) /\ Places(q, s, i, d) /\ q[d] = k
           Bad == {d \in 0 .. Len(s) : ~(p[d] \in Nat /\ \A k \in Nat : k < p[d] => Reached(k, d))}
<1> SUFFICES ASSUME Bad # {} PROVE FALSE
  OBVIOUS
<1>0. PICK n \in Nat : n = Len(s)
  OBVIOUS
<1>1. PICK m \in Bad : \A k \in Bad : m <= k
  <2>1. Bad \in SUBSET Nat
    OBVIOUS
  <2> HIDE DEF Bad
  <2> QED
    BY <2>1, SmallestOf
<1> HIDE DEF Reached
<1>2. m \in 0 .. n /\ m \in Nat /\ p[0] = 1
  BY <1>0 DEF Multiplies
<1>20. ~(p[m] \in Nat /\ \A k \in Nat : k < p[m] => Reached(k, m))
  BY <1>0
<1>3. m # 0
  <2> SUFFICES ASSUME m = 0 PROVE FALSE
    OBVIOUS
  <2> DEFINE i == [e \in 1 .. 0 |-> 0]
             q == [d \in 0 .. 0 |-> 0]
  <2>1. i = [e \in 1 .. 0 |-> i[e]] /\ Tuple(i, s, 0)
    BY DEF Tuple
  <2>2. Places(q, s, i, 0) /\ q[0] = 0
    BY DEF Places
  <2> HIDE DEF i, q
  <2>3. Reached(0, 0)
    BY <2>1, <2>2 DEF Reached
  <2>4. \A k \in Nat : k < 1 => k = 0
    OBVIOUS
  <2> QED
    BY <1>2, <1>20, <2>3, <2>4
<1>4. m - 1 \in 0 .. n /\ m - 1 \in Nat /\ m - 1 \notin Bad
  BY <1>0, <1>1, <1>2, <1>3
<1>5. p[m - 1] \in Nat /\ \A k \in Nat : k < p[m - 1] => Reached(k, m - 1)
  BY <1>0, <1>4
<1> HIDE DEF Bad
<1>6. PICK a \in Nat : a = p[m - 1]
  BY <1>5
<1>7. PICK z \in Nat : z = s[m] /\ m \in 1 .. n
  BY <1>0, <1>2, <1>3
<1>8. p[m] = a * z /\ a * z \in Nat
  <2>1. p[m] = p[m - 1] * s[m]
    BY <1>0, <1>2, <1>3 DEF Multiplies
  <2>2. a * z \in Nat
    OBVIOUS
  <2> QED
    BY <1>6, <1>7, <2>1, <2>2
<1>9. ASSUME NEW k \in Nat, k < p[m]
      PROVE  Reached(k, m)
  <2>1. PICK h \in Nat, x \in Nat : InRow(k, h, z, x) /\ h < a
    <3>1. z # 0
      BY <1>6, <1>8, <1>9
    <3>2. k \div z \in Nat /\ k % z \in Nat /\ k % z < z /\ k = (k \div z) * z + (k % z)
      <4>1. PICK w : w = z /\ w \in Nat \ {0}
        BY <3>1
      <4>2. k \div w \in Nat /\ k % w \in Nat /\ k % w < w /\ k = (k \div w) * w + (k % w)
        BY <4>1
      <4> QED
        BY <4>1, <4>2
    <3>3. PICK h \in Nat, x \in Nat : h = k \div z /\ x = k % z
      BY <3>2
    <3>4. k = h * z + x /\ x < z
      BY <3>2, <3>3
    <3>5. h < a
      <4> SUFFICES ASSUME ~(h < a) PROVE FALSE
        OBVIOUS
      <4>1. a <= h /\ z <= z
        BY <1>6
      <4>2. a * z <= h * z
        BY <4>1, TimesGrows
      <4>3. PICK t \in Nat, u \in Nat : t = a * z /\ u = h * z
        OBVIOUS
      <4>4. k = u + x /\ t <= u /\ k < t
        BY <1>8, <1>9, <3>4, <4>2, <4>3
      <4> QED
        BY <4>4
    <3> QED
      BY <3>4, <3>5 DEF InRow
  <2>2. PICK i, q : i = [e \in 1 .. m - 1 |-> i[e]] /\ Tuple(i, s, m - 1) /\ Places(q, s, i, m - 1) /\ q[m - 1] = h
    BY <1>5, <1>6, <2>1 DEF Reached
  <2> DEFINE j == [e \in 1 .. m |-> IF e = m THEN x ELSE i[e]]
             r == [d \in 0 .. m |-> IF d = m THEN h * z + x ELSE q[d]]
  <2>3. j = [e \in 1 .. m |-> j[e]] /\ j[m] = x /\ \A e \in 1 .. m - 1 : j[e] = i[e]
    BY <1>2, <1>3
  <2>4. r[m] = k /\ \A d \in 0 .. m - 1 : r[d] = q[d]
    BY <1>2, <2>1 DEF InRow
  <2>5. r = [d \in 0 .. m |-> r[d]]
    OBVIOUS
  <2> HIDE DEF j, r
  <2>6. Tuple(j, s, m)
    <3> SUFFICES ASSUME NEW e \in 1 .. m PROVE j[e] \in Nat /\ j[e] < s[e]
      BY DEF Tuple
    <3>1. CASE e = m
      BY <1>7, <2>1, <2>3, <3>1 DEF InRow
    <3>2. CASE e # m
      <4>1. e \in 1 .. m - 1
        BY <1>2, <3>2
      <4> QED
        BY <2>2, <2>3, <4>1 DEF Tuple
    <3> QED
      BY <3>1, <3>2
  <2>7. ASSUME NEW d \in 0 .. m
        PROVE  r[d] = IF d = 0 THEN 0 ELSE r[d - 1] * s[d] + j[d]
    <3>1. CASE d = m
      <4>0. m - 1 \in 0 .. m - 1 /\ d - 1 = m - 1
        BY <1>2, <1>3, <3>1
      <4>1. r[d - 1] = h
        BY <2>2, <2>4, <4>0
      <4>2. r[d] = h * z + x /\ d # 0
        BY <1>3, <2>1, <2>4, <3>1 DEF InRow
      <4> QED
        BY <1>7, <2>3, <3>1, <4>1, <4>2
    <3>2. CASE d = 0
      <4>1. 0 \in 0 .. m - 1
        BY <1>2, <1>3
      <4>2. q[0] = 0
        BY <2>2, <4>1 DEF Places
      <4> QED
        BY <2>4, <3>2, <4>1, <4>2
    <3>3. CASE d # m /\ d # 0
      <4>1. d \in 0 .. m - 1 /\ d - 1 \in 0 .. m - 1 /\ d \in 1 .. m - 1
        BY <1>2, <3>3
      <4>2. q[d] = q[d - 1] * s[d] + i[d]
        BY <2>2, <3>3, <4>1 DEF Places
      <4>3. r[d] = q[d] /\ r[d - 1] = q[d - 1] /\ j[d] = i[d]
        BY <2>3, <2>4, <4>1
      <4> QED
        BY <3>3, <4>2, <4>3
    <3> QED
      BY <3>1, <3>2, <3>3
  <2>8. Places(r, s, j, m)
    BY <2>5, <2>7 DEF Places
  <2> QED
    BY <2>3, <2>4, <2>6, <2>8 DEF Reached
<1> QED
  BY <1>20, <1>8, <1>9

(* Row-major order numbers the index tuples of a box, from zero on.        *)
LEMMA RowMajorWithin ==
  ASSUME NEW s \in Seq(Nat), NEW i \in Box(s)
  PROVE  RowMajor(s, i) \in Nat /\ RowMajor(s, i) < Product(s) /\ Product(s) \in Nat
<1>1. PICK n \in Nat : n = Len(s)
  OBVIOUS
<1>2. Tuple(i, s, n) /\ n <= Len(s)
  BY <1>1, InBox DEF Tuple
<1>3. PICK q : Places(q, s, i, n) /\ RowMajor(s, i) = q[n]
  BY <1>1, RowMajorPlaces
<1>4. PICK p : Multiplies(p, s, n) /\ Product(s) = p[n]
  BY <1>1, ProductMultiplies
<1>5. n \in 0 .. n
  OBVIOUS
<1>6. \A d \in 0 .. n : q[d] \in Nat /\ p[d] \in Nat /\ q[d] < p[d]
  BY <1>2, <1>3, <1>4, PlaceWithin
<1> QED
  BY <1>3, <1>4, <1>5, <1>6

(* No two index tuples of an array have the same place.                    *)
LEMMA RowMajorApart ==
  ASSUME NEW s \in Seq(Nat), NEW i \in Box(s), NEW j \in Box(s), RowMajor(s, i) = RowMajor(s, j)
  PROVE  i = j
<1>1. PICK n \in Nat : n = Len(s)
  OBVIOUS
<1>2. Tuple(i, s, n) /\ n <= Len(s)
  BY <1>1, InBox DEF Tuple
<1>3. Tuple(j, s, n)
  BY <1>1, InBox DEF Tuple
<1>4. PICK q : Places(q, s, i, n) /\ RowMajor(s, i) = q[n]
  BY <1>1, RowMajorPlaces
<1>5. PICK r : Places(r, s, j, n) /\ RowMajor(s, j) = r[n]
  BY <1>1, RowMajorPlaces
<1>6. n \in 0 .. n
  OBVIOUS
<1>7. \A d \in 0 .. n : q[d] = r[d] => \A e \in 1 .. d : i[e] = j[e]
  BY <1>2, <1>3, <1>4, <1>5, PlaceApart
<1>8. \A e \in 1 .. n : i[e] = j[e]
  BY <1>4, <1>5, <1>6, <1>7
<1>9. i = [d \in 1 .. n |-> i[d]] /\ j = [d \in 1 .. n |-> j[d]]
  BY <1>1, InBox
<1> QED
  BY <1>8, <1>9

(* Every place below the size of an array is that of an index tuple.       *)
LEMMA RowMajorReached ==
  ASSUME NEW s \in Seq(Nat), NEW k \in Nat, k < Product(s)
  PROVE  \E i \in Box(s) : RowMajor(s, i) = k
<1>1. PICK n \in Nat : n = Len(s)
  OBVIOUS
<1>2. PICK p : Multiplies(p, s, Len(s)) /\ Product(s) = p[Len(s)]
  BY <1>1, ProductMultiplies
<1>3. n \in 0 .. n /\ k < p[n]
  BY <1>1, <1>2
<1>4. PICK i, q : i = [e \in 1 .. n |-> i[e]] /\ Tuple(i, s, n) /\ Places(q, s, i, n) /\ q[n] = k
  BY <1>1, <1>2, <1>3, PlaceReached
<1>5. i \in Box(s)
  BY <1>1, <1>4, InBox DEF Tuple
<1>6. PICK r : Places(r, s, i, n) /\ RowMajor(s, i) = r[n]
  BY <1>1, RowMajorPlaces
<1>7. r[n] = q[n]
  <2> DEFINE Bad == {d \in 0 .. n : q[d] # r[d]}
  <2> SUFFICES ASSUME Bad # {} PROVE FALSE
    BY <1>3
  <2>1. PICK m \in Bad : \A e \in Bad : m <= e
    <3>1. Bad \in SUBSET Nat
      OBVIOUS
    <3> HIDE DEF Bad
    <3> QED
      BY <3>1, SmallestOf
  <2>2. m \in 0 .. n /\ m # 0 /\ q[m] # r[m]
    BY <1>4, <1>6 DEF Places
  <2>3. m - 1 \in 0 .. n /\ q[m - 1] = r[m - 1]
    BY <2>1, <2>2
  <2>4. q[m] = q[m - 1] * s[m] + i[m]
    BY <1>4, <2>2 DEF Places
  <2>5. r[m] = r[m - 1] * s[m] + i[m]
    BY <1>6, <2>2 DEF Places
  <2> QED
    BY <2>2, <2>3, <2>4, <2>5
<1> QED
  BY <1>4, <1>5, <1>6, <1>7

(* Before an index tuple stand as many as its number says.                 *)
LEMMA RowMajorCounts ==
  ASSUME NEW s \in Seq(Nat), NEW i \in Box(s)
  PROVE  Cardinality({j \in Box(s) : RowMajor(s, j) < RowMajor(s, i)}) = RowMajor(s, i)
<1> DEFINE Before == {j \in Box(s) : RowMajor(s, j) < RowMajor(s, i)}
           f == [j \in Before |-> RowMajor(s, j)]
<1>1. PICK n \in Nat : n = RowMajor(s, i) /\ n < Product(s)
  BY RowMajorWithin
<1>2. ASSUME NEW j \in Before
      PROVE  f[j] \in 0 .. n - 1
  <2>1. RowMajor(s, j) \in Nat /\ RowMajor(s, j) < n
    BY <1>1, <1>2, RowMajorWithin
  <2> QED
    BY <1>2, <2>1
<1>3. ASSUME NEW k \in 0 .. n - 1
      PROVE  \E j \in Before : f[j] = k
  <2>1. Product(s) \in Nat
    BY RowMajorWithin
  <2>2. k \in Nat /\ k < n /\ k < Product(s)
    BY <1>1, <2>1
  <2>3. PICK j \in Box(s) : RowMajor(s, j) = k
    BY <2>2, RowMajorReached
  <2>4. j \in Before
    BY <1>1, <2>2, <2>3
  <2> QED
    BY <2>3, <2>4
<1>4. ASSUME NEW j \in Before, NEW k \in Before, f[j] = f[k]
      PROVE  j = k
  BY <1>4, RowMajorApart
<1> DEFINE g == [k \in 0 .. n - 1 |-> CHOOSE j \in Before : f[j] = k]
<1>5. \A k \in 0 .. n - 1 : g[k] \in Before /\ f[g[k]] = k
  <2> HIDE DEF f, Before
  <2> QED
    BY <1>3
<1>6. g \in Bijection(0 .. n - 1, Before)
  <2>1. g = [k \in 0 .. n - 1 |-> g[k]]
    OBVIOUS
  <2> HIDE DEF f, g, Before
  <2>4. g \in [0 .. n - 1 -> Before]
    BY <1>5, <2>1
  <2>5. \A k, l \in 0 .. n - 1 : g[k] = g[l] => k = l
    BY <1>5
  <2>2. g \in Injection(0 .. n - 1, Before)
    BY <2>4, <2>5 DEF Injection, IsInjective
  <2>3. \A j \in Before : f[j] \in 0 .. n - 1 /\ g[f[j]] = j
    <3> SUFFICES ASSUME NEW j \in Before PROVE f[j] \in 0 .. n - 1 /\ g[f[j]] = j
      OBVIOUS
    <3>1. f[j] \in 0 .. n - 1
      BY <1>2
    <3>2. g[f[j]] \in Before /\ f[g[f[j]]] = f[j]
      BY <1>5, <3>1
    <3> QED
      BY <1>4, <3>1, <3>2
  <2>6. \A j \in Before : \E k \in 0 .. n - 1 : g[k] = j
    BY <2>3
  <2>7. g \in Surjection(0 .. n - 1, Before)
    BY <2>4, <2>6 DEF Surjection
  <2> QED
    BY <2>2, <2>7 DEF Bijection
<1>7. IsFiniteSet(0 .. n - 1) /\ Cardinality(0 .. n - 1) = n
  <2>1. 0 \in Int /\ n - 1 \in Int
    OBVIOUS
  <2>2. IsFiniteSet(0 .. n - 1) /\ Cardinality(0 .. n - 1) = IF 0 > n - 1 THEN 0 ELSE n - 1 - 0 + 1
    BY <2>1, FS_Interval
  <2> QED
    BY <2>2
<1> HIDE DEF Before
<1>8. ExistsBijection(0 .. n - 1, Before)
  BY <1>6 DEF ExistsBijection
<1>9. Cardinality(Before) = n
  BY <1>7, <1>8, FS_Bijection
<1> QED
  BY <1>1, <1>9 DEF Before

-----------------------------------------------------------------------------
(* Index tuples with an axis put in and one taken out.                     *)

(* A tuple with one member before it.                                      *)
LEMMA HeadedIs ==
  ASSUME NEW E, NEW w \in E, NEW j \in Seq(E)
  PROVE  /\ <<w>> \o j \in Seq(E) /\ Len(<<w>> \o j) = Len(j) + 1 /\ (<<w>> \o j)[1] = w
         /\ \A d \in 1 .. Len(j) : (<<w>> \o j)[d + 1] = j[d]
         /\ Head(<<w>> \o j) = w /\ Tail(<<w>> \o j) = j
<1>1. PICK h : h = <<w>>
  OBVIOUS
<1>2. h \in Seq(E) /\ Len(h) = 1 /\ h[1] = w
  BY <1>1
<1>3. PICK n \in Nat : n = Len(j)
  OBVIOUS
<1>4. PICK f : f = h \o j
  OBVIOUS
<1>5. /\ f \in Seq(E) /\ Len(f) = n + 1
      /\ \A d \in 1 .. n + 1 : f[d] = IF d <= 1 THEN h[d] ELSE j[d - 1]
  <2>1. /\ h \o j \in Seq(E) /\ Len(h \o j) = Len(h) + Len(j)
        /\ \A d \in 1 .. Len(h) + Len(j) : (h \o j)[d] = IF d <= Len(h) THEN h[d] ELSE j[d - Len(h)]
    BY <1>2, JoinIs
  <2>2. Len(h) + Len(j) = n + 1
    BY <1>2, <1>3
  <2> QED
    BY <1>2, <1>4, <2>1, <2>2
<1>6. f[1] = w
  <2>1. 1 \in 1 .. n + 1 /\ 1 <= 1
    OBVIOUS
  <2> QED
    BY <1>2, <1>5, <2>1
<1>7. ASSUME NEW d \in 1 .. n
      PROVE  f[d + 1] = j[d]
  <2>1. d + 1 \in 1 .. n + 1 /\ ~(d + 1 <= 1) /\ d + 1 - 1 = d
    OBVIOUS
  <2> QED
    BY <1>5, <2>1
<1>8. Head(f) = w
  BY <1>6
<1>9. Tail(f) = j
  <2>1. f # <<>> /\ Len(f) = n + 1
    BY <1>5
  <2>2. Tail(f) \in Seq(E) /\ Len(Tail(f)) = n /\ \A d \in 1 .. n : Tail(f)[d] = f[d + 1]
    BY <1>5, <2>1
  <2> QED
    BY <1>3, <1>7, <2>2
<1> QED
  BY <1>1, <1>3, <1>4, <1>5, <1>6, <1>7, <1>8, <1>9

(* The members of a box are sequences.                                     *)
LEMMA BoxIsSeq ==
  ASSUME NEW shape \in Seq(Nat), NEW f \in Box(shape)
  PROVE  /\ f \in Seq(Nat) /\ Len(f) = Len(shape) /\ DOMAIN f = 1 .. Len(shape)
         /\ \A d \in 1 .. Len(shape) : f[d] \in Nat /\ f[d] < shape[d]
<1>1. f = [d \in 1 .. Len(shape) |-> f[d]]
  BY InBox
<1>2. \A d \in 1 .. Len(shape) : f[d] \in Nat /\ f[d] < shape[d]
  BY InBox
<1>3. PICK n \in Nat : n = Len(shape)
  OBVIOUS
<1>4. \A d \in 1 .. n : f[d] \in Nat
  BY <1>2, <1>3
<1>5. f = [d \in 1 .. n |-> f[d]]
  BY <1>1, <1>3
<1>6. [d \in 1 .. n |-> f[d]] \in Seq(Nat) /\ Len([d \in 1 .. n |-> f[d]]) = n /\ DOMAIN [d \in 1 .. n |-> f[d]] = 1 .. n
  BY <1>4
<1>7. f \in Seq(Nat) /\ Len(f) = n /\ DOMAIN f = 1 .. n
  BY <1>5, <1>6
<1> QED
  BY <1>2, <1>3, <1>7

(* A box with one more axis, the first.                                    *)
LEMMA BoxHeaded ==
  ASSUME NEW shape \in Seq(Nat), NEW n \in Nat, NEW w \in Nat, w < n, NEW j \in Box(shape)
  PROVE  <<w>> \o j \in Box(<<n>> \o shape)
<1>1. PICK m \in Nat : m = Len(shape)
  OBVIOUS
<1>2. j \in Seq(Nat) /\ Len(j) = m /\ \A d \in 1 .. m : j[d] \in Nat /\ j[d] < shape[d]
  BY <1>1, BoxIsSeq
<1>3. PICK f, s : f = <<w>> \o j /\ s = <<n>> \o shape
  OBVIOUS
<1>4. f \in Seq(Nat) /\ Len(f) = m + 1 /\ f[1] = w /\ \A d \in 1 .. m : f[d + 1] = j[d]
  BY <1>2, <1>3, HeadedIs
<1>5. s \in Seq(Nat) /\ Len(s) = m + 1 /\ s[1] = n /\ \A d \in 1 .. m : s[d + 1] = shape[d]
  BY <1>1, <1>3, HeadedIs
<1>6. ASSUME NEW d \in 1 .. m + 1
      PROVE  f[d] \in Nat /\ f[d] < s[d]
  <2>1. CASE d = 1
    BY <1>4, <1>5, <2>1
  <2>2. CASE d # 1
    <3>1. PICK e \in 1 .. m : d = e + 1
      <4>1. d - 1 \in 1 .. m /\ d = (d - 1) + 1
        BY <2>2
      <4> QED
        BY <4>1
    <3> QED
      BY <1>2, <1>4, <1>5, <3>1
  <2> QED
    BY <2>1, <2>2
<1>7. f = [d \in 1 .. m + 1 |-> f[d]]
  BY <1>4
<1>8. f \in Box(s)
  BY <1>5, <1>6, <1>7, InBox
<1> QED
  BY <1>3, <1>8

(* A box with one more axis, the b-th.                                     *)
LEMMA BoxInserted ==
  ASSUME NEW shape \in Seq(Nat), NEW b \in 1 .. Len(shape), NEW w \in Nat, w < shape[b],
         NEW j \in Box(RemoveAt(shape, b))
  PROVE  /\ InsertAt(j, b, w) \in Box(shape) /\ InsertAt(j, b, w)[b] = w
         /\ RemoveAt(InsertAt(j, b, w), b) = j
<1>1. PICK n \in Nat : n = Len(shape) /\ n # 0
  <2>1. Len(shape) \in Nat /\ Len(shape) # 0
    OBVIOUS
  <2> QED
    BY <2>1
<1>2. PICK rest : rest = RemoveAt(shape, b)
  OBVIOUS
<1>3. rest \in Seq(Nat) /\ Len(rest) = n - 1 /\ \A i \in 1 .. n - 1 : rest[i] = shape[IF i < b THEN i ELSE i + 1]
  <2>1. /\ RemoveAt(shape, b) \in Seq(Nat) /\ Len(RemoveAt(shape, b)) = Len(shape) - 1
        /\ \A i \in 1 .. Len(shape) - 1 : RemoveAt(shape, b)[i] = shape[IF i < b THEN i ELSE i + 1]
    BY AxisDropped
  <2> QED
    BY <1>1, <1>2, <2>1
<1>4. j \in Seq(Nat) /\ Len(j) = n - 1 /\ \A i \in 1 .. n - 1 : j[i] \in Nat /\ j[i] < rest[i]
  BY <1>2, <1>3, BoxIsSeq
<1>5. PICK k : k = InsertAt(j, b, w)
  OBVIOUS
<1>6. k \in Seq(Nat) /\ Len(k) = n /\ k[b] = w /\ RemoveAt(k, b) = j
  <2>1. b \in 1 .. Len(j) + 1 /\ Len(j) + 1 = n
    BY <1>1, <1>4
  <2>2. /\ InsertAt(j, b, w) \in Seq(Nat) /\ Len(InsertAt(j, b, w)) = Len(j) + 1
        /\ InsertAt(j, b, w)[b] = w /\ RemoveAt(InsertAt(j, b, w), b) = j
    BY <1>4, <2>1, AxisInserted
  <2> QED
    BY <1>5, <2>1, <2>2
<1>7. \A i \in 1 .. n - 1 : j[i] = k[IF i < b THEN i ELSE i + 1]
  <2>1. b \in 1 .. Len(k) /\ Len(k) - 1 = n - 1
    BY <1>1, <1>6
  <2>2. \A i \in 1 .. Len(k) - 1 : RemoveAt(k, b)[i] = k[IF i < b THEN i ELSE i + 1]
    BY <1>6, <2>1, AxisDropped
  <2> QED
    BY <1>6, <2>1, <2>2
<1>8. ASSUME NEW d \in 1 .. n
      PROVE  k[d] \in Nat /\ k[d] < shape[d]
  <2>1. CASE d = b
    BY <1>6, <2>1
  <2>2. CASE d # b
    <3>1. PICK i \in 1 .. n - 1 : d = IF i < b THEN i ELSE i + 1
      <4>1. CASE d < b
        <5>1. d \in 1 .. n - 1 /\ d = IF d < b THEN d ELSE d + 1
          BY <1>1, <4>1
        <5> QED
          BY <5>1
      <4>2. CASE b < d
        <5>1. d - 1 \in 1 .. n - 1 /\ ~(d - 1 < b) /\ d = (d - 1) + 1
          BY <1>1, <4>2
        <5> QED
          BY <5>1
      <4> QED
        BY <2>2, <4>1, <4>2
    <3>2. j[i] = k[d] /\ rest[i] = shape[d] /\ j[i] \in Nat /\ j[i] < rest[i]
      BY <1>3, <1>4, <1>7, <3>1
    <3> QED
      BY <3>2
  <2> QED
    BY <2>1, <2>2
<1>9. k = [d \in 1 .. n |-> k[d]]
  BY <1>6
<1>10. k \in Box(shape)
  BY <1>1, <1>8, <1>9, InBox
<1> QED
  BY <1>5, <1>6, <1>10

(* np.moveaxis: the sample axis first, the others in their order.          *)
LEMMA SampleFirstAt ==
  ASSUME NEW tile, tile.shape \in Seq(Nat), NEW axis \in Nat, axis + 1 \in 1 .. Len(tile.shape),
         NEW w \in Nat, w < tile.shape[axis + 1], NEW j \in Box(RemoveAt(tile.shape, axis + 1))
  PROVE  SampleFirst(axis, tile).at[<<w>> \o j] = tile.at[InsertAt(j, axis + 1, w)]
<1>1. PICK b : b = axis + 1 /\ b \in 1 .. Len(tile.shape)
  OBVIOUS
<1>2. PICK rest, n : rest = RemoveAt(tile.shape, b) /\ n = tile.shape[b]
  OBVIOUS
<1>3. rest \in Seq(Nat) /\ n \in Nat /\ w < n /\ j \in Box(rest)
  <2>1. rest \in Seq(Nat)
    BY <1>1, <1>2, AxisDropped
  <2> QED
    BY <1>1, <1>2, <2>1
<1>4. PICK f : f = <<w>> \o j
  OBVIOUS
<1>5. f \in Box(<<n>> \o rest)
  BY <1>3, <1>4, BoxHeaded
<1>6. j \in Seq(Nat)
  BY <1>3, BoxIsSeq
<1>7. Head(f) = w /\ Tail(f) = j
  BY <1>4, <1>6, HeadedIs
<1>8. SampleFirst(axis, tile).at[f] = tile.at[InsertAt(Tail(f), b, Head(f))]
  BY <1>1, <1>2, <1>5 DEF SampleFirst
<1> QED
  BY <1>1, <1>4, <1>7, <1>8

(* Every axis but one is an axis of what is left without it.               *)
LEMMA OtherAxis ==
  ASSUME NEW n \in Nat, NEW b \in 1 .. n, NEW d \in 1 .. n, d # b
  PROVE  \E i \in 1 .. n - 1 : d = IF i < b THEN i ELSE i + 1
<1>1. CASE d < b
  <2>1. d \in 1 .. n - 1 /\ d = IF d < b THEN d ELSE d + 1
    BY <1>1
  <2> QED
    BY <2>1
<1>2. CASE b < d
  <2>1. d - 1 \in 1 .. n - 1 /\ ~(d - 1 < b) /\ d = (d - 1) + 1
    BY <1>2
  <2> QED
    BY <2>1
<1> QED
  BY <1>1, <1>2

(* Tuples of n numbers, with an axis put in and with one taken out.        *)
Numbers(s, n) == s \in Seq(Nat) /\ Len(s) = n

(* A member of such a tuple is a number.                                   *)
LEMMA NumberAt ==
  ASSUME NEW n \in Nat, NEW s, Numbers(s, n), NEW d \in 1 .. n
  PROVE  s[d] \in Nat
BY DEF Numbers

(* A tuple with one member put in, and the places of the others.           *)
LEMMA InsertedIs ==
  ASSUME NEW m \in Nat, NEW j, Numbers(j, m), NEW b \in 1 .. m + 1, NEW w \in Nat
  PROVE  /\ Numbers(InsertAt(j, b, w), m + 1) /\ InsertAt(j, b, w)[b] = w
         /\ \A i \in 1 .. m : j[i] = InsertAt(j, b, w)[IF i < b THEN i ELSE i + 1]
<1>1. PICK k : k = InsertAt(j, b, w)
  OBVIOUS
<1>2. j \in Seq(Nat) /\ b \in 1 .. Len(j) + 1
  BY DEF Numbers
<1>3. /\ InsertAt(j, b, w) \in Seq(Nat) /\ Len(InsertAt(j, b, w)) = Len(j) + 1
      /\ InsertAt(j, b, w)[b] = w /\ RemoveAt(InsertAt(j, b, w), b) = j
  BY <1>2, AxisInserted
<1>4. k \in Seq(Nat) /\ b \in 1 .. Len(k)
  BY <1>1, <1>2, <1>3
<1>5. \A i \in 1 .. Len(k) - 1 : RemoveAt(k, b)[i] = k[IF i < b THEN i ELSE i + 1]
  BY <1>4, AxisDropped
<1>6. Len(k) = m + 1 /\ RemoveAt(k, b) = j
  BY <1>1, <1>3 DEF Numbers
<1> QED
  BY <1>1, <1>3, <1>4, <1>5, <1>6 DEF Numbers

(* A tuple with one member taken out, and the places of the others.        *)
LEMMA RemovedIs ==
  ASSUME NEW n \in Nat, NEW s, Numbers(s, n), NEW b \in 1 .. n
  PROVE  /\ Numbers(RemoveAt(s, b), n - 1)
         /\ \A i \in 1 .. n - 1 : RemoveAt(s, b)[i] = s[IF i < b THEN i ELSE i + 1]
<1>1. s \in Seq(Nat) /\ b \in 1 .. Len(s)
  BY DEF Numbers
<1>2. /\ RemoveAt(s, b) \in Seq(Nat) /\ Len(RemoveAt(s, b)) = Len(s) - 1
      /\ \A i \in 1 .. Len(s) - 1 : RemoveAt(s, b)[i] = s[IF i < b THEN i ELSE i + 1]
  BY <1>1, AxisDropped
<1> QED
  BY <1>2 DEF Numbers

(* Two tuples compare axis by axis if they do on one and on the others.    *)
LEMMA AxisByAxis ==
  ASSUME NEW n \in Nat, NEW s, Numbers(s, n), NEW t, Numbers(t, n), NEW b \in 1 .. n, s[b] < t[b],
         \A i \in 1 .. n - 1 : RemoveAt(s, b)[i] < RemoveAt(t, b)[i]
  PROVE  \A d \in 1 .. n : s[d] < t[d]
<1>1. \A i \in 1 .. n - 1 : RemoveAt(s, b)[i] = s[IF i < b THEN i ELSE i + 1]
  BY RemovedIs
<1>2. \A i \in 1 .. n - 1 : RemoveAt(t, b)[i] = t[IF i < b THEN i ELSE i + 1]
  BY RemovedIs
<1>3. ASSUME NEW d \in 1 .. n, d # b
      PROVE  s[d] < t[d]
  <2>1. PICK i \in 1 .. n - 1 : d = IF i < b THEN i ELSE i + 1
    BY <1>3, OtherAxis
  <2> QED
    BY <1>1, <1>2, <2>1
<1> QED
  BY <1>3

(* The place in the array of an element of a stored chunk: the chunk's     *)
(* coordinates count its size, along the sample axis and along the others. *)
ArrayPlace(size, phys, i) == [d \in DOMAIN i |-> phys[d] * size[d] + i[d]]

(* Where an element of a stored chunk is in the array, axis by axis.       *)
LEMMA StoredPlace ==
  ASSUME NEW m \in Nat, NEW size, Numbers(size, m + 1), NEW b \in 1 .. m + 1,
         NEW cid \in Nat, NEW w \in Nat, NEW coord, Numbers(coord, m), NEW j, Numbers(j, m)
  PROVE  LET P == ArrayPlace(size, InsertAt(coord, b, cid), InsertAt(j, b, w))
         IN  /\ Numbers(P, m + 1) /\ P[b] = cid * size[b] + w
             /\ Numbers(RemoveAt(P, b), m)
             /\ \A d \in 1 .. m : RemoveAt(P, b)[d] = coord[d] * RemoveAt(size, b)[d] + j[d]
<1> DEFINE P == ArrayPlace(size, InsertAt(coord, b, cid), InsertAt(j, b, w))
           rest == RemoveAt(size, b)
           phys == InsertAt(coord, b, cid)
           i == InsertAt(j, b, w)
<1>0. m + 1 \in Nat /\ (m + 1) - 1 = m
  OBVIOUS
<1>1. /\ Numbers(phys, m + 1) /\ phys[b] = cid
      /\ \A d \in 1 .. m : coord[d] = phys[IF d < b THEN d ELSE d + 1]
  BY InsertedIs
<1>2. /\ Numbers(i, m + 1) /\ i[b] = w
      /\ \A d \in 1 .. m : j[d] = i[IF d < b THEN d ELSE d + 1]
  BY InsertedIs
<1>3. Numbers(rest, m) /\ \A d \in 1 .. m : rest[d] = size[IF d < b THEN d ELSE d + 1]
  <2>1. PICK n \in Nat : n = m + 1 /\ n - 1 = m
    BY <1>0
  <2>2. Numbers(size, n) /\ b \in 1 .. n
    BY <2>1
  <2>3. /\ Numbers(RemoveAt(size, b), n - 1)
        /\ \A d \in 1 .. n - 1 : RemoveAt(size, b)[d] = size[IF d < b THEN d ELSE d + 1]
    BY <2>2, RemovedIs
  <2> QED
    BY <2>1, <2>3
<1> DEFINE val(d) == phys[d] * size[d] + i[d]
<1>4. P = [d \in 1 .. m + 1 |-> val(d)]
  <2>1. DOMAIN i = 1 .. m + 1
    BY <1>2 DEF Numbers
  <2> QED
    BY <2>1 DEF ArrayPlace
<1>5. ASSUME NEW d \in 1 .. m + 1
      PROVE  val(d) \in Nat
  <2>1. phys[d] \in Nat /\ size[d] \in Nat /\ i[d] \in Nat
    <3>1. PICK n \in Nat : n = m + 1
      OBVIOUS
    <3>2. Numbers(phys, n) /\ Numbers(size, n) /\ Numbers(i, n) /\ d \in 1 .. n
      BY <1>1, <1>2, <3>1
    <3> HIDE DEF phys, i
    <3> QED
      BY <3>2, NumberAt
  <2>2. PICK x \in Nat, y \in Nat, z \in Nat : x = phys[d] /\ y = size[d] /\ z = i[d]
    BY <2>1
  <2>3. x * y + z \in Nat
    OBVIOUS
  <2> QED
    BY <2>2, <2>3
<1>6. val(b) = cid * size[b] + w
  BY <1>1, <1>2
<1>7. ASSUME NEW d \in 1 .. m
      PROVE  val(IF d < b THEN d ELSE d + 1) = coord[d] * rest[d] + j[d]
  <2>1. PICK e : e = IF d < b THEN d ELSE d + 1
    OBVIOUS
  <2>2. coord[d] = phys[e] /\ j[d] = i[e] /\ rest[d] = size[e]
    BY <1>1, <1>2, <1>3, <2>1
  <2>3. val(e) = coord[d] * rest[d] + j[d]
    BY <2>2
  <2> QED
    BY <2>1, <2>3
<1> HIDE DEF val, P, phys, i, rest
<1>8. Numbers(P, m + 1) /\ \A d \in 1 .. m + 1 : P[d] = val(d)
  <2>1. [d \in 1 .. m + 1 |-> val(d)] \in Seq(Nat) /\ Len([d \in 1 .. m + 1 |-> val(d)]) = m + 1
    BY <1>5
  <2> QED
    BY <1>4, <2>1 DEF Numbers
<1>9. Numbers(RemoveAt(P, b), m) /\ \A d \in 1 .. m : RemoveAt(P, b)[d] = coord[d] * rest[d] + j[d]
  <2>1. PICK n \in Nat : n = m + 1 /\ n - 1 = m
    BY <1>0
  <2>2. Numbers(P, n) /\ b \in 1 .. n
    BY <1>8, <2>1
  <2>3. /\ Numbers(RemoveAt(P, b), n - 1)
        /\ \A d \in 1 .. n - 1 : RemoveAt(P, b)[d] = P[IF d < b THEN d ELSE d + 1]
    BY <2>2, RemovedIs
  <2>4. PICK r : r = RemoveAt(P, b)
    OBVIOUS
  <2>5. Numbers(RemoveAt(P, b), m)
    BY <2>1, <2>3
  <2>6. ASSUME NEW d \in 1 .. m
        PROVE  r[d] = coord[d] * rest[d] + j[d]
    <3>1. PICK e \in 1 .. m + 1 : e = IF d < b THEN d ELSE d + 1
      OBVIOUS
    <3>2. r[d] = P[e] /\ P[e] = val(e)
      BY <1>8, <2>1, <2>3, <2>4, <3>1
    <3> QED
      BY <1>7, <3>1, <3>2
  <2> QED
    BY <2>4, <2>5, <2>6
<1> QED
  BY <1>6, <1>8, <1>9 DEF P, phys, i, rest

-----------------------------------------------------------------------------
(* The fetch: a stored element is the one that its tile has there.         *)

(* The array that a view is of, as the store has it.                       *)
StoredAs(a, g) == a.name = g.path /\ a.shape = g.shape /\ StorageChunks(a) = g.chunks

(* The axes of a view, in physical order and without the sample axis.      *)
LEMMA ViewAxes ==
  ASSUME NEW g, Measured(g)
  PROVE  \E m \in Nat :
           /\ Numbers(g.shape, m + 1) /\ Numbers(g.chunks, m + 1) /\ g.axis + 1 \in 1 .. m + 1
           /\ Numbers(InnerShape(g), m) /\ Numbers(InnerChunks(g), m) /\ Numbers(InnerGrid(g), m)
           /\ \A d \in 1 .. m : InnerChunks(g)[d] # 0
<1>1. /\ InnerShape(g) \in Seq(Nat) /\ InnerChunks(g) \in Seq(Nat \ {0})
      /\ Len(InnerShape(g)) = Len(InnerChunks(g)) /\ g.axis \in 0 .. Len(InnerShape(g))
  BY AxesAre
<1>2. PICK m \in Nat : m = Len(InnerShape(g))
  BY <1>1
<1>3. /\ g.shape \in Seq(Nat) /\ g.chunks \in Seq(Nat) /\ Len(g.shape) = Len(g.chunks)
      /\ g.axis + 1 \in 1 .. Len(g.shape)
  BY DEF Measured, WellFormed, Span
<1>4. Len(g.shape) - 1 = m
  <2>1. PICK b : b = g.axis + 1 /\ b \in 1 .. Len(g.shape)
    BY <1>3
  <2>2. Len(RemoveAt(g.shape, b)) = Len(g.shape) - 1
    BY <1>3, <2>1, AxisDropped
  <2> QED
    BY <1>2, <2>1, <2>2 DEF InnerShape, DropSample
<1>5. Numbers(g.shape, m + 1) /\ Numbers(g.chunks, m + 1) /\ g.axis + 1 \in 1 .. m + 1
  BY <1>3, <1>4 DEF Numbers
<1>6. Numbers(InnerShape(g), m) /\ Numbers(InnerChunks(g), m)
  BY <1>1, <1>2 DEF Numbers
<1>7. Numbers(InnerGrid(g), m)
  <2>1. ASSUME NEW d \in 1 .. m
        PROVE  CeilDiv(InnerShape(g)[d], InnerChunks(g)[d]) \in Nat
    <3>1. InnerShape(g)[d] \in Nat /\ InnerChunks(g)[d] \in Nat \ {0}
      BY <1>1, <1>2
    <3> QED
      BY <3>1, CeilingIs
  <2>2. InnerGrid(g) = [d \in 1 .. m |-> CeilDiv(InnerShape(g)[d], InnerChunks(g)[d])]
    BY <1>1, <1>2 DEF InnerGrid
  <2> QED
    BY <2>1, <2>2 DEF Numbers
<1>8. \A d \in 1 .. m : InnerChunks(g)[d] # 0
  BY <1>1, <1>2
<1> QED
  BY <1>5, <1>6, <1>7, <1>8

(* A place of a chunk that is within the array.                            *)
OnTheArray(g, phys, i, m) ==
  /\ Numbers(ArrayPlace(g.chunks, phys, i), m + 1)
  /\ \A d \in 1 .. m + 1 : ArrayPlace(g.chunks, phys, i)[d] < g.shape[d]

(* What the store has at such a place.                                     *)
LEMMA StoredElement ==
  ASSUME NEW g, Measured(g), NEW a, StoredAs(a, g), NEW m \in Nat, Numbers(g.shape, m + 1),
         Numbers(g.chunks, m + 1),
         NEW phys, NEW i \in Box(g.chunks), OnTheArray(g, phys, i, m)
  PROVE  LET P == ArrayPlace(g.chunks, phys, i)
         IN  StoredChunk(a, phys, g.axis).at[i] = Element(g.path, P[g.axis + 1], RemoveAt(P, g.axis + 1))
<1> DEFINE P == ArrayPlace(g.chunks, phys, i)
<1>1. StorageChunks(a) = g.chunks /\ a.name = g.path /\ a.shape = g.shape
  BY DEF StoredAs
<1>2. DOMAIN i = 1 .. m + 1
  <2>1. g.chunks \in Seq(Nat) /\ Len(g.chunks) = m + 1
    BY DEF Numbers
  <2> QED
    BY <2>1, BoxIsSeq
<1> DEFINE size == IF a.shards # <<>> THEN a.shards ELSE a.chunks
           at(k) == [d \in DOMAIN k |-> phys[d] * size[d] + k[d]]
           val(k) == IF \A d \in DOMAIN k : at(k)[d] < a.shape[d]
                     THEN Element(a.name, at(k)[g.axis + 1], RemoveAt(at(k), g.axis + 1)) ELSE Pad
<1>3. size = g.chunks
  BY <1>1 DEF StorageChunks
<1>4. at(i) = P
  BY <1>3 DEF ArrayPlace
<1>5. \A d \in DOMAIN i : at(i)[d] < a.shape[d]
  BY <1>1, <1>2, <1>4 DEF OnTheArray
<1>6. val(i) = Element(g.path, P[g.axis + 1], RemoveAt(P, g.axis + 1))
  BY <1>1, <1>4, <1>5
<1>7. StoredChunk(a, phys, g.axis).at = [k \in Box(size) |-> val(k)]
  BY DEF StoredChunk
<1> HIDE DEF val, size
<1> QED
  BY <1>3, <1>6, <1>7

(* A tile with an element before t starts before t.                        *)
LEMMA StartsBefore ==
  ASSUME NEW x \in Nat, NEW y \in Nat, NEW z \in Nat, NEW t \in Nat, x * y + z < t
  PROVE  ~(x * y >= t)
<1>1. PICK u \in Nat : u = x * y
  OBVIOUS
<1> QED
  BY <1>1

(* A tile that the fetch returns has at the place of an element, sample    *)
(* first, what the store has of it, and the fill value where it has none.  *)
LEMMA FetchHolds ==
  ASSUME NEW g, Measured(g), NEW a, StoredAs(a, g), NEW cid \in Nat, NEW absent \in BOOLEAN,
         NEW coord \in InnerCoords(g), NEW w \in Nat, w < SampleChunkSize(g),
         cid * SampleChunkSize(g) + w < NSamples(g), NEW j \in Box(InnerChunks(g)),
         NEW at \in Box(InnerShape(g)),
         \A d \in 1 .. Len(InnerShape(g)) : at[d] = coord[d] * InnerChunks(g)[d] + j[d]
  PROVE  FetchDecode(ArrayCtx(a, StorageChunks(a), g.axis), PhysicalChunkCoord(g, cid, coord), absent)
           .at[<<w>> \o j]
           = IF absent THEN Fill ELSE Element(g.path, cid * SampleChunkSize(g) + w, at)
<1>1. PICK m \in Nat :
        /\ Numbers(g.shape, m + 1) /\ Numbers(g.chunks, m + 1) /\ g.axis + 1 \in 1 .. m + 1
        /\ Numbers(InnerShape(g), m) /\ Numbers(InnerChunks(g), m) /\ Numbers(InnerGrid(g), m)
        /\ \A d \in 1 .. m : InnerChunks(g)[d] # 0
  BY ViewAxes
<1>2. PICK b \in 1 .. m + 1 : b = g.axis + 1
  BY <1>1
<1>3. PICK size : size = g.chunks
  OBVIOUS
<1>4. Numbers(size, m + 1) /\ size \in Seq(Nat) /\ Len(size) = m + 1
  BY <1>1, <1>3 DEF Numbers
<1>5. RemoveAt(size, b) = InnerChunks(g) /\ size[b] = SampleChunkSize(g) /\ g.shape[b] = NSamples(g)
      /\ RemoveAt(g.shape, b) = InnerShape(g)
  BY <1>2, <1>3 DEF InnerChunks, InnerShape, DropSample, SampleChunkSize, NSamples
<1>6. Numbers(coord, m)
  <2>1. InnerGrid(g) \in Seq(Nat) /\ Len(InnerGrid(g)) = m
    BY <1>1 DEF Numbers
  <2>2. coord \in Box(InnerGrid(g))
    BY DEF InnerCoords
  <2> QED
    BY <2>1, <2>2, BoxIsSeq DEF Numbers
<1>7. Numbers(j, m)
  <2>1. InnerChunks(g) \in Seq(Nat) /\ Len(InnerChunks(g)) = m
    BY <1>1 DEF Numbers
  <2> QED
    BY <2>1, BoxIsSeq DEF Numbers
<1>8. Numbers(at, m) /\ \A d \in 1 .. m : at[d] < InnerShape(g)[d]
  <2>1. InnerShape(g) \in Seq(Nat) /\ Len(InnerShape(g)) = m
    BY <1>1 DEF Numbers
  <2> QED
    BY <2>1, BoxIsSeq DEF Numbers
<1>9. Len(InnerShape(g)) = m
  BY <1>1 DEF Numbers
<1> DEFINE phys == InsertAt(coord, b, cid)
           i == InsertAt(j, b, w)
           P == ArrayPlace(size, phys, i)
<1>10. /\ Numbers(P, m + 1) /\ P[b] = cid * size[b] + w
       /\ Numbers(RemoveAt(P, b), m)
       /\ \A d \in 1 .. m : RemoveAt(P, b)[d] = coord[d] * RemoveAt(size, b)[d] + j[d]
  <2>1. Numbers(size, m + 1)
    BY <1>4
  <2>2. Numbers(coord, m) /\ Numbers(j, m)
    BY <1>6, <1>7
  <2> QED
    BY <2>1, <2>2, StoredPlace
<1>11. RemoveAt(P, b) = at
  <2>1. PICK r : r = RemoveAt(P, b)
    OBVIOUS
  <2>2. ASSUME NEW d \in 1 .. m
        PROVE  r[d] = at[d]
    BY <1>5, <1>9, <1>10, <2>1
  <2>3. Numbers(r, m)
    BY <1>10, <2>1
  <2>4. r = at
    BY <1>8, <2>2, <2>3 DEF Numbers
  <2> QED
    BY <2>1, <2>4
<1>12. \A d \in 1 .. m + 1 : P[d] < g.shape[d]
  <2>1. PICK n \in Nat : n = m + 1 /\ n - 1 = m
    OBVIOUS
  <2>2. P[b] < g.shape[b]
    BY <1>5, <1>10
  <2>3. \A d \in 1 .. n - 1 : RemoveAt(P, b)[d] < RemoveAt(g.shape, b)[d]
    BY <1>5, <1>8, <1>11, <2>1
  <2>4. Numbers(P, n) /\ Numbers(g.shape, n) /\ b \in 1 .. n
    BY <1>1, <1>10, <2>1
  <2> HIDE DEF P
  <2>5. \A d \in 1 .. n : P[d] < g.shape[d]
    BY <2>2, <2>3, <2>4, AxisByAxis
  <2> QED
    BY <2>1, <2>5
<1>13. /\ i \in Box(size) /\ DOMAIN phys = 1 .. m + 1
       /\ \A d \in 1 .. m + 1 : phys[d] \in Nat /\ i[d] \in Nat
  <2>1. b \in 1 .. Len(size) /\ w < size[b] /\ j \in Box(RemoveAt(size, b))
    BY <1>4, <1>5
  <2>2. i \in Box(size)
    BY <1>4, <2>1, BoxInserted
  <2>3. Numbers(phys, m + 1)
    BY <1>6, InsertedIs
  <2>4. Numbers(i, m + 1)
    BY <1>7, InsertedIs
  <2>5. PICK n \in Nat : n = m + 1
    OBVIOUS
  <2> HIDE DEF phys, i
  <2>6. \A d \in 1 .. n : phys[d] \in Nat /\ i[d] \in Nat
    BY <2>3, <2>4, <2>5, NumberAt
  <2>7. DOMAIN phys = 1 .. m + 1
    BY <2>3 DEF Numbers
  <2> QED
    BY <2>2, <2>5, <2>6, <2>7
<1> DEFINE ctx == ArrayCtx(a, StorageChunks(a), g.axis)
           beyond == \E d \in DOMAIN phys : phys[d] * ctx.chunkShape[d] >= ctx.array.shape[d]
           object == StoredChunk(a, phys, g.axis)
           tile == IF absent \/ beyond THEN Filled(ctx.chunkShape, Fill) ELSE Decoded(ctx, object)
<1>14. ctx.array = a /\ ctx.chunkShape = size /\ ctx.axis = g.axis /\ a.shape = g.shape
  BY <1>3 DEF ArrayCtx, StoredAs
<1>15. PhysicalChunkCoord(g, cid, coord) = phys
  BY <1>2 DEF PhysicalChunkCoord
<1>16. FetchDecode(ctx, phys, absent) = SampleFirst(g.axis, tile)
  <2> HIDE DEF phys
  <2> QED
    BY <1>14 DEF FetchDecode
<1>17. ~beyond
  <2>1. ASSUME NEW d \in 1 .. m + 1
        PROVE  ~(phys[d] * size[d] >= g.shape[d])
    <3>1. PICK n \in Nat : n = m + 1
      OBVIOUS
    <3>2. size[d] \in Nat /\ g.shape[d] \in Nat
      BY <1>1, <1>4, <3>1, NumberAt
    <3>3. phys[d] \in Nat /\ i[d] \in Nat
      BY <1>13
    <3>4. P[d] = phys[d] * size[d] + i[d]
      <4>1. DOMAIN i = 1 .. m + 1
        BY <1>4, <1>13, BoxIsSeq
      <4> HIDE DEF phys, i
      <4> QED
        BY <4>1 DEF ArrayPlace
    <3>5. P[d] < g.shape[d]
      BY <1>12
    <3> HIDE DEF phys, i, P
    <3>6. phys[d] * size[d] + i[d] < g.shape[d]
      BY <3>4, <3>5
    <3> QED
      BY <3>2, <3>3, <3>6, StartsBefore
  <2> HIDE DEF phys, ctx
  <2> QED
    BY <1>13, <1>14, <2>1
<1>18. object.shape = size
  BY <1>3 DEF StoredChunk, StoredAs, StorageChunks
<1>19. tile.shape = size /\ tile.at[i] = IF absent THEN Fill ELSE object.at[i]
  <2> HIDE DEF ctx, beyond, object, i
  <2> QED
    BY <1>13, <1>14, <1>17, <1>18 DEF Filled, Decoded
<1>20. object.at[i] = Element(g.path, cid * SampleChunkSize(g) + w, at)
  <2>1. i \in Box(g.chunks) /\ ArrayPlace(g.chunks, phys, i) = P
    BY <1>3, <1>13
  <2>2. object.at[i] = Element(g.path, P[b], RemoveAt(P, b))
    <3> HIDE DEF phys, i, P
    <3>1. OnTheArray(g, phys, i, m)
      BY <1>10, <1>12, <2>1 DEF OnTheArray
    <3>2. i \in Box(g.chunks)
      BY <2>1
    <3>3. LET Q == ArrayPlace(g.chunks, phys, i)
          IN  StoredChunk(a, phys, g.axis).at[i] = Element(g.path, Q[g.axis + 1], RemoveAt(Q, g.axis + 1))
      BY <1>1, <3>1, <3>2, StoredElement
    <3> QED
      BY <1>2, <2>1, <3>3
  <2> QED
    BY <1>5, <1>10, <1>11, <2>2
<1>21. SampleFirst(g.axis, tile).at[<<w>> \o j] = tile.at[i]
  <2> HIDE DEF tile
  <2>1. g.axis \in Nat
    BY AxesAre
  <2>2. tile.shape \in Seq(Nat) /\ g.axis + 1 \in 1 .. Len(tile.shape)
    BY <1>1, <1>4, <1>19
  <2>3. w < tile.shape[g.axis + 1] /\ j \in Box(RemoveAt(tile.shape, g.axis + 1))
    BY <1>2, <1>5, <1>19
  <2>4. SampleFirst(g.axis, tile).at[<<w>> \o j] = tile.at[InsertAt(j, g.axis + 1, w)]
    BY <2>1, <2>2, <2>3, SampleFirstAt
  <2> QED
    BY <1>2, <2>4
<1> HIDE DEF tile, ctx, object, i, phys
<1> QED
  BY <1>15, <1>16, <1>19, <1>20, <1>21 DEF ctx

-----------------------------------------------------------------------------
(* Tiles: where they stand in a row, and which one has a place.            *)

(* Where a stored tile stands in a row, axis by axis, and what of the tile *)
(* is put there.                                                           *)
RowOut(g, cid, coord) == Tail(TilePlacement(g, cid, coord).out)
RowPart(g, cid, coord) == Tail(TilePlacement(g, cid, coord).chunk)

(* The corners of a tile in a row and in itself.                           *)
LEMMA TilePlaced ==
  ASSUME NEW g, Measured(g), NEW cid, NEW coord \in InnerCoords(g)
  PROVE  \A d \in 1 .. Len(InnerShape(g)) :
           /\ RowOut(g, cid, coord)[d]
                = <<coord[d] * InnerChunks(g)[d],
                    MinOf((coord[d] + 1) * InnerChunks(g)[d], InnerShape(g)[d])>>
           /\ \E n : RowPart(g, cid, coord)[d] = <<0, n>>
<1> DEFINE low(d) == coord[d] * InnerChunks(g)[d]
           high(d) == MinOf((coord[d] + 1) * InnerChunks(g)[d], InnerShape(g)[d])
           rest == [d \in DOMAIN coord |-> <<low(d), high(d)>>]
           first == <<0, Cardinality(SamplesInChunk(g, cid))>>
           out == <<first>> \o rest
           chunk == [k \in DOMAIN out |-> <<0, out[k][2] - out[k][1]>>]
           place == TilePlacement(g, cid, coord)
<1>1. place.out = out /\ place.chunk = chunk
  BY DEF TilePlacement
<1>2. PICK m \in Nat : Numbers(InnerShape(g), m) /\ Numbers(InnerGrid(g), m)
  BY ViewAxes
<1>3. Len(InnerShape(g)) = m
  BY <1>2 DEF Numbers
<1>4. DOMAIN coord = 1 .. m
  <2>1. InnerGrid(g) \in Seq(Nat) /\ Len(InnerGrid(g)) = m
    BY <1>2 DEF Numbers
  <2>2. coord \in Box(InnerGrid(g))
    BY DEF InnerCoords
  <2> QED
    BY <2>1, <2>2, BoxIsSeq
<1> HIDE DEF low, high, first, place
<1>5. PICK E : E = {first} \cup {<<low(d), high(d)>> : d \in 1 .. m}
  OBVIOUS
<1>6. first \in E /\ rest \in Seq(E) /\ Len(rest) = m /\ \A d \in 1 .. m : rest[d] = <<low(d), high(d)>>
  <2>1. \A d \in 1 .. m : <<low(d), high(d)>> \in E
    BY <1>5
  <2>2. first \in E
    BY <1>5
  <2> QED
    BY <1>4, <2>1, <2>2
<1> HIDE DEF rest
<1>7. out \in Seq(E) /\ Len(out) = m + 1 /\ Tail(out) = rest
  <2>1. /\ <<first>> \o rest \in Seq(E) /\ Len(<<first>> \o rest) = Len(rest) + 1
        /\ Tail(<<first>> \o rest) = rest
    BY <1>6, HeadedIs
  <2> QED
    BY <1>6, <2>1
<1>8. DOMAIN out = 1 .. m + 1
  BY <1>7
<1>9. ASSUME NEW d \in 1 .. m
      PROVE  \E n : Tail(chunk)[d] = <<0, n>>
  <2> DEFINE val(k) == <<0, out[k][2] - out[k][1]>>
  <2>1. PICK F : F = {val(k) : k \in 1 .. m + 1}
    OBVIOUS
  <2>2. chunk = [k \in 1 .. m + 1 |-> val(k)] /\ \A k \in 1 .. m + 1 : val(k) \in F
    BY <1>8, <2>1
  <2>3. \E n : val(d + 1) = <<0, n>>
    OBVIOUS
  <2> HIDE DEF val, chunk
  <2>4. chunk \in Seq(F) /\ Len(chunk) = m + 1 /\ chunk # <<>>
    BY <2>2
  <2>5. Tail(chunk)[d] = chunk[d + 1]
    BY <2>4
  <2>6. chunk[d + 1] = val(d + 1)
    BY <2>2
  <2> QED
    BY <2>3, <2>5, <2>6
<1> HIDE DEF out, chunk
<1>10. ASSUME NEW d \in 1 .. m
       PROVE  RowOut(g, cid, coord)[d] = <<low(d), high(d)>> /\ \E n : RowPart(g, cid, coord)[d] = <<0, n>>
  <2>1. RowOut(g, cid, coord) = Tail(out) /\ RowPart(g, cid, coord) = Tail(chunk)
    BY <1>1 DEF RowOut, RowPart, place
  <2> QED
    BY <1>6, <1>7, <1>9, <2>1
<1> QED
  BY <1>3, <1>10 DEF low, high

(* One axis: the tile that a position is in.                               *)
LEMMA TileOnAxis ==
  ASSUME NEW x \in Nat, NEW t \in Nat, x < t, NEW s \in Nat \ {0}, NEW a \in Nat
  PROVE  x \in Span(a * s, MinOf((a + 1) * s, t)) <=> a = x \div s
<1>1. a = x \div s <=> a * s <= x /\ x < (a + 1) * s
  BY QuotientIs
<1>2. PICK u \in Nat, v \in Nat : u = a * s /\ v = (a + 1) * s
  OBVIOUS
<1>3. x \in Span(u, MinOf(v, t)) <=> u <= x /\ x < v
  BY DEF Span, MinOf
<1> QED
  BY <1>1, <1>2, <1>3

(* The tile of a position.                                                 *)
IsTileOf(g, coord, i) ==
  \A d \in 1 .. Len(InnerShape(g)) : coord[d] = i[d] \div InnerChunks(g)[d]

(* A tile holds the positions whose quotients are its coordinates.         *)
LEMMA TileHolds ==
  ASSUME NEW g, Measured(g), NEW cid, NEW coord \in InnerCoords(g), NEW i \in Box(InnerShape(g))
  PROVE  Within(i, RowOut(g, cid, coord))
           <=> IsTileOf(g, coord, i)
<1>1. PICK m \in Nat :
        /\ Numbers(InnerShape(g), m) /\ Numbers(InnerChunks(g), m) /\ Numbers(InnerGrid(g), m)
        /\ \A d \in 1 .. m : InnerChunks(g)[d] # 0
  BY ViewAxes
<1>2. Len(InnerShape(g)) = m /\ InnerShape(g) \in Seq(Nat)
  BY <1>1 DEF Numbers
<1>3. DOMAIN i = 1 .. m /\ \A d \in 1 .. m : i[d] \in Nat /\ i[d] < InnerShape(g)[d]
  BY <1>2, BoxIsSeq
<1>4. \A d \in 1 .. m : coord[d] \in Nat
  <2>1. InnerGrid(g) \in Seq(Nat) /\ Len(InnerGrid(g)) = m
    BY <1>1 DEF Numbers
  <2>2. coord \in Box(InnerGrid(g))
    BY DEF InnerCoords
  <2> QED
    BY <2>1, <2>2, BoxIsSeq
<1> DEFINE box == RowOut(g, cid, coord)
<1>5. ASSUME NEW d \in 1 .. m
      PROVE  i[d] \in Span(box[d][1], box[d][2]) <=> coord[d] = i[d] \div InnerChunks(g)[d]
  <2>1. box[d] = <<coord[d] * InnerChunks(g)[d],
                   MinOf((coord[d] + 1) * InnerChunks(g)[d], InnerShape(g)[d])>>
    BY <1>2, TilePlaced
  <2>2. /\ InnerChunks(g)[d] \in Nat \ {0} /\ InnerShape(g)[d] \in Nat
    <3>1. InnerChunks(g)[d] \in Nat
      BY <1>1, NumberAt
    <3>2. InnerShape(g)[d] \in Nat
      BY <1>1, NumberAt
    <3> QED
      BY <1>1, <3>1, <3>2
  <2>3. PICK x \in Nat, t \in Nat, s \in Nat \ {0}, a \in Nat :
          x = i[d] /\ t = InnerShape(g)[d] /\ s = InnerChunks(g)[d] /\ a = coord[d] /\ x < t
    BY <1>3, <1>4, <2>2
  <2>4. x \in Span(a * s, MinOf((a + 1) * s, t)) <=> a = x \div s
    <3>1. x < t
      BY <2>3
    <3> QED
      BY <3>1, TileOnAxis
  <2> HIDE DEF box
  <2> QED
    BY <2>1, <2>3, <2>4
<1> HIDE DEF box
<1>6. Within(i, box) <=> \A d \in 1 .. m : i[d] \in Span(box[d][1], box[d][2])
  BY <1>3 DEF Within
<1>7. (\A d \in 1 .. m : i[d] \in Span(box[d][1], box[d][2]))
        <=> \A d \in 1 .. m : coord[d] = i[d] \div InnerChunks(g)[d]
  BY <1>5
<1> QED
  BY <1>2, <1>6, <1>7 DEF box, IsTileOf

(* There is such a tile, and only one.                                     *)
LEMMA TileExists ==
  ASSUME NEW g, Measured(g), NEW i \in Box(InnerShape(g))
  PROVE  \E home \in InnerCoords(g) : IsTileOf(g, home, i)
<1>1. PICK m \in Nat :
        /\ Numbers(InnerShape(g), m) /\ Numbers(InnerChunks(g), m) /\ Numbers(InnerGrid(g), m)
        /\ \A d \in 1 .. m : InnerChunks(g)[d] # 0
  BY ViewAxes
<1>2. /\ Len(InnerShape(g)) = m /\ InnerShape(g) \in Seq(Nat) /\ DOMAIN InnerShape(g) = 1 .. m
      /\ InnerGrid(g) \in Seq(Nat) /\ Len(InnerGrid(g)) = m
  BY <1>1 DEF Numbers
<1>3. \A d \in 1 .. m : i[d] \in Nat /\ i[d] < InnerShape(g)[d]
  BY <1>2, BoxIsSeq
<1> DEFINE quotient(d) == i[d] \div InnerChunks(g)[d]
<1>4. ASSUME NEW d \in 1 .. m
      PROVE  quotient(d) \in Nat /\ quotient(d) < InnerGrid(g)[d]
  <2>1. InnerChunks(g)[d] \in Nat \ {0} /\ InnerShape(g)[d] \in Nat
    BY <1>1, NumberAt
  <2>2. PICK x \in Nat, t \in Nat, s \in Nat \ {0} :
          x = i[d] /\ t = InnerShape(g)[d] /\ s = InnerChunks(g)[d] /\ x < t
    BY <1>3, <2>1
  <2>3. PICK q \in Nat : q = x \div s /\ q * s <= x
    BY QuotientOf
  <2>4. q * s < t
    <3>1. PICK u \in Nat : u = q * s
      OBVIOUS
    <3> QED
      BY <2>2, <2>3, <3>1
  <2>5. q < CeilDiv(t, s)
    BY <2>4, CeilingIs
  <2>6. InnerGrid(g)[d] = CeilDiv(t, s)
    BY <1>2, <2>2 DEF InnerGrid
  <2> QED
    BY <2>2, <2>3, <2>5, <2>6
<1> HIDE DEF quotient
<1>5. PICK home : home = [d \in 1 .. m |-> quotient(d)]
  OBVIOUS
<1>6. \A d \in 1 .. m : home[d] = quotient(d)
  BY <1>5
<1>7. home = [d \in 1 .. m |-> home[d]]
  BY <1>5
<1>8. \A d \in 1 .. m : home[d] \in Nat /\ home[d] < InnerGrid(g)[d]
  BY <1>4, <1>6
<1>9. home \in Box(InnerGrid(g))
  BY <1>2, <1>7, <1>8, InBox
<1> QED
  BY <1>2, <1>6, <1>9 DEF InnerCoords, quotient, IsTileOf

(* Tiles with the same coordinates are the same tile.                      *)
LEMMA SameCoords ==
  ASSUME NEW g, Measured(g), NEW c \in InnerCoords(g), NEW d \in InnerCoords(g),
         \A k \in 1 .. Len(InnerShape(g)) : c[k] = d[k]
  PROVE  c = d
<1>1. PICK m \in Nat : Numbers(InnerShape(g), m) /\ Numbers(InnerGrid(g), m)
  BY ViewAxes
<1>2. Len(InnerShape(g)) = m /\ InnerGrid(g) \in Seq(Nat) /\ Len(InnerGrid(g)) = m
  BY <1>1 DEF Numbers
<1>3. c \in Box(InnerGrid(g)) /\ d \in Box(InnerGrid(g))
  BY DEF InnerCoords
<1>4. c = [k \in 1 .. m |-> c[k]]
  BY <1>2, <1>3, InBox
<1>5. d = [k \in 1 .. m |-> d[k]]
  BY <1>2, <1>3, InBox
<1>6. \A k \in 1 .. m : c[k] = d[k]
  BY <1>2
<1> QED
  BY <1>4, <1>5, <1>6

(* The place within its tile.                                              *)
LEMMA TileMoved ==
  ASSUME NEW g, Measured(g), NEW cid, NEW coord \in InnerCoords(g), NEW i \in Box(InnerShape(g)),
         IsTileOf(g, coord, i)
  PROVE  LET j == Moved(i, RowOut(g, cid, coord), RowPart(g, cid, coord))
         IN  /\ j \in Box(InnerChunks(g))
             /\ \A d \in 1 .. Len(InnerShape(g)) : i[d] = coord[d] * InnerChunks(g)[d] + j[d]
<1> DEFINE out == RowOut(g, cid, coord)
           chunk == RowPart(g, cid, coord)
           j == Moved(i, out, chunk)
<1>1. PICK m \in Nat :
        /\ Numbers(InnerShape(g), m) /\ Numbers(InnerChunks(g), m) /\ Numbers(InnerGrid(g), m)
        /\ \A d \in 1 .. m : InnerChunks(g)[d] # 0
  BY ViewAxes
<1>2. /\ Len(InnerShape(g)) = m /\ InnerShape(g) \in Seq(Nat)
      /\ InnerChunks(g) \in Seq(Nat) /\ Len(InnerChunks(g)) = m
  BY <1>1 DEF Numbers
<1>3. DOMAIN i = 1 .. m /\ \A d \in 1 .. m : i[d] \in Nat
  BY <1>2, BoxIsSeq
<1>4. ASSUME NEW d \in 1 .. m
      PROVE  out[d][1] = coord[d] * InnerChunks(g)[d] /\ chunk[d][1] = 0
  <2>1. d \in 1 .. Len(InnerShape(g))
    BY <1>2
  <2>2. out[d] = <<coord[d] * InnerChunks(g)[d],
                   MinOf((coord[d] + 1) * InnerChunks(g)[d], InnerShape(g)[d])>>
    BY <2>1, TilePlaced
  <2>3. PICK n : chunk[d] = <<0, n>>
    BY <2>1, TilePlaced
  <2>4. PICK u, v : out[d] = <<u, v>> /\ u = coord[d] * InnerChunks(g)[d]
    BY <2>2
  <2> HIDE DEF out, chunk
  <2>5. out[d][1] = u
    BY <2>4
  <2>6. chunk[d][1] = 0
    BY <2>3
  <2> QED
    BY <2>4, <2>5, <2>6
<1> HIDE DEF out, chunk
<1>5. j = [d \in 1 .. m |-> i[d] - out[d][1] + chunk[d][1]]
  BY <1>3 DEF Moved
<1> HIDE DEF j
<1>6. ASSUME NEW d \in 1 .. m
      PROVE  /\ j[d] \in Nat /\ j[d] < InnerChunks(g)[d]
             /\ i[d] = coord[d] * InnerChunks(g)[d] + j[d]
  <2>1. InnerChunks(g)[d] \in Nat \ {0}
    <3>1. InnerChunks(g)[d] \in Nat
      BY <1>1, NumberAt
    <3> QED
      BY <1>1, <3>1
  <2>2. PICK x \in Nat, s \in Nat \ {0} : x = i[d] /\ s = InnerChunks(g)[d]
    BY <1>3, <2>1
  <2>3. PICK q \in Nat : q = x \div s /\ q * s <= x /\ x < (q + 1) * s
    BY QuotientOf
  <2>4. PICK u \in Nat : u = q * s /\ u <= x /\ x < u + s
    BY <2>3
  <2>5. coord[d] = q
    BY <1>2, <2>2, <2>3 DEF IsTileOf
  <2>6. coord[d] * InnerChunks(g)[d] = u
    BY <2>2, <2>4, <2>5
  <2>7. out[d][1] = u /\ chunk[d][1] = 0
    BY <1>4, <2>6
  <2>8. j[d] = x - u
    <3>1. j[d] = i[d] - out[d][1] + chunk[d][1]
      BY <1>5
    <3>2. j[d] = x - u + 0
      BY <2>2, <2>7, <3>1
    <3> QED
      BY <2>2, <2>4, <3>2
  <2>9. j[d] \in Nat /\ j[d] < s /\ i[d] = u + j[d]
    BY <2>2, <2>4, <2>8
  <2> QED
    BY <2>2, <2>6, <2>9
<1>7. j = [d \in 1 .. m |-> j[d]]
  BY <1>5
<1>8. \A d \in 1 .. m : j[d] \in Nat /\ j[d] < InnerChunks(g)[d]
  BY <1>6
<1>9. j \in Box(InnerChunks(g))
  BY <1>2, <1>7, <1>8, InBox
<1> QED
  BY <1>2, <1>6, <1>9 DEF j, out, chunk

-----------------------------------------------------------------------------
(* The file of a tiled chunk.                                              *)

(* The first place in row-major order is that of the tuple of zeros.       *)
LEMMA FirstIsZeros ==
  ASSUME NEW s \in Seq(Nat), NEW i \in Box(s)
  PROVE  RowMajor(s, i) = 0 <=> \A d \in 1 .. Len(s) : i[d] = 0
<1>1. PICK n \in Nat : n = Len(s)
  OBVIOUS
<1>2. \A d \in 1 .. n : i[d] \in Nat /\ i[d] < s[d] /\ s[d] \in Nat
  BY <1>1, BoxIsSeq
<1>3. PICK z : z = [d \in 1 .. n |-> 0]
  OBVIOUS
<1>4. z = [d \in 1 .. n |-> z[d]] /\ \A d \in 1 .. n : z[d] = 0
  BY <1>3
<1>5. z \in Box(s)
  <2>1. \A d \in 1 .. n : z[d] \in Nat /\ z[d] < s[d]
    BY <1>2, <1>4
  <2>2. z = [d \in 1 .. n |-> z[d]]
    BY <1>4
  <2> QED
    BY <1>1, <2>1, <2>2, InBox
<1>6. RowMajor(s, z) = 0
  <2>1. PICK q : Places(q, s, z, n) /\ RowMajor(s, z) = q[n]
    BY <1>1, RowMajorPlaces
  <2> DEFINE Bad == {d \in 0 .. n : q[d] # 0}
  <2>2. Bad = {}
    <3> SUFFICES ASSUME Bad # {} PROVE FALSE
      OBVIOUS
    <3>1. PICK m \in Bad : \A e \in Bad : m <= e
      <4>1. Bad \in SUBSET Nat
        OBVIOUS
      <4> HIDE DEF Bad
      <4> QED
        BY <4>1, SmallestOf
    <3>2. m \in 1 .. n /\ q[m] # 0
      BY <2>1 DEF Places
    <3>3. m - 1 \in 0 .. n /\ q[m - 1] = 0
      BY <3>1, <3>2
    <3>4. q[m] = q[m - 1] * s[m] + z[m]
      BY <2>1, <3>2 DEF Places
    <3>5. s[m] \in Nat /\ z[m] = 0
      BY <1>2, <1>4, <3>2
    <3> QED
      BY <3>2, <3>3, <3>4, <3>5
  <2> QED
    BY <2>1, <2>2
<1>7. ASSUME RowMajor(s, i) = 0
      PROVE  \A d \in 1 .. n : i[d] = 0
  <2>1. RowMajor(s, i) = RowMajor(s, z)
    BY <1>6, <1>7
  <2>2. i = z
    BY <1>5, <2>1, RowMajorApart
  <2> QED
    BY <1>4, <2>2
<1>8. ASSUME \A d \in 1 .. n : i[d] = 0
      PROVE  RowMajor(s, i) = 0
  <2>1. i = [d \in 1 .. n |-> i[d]]
    BY <1>1, InBox
  <2>2. i = z
    BY <1>4, <1>8, <2>1
  <2> QED
    BY <1>6, <2>2
<1> QED
  BY <1>1, <1>7, <1>8

-----------------------------------------------------------------------------
(* A chunk file holds each tile at its own place.                          *)

(* A tile stands in the file at its own index.                             *)
LEMMA FiledAt ==
  ASSUME NEW g, Measured(g), NEW coord \in InnerCoords(g), NEW tiles
  PROVE  InnerIndex(g, coord) \in Nat /\ FileOf(g, tiles)[InnerIndex(g, coord)] = tiles[coord]
<1>1. PICK grid : grid = InnerGrid(g) /\ grid \in Seq(Nat)
  BY ViewAxes DEF Numbers
<1>2. InnerCoords(g) = Box(grid) /\ NInnerChunks(g) = Product(grid)
  BY <1>1 DEF InnerCoords, NInnerChunks
<1>3. \A c : InnerIndex(g, c) = RowMajor(grid, c)
  BY <1>1 DEF InnerIndex
<1>4. PICK k : k = InnerIndex(g, coord)
  OBVIOUS
<1>5. k \in Nat /\ k < Product(grid) /\ Product(grid) \in Nat
  <2>1. coord \in Box(grid) /\ k = RowMajor(grid, coord)
    BY <1>2, <1>3, <1>4
  <2>2. RowMajor(grid, coord) \in Nat /\ RowMajor(grid, coord) < Product(grid) /\ Product(grid) \in Nat
    BY <1>1, <2>1, RowMajorWithin
  <2> QED
    BY <2>1, <2>2
<1>6. k \in Span(0, NInnerChunks(g))
  <2>1. PICK p \in Nat : p = Product(grid) /\ k < p
    BY <1>5
  <2>2. k \in 0 .. p - 1
    BY <1>5, <2>1
  <2> QED
    BY <1>2, <2>1, <2>2 DEF Span
<1>7. ASSUME NEW c \in InnerCoords(g), InnerIndex(g, c) = k
      PROVE  c = coord
  <2>1. c \in Box(grid) /\ coord \in Box(grid) /\ RowMajor(grid, c) = RowMajor(grid, coord)
    BY <1>2, <1>3, <1>4, <1>7
  <2> QED
    BY <1>1, <2>1, RowMajorApart
<1>8. (CHOOSE c \in InnerCoords(g) : InnerIndex(g, c) = k) = coord
  BY <1>4, <1>7
<1> DEFINE val(i) == tiles[CHOOSE c \in InnerCoords(g) : InnerIndex(g, c) = i]
<1>9. FileOf(g, tiles) = [i \in Span(0, NInnerChunks(g)) |-> val(i)]
  BY DEF FileOf
<1>10. val(k) = tiles[coord]
  BY <1>8
<1> HIDE DEF val
<1>11. FileOf(g, tiles)[k] = tiles[coord]
  BY <1>6, <1>9, <1>10
<1> QED
  BY <1>4, <1>5, <1>11

(* The slices of a file that has just been written are its tiles.          *)
LEMMA BackedIs ==
  ASSUME NEW g, Measured(g), NEW tiles, NEW coord \in InnerCoords(g)
  PROVE  Backed(g, tiles)[coord] = tiles[coord]
<1>1. FileOf(g, tiles)[InnerIndex(g, coord)] = tiles[coord]
  BY FiledAt
<1> QED
  BY <1>1 DEF Backed

(* And so are the slices that a later run takes in their order.            *)
LEMMA RevivedIs ==
  ASSUME NEW g, Measured(g), NEW tiles, NEW coord \in InnerCoords(g)
  PROVE  Revived(g, FileOf(g, tiles))[coord] = tiles[coord]
<1>1. PICK grid : grid = InnerGrid(g) /\ grid \in Seq(Nat)
  BY ViewAxes DEF Numbers
<1>2. InnerCoords(g) = Box(grid)
  BY <1>1 DEF InnerCoords
<1>3. \A c : InnerIndex(g, c) = RowMajor(grid, c)
  BY <1>1 DEF InnerIndex
<1> DEFINE Before == {d \in InnerCoords(g) : InnerIndex(g, d) < InnerIndex(g, coord)}
<1>4. Before = {d \in Box(grid) : RowMajor(grid, d) < RowMajor(grid, coord)}
  BY <1>2, <1>3
<1>5. Cardinality(Before) = InnerIndex(g, coord)
  <2>1. coord \in Box(grid)
    BY <1>2
  <2>2. Cardinality({d \in Box(grid) : RowMajor(grid, d) < RowMajor(grid, coord)}) = RowMajor(grid, coord)
    BY <1>1, <2>1, RowMajorCounts
  <2> HIDE DEF Before
  <2> QED
    BY <1>3, <1>4, <2>2
<1>6. Revived(g, FileOf(g, tiles))[coord] = FileOf(g, tiles)[Cardinality(Before)]
  BY DEF Revived
<1> HIDE DEF Before
<1> QED
  BY <1>5, <1>6, FiledAt

-----------------------------------------------------------------------------
(* A row without transforms.                                               *)

(* A tile that is replaced has its axes in physical order: sample first if *)
(* they are stored so.                                                     *)
LEMMA SubstituteHolds ==
  ASSUME NEW g, Measured(g), g.axis = 0, NEW w \in Nat, w < SampleChunkSize(g),
         NEW j \in Box(InnerChunks(g))
  PROVE  <<w>> \o j \in Box(g.chunks)
<1>1. PICK m \in Nat : Numbers(g.chunks, m + 1) /\ Numbers(InnerChunks(g), m)
  BY ViewAxes
<1>2. PICK n \in Nat : n = m + 1 /\ n - 1 = m /\ 1 \in 1 .. n
  BY <1>1
<1>3. InnerChunks(g) = RemoveAt(g.chunks, 1) /\ SampleChunkSize(g) = g.chunks[1]
  BY DEF InnerChunks, DropSample, SampleChunkSize
<1>4. j \in Seq(Nat) /\ Len(j) = m /\ \A d \in 1 .. m : j[d] \in Nat /\ j[d] < InnerChunks(g)[d]
  <2>1. InnerChunks(g) \in Seq(Nat) /\ Len(InnerChunks(g)) = m
    BY <1>1 DEF Numbers
  <2> QED
    BY <2>1, BoxIsSeq
<1>5. PICK f : f = <<w>> \o j
  OBVIOUS
<1>6. /\ f \in Seq(Nat) /\ Len(f) = m + 1 /\ f[1] = w
      /\ \A d \in 1 .. m : f[d + 1] = j[d]
  <2>1. PICK E : E = Nat
    OBVIOUS
  <2>2. w \in E /\ j \in Seq(E)
    BY <1>4, <2>1
  <2>3. /\ <<w>> \o j \in Seq(E) /\ Len(<<w>> \o j) = Len(j) + 1 /\ (<<w>> \o j)[1] = w
        /\ \A d \in 1 .. Len(j) : (<<w>> \o j)[d + 1] = j[d]
    BY <2>2, HeadedIs
  <2> QED
    BY <1>4, <1>5, <2>1, <2>3
<1>7. Numbers(f, n)
  BY <1>2, <1>6 DEF Numbers
<1>8. \A d \in 1 .. n - 1 : RemoveAt(f, 1)[d] = f[IF d < 1 THEN d ELSE d + 1]
  BY <1>2, <1>7, RemovedIs
<1>9. \A d \in 1 .. n - 1 : RemoveAt(f, 1)[d] < RemoveAt(g.chunks, 1)[d]
  <2>1. ASSUME NEW d \in 1 .. m
        PROVE  RemoveAt(f, 1)[d] < RemoveAt(g.chunks, 1)[d]
    <3>1. RemoveAt(f, 1)[d] = f[d + 1]
      BY <1>2, <1>8
    <3> QED
      BY <1>3, <1>4, <1>6, <3>1
  <2> QED
    BY <1>2, <2>1
<1>10. f[1] < g.chunks[1]
  BY <1>3, <1>6
<1>11. \A d \in 1 .. n : f[d] < g.chunks[d]
  <2>1. Numbers(g.chunks, n)
    BY <1>1, <1>2
  <2> QED
    BY <1>2, <1>7, <1>9, <1>10, <2>1, AxisByAxis
<1>12. \A d \in 1 .. n : f[d] \in Nat
  BY <1>7, NumberAt
<1>13. f = [d \in 1 .. n |-> f[d]]
  BY <1>2, <1>6
<1>14. g.chunks \in Seq(Nat) /\ Len(g.chunks) = n
  BY <1>1, <1>2 DEF Numbers
<1>15. f \in Box(g.chunks)
  <2>1. PICK s : s = g.chunks
    OBVIOUS
  <2>2. s \in Seq(Nat) /\ Len(s) = n /\ \A d \in 1 .. n : f[d] \in Nat /\ f[d] < s[d]
    BY <1>11, <1>12, <1>14, <2>1
  <2>3. f \in Box(s)
    BY <1>13, <2>2, InBox
  <2> QED
    BY <2>1, <2>3
<1> QED
  BY <1>5, <1>15

(* What the store has of an element: nothing of the first tile of a chunk  *)
(* that cannot be decoded, or that it has not.                             *)
FirstTileOf(c, g, cid, ids, coord) ==
  /\ g.path = c.views[1].path /\ cid \in ids
  /\ \A d \in 1 .. Len(InnerShape(g)) : coord[d] = 0
StoredAt(c, g, cid, coord, element) ==
  IF FirstTileOf(c, g, cid, c.corrupt, coord) THEN NaN
  ELSE IF FirstTileOf(c, g, cid, c.absent, coord) THEN Fill ELSE element

(* The element of a fetched tile that belongs at a place of a sample is    *)
(* that of the sample there, or what stands for it.                        *)
LEMMA FetchedIs ==
  ASSUME NEW c, NEW g, Measured(g), StoredAs(Named(c.group, g.path), g), NEW cid \in Nat,
         c.corrupt # {} => g.axis = 0,
         NEW coord \in InnerCoords(g), NEW w \in Nat, w < SampleChunkSize(g),
         cid * SampleChunkSize(g) + w < NSamples(g), NEW j \in Box(InnerChunks(g)),
         NEW at \in Box(InnerShape(g)),
         \A d \in 1 .. Len(InnerShape(g)) : at[d] = coord[d] * InnerChunks(g)[d] + j[d]
  PROVE  FetchedTile(c, g, cid, coord).at[<<w>> \o j]
           = StoredAt(c, g, cid, coord, Element(g.path, cid * SampleChunkSize(g) + w, at))
<1> DEFINE a == Named(c.group, g.path)
           ctx == ArrayCtx(a, StorageChunks(a), g.axis)
           hit(ids) == g.path = c.views[1].path /\ cid \in ids /\ InnerIndex(g, coord) = 0
           fetched == FetchDecode(ctx, PhysicalChunkCoord(g, cid, coord), hit(c.absent))
<1>1. EnsureArrays(c, g) = ctx
  BY DEF EnsureArrays
<1>2. FetchedTile(c, g, cid, coord) = IF hit(c.corrupt) THEN BadFill(ctx) ELSE fetched
  BY <1>1 DEF FetchedTile
<1>3. InnerIndex(g, coord) = 0 <=> \A d \in 1 .. Len(InnerShape(g)) : coord[d] = 0
  <2>1. PICK m \in Nat : Numbers(InnerShape(g), m) /\ Numbers(InnerGrid(g), m)
    BY ViewAxes
  <2>2. PICK grid : grid = InnerGrid(g)
    OBVIOUS
  <2>3. grid \in Seq(Nat) /\ Len(grid) = Len(InnerShape(g))
    BY <2>1, <2>2 DEF Numbers
  <2>4. coord \in Box(grid)
    BY <2>2 DEF InnerCoords
  <2>5. RowMajor(grid, coord) = 0 <=> \A d \in 1 .. Len(grid) : coord[d] = 0
    BY <2>3, <2>4, FirstIsZeros
  <2> QED
    BY <2>2, <2>3, <2>5 DEF InnerIndex
<1>4. \A ids : hit(ids) <=> FirstTileOf(c, g, cid, ids, coord)
  BY <1>3 DEF FirstTileOf
<1>5. fetched.at[<<w>> \o j]
        = IF hit(c.absent) THEN Fill ELSE Element(g.path, cid * SampleChunkSize(g) + w, at)
  <2>1. hit(c.absent) \in BOOLEAN
    OBVIOUS
  <2> HIDE DEF hit
  <2> QED
    BY <2>1, FetchHolds
<1>6. hit(c.corrupt) => BadFill(ctx).at[<<w>> \o j] = NaN
  <2> SUFFICES ASSUME hit(c.corrupt) PROVE BadFill(ctx).at[<<w>> \o j] = NaN
    OBVIOUS
  <2>1. g.axis = 0
    OBVIOUS
  <2>2. <<w>> \o j \in Box(g.chunks)
    BY <2>1, SubstituteHolds
  <2>3. ctx.chunkShape = g.chunks
    BY DEF ArrayCtx, StoredAs
  <2>4. PICK f : f = <<w>> \o j
    OBVIOUS
  <2>5. f \in Box(ctx.chunkShape)
    BY <2>2, <2>3, <2>4
  <2>6. BadFill(ctx).at[f] = NaN
    <3> HIDE DEF ctx
    <3> QED
      BY <2>5 DEF BadFill, Filled
  <2> QED
    BY <2>4, <2>6
<1> HIDE DEF hit, fetched, ctx
<1> QED
  BY <1>2, <1>4, <1>5, <1>6 DEF StoredAt

-----------------------------------------------------------------------------
(* gather takes an element from the one tile that holds its position.      *)
LEMMA GatheredIs ==
  ASSUME NEW g, Measured(g), NEW out, InnerShape(out) = InnerShape(g),
         NEW held, held.grid = g, DOMAIN held.tiles = InnerCoords(g),
         NEW i \in Box(InnerShape(g)), NEW within, NEW cid,
         NEW coord \in InnerCoords(g), IsTileOf(g, coord, i)
  PROVE  Gathered(g, out, held, within, cid)[i]
           = held.tiles[coord].at[<<within>> \o Moved(i, RowOut(g, cid, coord), RowPart(g, cid, coord))]
<1> DEFINE home(k) == {c \in DOMAIN held.tiles : Within(k, Tail(TilePlacement(held.grid, cid, c).out))}
           found(k) == CHOOSE c \in home(k) : TRUE
           val(k) == IF home(k) = {} THEN Unwritten
                     ELSE held.tiles[found(k)].at[<<within>> \o
                            Moved(k, RowOut(held.grid, cid, found(k)), RowPart(held.grid, cid, found(k)))]
<1>1. \A c \in InnerCoords(g) : c \in home(i) <=> c = coord
  <2>1. ASSUME NEW c \in InnerCoords(g)
        PROVE  c \in home(i) <=> c = coord
    <3>1. c \in home(i) <=> Within(i, RowOut(g, cid, c))
      BY DEF RowOut
    <3>2. Within(i, RowOut(g, cid, c)) <=> IsTileOf(g, c, i)
      BY TileHolds
    <3>3. IsTileOf(g, c, i) => c = coord
      <4>1. ASSUME IsTileOf(g, c, i) PROVE \A k \in 1 .. Len(InnerShape(g)) : c[k] = coord[k]
        BY <4>1 DEF IsTileOf
      <4> QED
        BY <4>1, SameCoords
    <3> HIDE DEF home
    <3> QED
      BY <3>1, <3>2, <3>3
  <2> QED
    BY <2>1
<1>2. home(i) = {coord}
  <2>1. home(i) \subseteq InnerCoords(g)
    OBVIOUS
  <2> HIDE DEF home
  <2> QED
    BY <1>1, <2>1
<1> HIDE DEF home
<1>3. found(i) = coord
  BY <1>2
<1> HIDE DEF found
<1>4. val(i) = held.tiles[coord].at[<<within>> \o Moved(i, RowOut(g, cid, coord), RowPart(g, cid, coord))]
  BY <1>2, <1>3
<1>5. Gathered(g, out, held, within, cid) = [k \in Box(InnerShape(g)) |-> val(k)]
  BY DEF Gathered, home, found, RowOut, RowPart
<1> HIDE DEF val
<1> QED
  BY <1>4, <1>5

(* The chunk of a sample, and its place in that chunk.                     *)
LEMMA SampleHeld ==
  ASSUME NEW g, Measured(g), NEW sample \in Nat, sample < NSamples(g)
  PROVE  /\ ChunkOf(g, sample) \in Nat /\ WithinChunk(g, sample) \in Nat
         /\ WithinChunk(g, sample) < SampleChunkSize(g)
         /\ ChunkOf(g, sample) * SampleChunkSize(g) + WithinChunk(g, sample) = sample
<1>1. PICK s \in Nat \ {0} : s = SampleChunkSize(g)
  BY AxesAre
<1>2. PICK q \in Nat : q = sample \div s /\ q * s <= sample /\ sample < (q + 1) * s
  BY QuotientOf
<1>3. PICK r \in Nat : r = sample % s /\ r < s
  OBVIOUS
<1>4. q * s + r = sample
  BY <1>2, <1>3
<1> QED
  BY <1>1, <1>2, <1>3, <1>4 DEF ChunkOf, WithinChunk

(* What is at a position of a sample.                                      *)
SampleAt(c, g, sample, i) ==
  StoredAt(c, g, ChunkOf(g, sample), [d \in DOMAIN i |-> i[d] \div InnerChunks(g)[d]],
           Element(g.path, sample, i))

(* The tile of a position, fetched, has there what is stored.              *)
LEMMA TileHasSample ==
  ASSUME NEW c, NEW g, Measured(g), StoredAs(Named(c.group, g.path), g),
         c.corrupt # {} => g.axis = 0, NEW sample \in Nat, sample < NSamples(g),
         NEW i \in Box(InnerShape(g)), NEW coord \in InnerCoords(g), IsTileOf(g, coord, i)
  PROVE  LET cid == ChunkOf(g, sample)
         IN  FetchedTile(c, g, cid, coord).at
               [<<WithinChunk(g, sample)>> \o Moved(i, RowOut(g, cid, coord), RowPart(g, cid, coord))]
               = SampleAt(c, g, sample, i)
<1> DEFINE cid == ChunkOf(g, sample)
           w == WithinChunk(g, sample)
           j == Moved(i, RowOut(g, cid, coord), RowPart(g, cid, coord))
<1>1. cid \in Nat /\ w \in Nat /\ w < SampleChunkSize(g) /\ cid * SampleChunkSize(g) + w = sample
  BY SampleHeld
<1>2. /\ j \in Box(InnerChunks(g))
      /\ \A d \in 1 .. Len(InnerShape(g)) : i[d] = coord[d] * InnerChunks(g)[d] + j[d]
  BY TileMoved
<1> HIDE DEF cid, w, j
<1>3. FetchedTile(c, g, cid, coord).at[<<w>> \o j]
        = StoredAt(c, g, cid, coord, Element(g.path, cid * SampleChunkSize(g) + w, i))
  <2>1. cid * SampleChunkSize(g) + w < NSamples(g)
    BY <1>1
  <2> QED
    BY <1>1, <1>2, <2>1, FetchedIs
<1>4. DOMAIN i = 1 .. Len(InnerShape(g))
  <2>1. InnerShape(g) \in Seq(Nat)
    BY AxesAre
  <2> QED
    BY <2>1, BoxIsSeq
<1> DEFINE tile == [d \in DOMAIN i |-> i[d] \div InnerChunks(g)[d]]
<1>5. \A d \in 1 .. Len(InnerShape(g)) : tile[d] = coord[d]
  BY <1>4 DEF IsTileOf
<1> HIDE DEF tile
<1>6. \A ids : FirstTileOf(c, g, cid, ids, tile) <=> FirstTileOf(c, g, cid, ids, coord)
  BY <1>5 DEF FirstTileOf
<1>7. \A element : StoredAt(c, g, cid, tile, element) = StoredAt(c, g, cid, coord, element)
  BY <1>6 DEF StoredAt
<1>8. SampleAt(c, g, sample, i) = StoredAt(c, g, cid, tile, Element(g.path, sample, i))
  BY DEF SampleAt, cid, tile
<1> QED
  BY <1>1, <1>3, <1>7, <1>8 DEF cid, w, j

(* Without transforms a row is gathered from the tiles as they were        *)
(* fetched, from the slices of a cache file, or from revived ones.         *)
LEMMA PlainRowHolds ==
  ASSUME NEW c, c.pipeline = <<>>, NEW g, Measured(g), StoredAs(Named(c.group, g.path), g),
         c.corrupt # {} => g.axis = 0, NEW sample \in Nat, sample < NSamples(g),
         NEW again, NEW i \in Box(InnerShape(g))
  PROVE  Gathered(g, OutputGeometry(g, c.pipeline), Published(c, g, ChunkOf(g, sample), again),
                  WithinChunk(g, sample), ChunkOf(g, sample))[i]
           = SampleAt(c, g, sample, i)
<1> DEFINE cid == ChunkOf(g, sample)
           w == WithinChunk(g, sample)
           out == OutputGeometry(g, c.pipeline)
           held == Published(c, g, cid, again)
           tiles == FetchedTiles(c, g, cid)
<1>1. InnerShape(out) = InnerShape(g)
  BY NothingDeclared
<1>2. held = [grid |-> g, tiles |-> IF ~c.persist THEN tiles
                                    ELSE IF again THEN Revived(g, FileOf(g, tiles))
                                    ELSE Backed(g, tiles)]
  BY DEF Published, Assembles
<1> HIDE DEF cid, w, out
<1>3. DOMAIN tiles = InnerCoords(g) /\ \A coord \in InnerCoords(g) : tiles[coord] = FetchedTile(c, g, cid, coord)
  BY DEF FetchedTiles
<1> HIDE DEF tiles
<1>4. held.grid = g /\ DOMAIN held.tiles = InnerCoords(g)
  <2> HIDE DEF held
  <2> QED
    BY <1>2, <1>3 DEF Revived, Backed
<1>5. PICK coord \in InnerCoords(g) : IsTileOf(g, coord, i)
  BY TileExists
<1>6. held.tiles[coord] = tiles[coord]
  <2>1. Revived(g, FileOf(g, tiles))[coord] = tiles[coord]
    BY RevivedIs
  <2>2. Backed(g, tiles)[coord] = tiles[coord]
    BY BackedIs
  <2> HIDE DEF held
  <2> QED
    BY <1>2, <2>1, <2>2
<1> HIDE DEF held
<1>7. Gathered(g, out, held, w, cid)[i]
        = held.tiles[coord].at[<<w>> \o Moved(i, RowOut(g, cid, coord), RowPart(g, cid, coord))]
  BY <1>1, <1>4, <1>5, GatheredIs
<1>8. FetchedTile(c, g, cid, coord).at[<<w>> \o Moved(i, RowOut(g, cid, coord), RowPart(g, cid, coord))]
        = SampleAt(c, g, sample, i)
  BY <1>5, TileHasSample DEF cid, w
<1>9. Gathered(g, out, held, w, cid)[i] = SampleAt(c, g, sample, i)
  BY <1>3, <1>6, <1>7, <1>8
<1> QED
  BY <1>9 DEF out, held, w, cid

-----------------------------------------------------------------------------
(* Transforms that keep the shape of their chunk.                          *)

(* The transforms of one array are transforms of the pipeline.             *)
LEMMA TransformsAre ==
  ASSUME NEW pipeline, pipeline \in Seq(ToSet(pipeline)), NEW path
  PROVE  LET ts == TransformsFor(path, pipeline)
         IN  /\ Len(ts) \in Nat /\ DOMAIN ts = 1 .. Len(ts)
             /\ \A k \in 1 .. Len(ts) : ts[k] \in ToSet(pipeline)
<1> DEFINE ts == TransformsFor(path, pipeline)
           S == {i \in DOMAIN pipeline : AppliesTo(pipeline[i], path)}
           order == Ascending(S)
<1>1. PICK n \in Nat : DOMAIN pipeline = 1 .. n
  OBVIOUS
<1>2. S \in SUBSET Nat /\ IsFiniteSet(S) /\ S \subseteq DOMAIN pipeline
  <2>1. S \subseteq 1 .. n
    BY <1>1
  <2>2. IsFiniteSet(1 .. n)
    BY FS_Interval
  <2> HIDE DEF S
  <2>3. IsFiniteSet(S)
    BY <2>1, <2>2, FS_Subset
  <2> QED
    BY <1>1, <2>1, <2>3
<1>3. ts = [k \in DOMAIN order |-> pipeline[order[k]]]
  BY DEF TransformsFor, At
<1> HIDE DEF S, ts
<1>4. Cardinality(S) \in Nat /\ order \in [1 .. Cardinality(S) -> S]
  BY <1>2, AscendingCounts
<1> HIDE DEF order
<1>5. PICK m \in Nat : m = Cardinality(S)
  BY <1>4
<1>6. \A k \in 1 .. m : order[k] \in DOMAIN pipeline
  BY <1>2, <1>4, <1>5
<1>7. ts = [k \in 1 .. m |-> pipeline[order[k]]]
  BY <1>3, <1>4, <1>5
<1>8. \A k \in 1 .. m : pipeline[order[k]] \in ToSet(pipeline)
  BY <1>6 DEF ToSet
<1>9. Len(ts) = m /\ DOMAIN ts = 1 .. m
  BY <1>7
<1>10. \A k \in 1 .. m : ts[k] \in ToSet(pipeline)
  BY <1>7, <1>8
<1> QED
  BY <1>9, <1>10 DEF ts

(* Transforms that return arrays of the shape that they get, and say so.   *)
ShapesKept(pipeline) == \A t \in ToSet(pipeline) : ~t.declares /\ t.yields = <<>>

(* What such a pipeline publishes is one tile of the shape of the array.   *)
LEMMA KeptGeometry ==
  ASSUME NEW g, Measured(g), NEW pipeline, pipeline \in Seq(ToSet(pipeline)), ShapesKept(pipeline)
  PROVE  LET out == OutputGeometry(g, pipeline)
         IN  /\ InnerShape(out) = InnerShape(g) /\ InnerChunks(out) = InnerShape(g)
             /\ NSamples(out) = NSamples(g) /\ SampleChunkSize(out) = SampleChunkSize(g)
<1> DEFINE out == OutputGeometry(g, pipeline)
           ts == TransformsFor(g.path, pipeline)
           inner == InnerShape(g)
           shape == InsertAt(inner, g.axis + 1, NSamples(g))
           chunks == InsertAt(inner, g.axis + 1, SampleChunkSize(g))
           base == [inner |-> inner, item |-> g.item]
<1>1. Len(ts) \in Nat /\ \A k \in 1 .. Len(ts) : ~ts[k].declares
  <2>1. Len(ts) \in Nat /\ \A k \in 1 .. Len(ts) : ts[k] \in ToSet(pipeline)
    BY TransformsAre
  <2> HIDE DEF ts
  <2> QED
    BY <2>1 DEF ShapesKept
<1>2. Declaring(base, ts) = base
  <2> HIDE DEF ts, base
  <2> QED
    BY <1>1, NothingFolded
<1>3. out = Rebuild(g, inner, g.item)
  BY <1>2 DEF OutputGeometry
<1>4. DOMAIN g = {"path", "shape", "chunks", "item", "offset", "axis"}
  BY DEF Measured
<1> HIDE DEF out, inner
<1>5. out.shape = shape /\ out.chunks = chunks /\ out.axis = g.axis
  BY <1>3, <1>4 DEF Rebuild
<1>6. /\ inner \in Seq(Nat) /\ NSamples(g) \in Nat /\ SampleChunkSize(g) \in Nat
      /\ g.axis \in Nat /\ g.axis <= Len(inner)
  BY AxesAre DEF inner
<1>7. /\ shape[g.axis + 1] = NSamples(g) /\ RemoveAt(shape, g.axis + 1) = inner
      /\ chunks[g.axis + 1] = SampleChunkSize(g) /\ RemoveAt(chunks, g.axis + 1) = inner
  <2>1. PICK b : b = g.axis + 1 /\ b \in 1 .. Len(inner) + 1
    BY <1>6
  <2>2. PICK E : E = Nat
    OBVIOUS
  <2>3. inner \in Seq(E) /\ NSamples(g) \in E /\ SampleChunkSize(g) \in E
    BY <1>6, <2>2
  <2>4. InsertAt(inner, b, NSamples(g))[b] = NSamples(g) /\ RemoveAt(InsertAt(inner, b, NSamples(g)), b) = inner
    BY <2>1, <2>3, AxisInserted
  <2>5. /\ InsertAt(inner, b, SampleChunkSize(g))[b] = SampleChunkSize(g)
        /\ RemoveAt(InsertAt(inner, b, SampleChunkSize(g)), b) = inner
    BY <2>1, <2>3, AxisInserted
  <2> QED
    BY <2>1, <2>4, <2>5
<1> HIDE DEF shape, chunks
<1> QED
  BY <1>5, <1>7 DEF InnerShape, InnerChunks, DropSample, NSamples, SampleChunkSize, inner, out

-----------------------------------------------------------------------------
(* Applying transforms.                                                    *)

(* The sequence of results: f[n] is what the first n transforms made.      *)
Results(f, chunk, transforms, n) ==
  f = [k \in 0 .. n |-> IF k = 0 THEN chunk ELSE Call(transforms[k], f[k - 1])]

(* There are such results for every number of transforms.                  *)
LEMMA ResultsExist ==
  ASSUME NEW chunk, NEW transforms, NEW n \in Nat
  PROVE  \E f : Results(f, chunk, transforms, n)
<1> DEFINE Bad == {m \in Nat : ~ \E f : Results(f, chunk, transforms, m)}
<1> SUFFICES ASSUME Bad # {} PROVE FALSE
  OBVIOUS
<1>1. PICK m \in Bad : \A k \in Bad : m <= k
  BY SmallestOf
<1>2. CASE m = 0
  <2>1. Results([k \in 0 .. 0 |-> chunk], chunk, transforms, 0)
    BY DEF Results
  <2> QED
    BY <1>2, <2>1
<1>3. CASE m # 0
  <2>1. m - 1 \in Nat /\ m - 1 \notin Bad
    BY <1>1, <1>3
  <2>2. PICK p : Results(p, chunk, transforms, m - 1)
    BY <2>1
  <2> DEFINE h == [k \in 0 .. m |-> IF k = m THEN Call(transforms[m], p[m - 1]) ELSE p[k]]
  <2>3. \A k \in 0 .. m : h[k] = IF k = 0 THEN chunk ELSE Call(transforms[k], h[k - 1])
    <3> SUFFICES ASSUME NEW k \in 0 .. m
                 PROVE  h[k] = IF k = 0 THEN chunk ELSE Call(transforms[k], h[k - 1])
      OBVIOUS
    <3>0. k \in Nat /\ m \in Nat
      BY <2>1
    <3>1. CASE k = m
      <4>1. h[k - 1] = p[m - 1] /\ h[k] = Call(transforms[m], p[m - 1])
        BY <1>3, <3>0, <3>1
      <4> QED
        BY <1>3, <3>1, <4>1
    <3>2. CASE k # m
      <4>1. k \in 0 .. m - 1 /\ h[k] = p[k] /\ (k # 0 => k - 1 \in 0 .. m /\ k - 1 # m)
        BY <3>0, <3>2
      <4>2. p[k] = IF k = 0 THEN chunk ELSE Call(transforms[k], p[k - 1])
        BY <2>2, <4>1 DEF Results
      <4>3. k # 0 => h[k - 1] = p[k - 1]
        BY <4>1
      <4> QED
        BY <4>1, <4>2, <4>3
    <3> QED
      BY <3>1, <3>2
  <2>4. h = [k \in 0 .. m |-> h[k]]
    OBVIOUS
  <2>5. Results(h, chunk, transforms, m)
    <3> HIDE DEF h
    <3> QED
      BY <2>3, <2>4 DEF Results
  <2> QED
    BY <1>1, <2>5
<1> QED
  BY <1>2, <1>3

(* What a pipeline returns is the last of them.                            *)
LEMMA CallAllIs ==
  ASSUME NEW chunk, NEW transforms, Len(transforms) \in Nat
  PROVE  \E f : Results(f, chunk, transforms, Len(transforms)) /\ CallAll(transforms, chunk) = f[Len(transforms)]
<1> DEFINE f == CHOOSE h : Results(h, chunk, transforms, Len(transforms))
<1>1. Results(f, chunk, transforms, Len(transforms))
  BY ResultsExist
<1>2. CallAll(transforms, chunk) = f[Len(transforms)]
  BY DEF CallAll, Results
<1> QED
  BY <1>1, <1>2

(* A sequence is its head before its tail.                                 *)
LEMMA HeadAndTail ==
  ASSUME NEW s \in Seq(Nat), s # <<>>
  PROVE  <<s[1]>> \o Tail(s) = s
<1>1. PICK n \in Nat : n = Len(s) /\ n # 0
  <2>1. Len(s) \in Nat /\ Len(s) # 0
    OBVIOUS
  <2> QED
    BY <2>1
<1>2. PICK t : t = Tail(s) /\ t \in Seq(Nat) /\ Len(t) = n - 1 /\ \A d \in 1 .. n - 1 : t[d] = s[d + 1]
  <2>1. Tail(s) \in Seq(Nat) /\ Len(Tail(s)) = n - 1
    BY <1>1
  <2>2. \A d \in 1 .. n - 1 : Tail(s)[d] = s[d + 1]
    BY <1>1
  <2> QED
    BY <2>1, <2>2
<1>3. PICK f : f = <<s[1]>> \o t
  OBVIOUS
<1>4. f \in Seq(Nat) /\ Len(f) = n /\ f[1] = s[1] /\ \A d \in 1 .. n - 1 : f[d + 1] = t[d]
  <2>1. PICK w \in Nat : w = s[1]
    BY <1>1
  <2>2. /\ <<w>> \o t \in Seq(Nat) /\ Len(<<w>> \o t) = Len(t) + 1 /\ (<<w>> \o t)[1] = w
        /\ \A d \in 1 .. Len(t) : (<<w>> \o t)[d + 1] = t[d]
    BY <1>2, HeadedIs
  <2>3. Len(t) + 1 = n /\ Len(t) = n - 1
    BY <1>1, <1>2
  <2> QED
    BY <1>3, <2>1, <2>2, <2>3
<1>5. ASSUME NEW d \in 1 .. n
      PROVE  f[d] = s[d]
  <2>1. CASE d = 1
    BY <1>4, <2>1
  <2>2. CASE d # 1
    <3>1. d - 1 \in 1 .. n - 1 /\ (d - 1) + 1 = d
      BY <2>2
    <3>2. f[(d - 1) + 1] = t[d - 1] /\ t[d - 1] = s[(d - 1) + 1]
      BY <1>2, <1>4, <3>1
    <3> QED
      BY <3>1, <3>2
  <2> QED
    BY <2>1, <2>2
<1>6. f = s
  <2>1. DOMAIN f = 1 .. n /\ f = [d \in DOMAIN f |-> f[d]]
    BY <1>4
  <2>2. DOMAIN s = 1 .. n /\ s = [d \in DOMAIN s |-> s[d]]
    BY <1>1
  <2> QED
    BY <1>5, <2>1, <2>2, Zenon
<1> QED
  BY <1>2, <1>3, <1>6

(* The nearest place in a shape to a place of it is that place.            *)
LEMMA NearestIs ==
  ASSUME NEW shape \in Seq(Nat), NEW i \in Box(shape)
  PROVE  Nearest(i, shape) = i
<1>1. PICK n \in Nat : n = Len(shape) /\ DOMAIN shape = 1 .. n
  OBVIOUS
<1>2. i = [d \in 1 .. n |-> i[d]] /\ DOMAIN i = 1 .. n
  BY <1>1, InBox
<1>3. \A d \in 1 .. n : i[d] \in Nat /\ i[d] < shape[d] /\ shape[d] \in Nat
  BY <1>1, BoxIsSeq
<1>4. \A d \in 1 .. n : MinOf(i[d], shape[d] - 1) = i[d]
  BY <1>3 DEF MinOf
<1> DEFINE val(d) == IF d \in DOMAIN i THEN MinOf(i[d], shape[d] - 1) ELSE 0
<1>5. \A d \in 1 .. n : val(d) = i[d]
  BY <1>2, <1>4
<1>6. Nearest(i, shape) = [d \in 1 .. n |-> val(d)]
  BY <1>1 DEF Nearest
<1> HIDE DEF val
<1> QED
  BY <1>2, <1>5, <1>6

(* An element, with the transforms it went through.                        *)
Tagged(e, codes) == [path |-> e.path, sample |-> e.sample, inner |-> e.inner, via |-> codes]
Untouched(e) == e = Tagged(e, <<>>)

(* A tag replaces another.                                                 *)
LEMMA TaggedIs ==
  ASSUME NEW e, NEW a, NEW b
  PROVE  [Tagged(e, a) EXCEPT !.via = b] = Tagged(e, b)
BY DEF Tagged

(* A tag is made longer.                                                   *)
LEMMA TaggedMore ==
  ASSUME NEW e, NEW a, NEW c
  PROVE  [Tagged(e, a) EXCEPT !.via = Append(@, c)] = Tagged(e, Append(a, c))
<1>1. PICK r : r = Tagged(e, a)
  OBVIOUS
<1>2. r.via = a
  BY <1>1 DEF Tagged
<1>3. [r EXCEPT !.via = Append(@, c)] = [r EXCEPT !.via = Append(a, c)]
  BY <1>2
<1>4. [r EXCEPT !.via = Append(a, c)] = Tagged(e, Append(a, c))
  BY <1>1, TaggedIs
<1> QED
  BY <1>1, <1>3, <1>4

Codes(transforms, k) == [d \in 1 .. k |-> transforms[d].code]

(* One transform more tags with one code more.                             *)
LEMMA CodesGrow ==
  ASSUME NEW transforms, NEW k \in Nat
  PROVE  Codes(transforms, 0) = <<>> /\ Append(Codes(transforms, k), transforms[k + 1].code) = Codes(transforms, k + 1)
<1> DEFINE code(d) == transforms[d].code
<1>1. PICK E : E = {code(d) : d \in 1 .. k + 1}
  OBVIOUS
<1>2. \A d \in 1 .. k + 1 : code(d) \in E
  BY <1>1
<1> HIDE DEF code
<1>3. [d \in 1 .. k |-> code(d)] \in Seq(E) /\ Len([d \in 1 .. k |-> code(d)]) = k
  BY <1>2
<1>4. Append([d \in 1 .. k |-> code(d)], code(k + 1)) = [d \in 1 .. k + 1 |-> code(d)]
  BY <1>2, <1>3
<1>5. [d \in 1 .. 0 |-> code(d)] = <<>>
  OBVIOUS
<1> QED
  BY <1>4, <1>5 DEF Codes, code

(* A chunk that some transforms were applied to, none of which changed its *)
(* shape.                                                                  *)
OnlyTagged(after, chunk, transforms, k) ==
  /\ after.data.shape = chunk.data.shape
  /\ \A i \in Box(chunk.data.shape) :
       after.data.at[i] = Tagged(chunk.data.at[i], Codes(transforms, k))

(* A transform that keeps the shape tags each element where it stands.     *)
LEMMA CallKeeps ==
  ASSUME NEW t, t.yields = <<>>, NEW chunk, "data" \in DOMAIN chunk,
         chunk.data.shape \in Seq(Nat), chunk.data.shape # <<>>
  PROVE  /\ "data" \in DOMAIN Call(t, chunk) /\ Call(t, chunk).data.shape = chunk.data.shape
         /\ \A i \in Box(chunk.data.shape) :
              Call(t, chunk).data.at[i] = [chunk.data.at[i] EXCEPT !.via = Append(@, t.code)]
<1> DEFINE old == chunk.data
           shape == <<old.shape[1]>> \o IF t.yields = <<>> THEN Tail(old.shape) ELSE t.yields
           val(i) == [old.at[Nearest(i, old.shape)] EXCEPT !.via = Append(@, t.code)]
           new == [shape |-> shape, at |-> [i \in Box(shape) |-> val(i)]]
<1>1. Call(t, chunk) = [chunk EXCEPT !.data = new]
  BY DEF Call
<1>2. shape = old.shape
  <2>1. shape = <<old.shape[1]>> \o Tail(old.shape)
    OBVIOUS
  <2> HIDE DEF shape
  <2> QED
    BY <2>1, HeadAndTail
<1>3. \A i \in Box(old.shape) : val(i) = [old.at[i] EXCEPT !.via = Append(@, t.code)]
  <2>1. \A i \in Box(old.shape) : Nearest(i, old.shape) = i
    BY NearestIs
  <2> QED
    BY <2>1
<1> HIDE DEF val, shape
<1>4. new.shape = old.shape /\ \A i \in Box(old.shape) : new.at[i] = val(i)
  BY <1>2
<1> HIDE DEF new
<1>5. "data" \in DOMAIN Call(t, chunk) /\ Call(t, chunk).data = new
  BY <1>1
<1> QED
  BY <1>3, <1>4, <1>5

(* So do all the transforms of an array, one after the other.              *)
LEMMA CallAllKeeps ==
  ASSUME NEW transforms, NEW n \in Nat, n = Len(transforms), \A k \in 1 .. n : transforms[k].yields = <<>>,
         NEW chunk, "data" \in DOMAIN chunk, chunk.data.shape \in Seq(Nat), chunk.data.shape # <<>>,
         \A i \in Box(chunk.data.shape) : Untouched(chunk.data.at[i])
  PROVE  OnlyTagged(CallAll(transforms, chunk), chunk, transforms, n)
<1>1. PICK f : Results(f, chunk, transforms, n) /\ CallAll(transforms, chunk) = f[n]
  BY CallAllIs
<1> DEFINE Good(k) == "data" \in DOMAIN f[k] /\ OnlyTagged(f[k], chunk, transforms, k)
           Bad == {k \in 0 .. n : ~Good(k)}
<1>2. f[0] = chunk /\ \A k \in 1 .. n : f[k] = Call(transforms[k], f[k - 1])
  BY <1>1 DEF Results
<1>3. Good(0)
  <2>1. Codes(transforms, 0) = <<>>
    BY CodesGrow
  <2> QED
    BY <1>2, <2>1 DEF OnlyTagged, Untouched
<1>4. Bad = {}
  <2> SUFFICES ASSUME Bad # {} PROVE FALSE
    OBVIOUS
  <2>1. PICK m \in Bad : \A k \in Bad : m <= k
    <3>1. Bad \in SUBSET Nat
      OBVIOUS
    <3> HIDE DEF Bad
    <3> QED
      BY <3>1, SmallestOf
  <2>2. m \in 1 .. n /\ ~Good(m)
    BY <1>3
  <2>3. PICK k \in 0 .. n : k = m - 1 /\ k + 1 = m
    BY <2>2
  <2>4. Good(k)
    BY <2>1, <2>3
  <2>5. f[m] = Call(transforms[m], f[k]) /\ transforms[m].yields = <<>>
    BY <1>2, <2>2, <2>3
  <2>6. f[k].data.shape = chunk.data.shape /\ "data" \in DOMAIN f[k]
    BY <2>4 DEF OnlyTagged
  <2>7. /\ "data" \in DOMAIN f[m] /\ f[m].data.shape = chunk.data.shape
        /\ \A i \in Box(chunk.data.shape) :
             f[m].data.at[i] = [f[k].data.at[i] EXCEPT !.via = Append(@, transforms[m].code)]
    <3>1. PICK t, mid : t = transforms[m] /\ mid = f[k] /\ t.yields = <<>>
      BY <2>5
    <3>2. "data" \in DOMAIN mid /\ mid.data.shape \in Seq(Nat) /\ mid.data.shape # <<>>
      BY <2>6, <3>1
    <3>4. t.yields = <<>>
      BY <3>1
    <3>3. /\ "data" \in DOMAIN Call(t, mid) /\ Call(t, mid).data.shape = mid.data.shape
          /\ \A i \in Box(mid.data.shape) :
               Call(t, mid).data.at[i] = [mid.data.at[i] EXCEPT !.via = Append(@, t.code)]
      BY <3>2, <3>4, CallKeeps
    <3> QED
      BY <2>5, <2>6, <3>1, <3>3
  <2>8. Append(Codes(transforms, k), transforms[m].code) = Codes(transforms, m)
    <3>0. k \in Nat
      OBVIOUS
    <3>1. Append(Codes(transforms, k), transforms[k + 1].code) = Codes(transforms, k + 1)
      BY <3>0, CodesGrow
    <3> QED
      BY <2>3, <3>1
  <2>9. ASSUME NEW i \in Box(chunk.data.shape)
        PROVE  f[m].data.at[i] = Tagged(chunk.data.at[i], Codes(transforms, m))
    <3>1. f[k].data.at[i] = Tagged(chunk.data.at[i], Codes(transforms, k))
      BY <2>4 DEF OnlyTagged
    <3>2. PICK e, a, c : e = chunk.data.at[i] /\ a = Codes(transforms, k) /\ c = transforms[m].code
      OBVIOUS
    <3>3. f[m].data.at[i] = [Tagged(e, a) EXCEPT !.via = Append(@, c)]
      BY <2>7, <3>1, <3>2
    <3>4. [Tagged(e, a) EXCEPT !.via = Append(@, c)] = Tagged(e, Append(a, c))
      BY TaggedMore
    <3> QED
      BY <2>8, <3>2, <3>3, <3>4
  <2> QED
    BY <2>2, <2>7, <2>9 DEF OnlyTagged
<1> HIDE DEF Good
<1>5. Good(n)
  BY <1>4
<1> QED
  BY <1>1, <1>5 DEF Good

-----------------------------------------------------------------------------
(* The assembled slot.                                                     *)

(* A tile's place in its chunk: all of the chunk's samples, and its place  *)
(* in a row.                                                               *)
SlotOut(g, cid, coord) == TilePlacement(g, cid, coord).out
SlotPart(g, cid, coord) == TilePlacement(g, cid, coord).chunk
Samples(g, cid) == Cardinality(SamplesInChunk(g, cid))

(* A tile has all the samples of its chunk, and stands where it does in a  *)
(* row.                                                                    *)
LEMMA SlotPlaced ==
  ASSUME NEW g, Measured(g), NEW cid, NEW coord \in InnerCoords(g)
  PROVE  /\ SlotOut(g, cid, coord)[1] = <<0, Samples(g, cid)>>
         /\ SlotPart(g, cid, coord)[1][1] = 0
         /\ \A d \in 1 .. Len(InnerShape(g)) :
              /\ SlotOut(g, cid, coord)[d + 1] = RowOut(g, cid, coord)[d]
              /\ SlotPart(g, cid, coord)[d + 1] = RowPart(g, cid, coord)[d]
<1> DEFINE low(d) == coord[d] * InnerChunks(g)[d]
           high(d) == MinOf((coord[d] + 1) * InnerChunks(g)[d], InnerShape(g)[d])
           rest == [d \in DOMAIN coord |-> <<low(d), high(d)>>]
           first == <<0, Samples(g, cid)>>
           out == <<first>> \o rest
           chunk == [k \in DOMAIN out |-> <<0, out[k][2] - out[k][1]>>]
           place == TilePlacement(g, cid, coord)
<1>1. place.out = out /\ place.chunk = chunk
  BY DEF TilePlacement, Samples
<1>2. PICK m \in Nat : Numbers(InnerShape(g), m) /\ Numbers(InnerGrid(g), m)
  BY ViewAxes
<1>3. Len(InnerShape(g)) = m
  BY <1>2 DEF Numbers
<1>4. DOMAIN coord = 1 .. m
  <2>1. InnerGrid(g) \in Seq(Nat) /\ Len(InnerGrid(g)) = m
    BY <1>2 DEF Numbers
  <2>2. coord \in Box(InnerGrid(g))
    BY DEF InnerCoords
  <2> QED
    BY <2>1, <2>2, BoxIsSeq
<1> HIDE DEF low, high, first, place
<1>5. PICK E : E = {first} \cup {<<low(d), high(d)>> : d \in 1 .. m}
  OBVIOUS
<1>6. first \in E /\ rest \in Seq(E) /\ Len(rest) = m
  <2>1. \A d \in 1 .. m : <<low(d), high(d)>> \in E
    BY <1>5
  <2>2. first \in E
    BY <1>5
  <2> QED
    BY <1>4, <2>1, <2>2
<1> HIDE DEF rest
<1>7. out \in Seq(E) /\ Len(out) = m + 1 /\ Tail(out) = rest /\ out[1] = first
  <2>1. /\ <<first>> \o rest \in Seq(E) /\ Len(<<first>> \o rest) = Len(rest) + 1
        /\ Tail(<<first>> \o rest) = rest /\ (<<first>> \o rest)[1] = first
    BY <1>6, HeadedIs
  <2> QED
    BY <1>6, <2>1
<1> HIDE DEF out
<1>8. DOMAIN out = 1 .. m + 1 /\ \A d \in 1 .. m : Tail(out)[d] = out[d + 1]
  <2>1. out # <<>>
    BY <1>7
  <2> QED
    BY <1>7, <2>1
<1> DEFINE val(k) == <<0, out[k][2] - out[k][1]>>
<1>9. PICK F : F = {val(k) : k \in 1 .. m + 1}
  OBVIOUS
<1>10. chunk = [k \in 1 .. m + 1 |-> val(k)] /\ (\A k \in 1 .. m + 1 : val(k) \in F) /\ val(1)[1] = 0
  BY <1>8, <1>9
<1> HIDE DEF val, chunk
<1>11. chunk \in Seq(F) /\ Len(chunk) = m + 1 /\ chunk # <<>> /\ chunk[1][1] = 0
  BY <1>10
<1>12. \A d \in 1 .. m : Tail(chunk)[d] = chunk[d + 1]
  BY <1>11
<1>13. ASSUME NEW d \in 1 .. m
       PROVE  out[d + 1] = RowOut(g, cid, coord)[d] /\ chunk[d + 1] = RowPart(g, cid, coord)[d]
  <2>1. RowOut(g, cid, coord) = Tail(out) /\ RowPart(g, cid, coord) = Tail(chunk)
    BY <1>1 DEF RowOut, RowPart, place
  <2> QED
    BY <1>8, <1>12, <2>1
<1>14. SlotOut(g, cid, coord) = out /\ SlotPart(g, cid, coord) = chunk
  BY <1>1 DEF SlotOut, SlotPart, place
<1>15. first = <<0, Samples(g, cid)>>
  BY DEF first
<1> QED
  BY <1>3, <1>7, <1>11, <1>13, <1>14, <1>15

(* How many samples a chunk holds.                                         *)
LEMMA SamplesAre ==
  ASSUME NEW g, Measured(g), NEW cid \in Nat
  PROVE  /\ Samples(g, cid) \in Nat
         /\ \A w \in Nat : w < Samples(g, cid) <=>
              w < SampleChunkSize(g) /\ cid * SampleChunkSize(g) + w < NSamples(g)
<1>1. PICK s \in Nat \ {0}, n \in Nat : s = SampleChunkSize(g) /\ n = NSamples(g)
  BY AxesAre
<1>2. PICK u \in Nat : u = cid * s /\ u + s = (cid + 1) * s
  OBVIOUS
<1>3. SamplesInChunk(g, cid) = u .. MinOf(u + s, n) - 1
  BY <1>1, <1>2 DEF SamplesInChunk, Span
<1>4. PICK v \in Nat : v = MinOf(u + s, n)
  BY DEF MinOf
<1>5. Cardinality(u .. v - 1) = IF u > v - 1 THEN 0 ELSE v - 1 - u + 1
  BY FS_Interval
<1>6. Samples(g, cid) = IF u >= v THEN 0 ELSE v - u
  BY <1>3, <1>4, <1>5 DEF Samples
<1>7. Samples(g, cid) \in Nat /\ \A w \in Nat : w < Samples(g, cid) <=> w < s /\ u + w < n
  BY <1>4, <1>6 DEF MinOf
<1> QED
  BY <1>1, <1>2, <1>7

(* A tile holds a place of a slot if it holds its place in the row.        *)
LEMMA SlotHolds ==
  ASSUME NEW g, Measured(g), NEW cid \in Nat, NEW w \in Nat, w < Samples(g, cid),
         NEW k \in Box(InnerShape(g)), NEW coord \in InnerCoords(g)
  PROVE  /\ Within(<<w>> \o k, SlotOut(g, cid, coord)) <=> Within(k, RowOut(g, cid, coord))
         /\ Moved(<<w>> \o k, SlotOut(g, cid, coord), SlotPart(g, cid, coord))
              = <<w>> \o Moved(k, RowOut(g, cid, coord), RowPart(g, cid, coord))
<1>1. PICK m \in Nat : Numbers(InnerShape(g), m)
  BY ViewAxes
<1>2. Len(InnerShape(g)) = m /\ InnerShape(g) \in Seq(Nat)
  BY <1>1 DEF Numbers
<1>3. k \in Seq(Nat) /\ Len(k) = m /\ DOMAIN k = 1 .. m
  BY <1>2, BoxIsSeq
<1>4. PICK i : i = <<w>> \o k
  OBVIOUS
<1>5. Len(i) = m + 1 /\ i \in Seq(Nat) /\ i[1] = w /\ \A d \in 1 .. m : i[d + 1] = k[d]
  <2>1. PICK E : E = Nat
    OBVIOUS
  <2>2. w \in E /\ k \in Seq(E)
    BY <1>3, <2>1
  <2>3. /\ <<w>> \o k \in Seq(E) /\ Len(<<w>> \o k) = Len(k) + 1 /\ (<<w>> \o k)[1] = w
        /\ \A d \in 1 .. Len(k) : (<<w>> \o k)[d + 1] = k[d]
    BY <2>2, HeadedIs
  <2> QED
    BY <1>3, <1>4, <2>1, <2>3
<1> DEFINE out == SlotOut(g, cid, coord)
           part == SlotPart(g, cid, coord)
           rowOut == RowOut(g, cid, coord)
           rowPart == RowPart(g, cid, coord)
<1>6. out[1] = <<0, Samples(g, cid)>> /\ part[1][1] = 0
  BY SlotPlaced
<1>7. \A d \in 1 .. m : out[d + 1] = rowOut[d] /\ part[d + 1] = rowPart[d]
  BY <1>2, SlotPlaced
<1>8. Samples(g, cid) \in Nat
  BY SamplesAre
<1> DEFINE j == Moved(k, rowOut, rowPart)
<1>9. /\ j = [d \in 1 .. m |-> k[d] - rowOut[d][1] + rowPart[d][1]]
  BY <1>3 DEF Moved
<1> HIDE DEF out, part, rowOut, rowPart
<1>10. Within(i, out) <=> Within(k, rowOut)
  <2>0. DOMAIN i = 1 .. m + 1
    BY <1>5
  <2>1. Within(i, out) <=> \A d \in 1 .. m + 1 : i[d] \in Span(out[d][1], out[d][2])
    BY <2>0 DEF Within
  <2>2. Within(k, rowOut) <=> \A d \in 1 .. m : k[d] \in Span(rowOut[d][1], rowOut[d][2])
    BY <1>3 DEF Within
  <2>3. i[1] \in Span(out[1][1], out[1][2])
    <3>1. out[1][1] = 0 /\ out[1][2] = Samples(g, cid)
      BY <1>6
    <3> QED
      BY <1>5, <1>8, <3>1 DEF Span
  <2> DEFINE In(d) == i[d] \in Span(out[d][1], out[d][2])
  <2>4. \A d \in 1 .. m : In(d + 1) <=> k[d] \in Span(rowOut[d][1], rowOut[d][2])
    BY <1>5, <1>7
  <2>5. In(1)
    BY <2>3
  <2> HIDE DEF In
  <2>6. (\A d \in 1 .. m + 1 : In(d)) <=> \A d \in 1 .. m : In(d + 1)
    <3>1. ASSUME \A d \in 1 .. m : In(d + 1), NEW d \in 1 .. m + 1
          PROVE  In(d)
      <4>1. CASE d = 1
        BY <2>5, <4>1
      <4>2. CASE d # 1
        <5>1. d - 1 \in 1 .. m /\ (d - 1) + 1 = d
          BY <4>2
        <5>2. In((d - 1) + 1)
          BY <3>1, <5>1
        <5> QED
          BY <5>1, <5>2
      <4> QED
        BY <4>1, <4>2
    <3>2. ASSUME \A d \in 1 .. m + 1 : In(d), NEW d \in 1 .. m
          PROVE  In(d + 1)
      <4>1. d + 1 \in 1 .. m + 1
        OBVIOUS
      <4> QED
        BY <3>2, <4>1
    <3> QED
      BY <3>1, <3>2
  <2>7. (\A d \in 1 .. m : In(d + 1)) <=> \A d \in 1 .. m : k[d] \in Span(rowOut[d][1], rowOut[d][2])
    BY <2>4
  <2>8. Within(i, out) <=> \A d \in 1 .. m + 1 : In(d)
    BY <2>1 DEF In
  <2> QED
    BY <2>2, <2>6, <2>7, <2>8
<1> DEFINE move(d) == i[d] - out[d][1] + part[d][1]
<1>11. Moved(i, out, part) = [d \in 1 .. m + 1 |-> move(d)]
  BY <1>5 DEF Moved
<1>12. move(1) = w
  <2>1. out[1][1] = 0
    BY <1>6
  <2> QED
    BY <1>5, <1>6, <2>1
<1>13. \A d \in 1 .. m : move(d + 1) = j[d]
  BY <1>5, <1>7, <1>9
<1> HIDE DEF move, j
<1>14. PICK f : f = <<w>> \o j
  OBVIOUS
<1>15. PICK F : F = {w} \cup {j[d] : d \in 1 .. m}
  OBVIOUS
<1>16. w \in F /\ j \in Seq(F) /\ Len(j) = m
  <2>1. \A d \in 1 .. m : j[d] \in F
    BY <1>15
  <2>2. j = [d \in 1 .. m |-> j[d]]
    BY <1>9
  <2>3. [d \in 1 .. m |-> j[d]] \in Seq(F) /\ Len([d \in 1 .. m |-> j[d]]) = m
    BY <2>1
  <2> QED
    BY <1>15, <2>2, <2>3
<1>17. f \in Seq(F) /\ Len(f) = m + 1 /\ f[1] = w /\ \A d \in 1 .. m : f[d + 1] = j[d]
  <2>1. /\ <<w>> \o j \in Seq(F) /\ Len(<<w>> \o j) = Len(j) + 1 /\ (<<w>> \o j)[1] = w
        /\ \A d \in 1 .. Len(j) : (<<w>> \o j)[d + 1] = j[d]
    BY <1>16, HeadedIs
  <2> QED
    BY <1>14, <1>16, <2>1
<1>18. ASSUME NEW d \in 1 .. m + 1
       PROVE  f[d] = move(d)
  <2>1. CASE d = 1
    BY <1>12, <1>17, <2>1
  <2>2. CASE d # 1
    <3>1. d - 1 \in 1 .. m /\ (d - 1) + 1 = d
      BY <2>2
    <3>2. move((d - 1) + 1) = j[d - 1] /\ f[(d - 1) + 1] = j[d - 1]
      BY <1>13, <1>17, <3>1
    <3> QED
      BY <3>1, <3>2
  <2> QED
    BY <2>1, <2>2
<1>19. f = [d \in 1 .. m + 1 |-> f[d]]
  BY <1>17
<1>20. f = Moved(i, out, part)
  BY <1>11, <1>18, <1>19
<1> QED
  BY <1>4, <1>10, <1>14, <1>20 DEF j, out, part, rowOut, rowPart

(* The whole chunk has at each place what the tile of that place has.      *)
LEMMA AssembledAt ==
  ASSUME NEW g, Measured(g), NEW cid \in Nat, NEW tiles, NEW w \in Nat, w < Samples(g, cid),
         NEW k \in Box(InnerShape(g)), NEW coord \in InnerCoords(g), IsTileOf(g, coord, k)
  PROVE  Assembled(g, cid, tiles).at[<<w>> \o k]
           = tiles[coord].at[<<w>> \o Moved(k, RowOut(g, cid, coord), RowPart(g, cid, coord))]
<1> DEFINE home(i) == CHOOSE c \in InnerCoords(g) : Within(i, SlotOut(g, cid, c))
           val(i) == tiles[home(i)].at[Moved(i, SlotOut(g, cid, home(i)), SlotPart(g, cid, home(i)))]
<1>1. Assembled(g, cid, tiles).at = [i \in Box(SlotShape(g, cid)) |-> val(i)]
  BY DEF Assembled, SlotOut, SlotPart
<1>2. PICK i : i = <<w>> \o k
  OBVIOUS
<1>3. i \in Box(SlotShape(g, cid))
  <2>1. Samples(g, cid) \in Nat
    BY SamplesAre
  <2>2. InnerShape(g) \in Seq(Nat)
    BY AxesAre
  <2>3. <<w>> \o k \in Box(<<Samples(g, cid)>> \o InnerShape(g))
    BY <2>1, <2>2, BoxHeaded
  <2> QED
    BY <1>2, <2>3 DEF SlotShape, Samples
<1>4. ASSUME NEW c \in InnerCoords(g)
      PROVE  Within(i, SlotOut(g, cid, c)) <=> c = coord
  <2>1. Within(<<w>> \o k, SlotOut(g, cid, c)) <=> Within(k, RowOut(g, cid, c))
    BY SlotHolds
  <2>2. Within(k, RowOut(g, cid, c)) <=> IsTileOf(g, c, k)
    BY TileHolds
  <2>3. IsTileOf(g, c, k) => c = coord
    <3>1. ASSUME IsTileOf(g, c, k) PROVE \A d \in 1 .. Len(InnerShape(g)) : c[d] = coord[d]
      BY <3>1 DEF IsTileOf
    <3> QED
      BY <3>1, SameCoords
  <2> QED
    BY <1>2, <2>1, <2>2, <2>3
<1>5. home(i) = coord
  BY <1>4
<1> HIDE DEF home
<1>6. Moved(i, SlotOut(g, cid, coord), SlotPart(g, cid, coord))
        = <<w>> \o Moved(k, RowOut(g, cid, coord), RowPart(g, cid, coord))
  BY <1>2, SlotHolds
<1>7. val(i) = tiles[coord].at[<<w>> \o Moved(k, RowOut(g, cid, coord), RowPart(g, cid, coord))]
  BY <1>5, <1>6
<1> HIDE DEF val
<1>8. Assembled(g, cid, tiles).at[i] = val(i)
  BY <1>1, <1>3
<1> QED
  BY <1>2, <1>7, <1>8

(* The sample that is held at a place of a chunk.                          *)
LEMMA HeldSample ==
  ASSUME NEW g, Measured(g), NEW cid \in Nat, NEW w \in Nat, w < Samples(g, cid)
  PROVE  \E sample \in Nat : /\ sample < NSamples(g) /\ sample = cid * SampleChunkSize(g) + w
                             /\ ChunkOf(g, sample) = cid /\ WithinChunk(g, sample) = w
<1>1. PICK s \in Nat \ {0} : s = SampleChunkSize(g)
  BY AxesAre
<1>2. w < SampleChunkSize(g) /\ cid * SampleChunkSize(g) + w < NSamples(g)
  BY SamplesAre
<1>3. PICK sample \in Nat : sample = cid * s + w
  OBVIOUS
<1>4. w < s /\ sample < NSamples(g)
  BY <1>1, <1>2, <1>3
<1>5. PICK a, x : a = ChunkOf(g, sample) /\ x = WithinChunk(g, sample)
  OBVIOUS
<1>6. a \in Nat /\ x \in Nat /\ x < s /\ a * s + x = sample
  <2>1. /\ ChunkOf(g, sample) \in Nat /\ WithinChunk(g, sample) \in Nat
        /\ WithinChunk(g, sample) < SampleChunkSize(g)
        /\ ChunkOf(g, sample) * SampleChunkSize(g) + WithinChunk(g, sample) = sample
    BY <1>4, SampleHeld
  <2> QED
    BY <1>1, <1>5, <2>1
<1>7. InRow(sample, a, s, x)
  BY <1>6 DEF InRow
<1>8. InRow(sample, cid, s, w)
  BY <1>3, <1>4 DEF InRow
<1>9. a = cid /\ x = w
  BY <1>7, <1>8, RowIsOne
<1> QED
  BY <1>1, <1>3, <1>4, <1>5, <1>9

(* And the place of a sample is a place of its chunk.                      *)
LEMMA SampleWithin ==
  ASSUME NEW g, Measured(g), NEW sample \in Nat, sample < NSamples(g)
  PROVE  /\ ChunkOf(g, sample) \in Nat /\ WithinChunk(g, sample) \in Nat
         /\ WithinChunk(g, sample) < Samples(g, ChunkOf(g, sample))
<1>1. /\ ChunkOf(g, sample) \in Nat /\ WithinChunk(g, sample) \in Nat
      /\ WithinChunk(g, sample) < SampleChunkSize(g)
      /\ ChunkOf(g, sample) * SampleChunkSize(g) + WithinChunk(g, sample) = sample
  BY SampleHeld
<1>2. ChunkOf(g, sample) * SampleChunkSize(g) + WithinChunk(g, sample) < NSamples(g)
  BY <1>1
<1> QED
  BY <1>1, <1>2, SamplesAre

(* A whole chunk has at each place the sample it holds there.              *)
LEMMA AssembledHolds ==
  ASSUME NEW c, NEW g, Measured(g), StoredAs(Named(c.group, g.path), g),
         c.corrupt # {} => g.axis = 0, NEW sample \in Nat, sample < NSamples(g),
         NEW k \in Box(InnerShape(g))
  PROVE  LET cid == ChunkOf(g, sample)
         IN  Assembled(g, cid, FetchedTiles(c, g, cid)).at[<<WithinChunk(g, sample)>> \o k]
               = SampleAt(c, g, sample, k)
<1> DEFINE cid == ChunkOf(g, sample)
           w == WithinChunk(g, sample)
           tiles == FetchedTiles(c, g, cid)
<1>1. cid \in Nat /\ w \in Nat /\ w < Samples(g, cid)
  BY SampleWithin
<1>2. PICK coord \in InnerCoords(g) : IsTileOf(g, coord, k)
  BY TileExists
<1>3. tiles[coord] = FetchedTile(c, g, cid, coord)
  BY DEF FetchedTiles
<1>4. FetchedTile(c, g, cid, coord).at[<<w>> \o Moved(k, RowOut(g, cid, coord), RowPart(g, cid, coord))]
        = SampleAt(c, g, sample, k)
  BY <1>2, TileHasSample
<1> HIDE DEF tiles, cid, w
<1>5. Assembled(g, cid, tiles).at[<<w>> \o k]
        = tiles[coord].at[<<w>> \o Moved(k, RowOut(g, cid, coord), RowPart(g, cid, coord))]
  BY <1>1, <1>2, AssembledAt
<1>6. Assembled(g, cid, tiles).at[<<w>> \o k] = SampleAt(c, g, sample, k)
  BY <1>3, <1>4, <1>5
<1> QED
  BY <1>6 DEF tiles, cid, w

(* An index tuple of a slot is a place in its chunk and one in the row.    *)
SlotPlace(g, cid, i, w, k) ==
  w \in Nat /\ k \in Box(InnerShape(g)) /\ w < Samples(g, cid) /\ i = <<w>> \o k

(* A place in a slot is a sample of the chunk and a place of that.         *)
LEMMA SlotIndex ==
  ASSUME NEW g, Measured(g), NEW cid \in Nat, NEW i \in Box(SlotShape(g, cid))
  PROVE  \E w, k : SlotPlace(g, cid, i, w, k)
<1>1. PICK n \in Nat : n = Samples(g, cid)
  BY SamplesAre
<1>2. PICK s \in Seq(Nat) : s = InnerShape(g)
  BY AxesAre
<1>3. PICK m \in Nat : m = Len(s)
  OBVIOUS
<1>4. PICK shape : shape = <<n>> \o s
  OBVIOUS
<1>5. i \in Box(shape)
  BY <1>1, <1>2, <1>4 DEF SlotShape, Samples
<1>6. shape \in Seq(Nat) /\ Len(shape) = m + 1 /\ shape[1] = n /\ \A d \in 1 .. m : shape[d + 1] = s[d]
  BY <1>3, <1>4, HeadedIs
<1>7. i \in Seq(Nat) /\ Len(i) = m + 1 /\ \A d \in 1 .. m + 1 : i[d] \in Nat /\ i[d] < shape[d]
  <2>1. shape \in Seq(Nat)
    BY <1>6
  <2>2. i \in Seq(Nat) /\ Len(i) = Len(shape) /\ \A d \in 1 .. Len(shape) : i[d] \in Nat /\ i[d] < shape[d]
    BY <1>5, <2>1, BoxIsSeq
  <2> QED
    BY <1>6, <2>2
<1>8. PICK w \in Nat : w = i[1] /\ w < n
  <2>1. 1 \in 1 .. m + 1
    OBVIOUS
  <2> QED
    BY <1>6, <1>7, <2>1
<1>9. i # <<>>
  BY <1>7
<1>10. i = <<w>> \o Tail(i)
  <2>1. <<i[1]>> \o Tail(i) = i
    BY <1>7, <1>9, HeadAndTail
  <2> QED
    BY <1>8, <2>1
<1>11. Tail(i) \in Seq(Nat) /\ Len(Tail(i)) = m /\ \A d \in 1 .. m : Tail(i)[d] = i[d + 1]
  BY <1>7, <1>9
<1>12. PICK k : k = Tail(i)
  OBVIOUS
<1>13. ASSUME NEW d \in 1 .. m
       PROVE  k[d] \in Nat /\ k[d] < s[d]
  <2>1. d + 1 \in 1 .. m + 1
    OBVIOUS
  <2> QED
    BY <1>6, <1>7, <1>11, <1>12, <2>1
<1>14. k = [d \in 1 .. m |-> k[d]]
  <2>1. k \in Seq(Nat) /\ Len(k) = m
    BY <1>11, <1>12
  <2> QED
    BY <2>1
<1>15. k \in Box(s)
  BY <1>3, <1>13, <1>14, InBox
<1> QED
  BY <1>1, <1>2, <1>8, <1>10, <1>12, <1>15 DEF SlotPlace

(* The same of every place: no padding there, and nothing a transform has  *)
(* already seen.                                                           *)
LEMMA SampleAtIs ==
  ASSUME NEW c, NEW g, NEW sample \in Nat, NEW i
  PROVE  Untouched(SampleAt(c, g, sample, i)) /\ SampleAt(c, g, sample, i) # Pad
<1>1. PICK e : e = SampleAt(c, g, sample, i)
  OBVIOUS
<1>2. e \in {NaN, Fill, Element(g.path, sample, i)}
  <2>1. \A cid, coord, element : StoredAt(c, g, cid, coord, element) \in {NaN, Fill, element}
    BY DEF StoredAt
  <2> QED
    BY <1>1, <2>1 DEF SampleAt
<1>3. Untouched(NaN) /\ NaN # Pad
  BY DEF NaN, Pad, Hole, Untouched, Tagged
<1>4. Untouched(Fill) /\ Fill # Pad
  BY DEF Fill, Pad, Hole, Untouched, Tagged
<1>5. PICK x : x = Element(g.path, sample, i)
  OBVIOUS
<1>6. Untouched(x)
  BY <1>5 DEF Element, Untouched, Tagged
<1>7. x # Pad
  <2>1. x.sample = sample
    BY <1>5 DEF Element
  <2>2. Pad.sample = -1
    BY DEF Pad, Hole
  <2> QED
    BY <2>1, <2>2
<1> QED
  BY <1>1, <1>2, <1>3, <1>4, <1>5, <1>6, <1>7

(* Each place of an assembled chunk holds a sample, never padding.         *)
LEMMA AssembledIsWhole ==
  ASSUME NEW c, NEW g, Measured(g), StoredAs(Named(c.group, g.path), g),
         c.corrupt # {} => g.axis = 0, NEW cid \in Nat, NEW i \in Box(SlotShape(g, cid))
  PROVE  /\ Untouched(Assembled(g, cid, FetchedTiles(c, g, cid)).at[i])
         /\ Assembled(g, cid, FetchedTiles(c, g, cid)).at[i] # Pad
<1>1. PICK w \in Nat, k \in Box(InnerShape(g)) : w < Samples(g, cid) /\ i = <<w>> \o k
  <2>1. PICK w, k : SlotPlace(g, cid, i, w, k)
    BY SlotIndex
  <2> QED
    BY <2>1 DEF SlotPlace
<1>2. PICK sample \in Nat : sample < NSamples(g) /\ ChunkOf(g, sample) = cid /\ WithinChunk(g, sample) = w
  BY <1>1, HeldSample
<1>3. LET cc == ChunkOf(g, sample)
      IN  Assembled(g, cc, FetchedTiles(c, g, cc)).at[<<WithinChunk(g, sample)>> \o k]
            = SampleAt(c, g, sample, k)
  BY <1>2, AssembledHolds
<1>4. Assembled(g, cid, FetchedTiles(c, g, cid)).at[i] = SampleAt(c, g, sample, k)
  BY <1>1, <1>2, <1>3
<1> QED
  BY <1>4, SampleAtIs

-----------------------------------------------------------------------------
(* A row that went through transforms.                                     *)

(* A chunk after transforms that keep its shape.                           *)
LEMMA PreparedIs ==
  ASSUME NEW c, NEW g, Measured(g), StoredAs(Named(c.group, g.path), g),
         c.corrupt # {} => g.axis = 0, NEW cid \in Nat,
         c.pipeline \in Seq(ToSet(c.pipeline)), ShapesKept(c.pipeline)
  PROVE  LET whole == Assembled(g, cid, FetchedTiles(c, g, cid))
             ts == TransformsFor(g.path, c.pipeline)
         IN  /\ Prepared(c, g, cid).shape = SlotShape(g, cid)
             /\ \A i \in Box(SlotShape(g, cid)) :
                  Prepared(c, g, cid).at[i] = Tagged(whole.at[i], Codes(ts, Len(ts)))
<1> DEFINE whole == Assembled(g, cid, FetchedTiles(c, g, cid))
           ts == TransformsFor(g.path, c.pipeline)
           chunk == DecodedChunk(g, cid, whole)
<1>1. Prepared(c, g, cid) = ApplyTransforms(chunk, c.pipeline).data
  BY DEF Prepared
<1>2. chunk.read.array = g.path /\ chunk.data = whole /\ "data" \in DOMAIN chunk
  <2> HIDE DEF whole
  <2> QED
    BY DEF DecodedChunk, ChunkRead
<1>3. whole.shape = SlotShape(g, cid)
  BY DEF Assembled
<1>4. SlotShape(g, cid) \in Seq(Nat) /\ SlotShape(g, cid) # <<>>
  <2>1. Samples(g, cid) \in Nat /\ InnerShape(g) \in Seq(Nat)
    BY SamplesAre, AxesAre
  <2>2. PICK E, n, s : E = Nat /\ n = Samples(g, cid) /\ s = InnerShape(g)
    OBVIOUS
  <2>3. n \in E /\ s \in Seq(E)
    BY <2>1, <2>2
  <2>4. <<n>> \o s \in Seq(E) /\ Len(<<n>> \o s) = Len(s) + 1
    BY <2>3, HeadedIs
  <2>5. SlotShape(g, cid) = <<n>> \o s
    BY <2>2 DEF SlotShape, Samples
  <2>6. PICK f : f = <<n>> \o s
    OBVIOUS
  <2>7. f \in Seq(Nat) /\ Len(f) # 0
    BY <2>2, <2>3, <2>4, <2>6
  <2> QED
    BY <2>5, <2>6, <2>7
<1>5. \A i \in Box(SlotShape(g, cid)) : Untouched(whole.at[i])
  BY AssembledIsWhole
<1>6. Len(ts) \in Nat /\ \A k \in 1 .. Len(ts) : ts[k].yields = <<>>
  <2>1. Len(ts) \in Nat /\ \A k \in 1 .. Len(ts) : ts[k] \in ToSet(c.pipeline)
    BY TransformsAre
  <2> HIDE DEF ts
  <2> QED
    BY <2>1 DEF ShapesKept
<1>7. ApplyTransforms(chunk, c.pipeline) = CallAll(ts, chunk)
  BY <1>2 DEF ApplyTransforms
<1> HIDE DEF whole, ts, chunk
<1>8. OnlyTagged(CallAll(ts, chunk), chunk, ts, Len(ts))
  <2>1. chunk.data.shape \in Seq(Nat) /\ chunk.data.shape # <<>>
    BY <1>2, <1>3, <1>4
  <2>2. \A i \in Box(chunk.data.shape) : Untouched(chunk.data.at[i])
    BY <1>2, <1>3, <1>5
  <2>3. "data" \in DOMAIN chunk
    BY <1>2
  <2> QED
    BY <1>6, <2>1, <2>2, <2>3, CallAllKeeps
<1>9. /\ Prepared(c, g, cid).shape = SlotShape(g, cid)
      /\ \A i \in Box(SlotShape(g, cid)) :
           Prepared(c, g, cid).at[i] = Tagged(whole.at[i], Codes(ts, Len(ts)))
  BY <1>1, <1>2, <1>3, <1>7, <1>8 DEF OnlyTagged
<1> QED
  BY <1>9 DEF whole, ts

(* A row of one tile is that tile's.                                       *)
LEMMA OneTileMoves ==
  ASSUME NEW g, Measured(g), InnerChunks(g) = InnerShape(g), NEW cid, NEW coord \in InnerCoords(g),
         NEW i \in Box(InnerShape(g)), IsTileOf(g, coord, i)
  PROVE  Moved(i, RowOut(g, cid, coord), RowPart(g, cid, coord)) = i
<1> DEFINE j == Moved(i, RowOut(g, cid, coord), RowPart(g, cid, coord))
<1>1. /\ j \in Box(InnerChunks(g))
      /\ \A d \in 1 .. Len(InnerShape(g)) : i[d] = coord[d] * InnerChunks(g)[d] + j[d]
  BY TileMoved
<1> HIDE DEF j
<1>2. PICK s \in Seq(Nat) : s = InnerShape(g)
  BY AxesAre
<1>3. PICK m \in Nat : m = Len(s)
  OBVIOUS
<1>4. i = [d \in 1 .. m |-> i[d]] /\ j = [d \in 1 .. m |-> j[d]]
  <2>1. i \in Box(s) /\ j \in Box(s)
    BY <1>1, <1>2
  <2>2. i = [d \in 1 .. Len(s) |-> i[d]]
    BY <2>1, InBox
  <2>3. j = [d \in 1 .. Len(s) |-> j[d]]
    BY <2>1, InBox
  <2> QED
    BY <1>3, <2>2, <2>3
<1>5. \A d \in 1 .. m : i[d] \in Nat /\ i[d] < s[d] /\ j[d] \in Nat /\ j[d] < s[d] /\ s[d] \in Nat
  <2>1. i \in Box(s) /\ j \in Box(s)
    BY <1>1, <1>2
  <2>2. \A d \in 1 .. Len(s) : i[d] \in Nat /\ i[d] < s[d]
    BY <2>1, BoxIsSeq
  <2>3. \A d \in 1 .. Len(s) : j[d] \in Nat /\ j[d] < s[d]
    BY <2>1, BoxIsSeq
  <2> QED
    BY <1>3, <2>2, <2>3
<1>6. ASSUME NEW d \in 1 .. m
      PROVE  i[d] = j[d]
  <2>1. coord[d] = i[d] \div s[d]
    BY <1>2, <1>3 DEF IsTileOf
  <2>2. PICK x \in Nat, t \in Nat \ {0} : x = i[d] /\ t = s[d] /\ x < t
    BY <1>5
  <2>3. x \div t = 0
    <3>1. 0 * t <= x /\ x < (0 + 1) * t
      BY <2>2
    <3>2. 0 = x \div t <=> 0 * t <= x /\ x < (0 + 1) * t
      BY QuotientIs
    <3> QED
      BY <3>1, <3>2
  <2>4. i[d] = coord[d] * s[d] + j[d]
    BY <1>1, <1>2, <1>3
  <2>5. coord[d] = 0
    BY <2>1, <2>2, <2>3
  <2>6. 0 * s[d] = 0
    BY <1>5
  <2>7. i[d] = 0 + j[d]
    BY <2>4, <2>5, <2>6
  <2> QED
    BY <1>5, <2>7
<1>7. i = j
  BY <1>4, <1>6
<1> QED
  BY <1>7 DEF j

(* With transforms a row is gathered from the whole chunk they returned.   *)
LEMMA PipedRowHolds ==
  ASSUME NEW c, c.pipeline # <<>>, c.pipeline \in Seq(ToSet(c.pipeline)), ShapesKept(c.pipeline),
         NEW g, Measured(g), Measured(OutputGeometry(g, c.pipeline)),
         StoredAs(Named(c.group, g.path), g),
         c.corrupt # {} => g.axis = 0, NEW sample \in Nat, sample < NSamples(g),
         NEW again, NEW i \in Box(InnerShape(g))
  PROVE  LET ts == TransformsFor(g.path, c.pipeline)
         IN  Gathered(g, OutputGeometry(g, c.pipeline), Published(c, g, ChunkOf(g, sample), again),
                      WithinChunk(g, sample), ChunkOf(g, sample))[i]
               = Tagged(SampleAt(c, g, sample, i), Codes(ts, Len(ts)))
<1> DEFINE cid == ChunkOf(g, sample)
           w == WithinChunk(g, sample)
           out == OutputGeometry(g, c.pipeline)
           held == Published(c, g, cid, again)
           ts == TransformsFor(g.path, c.pipeline)
           whole == Assembled(g, cid, FetchedTiles(c, g, cid))
<1>1. InnerShape(out) = InnerShape(g) /\ InnerChunks(out) = InnerShape(g)
  BY KeptGeometry
<1>2. held = [grid |-> out, tiles |-> [coord \in InnerCoords(out) |-> Prepared(c, g, cid)]]
  BY DEF Published, Assembles
<1>3. whole.at[<<w>> \o i] = SampleAt(c, g, sample, i)
  BY AssembledHolds
<1>4. cid \in Nat /\ w \in Nat /\ w < Samples(g, cid)
  BY SampleWithin
<1>5. Measured(out)
  OBVIOUS
<1> HIDE DEF cid, w, out
<1>6. /\ Prepared(c, g, cid).shape = SlotShape(g, cid)
      /\ \A f \in Box(SlotShape(g, cid)) : Prepared(c, g, cid).at[f] = Tagged(whole.at[f], Codes(ts, Len(ts)))
  BY <1>4, PreparedIs
<1> HIDE DEF ts, whole
<1>7. <<w>> \o i \in Box(SlotShape(g, cid))
  <2>1. Samples(g, cid) \in Nat
    BY <1>4, SamplesAre
  <2>2. InnerShape(g) \in Seq(Nat)
    BY AxesAre
  <2>3. <<w>> \o i \in Box(<<Samples(g, cid)>> \o InnerShape(g))
    BY <1>4, <2>1, <2>2, BoxHeaded
  <2> QED
    BY <2>3 DEF SlotShape, Samples
<1>8. Prepared(c, g, cid).at[<<w>> \o i] = Tagged(SampleAt(c, g, sample, i), Codes(ts, Len(ts)))
  <2>1. PICK f : f = <<w>> \o i
    OBVIOUS
  <2> QED
    BY <1>3, <1>6, <1>7, <2>1
<1>9. held.grid = out /\ DOMAIN held.tiles = InnerCoords(out)
      /\ \A coord \in InnerCoords(out) : held.tiles[coord] = Prepared(c, g, cid)
  <2> HIDE DEF held
  <2> QED
    BY <1>2
<1> HIDE DEF held
<1>10. PICK coord \in InnerCoords(out) : IsTileOf(out, coord, i)
  <2>1. i \in Box(InnerShape(out))
    BY <1>1
  <2> QED
    BY <1>5, <2>1, TileExists
<1>11. Gathered(out, out, held, w, cid)[i]
         = held.tiles[coord].at[<<w>> \o Moved(i, RowOut(out, cid, coord), RowPart(out, cid, coord))]
  <2>1. i \in Box(InnerShape(out))
    BY <1>1
  <2>2. held.grid = out /\ DOMAIN held.tiles = InnerCoords(out)
    BY <1>9
  <2> QED
    BY <1>5, <1>10, <2>1, <2>2, GatheredIs
<1>12. Moved(i, RowOut(out, cid, coord), RowPart(out, cid, coord)) = i
  <2>1. i \in Box(InnerShape(out)) /\ InnerChunks(out) = InnerShape(out)
    BY <1>1
  <2> QED
    BY <1>5, <1>10, <2>1, OneTileMoves
<1>13. Gathered(g, out, held, w, cid) = Gathered(out, out, held, w, cid)
  BY DEF Gathered
<1>14. Gathered(g, out, held, w, cid)[i] = Tagged(SampleAt(c, g, sample, i), Codes(ts, Len(ts)))
  BY <1>8, <1>9, <1>10, <1>11, <1>12, <1>13
<1> QED
  BY <1>14 DEF cid, w, out, held, ts

-----------------------------------------------------------------------------
(* The gather run: the places that one tile fills without a gap.           *)

(* t is what a shape s has after b axes, but for the length of the first   *)
(* of them, and j what an index tuple i has there.                         *)
Inward(s, t, i, j, b, n) ==
  /\ Numbers(s, b + n) /\ Numbers(t, n) /\ Numbers(i, b + n) /\ Numbers(j, n)
  /\ \A m \in 1 .. n : j[m] = i[b + m]
  /\ \A m \in 2 .. n : t[m] = s[b + m]

(* The members of such tuples are numbers.                                 *)
LEMMA InwardNumbers ==
  ASSUME NEW b \in Nat, NEW n \in Nat, NEW s, NEW t, NEW i, NEW j, Inward(s, t, i, j, b, n),
         NEW m \in 1 .. n
  PROVE  s[b + m] \in Nat /\ t[m] \in Nat /\ i[b + m] \in Nat /\ j[m] \in Nat
<1>1. PICK k \in Nat : k = b + n
  OBVIOUS
<1>2. PICK e \in 1 .. k : e = b + m
  BY <1>1
<1>3. Numbers(s, k) /\ Numbers(i, k) /\ Numbers(t, n) /\ Numbers(j, n)
  BY <1>1 DEF Inward
<1>4. s[e] \in Nat /\ i[e] \in Nat
  BY <1>3, NumberAt
<1>5. t[m] \in Nat /\ j[m] \in Nat
  BY <1>3, NumberAt
<1> QED
  BY <1>2, <1>4, <1>5

(* A place on the first row is one of a smaller box.                       *)
LEMMA InnerPlace ==
  ASSUME NEW b \in Nat, NEW n \in Nat, NEW s, NEW t, NEW i, NEW j, Inward(s, t, i, j, b, n),
         NEW q, Places(q, s, i, b + n), NEW r, Places(r, t, j, n), q[b] = 0
  PROVE  q[b + n] = r[n]
<1> DEFINE Bad == {m \in 0 .. n : q[b + m] # r[m]}
<1> SUFFICES ASSUME Bad # {} PROVE FALSE
  OBVIOUS
<1>1. PICK m \in Bad : \A e \in Bad : m <= e
  <2>1. Bad \in SUBSET Nat
    OBVIOUS
  <2> HIDE DEF Bad
  <2> QED
    BY <2>1, SmallestOf
<1>2. m \in 1 .. n /\ q[b + m] # r[m]
  BY DEF Places
<1>3. q[b + (m - 1)] = r[m - 1]
  BY <1>1, <1>2
<1>4. b + m \in 1 .. b + n /\ (b + m) - 1 = b + (m - 1)
  BY <1>2
<1>5. q[b + m] = q[b + (m - 1)] * s[b + m] + i[b + m]
  BY <1>4 DEF Places
<1>6. r[m] = r[m - 1] * t[m] + j[m]
  BY <1>2 DEF Places
<1>7. j[m] = i[b + m]
  BY <1>2 DEF Inward
<1>10. s[b + m] \in Nat /\ t[m] \in Nat /\ j[m] \in Nat
  BY <1>2, InwardNumbers
<1>8. CASE m = 1
  <2>1. q[b + (m - 1)] = 0 /\ r[m - 1] = 0
    BY <1>3, <1>8 DEF Places
  <2>3. 0 * s[b + m] = 0 /\ 0 * t[m] = 0
    BY <1>10
  <2> QED
    BY <1>2, <1>5, <1>6, <1>7, <1>10, <2>1, <2>3
<1>9. CASE m # 1
  <2>1. m \in 2 .. n
    BY <1>2, <1>9
  <2>2. t[m] = s[b + m]
    BY <2>1 DEF Inward
  <2> QED
    BY <1>2, <1>3, <1>5, <1>6, <1>7, <2>2
<1> QED
  BY <1>8, <1>9

(* One row further there is at least a wider row more.                     *)
LEMMA OneRowMore ==
  ASSUME NEW p \in Nat, NEW q \in Nat, p < q, NEW c \in Nat, c # 0, NEW x \in Nat
  PROVE  p * c \in Nat /\ p * c < q * c + x
<1>1. PICK e \in Nat : q = p + 1 + e
  <2>1. q - p - 1 \in Nat /\ q = p + 1 + (q - p - 1)
    OBVIOUS
  <2> QED
    BY <2>1
<1>2. PICK u \in Nat, v \in Nat : u = p * c /\ v = e * c
  OBVIOUS
<1>3. (p + 1 + e) * c = p * c + c + e * c
  OBVIOUS
<1> QED
  BY <1>1, <1>2, <1>3

(* What is in the first row comes before what is in another.               *)
LEMMA FirstRowMore ==
  ASSUME NEW a \in Nat, a # 0, NEW s \in Nat, NEW x \in Nat, NEW c \in Nat, c < s
  PROVE  c < a * s + x
<1>1. PICK e \in Nat : a = 1 + e
  <2>1. a - 1 \in Nat /\ a = 1 + (a - 1)
    OBVIOUS
  <2> QED
    BY <2>1
<1>2. PICK u \in Nat : u = e * s
  OBVIOUS
<1>3. (1 + e) * s = s + e * s
  OBVIOUS
<1> QED
  BY <1>1, <1>2, <1>3

(* A tuple that is not zero on an outer axis has its place after all that  *)
(* the inner part fills.                                                   *)
LEMMA OuterPlace ==
  ASSUME NEW b \in Nat, NEW n \in Nat, n # 0, NEW s, NEW t, NEW i, NEW j, Inward(s, t, i, j, b, n),
         NEW q, Places(q, s, i, b + n), NEW p, Multiplies(p, t, n),
         \A d \in 0 .. b + n : q[d] \in Nat, q[b] # 0,
         t[1] < s[b + 1], \A m \in 1 .. n : t[m] # 0
  PROVE  p[n] < q[b + n]
<1> DEFINE Good(m) == p[m] \in Nat /\ p[m] < q[b + m]
           Bad == {m \in 1 .. n : ~Good(m)}
<1>0. \A m \in 1 .. n : /\ b + m \in 1 .. b + n /\ (b + m) - 1 = b + (m - 1)
                        /\ s[b + m] \in Nat /\ t[m] \in Nat /\ i[b + m] \in Nat
                        /\ q[b + (m - 1)] \in Nat /\ q[b + m] \in Nat
  <2> SUFFICES ASSUME NEW m \in 1 .. n
               PROVE  /\ b + m \in 1 .. b + n /\ (b + m) - 1 = b + (m - 1)
                      /\ s[b + m] \in Nat /\ t[m] \in Nat /\ i[b + m] \in Nat
                      /\ q[b + (m - 1)] \in Nat /\ q[b + m] \in Nat
    OBVIOUS
  <2>1. b + m \in 1 .. b + n /\ (b + m) - 1 = b + (m - 1) /\ b + (m - 1) \in 0 .. b + n /\ b + m \in 0 .. b + n
    OBVIOUS
  <2>2. s[b + m] \in Nat /\ t[m] \in Nat /\ i[b + m] \in Nat
    BY InwardNumbers
  <2>3. q[b + (m - 1)] \in Nat /\ q[b + m] \in Nat
    BY <2>1
  <2> QED
    BY <2>1, <2>2, <2>3
<1>1. \A m \in 1 .. n : q[b + m] = q[b + (m - 1)] * s[b + m] + i[b + m]
  BY <1>0 DEF Places
<1>2. p[0] = 1 /\ \A m \in 1 .. n : p[m] = p[m - 1] * t[m]
  BY DEF Multiplies
<1>3. Good(1)
  <2>1. 1 \in 1 .. n /\ 1 - 1 = 0 /\ b + 0 = b
    OBVIOUS
  <2>2. s[b + 1] \in Nat /\ t[1] \in Nat /\ i[b + 1] \in Nat /\ q[b] \in Nat
    BY <1>0, <2>1
  <2>3. p[1] = p[0] * t[1]
    BY <1>2, <2>1
  <2>4. p[1] = t[1]
    BY <1>2, <2>2, <2>3
  <2>5. q[b + 1] = q[b] * s[b + 1] + i[b + 1]
    BY <1>1, <2>1
  <2>6. t[1] < q[b] * s[b + 1] + i[b + 1]
    BY <2>2, FirstRowMore
  <2> QED
    BY <2>2, <2>4, <2>5, <2>6
<1>4. Bad = {}
  <2> SUFFICES ASSUME Bad # {} PROVE FALSE
    OBVIOUS
  <2>1. PICK m \in Bad : \A e \in Bad : m <= e
    <3>1. Bad \in SUBSET Nat
      OBVIOUS
    <3> HIDE DEF Bad
    <3> QED
      BY <3>1, SmallestOf
  <2>2. m \in 2 .. n /\ m \in 1 .. n /\ ~Good(m)
    <3>1. m # 1
      BY <1>3
    <3> QED
      BY <3>1
  <2>3. m - 1 \in 1 .. n /\ Good(m - 1)
    BY <2>1, <2>2
  <2>4. PICK x \in Nat, y \in Nat, c \in Nat, z \in Nat :
          x = p[m - 1] /\ y = q[b + (m - 1)] /\ c = t[m] /\ z = i[b + m] /\ x < y /\ c # 0
    BY <1>0, <2>2, <2>3
  <2>5. s[b + m] = c
    BY <2>2, <2>4 DEF Inward
  <2>6. q[b + m] = y * c + z
    BY <1>1, <2>2, <2>4, <2>5
  <2>7. p[m] = x * c
    BY <1>2, <2>2, <2>4
  <2>8. x * c \in Nat /\ x * c < y * c + z
    <3>1. x < y /\ c # 0
      BY <2>4
    <3> QED
      BY <3>1, OneRowMore
  <2> QED
    BY <2>2, <2>6, <2>7, <2>8
<1>5. n \in 1 .. n
  OBVIOUS
<1> HIDE DEF Good
<1>6. Good(n)
  BY <1>4, <1>5
<1> QED
  BY <1>6 DEF Good

(* An index tuple that is zero so far has come to no place.                *)
LEMMA ZeroPlace ==
  ASSUME NEW b \in Nat, NEW n \in Nat, NEW s, Numbers(s, b + n), NEW i, NEW q, Places(q, s, i, b + n),
         \A d \in 1 .. b : i[d] = 0
  PROVE  q[b] = 0
<1> DEFINE Bad == {d \in 0 .. b : q[d] # 0}
<1> SUFFICES ASSUME Bad # {} PROVE FALSE
  OBVIOUS
<1>1. PICK m \in Bad : \A e \in Bad : m <= e
  <2>1. Bad \in SUBSET Nat
    OBVIOUS
  <2> HIDE DEF Bad
  <2> QED
    BY <2>1, SmallestOf
<1>2. m \in 1 .. b /\ q[m] # 0
  BY DEF Places
<1>3. q[m - 1] = 0
  BY <1>1, <1>2
<1>4. q[m] = q[m - 1] * s[m] + i[m]
  BY <1>2 DEF Places
<1>5. s[m] \in Nat
  BY <1>2 DEF Numbers
<1>6. 0 * s[m] = 0
  BY <1>5
<1> QED
  BY <1>2, <1>3, <1>4, <1>6

(* The axes from the last one that a stored chunk does not span: t is what *)
(* the chunk is there.                                                     *)
SpansFrom(g, t, b, n) ==
  /\ b \in Nat /\ n \in Nat /\ Numbers(t, n)
  /\ Numbers(InnerShape(g), b + n) /\ Numbers(InnerChunks(g), b + n)
  /\ \A m \in 1 .. n : t[m] = InnerChunks(g)[b + m] /\ t[m] # 0
  /\ \A m \in 2 .. n : t[m] = InnerShape(g)[b + m]
  /\ b # 0 => n # 0 /\ t[1] # InnerShape(g)[b + 1]
  /\ GatherRunBytes(g) = g.item * Product(t)

(* There is a last axis, from inside, that the chunk does not span.        *)
LEMMA SpanFound ==
  ASSUME NEW g, Measured(g)
  PROVE  \E t, b, n : SpansFrom(g, t, b, n)
<1>1. PICK k \in Nat :
        /\ Numbers(InnerShape(g), k) /\ Numbers(InnerChunks(g), k)
        /\ \A d \in 1 .. k : InnerChunks(g)[d] # 0
  BY ViewAxes
<1>2. PICK s, c : s = InnerShape(g) /\ c = InnerChunks(g)
  OBVIOUS
<1>3. s \in Seq(Nat) /\ Len(s) = k /\ DOMAIN s = 1 .. k /\ c \in Seq(Nat) /\ Len(c) = k
  BY <1>1, <1>2 DEF Numbers
<1> DEFINE narrow == {d \in DOMAIN s : c[d] # s[d]}
           ends == CHOOSE d \in narrow \cup {1} : \A e \in narrow : d >= e
<1>4. GatherRunBytes(g) = g.item * Product(SubSeq(c, ends, Len(c)))
  BY <1>2 DEF GatherRunBytes
<1>5. narrow \subseteq 1 .. k /\ \A d \in 1 .. k : d \notin narrow => c[d] = s[d]
  BY <1>3
<1>6. \A d \in narrow : c[d] # s[d]
  OBVIOUS
<1> HIDE DEF narrow
<1>7. \E d \in narrow \cup {1} : \A e \in narrow : d >= e
  <2>1. CASE narrow = {}
    BY <2>1
  <2>2. CASE narrow # {}
    <3>1. narrow \in SUBSET (0 .. k)
      BY <1>5
    <3>2. PICK d \in narrow : \A e \in narrow : e <= d
      BY <2>2, <3>1, LargestOf
    <3>3. \A e \in narrow : e \in Nat
      BY <3>1
    <3>4. \A e \in narrow : d >= e
      BY <3>2, <3>3
    <3> QED
      BY <3>4
  <2> QED
    BY <2>1, <2>2
<1>8. ends \in narrow \cup {1} /\ \A e \in narrow : ends >= e
  BY <1>7
<1> HIDE DEF ends
<1>9. PICK first \in Nat : first = ends /\ first # 0
  BY <1>5, <1>8
<1>10. PICK b \in Nat, n \in Nat : b + n = k /\ first = b + 1 /\ (b # 0 => n # 0)
  <2>1. CASE k = 0
    <3>1. first = 1
      BY <1>5, <1>8, <1>9, <2>1
    <3>2. 0 + 0 = k /\ first = 0 + 1
      BY <2>1, <3>1
    <3> QED
      BY <3>2
  <2>2. CASE k # 0
    <3>1. first \in 1 .. k
      BY <1>5, <1>8, <1>9, <2>2
    <3>2. first - 1 \in Nat /\ k - (first - 1) \in Nat /\ k - (first - 1) # 0
          /\ (first - 1) + (k - (first - 1)) = k /\ first = (first - 1) + 1
      BY <3>1
    <3> QED
      BY <3>2
  <2> QED
    BY <2>1, <2>2
<1>11. PICK t : t = SubSeq(c, b + 1, k)
  OBVIOUS
<1>12. t = [m \in 1 .. n |-> c[b + m]]
  <2>1. CASE n = 0
    <3>1. t = <<>>
      BY <1>3, <1>10, <1>11, <2>1
    <3> QED
      BY <2>1, <3>1
  <2>2. CASE n # 0
    BY <1>3, <1>10, <1>11, <2>2
  <2> QED
    BY <2>1, <2>2
<1>13. \A m \in 1 .. n : b + m \in 1 .. k
  BY <1>10
<1>14. \A m \in 1 .. n : c[b + m] \in Nat /\ c[b + m] # 0
  <2>1. \A d \in 1 .. k : c[d] \in Nat /\ c[d] # 0
    BY <1>1, <1>2, <1>3
  <2> QED
    BY <1>13, <2>1
<1> DEFINE val(m) == c[b + m]
<1>15. t = [m \in 1 .. n |-> val(m)] /\ \A m \in 1 .. n : val(m) \in Nat
  BY <1>12, <1>14
<1> HIDE DEF val
<1>16. t \in Seq(Nat) /\ Len(t) = n /\ \A m \in 1 .. n : t[m] = val(m)
  BY <1>15
<1>17. Numbers(t, n) /\ \A m \in 1 .. n : t[m] = c[b + m] /\ t[m] # 0
  BY <1>14, <1>16 DEF Numbers, val
<1>18. \A m \in 2 .. n : t[m] = s[b + m]
  <2>1. ASSUME NEW m \in 2 .. n
        PROVE  t[m] = s[b + m]
    <3>1. m \in 1 .. n /\ b + m \in 1 .. k /\ ~(first >= b + m)
      BY <1>10
    <3>2. b + m \notin narrow
      BY <1>8, <1>9, <3>1
    <3> QED
      BY <1>5, <1>17, <3>1, <3>2
  <2> QED
    BY <2>1
<1>19. b # 0 => n # 0 /\ t[1] # s[b + 1]
  <2>1. ASSUME b # 0
        PROVE  n # 0 /\ t[1] # s[b + 1]
    <3>1. first \in narrow /\ n # 0
      BY <1>8, <1>9, <1>10, <2>1
    <3>2. 1 \in 1 .. n
      BY <3>1
    <3>3. t[1] = c[b + 1]
      BY <1>17, <3>2
    <3> QED
      BY <1>6, <1>10, <3>1, <3>3
  <2> QED
    BY <2>1
<1>20. GatherRunBytes(g) = g.item * Product(t)
  BY <1>3, <1>4, <1>9, <1>10, <1>11
<1>21. Numbers(s, b + n) /\ Numbers(c, b + n)
  BY <1>1, <1>2, <1>10
<1>22. SpansFrom(g, t, b, n)
  BY <1>2, <1>17, <1>18, <1>19, <1>20, <1>21 DEF SpansFrom
<1> QED
  BY <1>22

(* Chunks no wider than their array.                                       *)
NoWider(g) == \A d \in DOMAIN InnerShape(g) : InnerChunks(g)[d] <= InnerShape(g)[d]

(* The places in a row that the first tile fills.                          *)
FilledPlaces(g) == {RowMajor(InnerShape(g), i) : i \in Box(InnerChunks(g))}

(* The first tile is inside the row.                                       *)
LEMMA TileIsInRow ==
  ASSUME NEW g, Measured(g), NoWider(g), NEW i \in Box(InnerChunks(g))
  PROVE  i \in Box(InnerShape(g))
<1>1. PICK k \in Nat : Numbers(InnerShape(g), k) /\ Numbers(InnerChunks(g), k)
  BY ViewAxes
<1>2. PICK s, c : s = InnerShape(g) /\ c = InnerChunks(g)
  OBVIOUS
<1>3. s \in Seq(Nat) /\ Len(s) = k /\ c \in Seq(Nat) /\ Len(c) = k /\ DOMAIN s = 1 .. k
  BY <1>1, <1>2 DEF Numbers
<1>4. i \in Box(c)
  BY <1>2
<1>5. i = [d \in 1 .. Len(c) |-> i[d]]
  BY <1>3, <1>4, InBox
<1>6. \A d \in 1 .. Len(c) : i[d] \in Nat /\ i[d] < c[d]
  BY <1>3, <1>4, InBox
<1>7. \A d \in 1 .. k : c[d] <= s[d] /\ c[d] \in Nat /\ s[d] \in Nat
  BY <1>2, <1>3 DEF NoWider
<1>8. i = [d \in 1 .. Len(s) |-> i[d]]
  BY <1>3, <1>5
<1>9. \A d \in 1 .. Len(s) : i[d] \in Nat /\ i[d] < s[d]
  BY <1>3, <1>6, <1>7
<1>10. i \in Box(s)
  BY <1>3, <1>8, <1>9, InBox
<1> QED
  BY <1>2, <1>10

(* The places that it fills are finitely many.                             *)
LEMMA FilledAreFew ==
  ASSUME NEW g, Measured(g), NoWider(g)
  PROVE  /\ IsFiniteSet(FilledPlaces(g)) /\ FilledPlaces(g) \subseteq Nat
<1>1. PICK s \in Seq(Nat) : s = InnerShape(g)
  BY AxesAre
<1>2. PICK p \in Nat : p = Product(s)
  BY ProductOf
<1>3. FilledPlaces(g) \subseteq 0 .. p
  <2>1. ASSUME NEW i \in Box(InnerChunks(g))
        PROVE  RowMajor(s, i) \in 0 .. p
    <3>1. i \in Box(s)
      BY <1>1, TileIsInRow
    <3>2. RowMajor(s, i) \in Nat /\ RowMajor(s, i) < Product(s)
      BY <3>1, RowMajorWithin
    <3> QED
      BY <1>2, <3>2
  <2> QED
    BY <1>1, <2>1 DEF FilledPlaces
<1>4. IsFiniteSet(0 .. p)
  BY FS_Interval
<1> QED
  BY <1>3, <1>4, FS_Subset

(* Every place short of the run is filled,                                 *)
LEMMA RunIsFilled ==
  ASSUME NEW g, Measured(g), NEW t, NEW b, NEW n, SpansFrom(g, t, b, n),
         NEW x \in Nat, x < Product(t)
  PROVE  x \in FilledPlaces(g)
<1>1. PICK s, c : s = InnerShape(g) /\ c = InnerChunks(g)
  OBVIOUS
<1>2. b \in Nat /\ n \in Nat /\ Numbers(s, b + n) /\ Numbers(c, b + n) /\ Numbers(t, n)
  BY <1>1 DEF SpansFrom
<1>3. t \in Seq(Nat) /\ Len(t) = n
  BY <1>2 DEF Numbers
<1>4. PICK j \in Box(t) : RowMajor(t, j) = x
  BY <1>3, RowMajorReached
<1>5. \A m \in 1 .. n : j[m] \in Nat /\ j[m] < t[m]
  BY <1>3, BoxIsSeq
<1>6. Numbers(j, n)
  BY <1>3, BoxIsSeq DEF Numbers
<1>7. PICK k \in Nat : k = b + n
  BY <1>2
<1> DEFINE val(d) == IF d <= b THEN 0 ELSE j[d - b]
<1>8. PICK i : i = [d \in 1 .. k |-> val(d)]
  OBVIOUS
<1>9. \A d \in 1 .. k : c[d] \in Nat /\ c[d] # 0
  <2>1. PICK e \in Nat : Numbers(c, e) /\ \A d \in 1 .. e : c[d] # 0
    BY <1>1, ViewAxes
  <2>2. e = k
    BY <1>2, <1>7, <2>1 DEF Numbers
  <2>3. Numbers(c, k) /\ \A d \in 1 .. k : c[d] # 0
    BY <2>1, <2>2
  <2> QED
    BY <2>3, NumberAt
<1>10. \A m \in 1 .. n : t[m] = c[b + m]
  BY <1>1 DEF SpansFrom
<1>11. ASSUME NEW d \in 1 .. k
       PROVE  val(d) \in Nat /\ val(d) < c[d]
  <2>1. CASE d <= b
    BY <1>9, <2>1
  <2>2. CASE ~(d <= b)
    <3>1. d - b \in 1 .. n /\ b + (d - b) = d
      BY <1>2, <1>7, <2>2
    <3>2. j[d - b] \in Nat /\ j[d - b] < t[d - b] /\ t[d - b] = c[b + (d - b)]
      BY <1>5, <1>10, <3>1
    <3> QED
      BY <2>2, <3>1, <3>2
  <2> QED
    BY <2>1, <2>2
<1>12. (\A d \in 1 .. b : val(d) = 0) /\ \A m \in 1 .. n : val(b + m) = j[m]
  <2>1. \A d \in 1 .. b : val(d) = 0
    BY <1>2
  <2>2. ASSUME NEW m \in 1 .. n PROVE val(b + m) = j[m]
    <3>1. ~(b + m <= b) /\ (b + m) - b = m
      BY <1>2
    <3> QED
      BY <3>1
  <2> QED
    BY <2>1, <2>2
<1> HIDE DEF val
<1>13. \A d \in 1 .. k : i[d] = val(d)
  BY <1>8
<1>14. c \in Seq(Nat) /\ Len(c) = k
  BY <1>2, <1>7 DEF Numbers
<1>15. i = [d \in 1 .. k |-> i[d]]
  BY <1>8
<1>16. i \in Box(c)
  <2>1. \A d \in 1 .. Len(c) : i[d] \in Nat /\ i[d] < c[d]
    BY <1>11, <1>13, <1>14
  <2>2. i = [d \in 1 .. Len(c) |-> i[d]]
    BY <1>14, <1>15
  <2> QED
    BY <1>14, <2>1, <2>2, InBox
<1>17. Numbers(i, k)
  <2>1. \A d \in 1 .. k : i[d] \in Nat
    BY <1>11, <1>13
  <2>2. [d \in 1 .. k |-> i[d]] \in Seq(Nat) /\ Len([d \in 1 .. k |-> i[d]]) = k
    BY <2>1
  <2> QED
    BY <1>15, <2>2 DEF Numbers
<1>18. \A m \in 1 .. n : j[m] = i[b + m]
  <2>1. \A m \in 1 .. n : b + m \in 1 .. k
    BY <1>2, <1>7
  <2> QED
    BY <1>12, <1>13, <2>1
<1>19. Inward(s, t, i, j, b, n)
  <2>1. \A m \in 2 .. n : t[m] = s[b + m]
    BY <1>1 DEF SpansFrom
  <2>2. Numbers(i, b + n)
    BY <1>7, <1>17
  <2> QED
    BY <1>2, <1>6, <1>18, <2>1, <2>2 DEF Inward
<1>20. Len(s) = b + n /\ Len(s) \in Nat
  BY <1>2 DEF Numbers
<1>21. PICK q : Places(q, s, i, b + n) /\ RowMajor(s, i) = q[b + n]
  <2>1. PICK q : Places(q, s, i, Len(s)) /\ RowMajor(s, i) = q[Len(s)]
    BY <1>20, RowMajorPlaces
  <2> QED
    BY <1>20, <2>1
<1>22. PICK r : Places(r, t, j, n) /\ RowMajor(t, j) = r[n]
  <2>1. PICK r : Places(r, t, j, Len(t)) /\ RowMajor(t, j) = r[Len(t)]
    BY <1>2, <1>3, RowMajorPlaces
  <2> QED
    BY <1>3, <2>1
<1>23. q[b] = 0
  <2>1. \A d \in 1 .. b : i[d] = 0
    <3>1. \A d \in 1 .. b : d \in 1 .. k
      BY <1>2, <1>7
    <3> QED
      BY <1>12, <1>13, <3>1
  <2> QED
    BY <1>2, <1>21, <2>1, ZeroPlace
<1>24. q[b + n] = r[n]
  BY <1>2, <1>19, <1>21, <1>22, <1>23, InnerPlace
<1>25. RowMajor(s, i) = x
  BY <1>4, <1>21, <1>22, <1>24
<1> QED
  BY <1>1, <1>16, <1>25 DEF FilledPlaces

(* and the place after it is not.                                          *)
LEMMA RunEnds ==
  ASSUME NEW g, Measured(g), NoWider(g), NEW t, NEW b, NEW n, SpansFrom(g, t, b, n)
  PROVE  Product(t) \notin FilledPlaces(g)
<1> SUFFICES ASSUME NEW i \in Box(InnerChunks(g)), RowMajor(InnerShape(g), i) = Product(t)
             PROVE  FALSE
  BY DEF FilledPlaces
<1>1. PICK s, c : s = InnerShape(g) /\ c = InnerChunks(g)
  OBVIOUS
<1>2. b \in Nat /\ n \in Nat /\ Numbers(s, b + n) /\ Numbers(c, b + n) /\ Numbers(t, n)
  BY <1>1 DEF SpansFrom
<1>3. t \in Seq(Nat) /\ Len(t) = n
  BY <1>2 DEF Numbers
<1>4. PICK k \in Nat : k = b + n
  BY <1>2
<1>5. c \in Seq(Nat) /\ Len(c) = k /\ s \in Seq(Nat) /\ Len(s) = k
  BY <1>2, <1>4 DEF Numbers
<1>6. i \in Box(c) /\ i \in Box(s)
  BY <1>1, TileIsInRow
<1>7. Numbers(i, k) /\ \A d \in 1 .. k : i[d] \in Nat /\ i[d] < c[d]
  BY <1>5, <1>6, BoxIsSeq DEF Numbers
<1>8. Tuple(i, s, k)
  BY <1>5, <1>6, BoxIsSeq DEF Tuple
<1> DEFINE val(m) == i[b + m]
<1>9. PICK j : j = [m \in 1 .. n |-> val(m)]
  OBVIOUS
<1>10. \A m \in 1 .. n : val(m) \in Nat /\ val(m) < t[m]
  <2>1. \A m \in 1 .. n : b + m \in 1 .. k /\ t[m] = c[b + m]
    BY <1>1, <1>2, <1>4 DEF SpansFrom
  <2> QED
    BY <1>7, <2>1
<1>11. \A m \in 1 .. n : i[b + m] = val(m)
  OBVIOUS
<1> HIDE DEF val
<1>12. \A m \in 1 .. n : j[m] = val(m)
  BY <1>9
<1>13. j = [m \in 1 .. n |-> j[m]]
  BY <1>9
<1>14. j \in Box(t)
  BY <1>3, <1>10, <1>12, <1>13, InBox
<1>15. Numbers(j, n)
  BY <1>3, <1>14, BoxIsSeq DEF Numbers
<1>16. Inward(s, t, i, j, b, n)
  <2>1. \A m \in 2 .. n : t[m] = s[b + m]
    BY <1>1 DEF SpansFrom
  <2>2. Numbers(i, b + n)
    BY <1>4, <1>7
  <2>3. \A m \in 1 .. n : j[m] = i[b + m]
    BY <1>11, <1>12
  <2> QED
    BY <1>2, <1>15, <2>1, <2>2, <2>3 DEF Inward
<1>17. PICK q : Places(q, s, i, k) /\ RowMajor(s, i) = q[k]
  <2>1. PICK q : Places(q, s, i, Len(s)) /\ RowMajor(s, i) = q[Len(s)]
    BY <1>5, RowMajorPlaces
  <2> QED
    BY <1>5, <2>1
<1>18. PICK r : Places(r, t, j, n) /\ RowMajor(t, j) = r[n]
  <2>1. PICK r : Places(r, t, j, Len(t)) /\ RowMajor(t, j) = r[Len(t)]
    BY <1>2, <1>3, RowMajorPlaces
  <2> QED
    BY <1>3, <2>1
<1>19. PICK p : Multiplies(p, t, n) /\ Product(t) = p[n]
  <2>1. PICK p : Multiplies(p, t, Len(t)) /\ Product(t) = p[Len(t)]
    BY <1>2, <1>3, ProductMultiplies
  <2> QED
    BY <1>3, <2>1
<1>20. RowMajor(t, j) \in Nat /\ RowMajor(t, j) < Product(t)
  BY <1>3, <1>14, RowMajorWithin
<1>21. Places(q, s, i, b + n) /\ q[k] = q[b + n]
  BY <1>4, <1>17
<1>22. q[k] = p[n]
  BY <1>1, <1>17, <1>19
<1>23. CASE q[b] = 0
  <2>1. q[b + n] = r[n]
    BY <1>2, <1>16, <1>18, <1>21, <1>23, InnerPlace
  <2>2. r[n] \in Nat /\ r[n] < p[n]
    <3>1. PICK x, y : x = RowMajor(t, j) /\ y = Product(t)
      OBVIOUS
    <3>2. r[n] = x /\ p[n] = y
      BY <1>18, <1>19, <3>1
    <3>3. x \in Nat /\ x < y
      BY <1>20, <3>1
    <3> QED
      BY <3>2, <3>3
  <2>3. p[n] = r[n]
    BY <1>21, <1>22, <2>1
  <2> QED
    BY <2>2, <2>3
<1>24. CASE q[b] # 0
  <2>1. PICK e : Multiplies(e, s, k)
    BY ProductsExist
  <2>2. \A d \in 0 .. k : q[d] \in Nat
    <3>1. k <= Len(s)
      BY <1>5
    <3> QED
      BY <1>5, <1>8, <1>17, <2>1, <3>1, PlaceWithin
  <2>3. b # 0
    <3>1. q[0] = 0
      <4>1. 0 \in 0 .. k
        OBVIOUS
      <4> QED
        BY <1>17, <4>1 DEF Places
    <3> QED
      BY <1>24, <3>1
  <2>4. n # 0 /\ t[1] # s[b + 1]
    BY <1>1, <2>3 DEF SpansFrom
  <2>5. t[1] < s[b + 1]
    <3>1. b + 1 \in 1 .. k /\ 1 \in 1 .. n
      BY <1>2, <1>4, <2>4
    <3>2. t[1] = c[b + 1]
      BY <1>1, <3>1 DEF SpansFrom
    <3>3. c[b + 1] <= s[b + 1] /\ c[b + 1] \in Nat /\ s[b + 1] \in Nat
      <4>1. \A d \in 1 .. k : c[d] <= s[d] /\ c[d] \in Nat /\ s[d] \in Nat
        BY <1>1, <1>5 DEF NoWider
      <4> QED
        BY <3>1, <4>1
    <3> QED
      BY <2>4, <3>2, <3>3
  <2>6. \A m \in 1 .. n : t[m] # 0
    BY DEF SpansFrom
  <2>7. \A d \in 0 .. b + n : q[d] \in Nat
    BY <1>4, <2>2
  <2>8. p[n] < q[b + n]
    BY <1>2, <1>16, <1>19, <1>21, <1>24, <2>4, <2>5, <2>6, <2>7, OuterPlace
  <2>9. q[b + n] \in Nat
    <3>1. b + n \in 0 .. b + n
      BY <1>2
    <3> QED
      BY <2>7, <3>1
  <2> QED
    BY <1>21, <1>22, <2>8, <2>9
<1> QED
  BY <1>23, <1>24

(* The bytes that the report gives as one gather run are those that the    *)
(* first tile of an array fills of a row without a gap, for every array    *)
(* that is no narrower than its chunks (summary.py, gather_run_bytes).     *)
THEOREM RunsAreWritten ==
  ASSUME NEW g, Measured(g)
  PROVE  WritesRuns(g)
<1> SUFFICES ASSUME NoWider(g) PROVE GatherRunBytes(g) = g.item * FirstRun(g)
  BY DEF WritesRuns, NoWider
<1>1. PICK t, b, n : SpansFrom(g, t, b, n)
  BY SpanFound
<1>2. n \in Nat /\ t \in Seq(Nat) /\ Len(t) = n /\ \A m \in 1 .. n : t[m] # 0 /\ t[m] \in Nat
  <2>1. n \in Nat /\ Numbers(t, n) /\ \A m \in 1 .. n : t[m] # 0
    BY <1>1 DEF SpansFrom
  <2>2. t \in Seq(Nat) /\ Len(t) = n
    BY <2>1 DEF Numbers
  <2>3. \A m \in 1 .. n : t[m] \in Nat
    BY <2>1, NumberAt
  <2> QED
    BY <2>1, <2>2, <2>3
<1>3. PICK p \in Nat : p = Product(t)
  BY <1>2, ProductOf
<1>4. p # 0
  <2>1. PICK z : z = [m \in 1 .. n |-> 0]
    OBVIOUS
  <2>2. z = [m \in 1 .. n |-> z[m]] /\ \A m \in 1 .. n : z[m] = 0
    BY <2>1
  <2>3. z \in Box(t)
    BY <1>2, <2>2, InBox
  <2>4. RowMajor(t, z) \in Nat /\ RowMajor(t, z) < Product(t)
    BY <1>2, <2>3, RowMajorWithin
  <2> QED
    BY <1>3, <2>4
<1> DEFINE places == FilledPlaces(g)
<1>5. Span(0, p) \subseteq places
  <2>1. \A x \in Nat : x < Product(t) => x \in places
    BY <1>1, RunIsFilled
  <2> QED
    BY <1>3, <2>1 DEF Span
<1>6. p \notin places
  BY <1>1, <1>3, RunEnds
<1>7. IsFiniteSet(places)
  BY FilledAreFew
<1>8. FirstRun(g) = CHOOSE m \in 1 .. Cardinality(places) : Span(0, m) \subseteq places /\ m \notin places
  BY DEF FirstRun, FilledPlaces
<1> HIDE DEF places
<1>9. p \in 1 .. Cardinality(places)
  <2>1. Cardinality(0 .. p - 1) = p
    <3>1. Cardinality(0 .. p - 1) = IF 0 > p - 1 THEN 0 ELSE (p - 1) - 0 + 1
      BY FS_Interval
    <3> QED
      BY <1>4, <3>1
  <2>2. Cardinality(0 .. p - 1) <= Cardinality(places)
    BY <1>5, <1>7, FS_Subset DEF Span
  <2>3. Cardinality(places) \in Nat
    BY <1>7, FS_CardinalityType
  <2> QED
    BY <1>4, <2>1, <2>2, <2>3
<1>10. ASSUME NEW m \in 1 .. Cardinality(places), Span(0, m) \subseteq places, m \notin places
       PROVE  m = p
  <2>0. m \in Nat
    BY <1>7, FS_CardinalityType
  <2>1. CASE m < p
    <3>1. m \in Span(0, p)
      BY <2>0, <2>1 DEF Span
    <3> QED
      BY <1>5, <1>10, <3>1
  <2>2. CASE p < m
    <3>1. p \in Span(0, m)
      BY <2>0, <2>2 DEF Span
    <3> QED
      BY <1>6, <1>10, <3>1
  <2> QED
    BY <2>0, <2>1, <2>2
<1>11. FirstRun(g) = p
  BY <1>5, <1>6, <1>8, <1>9, <1>10
<1>12. GatherRunBytes(g) = g.item * Product(t)
  BY <1>1 DEF SpansFrom
<1> QED
  BY <1>3, <1>11, <1>12

-----------------------------------------------------------------------------
(* What the consumer is to find.                                           *)

(* A view of an array that was opened is of an array that the store has.   *)
LEMMA ViewIsStored ==
  ASSUME NEW c, OpenedOn(c), NEW v \in DOMAIN c.views
  PROVE  StoredAs(Named(c.group, c.views[v].path), c.views[v])
<1> DEFINE g == c.views[v]
           a == Named(c.group, g.path)
           opened == Unshifted(a.name, a.shape, StorageChunks(a), a.item, g.axis)
<1>1. g = Shift(OpenGeometries(c.group, <<g.path>>, g.axis)[1], g.offset)
  BY DEF OpenedOn
<1>2. ChosenNames(c.group, <<g.path>>) = <<g.path>>
  BY DEF ChosenNames
<1>3. OpenGeometries(c.group, <<g.path>>, g.axis)[1] = opened
  BY <1>2 DEF OpenGeometries
<1>4. g = Shift(opened, g.offset)
  BY <1>1, <1>3
<1>5. opened.path = a.name /\ opened.shape = a.shape /\ opened.chunks = StorageChunks(a)
  BY DEF Unshifted
<1>6. DOMAIN opened = {"path", "shape", "chunks", "item", "offset", "axis"}
  BY DEF Unshifted
<1> HIDE DEF opened
<1>7. g.path = opened.path /\ g.shape = opened.shape /\ g.chunks = opened.chunks
  <2>1. PICK h, k : h = g /\ k = g.offset /\ h = Shift(opened, k)
    BY <1>4
  <2>2. h.path = opened.path /\ h.shape = opened.shape /\ h.chunks = opened.chunks
    BY <1>6, <2>1 DEF Shift
  <2> QED
    BY <2>1, <2>2
<1> QED
  BY <1>5, <1>7 DEF StoredAs

(* applies() lets a fitted transform have no array that it has no          *)
(* statistics for; it raises on one that it has a single one for.          *)
LEMMA ScopesAreFitted ==
  ASSUME OpenedOn(Config)
  PROVE  ScopedIsFitted
<1> SUFFICES ASSUME NEW t \in ToSet(Config.pipeline), t.scope # {}, t.stats # <<>>,
                    NEW path \in t.scope
             PROVE  Raises(t, path) <=> (path \in t.stats[1]) # (path \in t.stats[2])
  BY DEF ScopedIsFitted
<1>1. ValidScope(t, t.scope)
  BY DEF OpenedOn, Accepted, Applicable
<1> QED
  BY <1>1 DEF ValidScope, Raises

(* What is expected of a row is what is stored, and went through the       *)
(* transforms of the array.                                                *)
LEMMA ExpectedIs ==
  ASSUME NEW g, Measured(g), NEW sample, NEW i \in Box(InnerShape(g))
  PROVE  LET ts == TransformsFor(g.path, Config.pipeline)
         IN  Len(ts) \in Nat /\ DOMAIN ts = 1 .. Len(ts) =>
               Expected(g, sample, i) = Tagged(SampleAt(Config, g, sample, i), Codes(ts, Len(ts)))
<1> DEFINE ts == TransformsFor(g.path, Config.pipeline)
           tile(at) == [d \in DOMAIN at |-> at[d] \div InnerChunks(g)[d]]
           hit(at, ids) == /\ g.path = Config.views[1].path /\ ChunkOf(g, sample) \in ids
                           /\ \A d \in DOMAIN tile(at) : tile(at)[d] = 0
           stored(at) == IF hit(at, Config.corrupt) THEN NaN ELSE IF hit(at, Config.absent) THEN Fill
                         ELSE Element(g.path, sample, at)
           codes == [k \in DOMAIN ts |-> ts[k].code]
<1> SUFFICES ASSUME Len(ts) \in Nat, DOMAIN ts = 1 .. Len(ts)
             PROVE  Expected(g, sample, i) = Tagged(SampleAt(Config, g, sample, i), Codes(ts, Len(ts)))
  OBVIOUS
<1>1. Nearest(i, InnerShape(g)) = i
  <2>1. InnerShape(g) \in Seq(Nat)
    BY AxesAre
  <2> QED
    BY <2>1, NearestIs
<1>2. Expected(g, sample, i) = [stored(Nearest(i, InnerShape(g))) EXCEPT !.via = codes]
  BY DEF Expected
<1>3. codes = Codes(ts, Len(ts))
  BY DEF Codes
<1>4. DOMAIN i = 1 .. Len(InnerShape(g))
  <2>1. InnerShape(g) \in Seq(Nat)
    BY AxesAre
  <2> QED
    BY <2>1, BoxIsSeq
<1>5. \A ids : hit(i, ids) <=> FirstTileOf(Config, g, ChunkOf(g, sample), ids, tile(i))
  <2>1. DOMAIN tile(i) = 1 .. Len(InnerShape(g))
    BY <1>4
  <2> HIDE DEF tile
  <2> QED
    BY <2>1 DEF FirstTileOf
<1>6. stored(i) = SampleAt(Config, g, sample, i)
  <2>1. SampleAt(Config, g, sample, i) = StoredAt(Config, g, ChunkOf(g, sample), tile(i), Element(g.path, sample, i))
    BY DEF SampleAt
  <2> HIDE DEF hit, tile
  <2> QED
    BY <1>5, <2>1 DEF StoredAt
<1>7. stored(i) \in {NaN, Fill, Element(g.path, sample, i)}
  <2> HIDE DEF hit
  <2> QED
    OBVIOUS
<1> HIDE DEF stored, codes, ts
<1>8. Untouched(stored(i))
  <2>1. Untouched(NaN)
    BY DEF NaN, Hole, Untouched, Tagged
  <2>2. Untouched(Fill)
    BY DEF Fill, Hole, Untouched, Tagged
  <2>3. Untouched(Element(g.path, sample, i))
    BY DEF Element, Untouched, Tagged
  <2> QED
    BY <1>7, <2>1, <2>2, <2>3
<1>9. PICK e : e = stored(i)
  OBVIOUS
<1>10. [e EXCEPT !.via = codes] = Tagged(e, codes)
  <2>1. [Tagged(e, <<>>) EXCEPT !.via = codes] = Tagged(e, codes)
    BY TaggedIs
  <2> QED
    BY <1>8, <1>9, <2>1 DEF Untouched
<1>11. Expected(g, sample, i) = Tagged(e, codes)
  BY <1>1, <1>2, <1>9, <1>10
<1> QED
  BY <1>3, <1>6, <1>9, <1>11 DEF ts

(* A row of a batch, with or without transforms.                           *)
LEMMA RowReads ==
  ASSUME NEW c, c.pipeline \in Seq(ToSet(c.pipeline)), ShapesKept(c.pipeline),
         NEW g, Measured(g), Measured(OutputGeometry(g, c.pipeline)),
         StoredAs(Named(c.group, g.path), g),
         c.corrupt # {} => g.axis = 0, NEW sample \in Nat, sample < NSamples(g),
         NEW again, NEW i \in Box(InnerShape(g))
  PROVE  LET ts == TransformsFor(g.path, c.pipeline)
         IN  Gathered(g, OutputGeometry(g, c.pipeline), Published(c, g, ChunkOf(g, sample), again),
                      WithinChunk(g, sample), ChunkOf(g, sample))[i]
               = Tagged(SampleAt(c, g, sample, i), Codes(ts, Len(ts)))
<1>1. CASE c.pipeline # <<>>
  BY <1>1, PipedRowHolds
<1>2. CASE c.pipeline = <<>>
  <2> DEFINE row == Gathered(g, OutputGeometry(g, c.pipeline), Published(c, g, ChunkOf(g, sample), again),
                             WithinChunk(g, sample), ChunkOf(g, sample))
             ts == TransformsFor(g.path, c.pipeline)
  <2>1. row[i] = SampleAt(c, g, sample, i)
    BY <1>2, PlainRowHolds
  <2>2. Untouched(SampleAt(c, g, sample, i))
    BY SampleAtIs
  <2>3. Len(ts) = 0
    <3>1. Len(ts) \in Nat /\ \A k \in 1 .. Len(ts) : ts[k] \in ToSet(c.pipeline)
      BY TransformsAre
    <3>2. ToSet(c.pipeline) = {}
      BY <1>2 DEF ToSet
    <3> HIDE DEF ts
    <3>3. \A k \in 1 .. Len(ts) : FALSE
      BY <3>1, <3>2
    <3> QED
      BY <3>1, <3>3
  <2> HIDE DEF row, ts
  <2>4. Codes(ts, Len(ts)) = <<>>
    BY <2>3, CodesGrow
  <2>5. row[i] = Tagged(SampleAt(c, g, sample, i), Codes(ts, Len(ts)))
    BY <2>1, <2>2, <2>4 DEF Untouched
  <2> QED
    BY <2>5 DEF row, ts
<1> QED
  BY <1>1, <1>2

(* The slot of an assembled chunk is filled to the last element, and what  *)
(* the transforms return fits the cache file.                              *)
LEMMA AssembledFits ==
  ASSUME NEW c, NEW g, Measured(g), StoredAs(Named(c.group, g.path), g),
         c.corrupt # {} => g.axis = 0, NEW cid \in Nat,
         c.pipeline \in Seq(ToSet(c.pipeline)), ShapesKept(c.pipeline)
  PROVE  LET assembled == Assembled(g, cid, FetchedTiles(c, g, cid)) IN
         /\ \A i \in Box(assembled.shape) : assembled.at[i] # Pad
         /\ Accepts(OutputGeometry(g, c.pipeline), cid, Prepared(c, g, cid), TRUE)
<1> DEFINE assembled == Assembled(g, cid, FetchedTiles(c, g, cid))
<1>1. assembled.shape = SlotShape(g, cid)
  BY DEF Assembled
<1>2. \A i \in Box(SlotShape(g, cid)) : assembled.at[i] # Pad
  BY AssembledIsWhole
<1> HIDE DEF assembled
<1>3. \A i \in Box(assembled.shape) : assembled.at[i] # Pad
  BY <1>1, <1>2
<1>4. PICK out : out = OutputGeometry(g, c.pipeline)
  OBVIOUS
<1>5. SlotShape(out, cid) = SlotShape(g, cid)
  <2>1. /\ InnerShape(out) = InnerShape(g)
        /\ NSamples(out) = NSamples(g) /\ SampleChunkSize(out) = SampleChunkSize(g)
    BY <1>4, KeptGeometry
  <2>2. SamplesInChunk(out, cid) = SamplesInChunk(g, cid)
    BY <2>1 DEF SamplesInChunk
  <2> QED
    BY <2>1, <2>2 DEF SlotShape
<1>6. Prepared(c, g, cid).shape = SlotShape(g, cid)
  BY PreparedIs
<1>7. Accepts(OutputGeometry(g, c.pipeline), cid, Prepared(c, g, cid), TRUE)
  BY <1>4, <1>5, <1>6 DEF Accepts
<1> QED
  BY <1>3, <1>7 DEF assembled

(* The sample that a view has for a row of the pass.                       *)
SampleOf(v, i) == Anchor(RowsDrawn[i], Config.refSpc) + Config.views[v].offset

(* Every view has a sample for each row of the pass.                       *)
LEMMA RowHasSample ==
  ASSUME Sound(Config), NEW i \in DOMAIN RowsDrawn, NEW v \in DOMAIN Config.views
  PROVE  SampleOf(v, i) \in Nat /\ SampleOf(v, i) < NSamples(Config.views[v])
<1>1. RowsDrawn[i] \in ToSet(RowsDrawn)
  BY DEF ToSet
<1>2. OnEveryView(RowsDrawn[i])
  BY <1>1, DrawnIsDrawable DEF Drawable
<1>3. SampleOf(v, i) \in Span(0, NSamples(Config.views[v]))
  BY <1>2 DEF OnEveryView, OnArray, SampleOf
<1>4. PICK n \in Nat : n = NSamples(Config.views[v])
  BY AxesAre DEF Sound
<1>5. PICK x : x = SampleOf(v, i)
  OBVIOUS
<1>6. x \in 0 .. (n - 1)
  BY <1>3, <1>4, <1>5 DEF Span
<1>7. x \in Nat /\ x < n
  BY <1>4, <1>6
<1> QED
  BY <1>4, <1>5, <1>7

(* A view's row of a batch is what the transforms make of its sample.      *)
LEMMA RowIsExpected ==
  ASSUME Sound(Config), OpenedOn(Config), ShapesKept(Config.pipeline), SubstituteFits,
         NEW v \in DOMAIN Config.views, NEW i \in DOMAIN RowsDrawn, NEW again,
         NEW at \in Box(InnerShape(Output(Config, v)))
  PROVE  LET g == Config.views[v]
             x == SampleOf(v, i)
         IN  Gathered(g, OutputGeometry(g, Config.pipeline), Published(Config, g, ChunkOf(g, x), again),
                      WithinChunk(g, x), ChunkOf(g, x))[at] = Expected(g, x, at)
<1>1. PICK g : g = Config.views[v]
  OBVIOUS
<1>2. PICK x \in Nat : x = SampleOf(v, i) /\ x < NSamples(g)
  BY <1>1, RowHasSample
<1>3. Measured(g) /\ Measured(OutputGeometry(g, Config.pipeline))
  BY <1>1 DEF Sound
<1>4. Config.pipeline \in Seq(ToSet(Config.pipeline))
  BY DEF OpenedOn
<1>5. StoredAs(Named(Config.group, g.path), g)
  BY <1>1, ViewIsStored
<1>6. Config.corrupt # {} => g.axis = 0
  BY <1>1 DEF SubstituteFits
<1>7. at \in Box(InnerShape(g))
  BY <1>1, <1>3, <1>4, KeptGeometry DEF Output
<1> DEFINE ts == TransformsFor(g.path, Config.pipeline)
           row == Gathered(g, OutputGeometry(g, Config.pipeline), Published(Config, g, ChunkOf(g, x), again),
                           WithinChunk(g, x), ChunkOf(g, x))
<1>8. row[at] = Tagged(SampleAt(Config, g, x, at), Codes(ts, Len(ts)))
  BY <1>2, <1>3, <1>4, <1>5, <1>6, <1>7, RowReads
<1>9. Len(ts) \in Nat /\ DOMAIN ts = 1 .. Len(ts)
  BY <1>4, TransformsAre
<1>10. Expected(g, x, at) = Tagged(SampleAt(Config, g, x, at), Codes(ts, Len(ts)))
  BY <1>3, <1>7, <1>9, ExpectedIs
<1>11. row[at] = Expected(g, x, at)
  BY <1>8, <1>10
<1> HIDE DEF ts
<1> QED
  BY <1>1, <1>2, <1>11 DEF row

(* What stacks at a place of a batch.                                      *)
LEMMA StackedAre ==
  ASSUME Sound(Config), NEW again
  PROVE  LET batch == GatheredBatch(Config, RowsDrawn, again)
             stack == Stack(batch, [v \in DOMAIN Config.views |-> v])
         IN  /\ BatchLen(batch) = Len(RowsDrawn)
             /\ \A v \in DOMAIN Config.views : \A i \in DOMAIN RowsDrawn :
                  /\ batch.samples[i] = Anchor(RowsDrawn[i], Config.refSpc)
                  /\ ReadIndices(batch, v)[i] = SampleOf(v, i)
                  /\ stack[i][v] =
                       Gathered(Config.views[v], OutputGeometry(Config.views[v], Config.pipeline),
                                Published(Config, Config.views[v], ChunkOf(Config.views[v], SampleOf(v, i)), again),
                                WithinChunk(Config.views[v], SampleOf(v, i)), ChunkOf(Config.views[v], SampleOf(v, i)))
<1> DEFINE batch == GatheredBatch(Config, RowsDrawn, again)
           labels == [v \in DOMAIN Config.views |-> v]
           anchors == [i \in DOMAIN RowsDrawn |-> Anchor(RowsDrawn[i], Config.refSpc)]
           row(g, x) == Gathered(g, OutputGeometry(g, Config.pipeline), Published(Config, g, ChunkOf(g, x), again),
                                 WithinChunk(g, x), ChunkOf(g, x))
           arrays == [v \in DOMAIN Config.views |->
                        [i \in DOMAIN RowsDrawn |-> row(Config.views[v], anchors[i] + Config.views[v].offset)]]
           offsets == [v \in DOMAIN Config.views |-> Config.views[v].offset]
<1>1. /\ batch.samples = anchors /\ batch.offsets = offsets /\ batch.arrays = arrays
  BY DEF GatheredBatch, Batch
<1>2. RowsDrawn \in Seq(Nat \X Nat)
  BY OrderIs DEF Laid, RowsDrawn
<1>3. DOMAIN anchors = DOMAIN RowsDrawn
  OBVIOUS
<1>4. BatchLen(batch) = Len(RowsDrawn)
  <2>1. DOMAIN RowsDrawn = 1 .. Len(RowsDrawn) /\ Len(RowsDrawn) \in Nat
    BY <1>2
  <2>2. Len(anchors) = Len(RowsDrawn)
    BY <2>1
  <2> QED
    BY <1>1, <2>2 DEF BatchLen
<1> HIDE DEF batch
<1>5. ASSUME NEW v \in DOMAIN Config.views, NEW i \in DOMAIN RowsDrawn
      PROVE  /\ batch.samples[i] = Anchor(RowsDrawn[i], Config.refSpc)
             /\ ReadIndices(batch, v)[i] = SampleOf(v, i)
             /\ Stack(batch, labels)[i][v] = row(Config.views[v], SampleOf(v, i))
  <2>1. anchors[i] = Anchor(RowsDrawn[i], Config.refSpc)
    OBVIOUS
  <2>2. anchors[i] + Config.views[v].offset = SampleOf(v, i)
    BY <2>1 DEF SampleOf
  <2>3. arrays[v][i] = row(Config.views[v], anchors[i] + Config.views[v].offset)
    OBVIOUS
  <2>4. labels[v] = v /\ DOMAIN labels = DOMAIN Config.views /\ offsets[v] = Config.views[v].offset
    OBVIOUS
  <2> HIDE DEF anchors, arrays, labels, offsets, row
  <2>5. ReadIndices(batch, v)[i] = SampleOf(v, i)
    <3>1. ReadIndices(batch, v)[i] = batch.samples[i] + batch.offsets[v]
      BY <1>1, <1>3 DEF ReadIndices
    <3> QED
      BY <1>1, <2>2, <2>4, <3>1
  <2>6. Stack(batch, labels)[i][v] = batch.arrays[labels[v]][i]
    BY <1>1, <1>3, <2>4 DEF Stack
  <2> QED
    BY <1>1, <2>1, <2>2, <2>3, <2>4, <2>5, <2>6
<1> QED
  BY <1>4, <1>5 DEF batch

(* Row by row and view by view a batch holds the samples it says it holds, *)
(* whichever way they came: from fetched tiles, from the slices of a cache *)
(* file, from a revived one, or assembled and put through transforms.  An  *)
(* assembled slot has no padding and fits its file.  The premises are      *)
(* those of the property, transforms that were checked and bad chunks only *)
(* in arrays with samples first, and here transforms that keep the shape   *)
(* of their chunk.  Besides, a scoped transform fails exactly the arrays   *)
(* it is half fitted for, and the gather run that the report gives is      *)
(* contiguous (transforms.py, validate_scope; pool.py, gather, _deliver,   *)
(* _revive, _assemble, _persist; scheduler.py, _fetch_decode; store.py,    *)
(* open_geometries; types.py, Batch; summary.py, gather_run_bytes).        *)
THEOREM BatchesHoldTheirSamples ==
  Spec => [](ShapesKept(Config.pipeline) => GatherReadsItsSamples)
<1>1. plan \in Plans => (ShapesKept(Config.pipeline) => GatherReadsItsSamples)
  <2> SUFFICES ASSUME plan \in Plans, ShapesKept(Config.pipeline)
               PROVE  GatherReadsItsSamples
    OBVIOUS
  <2>1. Sound(Config) /\ OpenedOn(Config)
    BY PlansArePlanned, DatasetsAssumption DEF Config
  <2>2. ScopedIsFitted
    BY <2>1, ScopesAreFitted
  <2>3. \A v \in DOMAIN Config.views : WritesRuns(Config.views[v])
    <3>1. \A v \in DOMAIN Config.views : Measured(Config.views[v])
      BY <2>1 DEF Sound
    <3> QED
      BY <3>1, RunsAreWritten
  <2>4. ASSUME SubstituteFits, NEW v \in DOMAIN Config.views, NEW cid \in Span(0, NChunks(Config.views[v]))
        PROVE  LET g == Config.views[v]
                   assembled == Assembled(g, cid, FetchedTiles(Config, g, cid))
               IN  /\ \A i \in Box(assembled.shape) : assembled.at[i] # Pad
                   /\ Accepts(OutputGeometry(g, Config.pipeline), cid, Prepared(Config, g, cid), TRUE)
    <3>1. PICK g : g = Config.views[v]
      OBVIOUS
    <3>2. Measured(g) /\ StoredAs(Named(Config.group, g.path), g)
      BY <2>1, <3>1, ViewIsStored DEF Sound
    <3>3. Config.corrupt # {} => g.axis = 0
      BY <2>4, <3>1 DEF SubstituteFits
    <3>4. cid \in Nat
      <4>1. PICK n : n = NChunks(g)
        OBVIOUS
      <4>2. cid \in 0 .. (n - 1)
        BY <2>4, <3>1, <4>1 DEF Span
      <4>3. 0 .. (n - 1) \subseteq Nat
        BY SMT
      <4> QED
        BY <4>2, <4>3
    <3>5. Config.pipeline \in Seq(ToSet(Config.pipeline))
      BY <2>1 DEF OpenedOn
    <3> QED
      BY <3>1, <3>2, <3>3, <3>4, <3>5, AssembledFits
  <2>5. ASSUME SubstituteFits, NEW again
        PROVE  LET batch == GatheredBatch(Config, RowsDrawn, again)
                   stack == Stack(batch, [v \in DOMAIN Config.views |-> v])
               IN  /\ BatchLen(batch) = Len(RowsDrawn)
                   /\ \A v \in DOMAIN Config.views : \A i \in DOMAIN RowsDrawn :
                        /\ batch.samples[i] = Anchor(RowsDrawn[i], Config.refSpc)
                        /\ \A at \in Box(InnerShape(Output(Config, v))) :
                             stack[i][v][at] = Expected(Config.views[v], ReadIndices(batch, v)[i], at)
    <3> DEFINE batch == GatheredBatch(Config, RowsDrawn, again)
               stack == Stack(batch, [v \in DOMAIN Config.views |-> v])
               row(g, x) == Gathered(g, OutputGeometry(g, Config.pipeline),
                                     Published(Config, g, ChunkOf(g, x), again),
                                     WithinChunk(g, x), ChunkOf(g, x))
    <3>1. /\ BatchLen(batch) = Len(RowsDrawn)
          /\ \A v \in DOMAIN Config.views : \A i \in DOMAIN RowsDrawn :
               /\ batch.samples[i] = Anchor(RowsDrawn[i], Config.refSpc)
               /\ ReadIndices(batch, v)[i] = SampleOf(v, i)
               /\ stack[i][v] = row(Config.views[v], SampleOf(v, i))
      BY <2>1, StackedAre
    <3>2. \A v \in DOMAIN Config.views : \A i \in DOMAIN RowsDrawn :
            \A at \in Box(InnerShape(Output(Config, v))) :
              row(Config.views[v], SampleOf(v, i))[at] = Expected(Config.views[v], SampleOf(v, i), at)
      BY <2>1, <2>5, RowIsExpected
    <3> HIDE DEF batch, stack, row
    <3>3. ASSUME NEW v \in DOMAIN Config.views, NEW i \in DOMAIN RowsDrawn,
                 NEW at \in Box(InnerShape(Output(Config, v)))
          PROVE  stack[i][v][at] = Expected(Config.views[v], ReadIndices(batch, v)[i], at)
      <4>1. ReadIndices(batch, v)[i] = SampleOf(v, i) /\ stack[i][v] = row(Config.views[v], SampleOf(v, i))
        BY <3>1
      <4>2. row(Config.views[v], SampleOf(v, i))[at] = Expected(Config.views[v], SampleOf(v, i), at)
        BY <3>2
      <4> QED
        BY <4>1, <4>2
    <3>4. /\ BatchLen(batch) = Len(RowsDrawn)
          /\ \A v \in DOMAIN Config.views : \A i \in DOMAIN RowsDrawn :
               /\ batch.samples[i] = Anchor(RowsDrawn[i], Config.refSpc)
               /\ \A at \in Box(InnerShape(Output(Config, v))) :
                    stack[i][v][at] = Expected(Config.views[v], ReadIndices(batch, v)[i], at)
      BY <3>1, <3>3
    <3> QED
      BY <3>4 DEF batch, stack
  <2> DEFINE fits(v, cid) ==
               LET g == Config.views[v]
                   assembled == Assembled(g, cid, FetchedTiles(Config, g, cid))
               IN  /\ \A i \in Box(assembled.shape) : assembled.at[i] # Pad
                   /\ Accepts(OutputGeometry(g, Config.pipeline), cid, Prepared(Config, g, cid), TRUE)
             holds(again) ==
               LET batch == GatheredBatch(Config, RowsDrawn, again)
                   stack == Stack(batch, [v \in DOMAIN Config.views |-> v])
               IN  /\ BatchLen(batch) = Len(RowsDrawn)
                   /\ \A v \in DOMAIN Config.views : \A i \in DOMAIN RowsDrawn :
                        /\ batch.samples[i] = Anchor(RowsDrawn[i], Config.refSpc)
                        /\ \A at \in Box(InnerShape(Output(Config, v))) :
                             stack[i][v][at] = Expected(Config.views[v], ReadIndices(batch, v)[i], at)
  <2>6. /\ \A v \in DOMAIN Config.views : \A cid \in Span(0, NChunks(Config.views[v])) :
             SubstituteFits => fits(v, cid)
        /\ \A again : SubstituteFits => holds(again)
    BY <2>4, <2>5
  <2> HIDE DEF fits, holds
  <2>7. SubstituteFits => /\ \A v \in DOMAIN Config.views :
                               Assembles(Config.pipeline) =>
                                 \A cid \in Span(0, NChunks(Config.views[v])) : fits(v, cid)
                          /\ \A again \in {FALSE, Config.persist} : holds(again)
    BY <2>6
  <2> QED
    BY <2>2, <2>3, <2>7 DEF GatherReadsItsSamples, fits, holds
<1> QED
  BY <1>1, PlanStays, PTL

-----------------------------------------------------------------------------
(* Cache entries follow their pipelines.                                   *)

(* A shape that holds something.                                           *)
Filling(shape) == shape \in Seq(Nat \ {0}) /\ shape # <<>>

(* Its first place, and so some place, is there.                           *)
LEMMA FillingHolds ==
  ASSUME NEW shape, Filling(shape)
  PROVE  Box(shape) # {}
<1>1. shape \in Seq(Nat) /\ shape \in Seq(Nat \ {0})
  <2>1. shape \in Seq(Nat \ {0})
    BY DEF Filling
  <2>2. PICK n \in Nat : n = Len(shape) /\ DOMAIN shape = 1 .. n
    BY <2>1
  <2>3. \A d \in 1 .. n : shape[d] \in Nat
    BY <2>1, <2>2
  <2>4. shape = [d \in 1 .. n |-> shape[d]]
    BY <2>1, <2>2
  <2>5. [d \in 1 .. n |-> shape[d]] \in Seq(Nat)
    BY <2>3
  <2> QED
    BY <2>1, <2>4, <2>5
<1>2. PICK n \in Nat : n = Len(shape)
  BY <1>1
<1>3. \A d \in 1 .. n : shape[d] \in Nat /\ shape[d] # 0
  BY <1>1, <1>2
<1>4. PICK z : z = [d \in 1 .. n |-> 0]
  OBVIOUS
<1>5. \A d \in 1 .. n : z[d] \in Nat /\ z[d] < shape[d]
  BY <1>3, <1>4
<1>6. z = [d \in 1 .. n |-> z[d]]
  BY <1>4
<1>7. z \in Box(shape)
  BY <1>1, <1>2, <1>5, <1>6, InBox
<1> QED
  BY <1>7

(* A sequence of numbers that are not zero is one of numbers.              *)
LEMMA FillingNumbers ==
  ASSUME NEW shape \in Seq(Nat \ {0})
  PROVE  shape \in Seq(Nat) /\ \A d \in 1 .. Len(shape) : shape[d] \in Nat /\ shape[d] # 0
<1>2. PICK n \in Nat : n = Len(shape) /\ DOMAIN shape = 1 .. n
  OBVIOUS
<1>3. \A d \in 1 .. n : shape[d] \in Nat /\ shape[d] # 0
  BY <1>2
<1>4. shape = [d \in 1 .. n |-> shape[d]]
  BY <1>2
<1>5. [d \in 1 .. n |-> shape[d]] \in Seq(Nat)
  BY <1>3
<1>6. shape \in Seq(Nat)
  BY <1>4, <1>5
<1> QED
  BY <1>2, <1>3, <1>6

(* The nearest place in such a shape to any tuple is a place of it.        *)
LEMMA NearestWithin ==
  ASSUME NEW shape, Filling(shape), NEW other \in Seq(Nat), NEW i \in Box(other)
  PROVE  Nearest(i, shape) \in Box(shape)
<1>1. shape \in Seq(Nat) /\ \A d \in 1 .. Len(shape) : shape[d] \in Nat /\ shape[d] # 0
  BY FillingNumbers DEF Filling
<1>2. PICK n \in Nat : n = Len(shape) /\ DOMAIN shape = 1 .. n
  BY <1>1
<1>3. \A d \in DOMAIN i : i[d] \in Nat
  BY BoxIsSeq
<1> DEFINE val(d) == IF d \in DOMAIN i THEN MinOf(i[d], shape[d] - 1) ELSE 0
<1>4. ASSUME NEW d \in 1 .. n
      PROVE  val(d) \in Nat /\ val(d) < shape[d]
  <2>1. PICK s \in Nat : s = shape[d] /\ s # 0
    BY <1>1, <1>2
  <2>2. CASE d \in DOMAIN i
    <3>1. PICK x \in Nat : x = i[d]
      BY <1>3, <2>2
    <3>2. MinOf(x, s - 1) \in Nat /\ MinOf(x, s - 1) < s
      BY <2>1 DEF MinOf
    <3> QED
      BY <2>1, <2>2, <3>1, <3>2
  <2>3. CASE d \notin DOMAIN i
    BY <2>1, <2>3
  <2> QED
    BY <2>2, <2>3
<1>5. Nearest(i, shape) = [d \in 1 .. n |-> val(d)]
  BY <1>2 DEF Nearest
<1> HIDE DEF val
<1>6. PICK z : z = [d \in 1 .. n |-> val(d)]
  OBVIOUS
<1>7. z = [d \in 1 .. n |-> z[d]] /\ \A d \in 1 .. n : z[d] \in Nat /\ z[d] < shape[d]
  BY <1>4, <1>6
<1>8. z \in Box(shape)
  BY <1>1, <1>2, <1>7, InBox
<1> QED
  BY <1>5, <1>6, <1>8

(* Data every element of which went through the same transforms.           *)
Tags(data, codes) ==
  /\ Filling(data.shape)
  /\ \A i \in Box(data.shape) : \E e : data.at[i] = Tagged(e, codes)

(* They are the only ones it went through.                                 *)
LEMMA TagsAreOne ==
  ASSUME NEW data, NEW a, NEW b, Tags(data, a), Tags(data, b)
  PROVE  a = b
<1>1. PICK i : i \in Box(data.shape)
  BY FillingHolds DEF Tags
<1>2. PICK e : data.at[i] = Tagged(e, a)
  BY <1>1 DEF Tags
<1>3. PICK f : data.at[i] = Tagged(f, b)
  BY <1>1 DEF Tags
<1>4. Tagged(e, a).via = a /\ Tagged(f, b).via = b
  BY DEF Tagged
<1> QED
  BY <1>2, <1>3, <1>4

(* A transform adds its tag to every element that it returns.              *)
LEMMA CallTags ==
  ASSUME NEW t, t.yields \in Seq(Nat \ {0}), NEW chunk, "data" \in DOMAIN chunk, NEW codes,
         Tags(chunk.data, codes)
  PROVE  /\ "data" \in DOMAIN Call(t, chunk)
         /\ Tags(Call(t, chunk).data, Append(codes, t.code))
<1> DEFINE old == chunk.data
           shape == <<old.shape[1]>> \o IF t.yields = <<>> THEN Tail(old.shape) ELSE t.yields
           val(i) == [old.at[Nearest(i, old.shape)] EXCEPT !.via = Append(@, t.code)]
           new == [shape |-> shape, at |-> [i \in Box(shape) |-> val(i)]]
<1>1. Call(t, chunk) = [chunk EXCEPT !.data = new]
  BY DEF Call
<1>2. Filling(old.shape)
  BY DEF Tags
<1>3. Filling(shape)
  <2>1. PICK E : E = Nat \ {0}
    OBVIOUS
  <2>2. PICK s \in Seq(E) : s = old.shape /\ s # <<>>
    BY <1>2, <2>1 DEF Filling
  <2>3. PICK w \in E, j \in Seq(E) : w = s[1] /\ j = IF t.yields = <<>> THEN Tail(s) ELSE t.yields
    <3>1. s[1] \in E /\ Tail(s) \in Seq(E)
      BY <2>2
    <3> QED
      BY <2>1, <3>1
  <2>4. shape = <<w>> \o j
    BY <2>2, <2>3
  <2>5. <<w>> \o j \in Seq(E) /\ Len(<<w>> \o j) = Len(j) + 1
    BY HeadedIs
  <2>6. <<w>> \o j # <<>>
    <3>1. PICK m \in Nat : m = Len(j)
      BY <2>3
    <3>2. Len(<<w>> \o j) # 0
      BY <2>5, <3>1
    <3> QED
      BY <2>5, <3>2
  <2> QED
    BY <2>1, <2>4, <2>5, <2>6 DEF Filling
<1>4. ASSUME NEW i \in Box(shape)
      PROVE  \E e : val(i) = Tagged(e, Append(codes, t.code))
  <2>1. Nearest(i, old.shape) \in Box(old.shape)
    <3>1. shape \in Seq(Nat)
      BY <1>3, FillingNumbers DEF Filling
    <3> HIDE DEF shape, old
    <3> QED
      BY <1>2, <3>1, NearestWithin
  <2>2. PICK e : old.at[Nearest(i, old.shape)] = Tagged(e, codes)
    BY <2>1 DEF Tags
  <2>3. [Tagged(e, codes) EXCEPT !.via = Append(@, t.code)] = Tagged(e, Append(codes, t.code))
    BY TaggedMore
  <2>4. val(i) = [Tagged(e, codes) EXCEPT !.via = Append(@, t.code)]
    BY <2>2
  <2> HIDE DEF val
  <2> QED
    BY <2>3, <2>4
<1> HIDE DEF val, shape
<1>5. new.shape = shape /\ \A i \in Box(shape) : new.at[i] = val(i)
  OBVIOUS
<1> HIDE DEF new
<1>6. "data" \in DOMAIN Call(t, chunk) /\ Call(t, chunk).data = new
  BY <1>1
<1>7. Tags(new, Append(codes, t.code))
  BY <1>3, <1>4, <1>5 DEF Tags
<1> QED
  BY <1>6, <1>7

(* A pipeline adds its tags to every element that it returns.              *)
LEMMA CallAllTags ==
  ASSUME NEW transforms, NEW n \in Nat, n = Len(transforms),
         \A k \in 1 .. n : transforms[k].yields \in Seq(Nat \ {0}),
         NEW chunk, "data" \in DOMAIN chunk, Tags(chunk.data, <<>>)
  PROVE  Tags(CallAll(transforms, chunk).data, Codes(transforms, n))
<1>1. PICK f : Results(f, chunk, transforms, n) /\ CallAll(transforms, chunk) = f[n]
  BY CallAllIs
<1> DEFINE Good(k) == "data" \in DOMAIN f[k] /\ Tags(f[k].data, Codes(transforms, k))
           Bad == {k \in 0 .. n : ~Good(k)}
<1>2. f[0] = chunk /\ \A k \in 1 .. n : f[k] = Call(transforms[k], f[k - 1])
  BY <1>1 DEF Results
<1>3. Good(0)
  <2>1. Codes(transforms, 0) = <<>>
    BY CodesGrow
  <2> QED
    BY <1>2, <2>1
<1>4. Bad = {}
  <2> SUFFICES ASSUME Bad # {} PROVE FALSE
    OBVIOUS
  <2>1. PICK m \in Bad : \A k \in Bad : m <= k
    <3>1. Bad \in SUBSET Nat
      OBVIOUS
    <3> HIDE DEF Bad
    <3> QED
      BY <3>1, SmallestOf
  <2>2. m \in 1 .. n /\ ~Good(m)
    BY <1>3
  <2>3. PICK k \in 0 .. n : k = m - 1 /\ k + 1 = m
    BY <2>2
  <2>4. Good(k)
    BY <2>1, <2>3
  <2>5. PICK t, mid, codes : t = transforms[m] /\ mid = f[k] /\ codes = Codes(transforms, k)
    OBVIOUS
  <2>6. t.yields \in Seq(Nat \ {0}) /\ "data" \in DOMAIN mid /\ Tags(mid.data, codes)
    BY <2>2, <2>4, <2>5
  <2>7. "data" \in DOMAIN Call(t, mid) /\ Tags(Call(t, mid).data, Append(codes, t.code))
    BY <2>6, CallTags
  <2>8. f[m] = Call(t, mid)
    BY <1>2, <2>2, <2>3, <2>5
  <2>9. Append(codes, t.code) = Codes(transforms, m)
    <3>1. k \in Nat
      OBVIOUS
    <3>2. Append(Codes(transforms, k), transforms[k + 1].code) = Codes(transforms, k + 1)
      BY <3>1, CodesGrow
    <3> QED
      BY <2>3, <2>5, <3>2
  <2> QED
    BY <2>2, <2>7, <2>8, <2>9
<1>5. n \in 0 .. n /\ n \notin Bad
  BY <1>4
<1> QED
  BY <1>1, <1>5

(* Transforms that are the same callables make the same of a chunk.        *)
SameCalls(ts, us, n) == \A k \in 1 .. n : ts[k].code = us[k].code /\ ts[k].yields = us[k].yields

(* Results agree with every transform that does.                           *)
LEMMA SameCallsAgree ==
  ASSUME NEW ts, NEW us, NEW n \in Nat, n = Len(ts), n = Len(us), SameCalls(ts, us, n), NEW chunk
  PROVE  CallAll(ts, chunk) = CallAll(us, chunk)
<1>1. PICK f : Results(f, chunk, ts, n) /\ CallAll(ts, chunk) = f[n]
  BY CallAllIs
<1>2. PICK h : Results(h, chunk, us, n) /\ CallAll(us, chunk) = h[n]
  BY CallAllIs
<1>3. f[0] = chunk /\ \A k \in 1 .. n : f[k] = Call(ts[k], f[k - 1])
  BY <1>1 DEF Results
<1>4. h[0] = chunk /\ \A k \in 1 .. n : h[k] = Call(us[k], h[k - 1])
  BY <1>2 DEF Results
<1> DEFINE Bad == {k \in 0 .. n : f[k] # h[k]}
<1>5. Bad = {}
  <2> SUFFICES ASSUME Bad # {} PROVE FALSE
    OBVIOUS
  <2>1. PICK m \in Bad : \A k \in Bad : m <= k
    <3>1. Bad \in SUBSET Nat
      OBVIOUS
    <3> HIDE DEF Bad
    <3> QED
      BY <3>1, SmallestOf
  <2>2. m \in 1 .. n /\ f[m] # h[m]
    BY <1>3, <1>4
  <2>3. PICK k \in 0 .. n : k = m - 1
    BY <2>2
  <2>4. f[k] = h[k]
    BY <2>1, <2>3
  <2>5. ts[m].code = us[m].code /\ ts[m].yields = us[m].yields
    BY <2>2 DEF SameCalls
  <2>6. \A c : Call(ts[m], c) = Call(us[m], c)
    BY <2>5 DEF Call
  <2>7. f[m] = Call(ts[m], f[k]) /\ h[m] = Call(us[m], h[k])
    BY <1>3, <1>4, <2>2, <2>3
  <2> QED
    BY <2>2, <2>4, <2>6, <2>7
<1>6. n \in 0 .. n /\ n \notin Bad
  BY <1>5
<1> QED
  BY <1>1, <1>2, <1>6

(* A token says which callable it is of, and a callable what it returns:   *)
(* an inner shape that holds something, always the same.                   *)
Known(t) == t.yields \in Seq(Nat \ {0})
ToldApart(t, u) ==
  /\ TransformToken(t) = TransformToken(u) <=> t.code = u.code
  /\ t.code = u.code => t.yields = u.yields

(* Two pipelines of such transforms do the same to a chunk exactly if they *)
(* are hashed alike.                                                       *)
LEMMA HashTells ==
  ASSUME NEW path, NEW p, p \in Seq(ToSet(p)), NEW q, q \in Seq(ToSet(q)),
         \A t \in ToSet(p) \cup ToSet(q) : Known(t),
         \A t \in ToSet(p) : \A u \in ToSet(q) : ToldApart(t, u),
         NEW chunk, "data" \in DOMAIN chunk, chunk.read.array = path, Tags(chunk.data, <<>>)
  PROVE  PipelineHash(path, p) = PipelineHash(path, q)
           <=> ApplyTransforms(chunk, p).data = ApplyTransforms(chunk, q).data
<1>1. PICK ts : ts = TransformsFor(path, p)
  OBVIOUS
<1>2. PICK us : us = TransformsFor(path, q)
  OBVIOUS
<1>3. /\ Len(ts) \in Nat /\ DOMAIN ts = 1 .. Len(ts)
      /\ \A k \in 1 .. Len(ts) : ts[k] \in ToSet(p)
  BY <1>1, TransformsAre
<1>4. /\ Len(us) \in Nat /\ DOMAIN us = 1 .. Len(us)
      /\ \A k \in 1 .. Len(us) : us[k] \in ToSet(q)
  BY <1>2, TransformsAre
<1>5. PICK n \in Nat, m \in Nat : n = Len(ts) /\ m = Len(us)
  BY <1>3, <1>4
<1>6. PICK hp : hp = [k \in 1 .. n |-> TransformToken(ts[k])]
  OBVIOUS
<1>7. PICK hq : hq = [k \in 1 .. m |-> TransformToken(us[k])]
  OBVIOUS
<1>8. PipelineHash(path, p) = hp /\ PipelineHash(path, q) = hq
  BY <1>1, <1>2, <1>3, <1>4, <1>5, <1>6, <1>7 DEF PipelineHash
<1>9. ApplyTransforms(chunk, p) = CallAll(ts, chunk) /\ ApplyTransforms(chunk, q) = CallAll(us, chunk)
  BY <1>1, <1>2 DEF ApplyTransforms
<1>10. ASSUME hp = hq PROVE CallAll(ts, chunk) = CallAll(us, chunk)
  <2>1. n = m
    BY <1>6, <1>7, <1>10
  <2>2. SameCalls(ts, us, n)
    <3> SUFFICES ASSUME NEW k \in 1 .. n
                 PROVE  ts[k].code = us[k].code /\ ts[k].yields = us[k].yields
      BY DEF SameCalls
    <3>1. TransformToken(ts[k]) = TransformToken(us[k])
      BY <1>6, <1>7, <1>10, <2>1
    <3>2. ToldApart(ts[k], us[k])
      BY <1>3, <1>4, <1>5, <2>1
    <3> QED
      BY <3>1, <3>2 DEF ToldApart
  <2> QED
    BY <1>5, <2>1, <2>2, SameCallsAgree
<1>11. ASSUME CallAll(ts, chunk).data = CallAll(us, chunk).data PROVE hp = hq
  <2>1. Tags(CallAll(ts, chunk).data, Codes(ts, n))
    <3>1. \A k \in 1 .. n : ts[k].yields \in Seq(Nat \ {0})
      BY <1>3, <1>5 DEF Known
    <3> QED
      BY <1>5, <3>1, CallAllTags
  <2>2. Tags(CallAll(us, chunk).data, Codes(us, m))
    <3>1. \A k \in 1 .. m : us[k].yields \in Seq(Nat \ {0})
      BY <1>4, <1>5 DEF Known
    <3> QED
      BY <1>5, <3>1, CallAllTags
  <2>3. PICK data : data = CallAll(ts, chunk).data /\ data = CallAll(us, chunk).data
    BY <1>11
  <2>4. Codes(ts, n) = Codes(us, m)
    <3>1. Tags(data, Codes(ts, n)) /\ Tags(data, Codes(us, m))
      BY <2>1, <2>2, <2>3
    <3> QED
      BY <3>1, TagsAreOne
  <2>5. n = m /\ \A k \in 1 .. n : ts[k].code = us[k].code
    <3>1. PICK a : a = Codes(ts, n) /\ a = Codes(us, m)
      BY <2>4
    <3>2. a = [k \in 1 .. n |-> ts[k].code] /\ a = [k \in 1 .. m |-> us[k].code]
      BY <3>1 DEF Codes
    <3>3. 1 .. n = 1 .. m
      BY <3>2
    <3>4. n = m
      BY <3>3
    <3>5. \A k \in 1 .. n : a[k] = ts[k].code
      BY <3>2, Zenon
    <3>6. \A k \in 1 .. m : a[k] = us[k].code
      BY <3>2, Zenon
    <3> QED
      BY <3>4, <3>5, <3>6
  <2>6. \A k \in 1 .. n : TransformToken(ts[k]) = TransformToken(us[k])
    <3> SUFFICES ASSUME NEW k \in 1 .. n PROVE TransformToken(ts[k]) = TransformToken(us[k])
      OBVIOUS
    <3>1. ToldApart(ts[k], us[k])
      BY <1>3, <1>4, <1>5, <2>5
    <3> QED
      BY <2>5, <3>1 DEF ToldApart
  <2> QED
    BY <1>6, <1>7, <2>5, <2>6
<1> QED
  BY <1>8, <1>9, <1>10, <1>11

(* What an array has in its first chunk, before any transform.             *)
LEMMA ReadIsUntagged ==
  ASSUME NEW c, NEW g, Measured(g), StoredAs(Named(c.group, g.path), g),
         c.corrupt # {} => g.axis = 0, Filling(SlotShape(g, 0))
  PROVE  LET chunk == DecodedChunk(g, 0, Assembled(g, 0, FetchedTiles(c, g, 0)))
         IN  "data" \in DOMAIN chunk /\ chunk.read.array = g.path /\ Tags(chunk.data, <<>>)
<1>1. PICK whole : whole = Assembled(g, 0, FetchedTiles(c, g, 0))
  OBVIOUS
<1>2. whole.shape = SlotShape(g, 0)
  BY <1>1 DEF Assembled
<1>3. \A i \in Box(SlotShape(g, 0)) : Untouched(whole.at[i])
  <2>1. 0 \in Nat
    OBVIOUS
  <2> QED
    BY <1>1, <2>1, AssembledIsWhole
<1>4. Tags(whole, <<>>)
  BY <1>2, <1>3 DEF Tags, Untouched
<1>5. PICK chunk : chunk = DecodedChunk(g, 0, whole)
  OBVIOUS
<1>6. "data" \in DOMAIN chunk /\ chunk.read.array = g.path /\ chunk.data = whole
  BY <1>5 DEF DecodedChunk, ChunkRead
<1> QED
  BY <1>1, <1>4, <1>5, <1>6

(* The transforms of the dataset and of each edit of its pipeline are told *)
(* apart by their tokens, and every array has something in its first chunk.*)
TokensTell ==
  /\ \A p \in Edits : p \in Seq(ToSet(p))
  /\ \A t \in UNION {ToSet(p) : p \in Edits \cup {Config.pipeline}} :
       /\ Known(t)
       /\ \A u \in ToSet(Config.pipeline) : ToldApart(t, u)
  /\ \A v \in DOMAIN Config.views : Filling(SlotShape(Config.views[v], 0))

(* Where tokens tell the transforms apart, a cache entry is stamped so     *)
(* that two pipelines share an array's entries exactly if they do the same *)
(* to it, whatever they do to other arrays, and whether they keep its      *)
(* shape or not (pool.py, _pipeline_hash, _transform_token, transforms_for,*)
(* _apply_transforms).                                                     *)
THEOREM EntriesFollowPipelines ==
  Spec => [](TokensTell /\ SubstituteFits => HashFollowsPipeline)
<1>1. plan \in Plans => (TokensTell /\ SubstituteFits => HashFollowsPipeline)
  <2> SUFFICES ASSUME plan \in Plans, TokensTell, SubstituteFits
               PROVE  HashFollowsPipeline
    OBVIOUS
  <2>1. Sound(Config) /\ OpenedOn(Config)
    BY PlansArePlanned, DatasetsAssumption DEF Config
  <2>2. ASSUME NEW v \in DOMAIN Config.views, NEW other \in Edits
        PROVE  LET g == Config.views[v]
                   chunk == DecodedChunk(g, 0, Assembled(g, 0, FetchedTiles(Config, g, 0)))
               IN  PipelineHash(g.path, other) = PipelineHash(g.path, Config.pipeline)
                     <=> ApplyTransforms(chunk, other).data = ApplyTransforms(chunk, Config.pipeline).data
    <3>1. PICK g : g = Config.views[v]
      OBVIOUS
    <3>2. PICK own : own = Config.pipeline
      OBVIOUS
    <3>3. Measured(g) /\ StoredAs(Named(Config.group, g.path), g)
      BY <2>1, <3>1, ViewIsStored DEF Sound
    <3>4. Config.corrupt # {} => g.axis = 0
      BY <3>1 DEF SubstituteFits
    <3>5. Filling(SlotShape(g, 0))
      BY <3>1 DEF TokensTell
    <3>6. PICK chunk : /\ chunk = DecodedChunk(g, 0, Assembled(g, 0, FetchedTiles(Config, g, 0)))
                       /\ "data" \in DOMAIN chunk /\ chunk.read.array = g.path /\ Tags(chunk.data, <<>>)
      BY <3>3, <3>4, <3>5, ReadIsUntagged
    <3>7. own \in Seq(ToSet(own)) /\ other \in Seq(ToSet(other))
      BY <2>1, <3>2 DEF OpenedOn, TokensTell
    <3>8. ASSUME NEW t \in ToSet(other) \cup ToSet(own)
          PROVE  Known(t) /\ \A u \in ToSet(own) : ToldApart(t, u)
      <4>1. t \in UNION {ToSet(p) : p \in Edits \cup {Config.pipeline}}
        BY <3>2, <3>8
      <4> QED
        BY <3>2, <4>1 DEF TokensTell
    <3>9. PipelineHash(g.path, other) = PipelineHash(g.path, own)
            <=> ApplyTransforms(chunk, other).data = ApplyTransforms(chunk, own).data
      BY <3>6, <3>7, <3>8, HashTells
    <3> QED
      BY <3>1, <3>2, <3>6, <3>9
  <2> QED
    BY <2>2 DEF HashFollowsPipeline
<1> QED
  BY <1>1, PlanStays, PTL
=============================================================================
