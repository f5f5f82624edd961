--------------------------- MODULE SummaryProofs ---------------------------
(***************************************************************************)
(* The automatic budget, for every dataset: where the floor counts what a  *)
(* pass reads, it holds what the pass must hold at any one time, and the   *)
(* driver of such a pass never starves.  And what a dataset reports of     *)
(* itself before it runs: the memory that is announced is never exceeded,  *)
(* the rows of each part are those it yields, and padding is noted where   *)
(* there is some.                                                          *)
(***************************************************************************)
EXTENDS EpochProofs

-----------------------------------------------------------------------------
(* Blocks and windows: the rows that a bound of the order separates are    *)
(* those whose chunks the permutation has in different windows.            *)

Separated(order, i, j) == \E b \in 1 .. Len(order.bounds) : i <= order.bounds[b] /\ order.bounds[b] < j
WindowNo(p, size) == (p - 1) \div size
ByWindows(order, perm, size) ==
  \A i, j \in 1 .. Len(order.rows) : \A p, q \in 1 .. Len(perm) :
    order.rows[i][1] = perm[p] /\ order.rows[j][1] = perm[q] =>
      (WindowNo(p, size) < WindowNo(q, size) <=> Separated(order, i, j))

LEMMA BoundsAre ==
  ASSUME NEW order, Laid(order)
  PROVE  /\ Len(order.bounds) \in Nat \ {0} /\ Len(order.rows) \in Nat
         /\ \A b \in 1 .. Len(order.bounds) : order.bounds[b] \in Nat
         /\ \A a, b \in 1 .. Len(order.bounds) : a <= b => order.bounds[a] <= order.bounds[b]
         /\ \A j \in 1 .. Len(order.rows) : order.rows[j] \in Nat \X Nat
<1>1. PICK t \in Seq(Nat) : t = order.bounds
  BY DEF Laid
<1>2. PICK n \in Nat : n = Len(t)
  OBVIOUS
<1>3. \A b \in 1 .. n : t[b] \in Nat
  BY <1>1, <1>2
<1>4. \A a, b \in 1 .. n : a < b => t[a] < t[b]
  BY <1>1, <1>2 DEF Laid
<1>5. \A a, b \in 1 .. n : a <= b => t[a] <= t[b]
  BY <1>3, <1>4
<1>6. PICK u \in Seq(Nat \X Nat) : u = order.rows
  BY DEF Laid
<1>7. Len(u) \in Nat /\ \A j \in 1 .. Len(u) : u[j] \in Nat \X Nat
  OBVIOUS
<1>8. n # 0
  BY <1>1, <1>2 DEF Laid
<1> QED
  BY <1>1, <1>2, <1>3, <1>5, <1>6, <1>7, <1>8

LEMMA WindowNumber ==
  ASSUME NEW a \in Nat, NEW size \in Nat \ {0}, NEW m \in 1 .. size
  PROVE  WindowNo(a * size + m, size) = a
<1>1. PICK x \in Nat : x = a * size
  OBVIOUS
<1>2. PICK r \in Nat : r = m - 1 /\ r < size
  OBVIOUS
<1>3. x + m - 1 = x + r /\ x + r \in Nat
  BY <1>1, <1>2
<1>4. (a + 1) * size = x + size
  BY <1>1
<1>5. a * size <= x + r /\ x + r < (a + 1) * size
  BY <1>1, <1>2, <1>4
<1>6. a = (x + r) \div size
  BY <1>3, <1>5, QuotientIs
<1> QED
  BY <1>1, <1>3, <1>6 DEF WindowNo

LEMMA BlockedByWindows ==
  ASSUME NEW n \in Nat, NEW spc \in Nat \ {0}, NEW size \in Nat \ {0}, NEW perm, PermOf(perm, spc, n),
         NEW blocks, BlockedBy(blocks, perm, size, spc, n)
  PROVE  ByWindows(FromBlocks(blocks), perm, size)
<1> DEFINE k == CeilDiv(Len(perm), size)
           W == Windows(perm, size)
           E == Nat \X Nat
           C == Span(0, CeilDiv(n, spc))
           order == FromBlocks(blocks)
           rows == order.rows
           bounds == order.bounds
           upTo(b) == SumOn(LengthsOf(blocks), 1 .. b - 1)
<1>1. perm \in Seq(C) /\ Len(perm) \in Nat /\ Distinct(perm)
  BY DEF PermOf
<1>2. k \in Nat /\ Rowed(blocks, k, E)
  BY <1>1, CeilingIs DEF BlockedBy
<1>3. ASSUME NEW b \in 1 .. k
      PROVE  /\ WindowOf(W[b], spc, n) /\ Len(blocks[b]) > 0
             /\ Terms(blocks[b]) = RowsOf(ChunkIdsOf(W[b]), spc, n)
  <2>1. WindowOf(W[b], spc, n)
    BY WindowsAreChunks
  <2>2. /\ Len(RowsOfWindow(W[b], spc, n)) > 0
        /\ Terms(RowsOfWindow(W[b], spc, n)) = RowsOf(ChunkIdsOf(W[b]), spc, n)
    BY <2>1, RowsOfWindowAre
  <2>3. /\ Len(blocks[b]) = Len(RowsOfWindow(W[b], spc, n))
        /\ Terms(blocks[b]) = Terms(RowsOfWindow(W[b], spc, n))
    BY DEF BlockedBy
  <2> QED
    BY <2>1, <2>2, <2>3
<1>4. ASSUME NEW b \in 1 .. k, NEW j \in 1 .. Len(W[b])
      PROVE  /\ j \in 1 .. size /\ (b - 1) * size + j \in 1 .. Len(perm)
             /\ W[b][j] = perm[(b - 1) * size + j]
  <2> HIDE DEF C
  <2>1. WindowFrom(W[b], perm, (b - 1) * size, size, C)
    BY <1>1, WindowIs
  <2> DEFINE f == (b - 1) * size
  <2> HIDE DEF f, W
  <2>2. /\ f \in Nat /\ f + Len(W[b]) <= Len(perm) /\ Len(W[b]) \in 1 .. size
        /\ W[b][j] = perm[f + j]
    BY <2>1 DEF WindowFrom, f
  <2>3. f + j \in 1 .. Len(perm) /\ j \in 1 .. size
    BY <1>1, <2>2
  <2> QED
    BY <2>2, <2>3 DEF f
<1>5. /\ Laid(order) /\ Len(bounds) = k + 1 /\ rows = FlattenSeq(blocks)
      /\ \A b \in 1 .. k : bounds[b] = upTo(b) /\ bounds[b + 1] = bounds[b] + Len(blocks[b])
      /\ \A b \in 1 .. k : Len(blocks[b]) \in Nat
  <2>1. k \in Nat /\ \A b \in 1 .. k : Len(blocks[b]) \in Nat
    BY <1>2 DEF Rowed
  <2>2. \A b \in 1 .. k : Len(blocks[b]) > 0
    BY <1>3
  <2> HIDE DEF k
  <2> QED
    BY <1>2, <2>1, <2>2, BlocksAreLaid
<1> HIDE DEF k, W, C
<1>6. ASSUME NEW j \in 1 .. Len(rows), NEW p \in 1 .. Len(perm), rows[j][1] = perm[p]
      PROVE  \E b \in 1 .. k : WindowNo(p, size) = b - 1 /\ bounds[b] < j /\ j <= bounds[b + 1]
  <2>1. PICK b \in 1 .. k : \E i \in 1 .. Len(blocks[b]) : j = upTo(b) + i
    BY <1>2, <1>5, PlaceOf
  <2>2. PICK i \in 1 .. Len(blocks[b]) : j = upTo(b) + i
    BY <2>1
  <2>3. rows[upTo(b) + i] = blocks[b][i] /\ upTo(b) \in Nat
    BY <1>2, <1>5, Placed
  <2>4. blocks[b][i] \in Terms(blocks[b])
    BY DEF Terms
  <2>5. /\ bounds[b] = upTo(b) /\ bounds[b + 1] = bounds[b] + Len(blocks[b])
        /\ Len(blocks[b]) \in Nat /\ rows[j] = blocks[b][i]
    BY <1>5, <2>2, <2>3
  <2>6. rows[j][1] \in ChunkIdsOf(W[b])
    BY <1>3, <2>4, <2>5 DEF RowsOf
  <2>7. PICK l \in 1 .. Len(W[b]) : W[b][l] = perm[p]
    BY <1>6, <2>6 DEF ChunkIdsOf
  <2>8. PICK q \in 1 .. Len(perm) : q = (b - 1) * size + l /\ W[b][l] = perm[q] /\ l \in 1 .. size
    BY <1>4
  <2>9. p = q
    BY <1>1, <2>7, <2>8 DEF Distinct
  <2>10. b - 1 \in Nat
    BY <1>2
  <2>11. WindowNo(p, size) = b - 1
    BY <2>8, <2>9, <2>10, WindowNumber
  <2> HIDE DEF upTo, rows, bounds, order
  <2>12. PICK u \in Nat, t \in Nat : u = upTo(b) /\ t = Len(blocks[b])
    BY <2>3, <2>5
  <2>13. i \in 1 .. t /\ j = u + i /\ bounds[b] = u /\ bounds[b + 1] = bounds[b] + t
    BY <2>2, <2>5, <2>12
  <2>14. bounds[b] < j /\ j <= bounds[b + 1]
    BY <2>13
  <2> QED
    BY <2>11, <2>14
<1> HIDE DEF upTo
<1>7. /\ k \in Nat /\ Len(bounds) = k + 1 /\ \A b \in 1 .. k + 1 : bounds[b] \in Nat
      /\ \A a, b \in 1 .. k + 1 : a <= b => bounds[a] <= bounds[b]
  BY <1>2, <1>5, BoundsAre
<1> SUFFICES ASSUME NEW i \in 1 .. Len(rows), NEW j \in 1 .. Len(rows),
                    NEW p \in 1 .. Len(perm), NEW q \in 1 .. Len(perm),
                    rows[i][1] = perm[p], rows[j][1] = perm[q]
             PROVE  WindowNo(p, size) < WindowNo(q, size) <=> Separated(order, i, j)
  BY DEF ByWindows
<1>8. PICK a \in 1 .. k : WindowNo(p, size) = a - 1 /\ bounds[a] < i /\ i <= bounds[a + 1]
  BY <1>6
<1>9. PICK b \in 1 .. k : WindowNo(q, size) = b - 1 /\ bounds[b] < j /\ j <= bounds[b + 1]
  BY <1>6
<1>10. i \in Nat /\ j \in Nat /\ a \in Nat /\ b \in Nat
  BY <1>7
<1>11. WindowNo(p, size) < WindowNo(q, size) <=> a < b
  BY <1>8, <1>9, <1>10
<1>12. Separated(order, i, j) <=> \E c \in 1 .. k + 1 : i <= bounds[c] /\ bounds[c] < j
  BY <1>7 DEF Separated
<1> HIDE DEF bounds, rows, order
<1>13. a + 1 \in 1 .. k + 1 /\ b + 1 \in 1 .. k + 1 /\ a \in 1 .. k + 1 /\ b \in 1 .. k + 1
  BY <1>7
<1>14. ASSUME a < b PROVE \E c \in 1 .. k + 1 : i <= bounds[c] /\ bounds[c] < j
  <2>1. a + 1 <= b
    BY <1>10, <1>14
  <2>2. bounds[a + 1] <= bounds[b] /\ bounds[a + 1] \in Nat /\ bounds[b] \in Nat
    BY <1>7, <1>13, <2>1
  <2>3. bounds[a + 1] < j
    BY <1>9, <1>10, <2>2
  <2> QED
    BY <1>8, <1>13, <2>3
<1>15. ASSUME NEW c \in 1 .. k + 1, i <= bounds[c], bounds[c] < j PROVE a < b
  <2>1. bounds[c] \in Nat /\ bounds[a] \in Nat /\ bounds[b + 1] \in Nat
    BY <1>7, <1>13
  <2>2. ~(c <= a)
    <3>1. c <= a => bounds[c] <= bounds[a]
      BY <1>7, <1>13
    <3> QED
      BY <1>8, <1>10, <1>15, <2>1, <3>1
  <2>3. ~(b + 1 <= c)
    <3>1. b + 1 <= c => bounds[b + 1] <= bounds[c]
      BY <1>7, <1>13
    <3> QED
      BY <1>9, <1>10, <1>15, <2>1, <3>1
  <2> QED
    BY <1>7, <1>10, <2>2, <2>3
<1> QED
  BY <1>11, <1>12, <1>14, <1>15
LEMMA KeepByWindows ==
  ASSUME NEW order, Laid(order), NEW mask \in [1 .. Len(order.rows) -> BOOLEAN],
         NEW perm, NEW size, ByWindows(order, perm, size)
  PROVE  ByWindows(Keep(order, mask), perm, size)
<1> DEFINE P == KeptAt(mask)
           r == Len(order.rows)
           n == Len(order.bounds)
           q == Cardinality(P)
           kept == Keep(order, mask)
           A == Ascending(P)
<1>1. /\ Laid(kept) /\ kept.rows = At(order.rows, P)
      /\ \A a \in 1 .. Len(kept.bounds) : \E b \in 1 .. n :
           kept.bounds[a] = Cardinality({i \in P : i <= order.bounds[b]})
      /\ \A b \in 1 .. n : \E a \in 1 .. Len(kept.bounds) :
           kept.bounds[a] = Cardinality({i \in P : i <= order.bounds[b]})
  <2>1. /\ Laid(Keep(order, mask)) /\ Keep(order, mask).rows = At(order.rows, KeptAt(mask))
        /\ \A a \in 1 .. Len(Keep(order, mask).bounds) : \E b \in 1 .. Len(order.bounds) :
             Keep(order, mask).bounds[a] = Cardinality({i \in KeptAt(mask) : i <= order.bounds[b]})
        /\ \A b \in 1 .. Len(order.bounds) : \E a \in 1 .. Len(Keep(order, mask).bounds) :
             Keep(order, mask).bounds[a] = Cardinality({i \in KeptAt(mask) : i <= order.bounds[b]})
    BY KeepIsLaid, Zenon
  <2> QED
    BY <2>1, Zenon DEF kept, P, n
<1>2. r \in Nat /\ \A b \in 1 .. n : order.bounds[b] \in Nat
  BY BoundsAre
<1>3. P \in SUBSET (1 .. r) /\ P \in SUBSET Nat /\ IsFiniteSet(P)
  <2>1. P \in SUBSET (1 .. r)
    BY DEF KeptAt
  <2> HIDE DEF r, P
  <2>2. IsFiniteSet(1 .. r)
    BY <1>2, FS_Interval
  <2>3. IsFiniteSet(P)
    BY <2>1, <2>2, FS_Subset
  <2> QED
    BY <1>2, <2>1, <2>3
<1> HIDE DEF P, r, kept, n
<1>4. /\ DOMAIN At(order.rows, P) = 1 .. q /\ q \in Nat
      /\ \A i \in 1 .. q : A[i] \in P /\ At(order.rows, P)[i] = order.rows[A[i]]
  BY <1>3, PartHolds
<1>5. Len(kept.rows) = q /\ \A i \in 1 .. q : A[i] \in 1 .. r /\ kept.rows[i] = order.rows[A[i]]
  <2>1. Len(kept.rows) \in Nat /\ DOMAIN kept.rows = 1 .. Len(kept.rows)
    BY <1>1 DEF Laid
  <2>2. 1 .. Len(kept.rows) = 1 .. q
    BY <1>1, <1>4, <2>1
  <2>3. PICK l \in Nat, c \in Nat : l = Len(kept.rows) /\ c = q
    BY <1>4, <2>1
  <2>4. l = c
    <3>1. 1 .. l = 1 .. c
      BY <2>2, <2>3
    <3>2. l \in 1 .. l \/ l = 0
      BY <2>3
    <3>3. c \in 1 .. c \/ c = 0
      BY <2>3
    <3> QED
      BY <2>3, <3>1, <3>2, <3>3
  <2> QED
    BY <1>1, <1>3, <1>4, <2>3, <2>4
<1> SUFFICES ASSUME NEW i \in 1 .. q, NEW j \in 1 .. q,
                    NEW x \in 1 .. Len(perm), NEW y \in 1 .. Len(perm),
                    kept.rows[i][1] = perm[x], kept.rows[j][1] = perm[y]
             PROVE  WindowNo(x, size) < WindowNo(y, size) <=> Separated(kept, i, j)
  BY <1>5 DEF ByWindows, kept
<1>6. PICK s \in 1 .. r, t \in 1 .. r : s = A[i] /\ t = A[j] /\ order.rows[s][1] = perm[x] /\ order.rows[t][1] = perm[y]
  BY <1>5
<1>7. WindowNo(x, size) < WindowNo(y, size) <=> Separated(order, s, t)
  BY <1>6 DEF ByWindows, r
<1>8. ASSUME NEW a \in 1 .. Len(kept.bounds), NEW b \in 1 .. n,
             kept.bounds[a] = Cardinality({z \in P : z <= order.bounds[b]})
      PROVE  i <= kept.bounds[a] /\ kept.bounds[a] < j <=> s <= order.bounds[b] /\ order.bounds[b] < t
  <2>1. PICK m \in Nat : m = order.bounds[b]
    BY <1>2
  <2>2. i <= kept.bounds[a] <=> s <= m
    BY <1>3, <1>6, <1>8, <2>1, RankBelow
  <2>3. j <= kept.bounds[a] <=> t <= m
    BY <1>3, <1>6, <1>8, <2>1, RankBelow
  <2>4. kept.bounds[a] \in Nat
    BY <1>1, BoundsAre
  <2>5. i \in Nat /\ j \in Nat /\ s \in Nat /\ t \in Nat
    BY <1>2, <1>4
  <2> QED
    BY <2>1, <2>2, <2>3, <2>4, <2>5
<1>9. Separated(kept, i, j) <=> Separated(order, s, t)
  <2>1. Separated(kept, i, j) => Separated(order, s, t)
    BY <1>1, <1>8 DEF Separated, n
  <2>2. Separated(order, s, t) => Separated(kept, i, j)
    BY <1>1, <1>8 DEF Separated, n
  <2> QED
    BY <2>1, <2>2
<1> QED
  BY <1>7, <1>9

LEMMA DropByWindows ==
  ASSUME NEW order, Laid(order), NEW views, NEW spc, NEW n, NEW perm, NEW size, ByWindows(order, perm, size)
  PROVE  ByWindows(DropEdgeAnchors(order, views, spc, n), perm, size)
<1> DEFINE range == ValidAnchorRange(views, n)
           mask == [i \in DOMAIN order.rows |-> Anchor(order.rows[i], spc) \in Span(range.lo, range.hi)]
           r == Len(order.rows)
<1>1. DropEdgeAnchors(order, views, spc, n) = IF range.lo = 0 /\ range.hi = n THEN order ELSE Keep(order, mask)
  BY DEF DropEdgeAnchors
<1>2. r \in Nat /\ DOMAIN order.rows = 1 .. r
  BY DEF Laid
<1> HIDE DEF range, r
<1>3. mask \in [1 .. r -> BOOLEAN]
  <2>1. mask = [i \in 1 .. r |-> Anchor(order.rows[i], spc) \in Span(range.lo, range.hi)]
    BY <1>2
  <2>2. \A i \in 1 .. r : mask[i] = TRUE \/ mask[i] = FALSE
    <3>1. \A S : \A x : (x \in S) = TRUE \/ (x \in S) = FALSE
      BY SMT
    <3>2. \A i \in 1 .. r : mask[i] = (Anchor(order.rows[i], spc) \in Span(range.lo, range.hi))
      BY <1>2
    <3> HIDE DEF mask
    <3> QED
      BY <3>1, <3>2
  <2>3. mask = [i \in 1 .. r |-> mask[i]]
    BY <2>1
  <2> HIDE DEF mask
  <2>4. \A i \in 1 .. r : mask[i] \in BOOLEAN
    BY <2>2
  <2> QED
    BY <2>3, <2>4
<1>4. ByWindows(Keep(order, mask), perm, size)
  BY <1>3, KeepByWindows DEF r
<1> HIDE DEF mask
<1> QED
  BY <1>1, <1>4

(* A plan's rows stand by the windows of its chunks (shuffle.py,           *)
(* block_shuffled_order and sequential_order; source.py,                   *)
(* _drop_edge_anchors).                                                    *)
LEMMA DrawByWindows ==
  ASSUME NEW n \in Nat, NEW spc \in Nat \ {0}, NEW size \in Nat \ {0}, NEW perm, PermOf(perm, spc, n),
         NEW shuffle, NEW mixed, NEW views
  PROVE  ByWindows(Draw(perm, shuffle, mixed, views, spc, n, size), perm, size)
<1> DEFINE built == BuiltOrder(perm, shuffle, mixed, spc, n, size)
<1>1. Draw(perm, shuffle, mixed, views, spc, n, size) = DropEdgeAnchors(built, views, spc, n)
  BY DEF Draw, BuiltOrder
<1>2. Laid(built)
  BY BuiltIsDrawn DEF Drawn
<1>3. PICK blocks : BlockedBy(blocks, perm, size, spc, n) /\ built = FromBlocks(blocks)
  BY BuildersBlock
<1>4. ByWindows(built, perm, size)
  BY <1>3, BlockedByWindows
<1> HIDE DEF built
<1> QED
  BY <1>1, <1>2, <1>4, DropByWindows

LEMMA OrderStandsByWindows ==
  ASSUME NEW c, Sound(c)
  PROVE  ByWindows(OrderOf(c), DrawnChunks(c), BlockChunks(c))
<1>1. PermOf(DrawnChunks(c), c.refSpc, c.n)
  BY DrawnChunksAre
<1>2. c.n \in Nat /\ c.refSpc \in Nat \ {0}
  BY DEF Sound
<1>3. PICK size \in Nat \ {0} : size = BlockChunks(c)
  BY OrderIs
<1>4. OrderOf(c) = Draw(DrawnChunks(c), Shuffles(c), c.mixed, c.views, c.refSpc, c.n, size)
  BY <1>3 DEF OrderOf
<1> QED
  BY <1>1, <1>2, <1>3, <1>4, DrawByWindows
(* The rows of a block of a plan, their chunks and their keys.             *)
RowsIn(p, b) == (p.blocks[b].start + 1) .. p.blocks[b].stop
RowAt(p, i) == OrderOf(p.config).rows[i]

LEMMA BlockHasRows ==
  ASSUME NEW p, Planned(p), Sound(p.config), NEW b \in 1 .. Len(p.blocks)
  PROVE  /\ RowsIn(p, b) \subseteq 1 .. Len(OrderOf(p.config).rows) /\ RowsIn(p, b) # {}
         /\ p.blocks[b].chunks = {RowAt(p, i)[1] : i \in RowsIn(p, b)}
         /\ p.blocks[b].keys = UNION {RowKeys(RowAt(p, i), p.config.views, p.config.refSpc) : i \in RowsIn(p, b)}
<1> DEFINE order == OrderOf(p.config)
           rows == BlockRows(order, b)
<1>1. /\ DOMAIN rows = 1 .. Len(rows) /\ Terms(rows) = {RowAt(p, i) : i \in RowsIn(p, b)}
      /\ RowsIn(p, b) \subseteq 1 .. Len(order.rows)
  BY BlockRowsAre DEF RowsIn, RowAt
<1>2. /\ p.blocks[b].keys = BlockReadKeys(rows, p.config.views, p.config.refSpc)
      /\ p.blocks[b].chunks = AnchorChunks(rows)
  BY PlannedBlocks
<1>3. p.blocks[b].keys = UNION {RowKeys(row, p.config.views, p.config.refSpc) : row \in Terms(rows)}
  BY <1>1, <1>2, BlockKeysAre
<1>4. p.blocks[b].chunks = {row[1] : row \in Terms(rows)}
  BY <1>1, <1>2 DEF AnchorChunks, Terms
<1>5. RowsIn(p, b) # {}
  <2>1. PICK lo \in Nat, hi \in Nat : lo = p.blocks[b].start /\ hi = p.blocks[b].stop /\ lo < hi
    BY PlannedBlocks
  <2>2. hi \in (lo + 1) .. hi
    BY <2>1
  <2> QED
    BY <2>1, <2>2 DEF RowsIn
<1> HIDE DEF rows
<1>6. p.blocks[b].keys = UNION {RowKeys(RowAt(p, i), p.config.views, p.config.refSpc) : i \in RowsIn(p, b)}
  BY <1>1, <1>3
<1>7. p.blocks[b].chunks = {RowAt(p, i)[1] : i \in RowsIn(p, b)}
  BY <1>1, <1>4
<1> QED
  BY <1>1, <1>5, <1>6, <1>7

LEMMA BlocksSeparate ==
  ASSUME NEW p, Planned(p), Sound(p.config), NEW b \in 1 .. Len(p.blocks), NEW d \in 1 .. Len(p.blocks),
         NEW i \in RowsIn(p, b), NEW j \in RowsIn(p, d)
  PROVE  Separated(OrderOf(p.config), i, j) <=> b < d
<1> DEFINE order == OrderOf(p.config)
           bounds == order.bounds
<1>1. PICK k \in Nat : k = Len(p.blocks) /\ k + 1 = Len(bounds)
  BY PlannedBlocks
<1>2. /\ \A x \in 1 .. k + 1 : bounds[x] \in Nat
      /\ \A x, y \in 1 .. k + 1 : x <= y => bounds[x] <= bounds[y]
  BY <1>1, OrderIs, BoundsAre
<1>3. /\ p.blocks[b].start = bounds[b] /\ p.blocks[b].stop = bounds[b + 1]
      /\ p.blocks[d].start = bounds[d] /\ p.blocks[d].stop = bounds[d + 1]
  BY PlannedBlocks
<1>4. Separated(order, i, j) <=> \E c \in 1 .. k + 1 : i <= bounds[c] /\ bounds[c] < j
  BY <1>1 DEF Separated
<1>5. b \in 1 .. k + 1 /\ b + 1 \in 1 .. k + 1 /\ d \in 1 .. k + 1 /\ d + 1 \in 1 .. k + 1
  BY <1>1
<1>6. i \in (bounds[b] + 1) .. bounds[b + 1] /\ j \in (bounds[d] + 1) .. bounds[d + 1]
  BY <1>3 DEF RowsIn
<1> HIDE DEF order, bounds
<1>7. i \in Nat /\ j \in Nat /\ bounds[b] < i /\ i <= bounds[b + 1] /\ bounds[d] < j /\ j <= bounds[d + 1]
  BY <1>2, <1>5, <1>6
<1>8. ASSUME b < d PROVE \E c \in 1 .. k + 1 : i <= bounds[c] /\ bounds[c] < j
  <2>1. b + 1 <= d
    BY <1>5, <1>8
  <2>2. bounds[b + 1] <= bounds[d] /\ bounds[b + 1] \in Nat /\ bounds[d] \in Nat
    BY <1>2, <1>5, <2>1
  <2>3. bounds[b + 1] < j
    BY <1>7, <2>2
  <2> QED
    BY <1>5, <1>7, <2>3
<1>9. ASSUME NEW c \in 1 .. k + 1, i <= bounds[c], bounds[c] < j PROVE b < d
  <2>1. bounds[c] \in Nat /\ bounds[b] \in Nat /\ bounds[d + 1] \in Nat
    BY <1>2, <1>5
  <2>2. ~(c <= b)
    <3>1. c <= b => bounds[c] <= bounds[b]
      BY <1>2, <1>5
    <3> QED
      BY <1>7, <1>9, <2>1, <3>1
  <2>3. ~(d + 1 <= c)
    <3>1. d + 1 <= c => bounds[d + 1] <= bounds[c]
      BY <1>2, <1>5
    <3> QED
      BY <1>7, <1>9, <2>1, <3>1
  <2> QED
    BY <1>5, <2>2, <2>3
<1> QED
  BY <1>4, <1>8, <1>9 DEF order

(* A block draws from one window of the chunks, a later block from a later *)
(* one.                                                                    *)
WindowIn(p, b, w) ==
  \A i \in RowsIn(p, b) : \E x \in 1 .. Len(DrawnChunks(p.config)) :
    RowAt(p, i)[1] = DrawnChunks(p.config)[x] /\ WindowNo(x, BlockChunks(p.config)) = w

LEMMA RowsAreDrawn ==
  ASSUME NEW p, Planned(p), Sound(p.config), NEW i \in 1 .. Len(OrderOf(p.config).rows)
  PROVE  /\ RowAt(p, i) \in RowsOn(ChunkIds(p.config.manifest, p.config.part), p.config.views, p.config.refSpc, p.config.n)
         /\ \E x \in 1 .. Len(DrawnChunks(p.config)) : RowAt(p, i)[1] = DrawnChunks(p.config)[x]
<1> DEFINE c == p.config
           chunks == ChunkIds(c.manifest, c.part)
           rows == OrderOf(c).rows
<1>1. Terms(rows) = RowsOn(chunks, c.views, c.refSpc, c.n)
  BY OrderIs
<1>2. ChunkIdsOf(DrawnChunks(c)) = chunks
  BY DrawnChunksAre
<1> HIDE DEF chunks
<1>3. rows[i] \in RowsOn(chunks, c.views, c.refSpc, c.n)
  <2> HIDE DEF rows
  <2> QED
    BY <1>1 DEF Terms, rows
<1>4. rows[i][1] \in chunks
  BY <1>3 DEF RowsOn, RowsOf
<1> QED
  BY <1>2, <1>3, <1>4 DEF ChunkIdsOf, RowAt, chunks

LEMMA BlocksHaveWindows ==
  ASSUME NEW p, Planned(p), Sound(p.config)
  PROVE  /\ \A b \in 1 .. Len(p.blocks) : \E w \in Nat : WindowIn(p, b, w)
         /\ \A b, d \in 1 .. Len(p.blocks), w, z \in Nat :
              WindowIn(p, b, w) /\ WindowIn(p, d, z) => (b < d <=> w < z)
<1> DEFINE perm == DrawnChunks(p.config)
           size == BlockChunks(p.config)
           order == OrderOf(p.config)
<1>1. ByWindows(order, perm, size)
  BY OrderStandsByWindows
<1>2. size \in Nat \ {0} /\ Len(perm) \in Nat
  BY OrderIs, DrawnChunksAre DEF PermOf
<1>3. ASSUME NEW b \in 1 .. Len(p.blocks), NEW d \in 1 .. Len(p.blocks),
             NEW i \in RowsIn(p, b), NEW j \in RowsIn(p, d),
             NEW x \in 1 .. Len(perm), NEW y \in 1 .. Len(perm),
             RowAt(p, i)[1] = perm[x], RowAt(p, j)[1] = perm[y]
      PROVE  WindowNo(x, size) < WindowNo(y, size) <=> b < d
  <2>1. Separated(order, i, j) <=> b < d
    BY BlocksSeparate
  <2>2. i \in 1 .. Len(order.rows) /\ j \in 1 .. Len(order.rows)
    BY BlockHasRows
  <2>3. order.rows[i][1] = perm[x] /\ order.rows[j][1] = perm[y]
    BY <1>3 DEF RowAt
  <2> HIDE DEF order, perm, size
  <2> QED
    BY <1>1, <2>1, <2>2, <2>3 DEF ByWindows
<1>4. ASSUME NEW b \in 1 .. Len(p.blocks) PROVE RowsIn(p, b) \subseteq 1 .. Len(order.rows) /\ RowsIn(p, b) # {}
  BY BlockHasRows
<1>5. ASSUME NEW b \in 1 .. Len(p.blocks), NEW i \in RowsIn(p, b)
      PROVE  \E x \in 1 .. Len(perm) : RowAt(p, i)[1] = perm[x]
  BY <1>4, RowsAreDrawn
<1>6. \A x \in 1 .. Len(perm) : WindowNo(x, size) \in Nat
  BY <1>2, QuotientOf DEF WindowNo
<1>7. Len(p.blocks) \in Nat
  BY PlannedBlocks
<1> HIDE DEF order, perm, size
<1>8. ASSUME NEW b \in 1 .. Len(p.blocks)
      PROVE  \E w \in Nat : WindowIn(p, b, w)
  <2>1. PICK j \in RowsIn(p, b) : TRUE
    BY <1>4
  <2>2. PICK y \in 1 .. Len(perm) : RowAt(p, j)[1] = perm[y]
    BY <1>5
  <2> DEFINE w == WindowNo(y, size)
  <2>3. w \in Nat
    BY <1>6
  <2>4. ASSUME NEW i \in RowsIn(p, b)
        PROVE  \E x \in 1 .. Len(perm) : RowAt(p, i)[1] = perm[x] /\ WindowNo(x, size) = w
    <3>1. PICK x \in 1 .. Len(perm) : RowAt(p, i)[1] = perm[x]
      BY <1>5
    <3>2. ~(WindowNo(x, size) < w) /\ ~(w < WindowNo(x, size))
      BY <1>3, <1>7, <2>2, <3>1
    <3>3. WindowNo(x, size) = w
      BY <1>6, <2>3, <3>2
    <3> QED
      BY <3>1, <3>3
  <2>5. WindowIn(p, b, w)
    BY <2>4 DEF WindowIn, perm, size
  <2> QED
    BY <2>3, <2>5
<1>9. ASSUME NEW b \in 1 .. Len(p.blocks), NEW d \in 1 .. Len(p.blocks), NEW w \in Nat, NEW z \in Nat,
             WindowIn(p, b, w), WindowIn(p, d, z)
      PROVE  b < d <=> w < z
  <2>1. PICK i \in RowsIn(p, b), j \in RowsIn(p, d) : TRUE
    BY <1>4
  <2>2. PICK x \in 1 .. Len(perm) : RowAt(p, i)[1] = perm[x] /\ WindowNo(x, size) = w
    BY <1>9 DEF WindowIn, perm, size
  <2>3. PICK y \in 1 .. Len(perm) : RowAt(p, j)[1] = perm[y] /\ WindowNo(y, size) = z
    BY <1>9 DEF WindowIn, perm, size
  <2> QED
    BY <1>3, <2>2, <2>3
<1> QED
  BY <1>8, <1>9
-----------------------------------------------------------------------------
(* Counting chunks.                                                        *)

LEMMA ImageIsFew ==
  ASSUME NEW S, IsFiniteSet(S), NEW f, NEW T, \A y \in T : \E x \in S : y = f[x]
  PROVE  IsFiniteSet(T) /\ Cardinality(T) <= Cardinality(S) /\ Cardinality(T) \in Nat /\ Cardinality(S) \in Nat
<1> DEFINE U == {f[x] : x \in S}
           g == [x \in S |-> f[x]]
<1>1. T \in SUBSET U
  OBVIOUS
<1>2. g \in Surjection(S, U)
  BY DEF Surjection
<1>3. IsFiniteSet(U) /\ Cardinality(U) <= Cardinality(S)
  BY <1>2, FS_Surjection
<1> HIDE DEF U, g
<1>4. IsFiniteSet(T) /\ Cardinality(T) <= Cardinality(U)
  BY <1>1, <1>3, FS_Subset
<1>5. Cardinality(T) \in Nat /\ Cardinality(U) \in Nat /\ Cardinality(S) \in Nat
  BY <1>3, <1>4, FS_CardinalityType
<1> QED
  BY <1>3, <1>4, <1>5

LEMMA TaggedAreFew ==
  ASSUME NEW path, NEW T, IsFiniteSet(T), NEW K, \A y \in K : \E x \in T : y = <<path, x>>
  PROVE  IsFiniteSet(K) /\ Cardinality(K) <= Cardinality(T) /\ Cardinality(K) \in Nat /\ Cardinality(T) \in Nat
<1> DEFINE g == [x \in T |-> <<path, x>>]
<1>1. \A y \in K : \E x \in T : y = g[x]
  OBVIOUS
<1> HIDE DEF g
<1> QED
  BY <1>1, ImageIsFew

LEMMA WholePart ==
  ASSUME NEW a \in Int, NEW d \in Nat \ {0}
  PROVE  /\ a \div d \in Int /\ (a \div d) * d <= a /\ a < (a \div d + 1) * d
         /\ a = (a \div d) * d + (a % d) /\ a % d \in 0 .. d - 1
OBVIOUS

LEMMA WholePartIs ==
  ASSUME NEW a \in Int, NEW d \in Nat \ {0}, NEW q \in Int, q * d <= a, a < (q + 1) * d
  PROVE  a \div d = q
<1>1. ASSUME NEW x \in Int, NEW y \in Int, x * d < (y + 1) * d
      PROVE  x <= y
  BY <1>1
<1>2. PICK r \in Int : r = a \div d /\ r * d <= a /\ a < (r + 1) * d
  BY WholePart
<1>3. PICK x \in Int : x = r * d /\ (r + 1) * d = x + d
  OBVIOUS
<1>4. PICK y \in Int : y = q * d /\ (q + 1) * d = y + d
  OBVIOUS
<1>5. r * d < (q + 1) * d /\ q * d < (r + 1) * d
  BY <1>2, <1>3, <1>4
<1> QED
  BY <1>1, <1>2, <1>5

LEMMA WholePartsRise ==
  ASSUME NEW a \in Int, NEW b \in Int, NEW d \in Nat \ {0}, a <= b
  PROVE  a \div d <= b \div d /\ a \div d \in Int /\ b \div d \in Int
<1>1. ASSUME NEW x \in Int, NEW y \in Int, x * d < (y + 1) * d
      PROVE  x <= y
  BY <1>1
<1>2. PICK x \in Int : x = a \div d /\ x * d <= a /\ a < (x + 1) * d
  BY WholePart
<1>3. PICK y \in Int : y = b \div d /\ y * d <= b /\ b < (y + 1) * d
  BY WholePart
<1>4. x * d \in Int /\ (y + 1) * d \in Int
  OBVIOUS
<1>5. x * d < (y + 1) * d
  BY <1>2, <1>3, <1>4
<1> QED
  BY <1>1, <1>2, <1>3, <1>5

(* As many samples in a row as fill m chunks touch one chunk more.         *)
LEMMA TouchedAre ==
  ASSUME NEW lo \in Int, NEW m \in Nat, NEW d \in Nat \ {0}, NEW x \in Int, lo <= x, x < lo + m
  PROVE  x \div d \in (lo \div d) .. (lo \div d + CeilDiv(m, d))
<1>1. PICK q \in Int : q = lo \div d /\ lo < (q + 1) * d
  BY WholePart
<1>2. PICK C \in Nat : C = CeilDiv(m, d) /\ m <= C * d
  BY CeilingIs
<1>3. PICK r \in Int : r = x \div d /\ r * d <= x /\ q <= r
  BY <1>1, WholePart, WholePartsRise
<1>4. PICK a \in Int : a = q * d /\ (q + 1) * d = a + d
  OBVIOUS
<1>5. PICK b \in Int : b = C * d
  OBVIOUS
<1>6. (q + C + 1) * d = a + b + d
  BY <1>4, <1>5
<1>7. PICK e \in Int : e = r * d
  OBVIOUS
<1>8. e < a + b + d
  BY <1>1, <1>2, <1>3, <1>4, <1>5, <1>7
<1>9. ASSUME NEW y \in Int, NEW z \in Int, y * d < (z + 1) * d
      PROVE  y <= z
  BY <1>9
<1>10. r * d < (q + C + 1) * d
  BY <1>6, <1>7, <1>8
<1>11. r <= q + C
  BY <1>9, <1>10
<1> QED
  BY <1>1, <1>2, <1>3, <1>11

LEMMA RangeIsFew ==
  ASSUME NEW q \in Int, NEW m \in Nat
  PROVE  IsFiniteSet(q .. (q + m)) /\ Cardinality(q .. (q + m)) = m + 1
BY FS_Interval

(* The chunks of an aligned view that the rows of some chunks read.        *)
Straddles(view, s) == IF view.offset % s = 0 THEN {view.offset \div s} ELSE {view.offset \div s, view.offset \div s + 1}

LEMMA AlignedSample ==
  ASSUME NEW s \in Nat \ {0}, NEW o \in Int, NEW u \in Nat, NEW i \in Nat, i < s
  PROVE  \/ (u * s + i + o) \div s = u + (o \div s)
         \/ o % s # 0 /\ (u * s + i + o) \div s = u + (o \div s + 1)
<1>2. PICK q \in Int, r \in Nat : q = o \div s /\ r = o % s /\ o = q * s + r /\ r < s
  BY WholePart
<1>3. PICK a \in Int, x \in Int, y \in Int : /\ a = (u + q) * s /\ x = u * s /\ y = q * s
                                             /\ x + y = a
  OBVIOUS
<1>4. (u + q + 1) * s = a + s /\ (u + (q + 1) + 1) * s = a + s + s
  BY <1>3
<1>5. u * s + i + o = a + i + r
  <2>1. o = y + r
    BY <1>2, <1>3
  <2> QED
    BY <1>3, <2>1
<1>6. CASE i + r < s
  <2>1. (u + q) * s <= a + i + r /\ a + i + r < (u + q + 1) * s
    BY <1>2, <1>3, <1>4, <1>6
  <2>2. (a + i + r) \div s = u + q
    <3>1. a + i + r \in Int /\ u + q \in Int
      OBVIOUS
    <3> QED
      BY <2>1, <3>1, WholePartIs
  <2> QED
    BY <1>2, <1>5, <2>2
<1>7. CASE ~(i + r < s)
  <2>1. (u + (q + 1)) * s <= a + i + r /\ a + i + r < (u + (q + 1) + 1) * s
    <3>1. u + (q + 1) = u + q + 1
      OBVIOUS
    <3> QED
      BY <1>2, <1>3, <1>4, <1>7, <3>1
  <2>2. (a + i + r) \div s = u + (q + 1)
    <3>1. a + i + r \in Int /\ u + (q + 1) \in Int
      OBVIOUS
    <3> QED
      BY <2>1, <3>1, WholePartIs
  <2>3. r # 0
    BY <1>7
  <2> QED
    BY <1>2, <1>5, <2>2, <2>3
<1> QED
  BY <1>6, <1>7

LEMMA AlignedRowReads ==
  ASSUME NEW s \in Nat \ {0}, NEW view, view.offset \in Int, SampleChunkSize(view) = s,
         NEW row \in Nat \X Nat, row[2] < s
  PROVE  \E e \in Straddles(view, s) : ChunkOf(view, Anchor(row, s) + view.offset) = row[1] + e
<1>1. row[1] \in Nat /\ row[2] \in Nat
  OBVIOUS
<1>2. \/ (row[1] * s + row[2] + view.offset) \div s = row[1] + (view.offset \div s)
      \/ /\ view.offset % s # 0
         /\ (row[1] * s + row[2] + view.offset) \div s = row[1] + (view.offset \div s + 1)
  BY <1>1, AlignedSample, Zenon
<1>3. ChunkOf(view, Anchor(row, s) + view.offset) = (row[1] * s + row[2] + view.offset) \div s
  BY DEF ChunkOf, Anchor
<1>4. view.offset \div s \in Straddles(view, s)
  BY DEF Straddles
<1>5. view.offset % s # 0 => view.offset \div s + 1 \in Straddles(view, s)
  BY DEF Straddles
<1> QED
  BY <1>2, <1>3, <1>4, <1>5, Zenon

LEMMA StraddlesAreFew ==
  ASSUME NEW s \in Nat \ {0}, NEW view, view.offset \in Int, SampleChunkSize(view) = s
  PROVE  IsFiniteSet(Straddles(view, s)) /\ Cardinality(Straddles(view, s)) = ChunksPerAnchor(view)
<1>1. view.offset \div s \in Int
  BY WholePart
<1>2. view.offset \div s # view.offset \div s + 1
  BY <1>1
<1> QED
  BY <1>2, SmallSets, FS_Singleton DEF Straddles, ChunksPerAnchor
(* What is charged for some keys, when it is known how many chunks of each *)
(* view they are.                                                          *)
NoMoreThan(c, T, m, f) ==
  \A v \in DOMAIN c.views :
    IsFiniteSet(T[v]) /\ Cardinality(T[v]) * BytesPerChunk(Dataset(c), v) <= m * f[v]

LEMMA KeysCharged ==
  ASSUME NEW c, Sound(c), NEW w, NEW S, S \subseteq ReadableKeys(c.views),
         \A k \in S : w[k] = KeyBytes(c, k),
         NEW T, NEW m \in Nat, NEW f, Counts(f, DOMAIN c.views), NoMoreThan(c, T, m, f),
         \A k \in S : \E v \in DOMAIN c.views : k[1] = c.views[v].path /\ k[2] \in T[v]
  PROVE  Counts(w, S) /\ SumOn(w, S) <= m * SumOn(f, DOMAIN c.views)
         /\ SumOn(w, S) \in Nat /\ SumOn(f, DOMAIN c.views) \in Nat
<1> DEFINE I == DOMAIN c.views
           K == [v \in I |-> {<<c.views[v].path, x>> : x \in T[v]}]
           B == [v \in I |-> BytesPerChunk(Dataset(c), v)]
<1>1. ASSUME NEW v \in I
      PROVE  /\ IsFiniteSet(K[v]) /\ B[v] \in Nat /\ Cardinality(K[v]) * B[v] <= m * f[v]
  <2>1. \A y \in K[v] : \E x \in T[v] : y = <<c.views[v].path, x>>
    OBVIOUS
  <2> HIDE DEF K
  <2>2. IsFiniteSet(T[v])
    BY DEF NoMoreThan
  <2>3. IsFiniteSet(K[v]) /\ Cardinality(K[v]) <= Cardinality(T[v]) /\ Cardinality(K[v]) \in Nat /\ Cardinality(T[v]) \in Nat
    BY <2>1, <2>2, TaggedAreFew
  <2>4. B[v] \in Nat
    BY ChargesOfViews
  <2>5. f[v] \in Nat
    BY DEF Counts
  <2>6. Cardinality(T[v]) * B[v] <= m * f[v]
    BY DEF NoMoreThan
  <2> HIDE DEF B
  <2>7. /\ Cardinality(K[v]) * B[v] \in Nat /\ Cardinality(T[v]) * B[v] \in Nat
        /\ Cardinality(K[v]) * B[v] <= Cardinality(T[v]) * B[v]
    BY <2>3, <2>4, TimesGrows
  <2>8. m * f[v] \in Nat
    BY <2>5
  <2> QED
    BY <2>3, <2>4, <2>6, <2>7, <2>8
<1>2. ASSUME NEW k \in S
      PROVE  \E v \in I : \E cid \in Nat : k = <<c.views[v].path, cid>>
  <2>1. PICK v \in I : k \in {c.views[v].path} \X Span(0, NChunks(c.views[v]))
    BY DEF ReadableKeys
  <2>2. k[2] \in Span(0, NChunks(c.views[v])) /\ k = <<c.views[v].path, k[2]>>
    BY <2>1
  <2>3. NChunks(c.views[v]) \in Nat
    BY CeilingIs DEF Sound, Readable, NChunks
  <2>4. k[2] \in Nat
    BY <2>2, <2>3 DEF Span
  <2> QED
    BY <2>2, <2>4
<1>3. \A v \in I : \A k \in K[v] \cap S : w[k] \in Nat /\ w[k] <= B[v]
  <2> SUFFICES ASSUME NEW v \in I, NEW k \in S, k \in K[v] PROVE w[k] \in Nat /\ w[k] <= B[v]
    OBVIOUS
  <2>1. PICK x : k = <<c.views[v].path, x>>
    OBVIOUS
  <2>2. PICK cid \in Nat : k[2] = cid
    BY <1>2
  <2>3. k = <<c.views[v].path, cid>>
    BY <2>1, <2>2
  <2> QED
    BY <2>3, KeysAreCharged
<1>4. S \subseteq UNION {K[v] : v \in I}
  <2> SUFFICES ASSUME NEW k \in S PROVE \E v \in I : k \in K[v]
    OBVIOUS
  <2>1. PICK v \in I : k[1] = c.views[v].path /\ k[2] \in T[v]
    OBVIOUS
  <2>2. k = <<k[1], k[2]>>
    BY <1>2
  <2> QED
    BY <2>1, <2>2
<1> HIDE DEF I, K, B
<1> QED
  BY <1>1, <1>3, <1>4, SumCharged DEF I

(* Arrays that chunk alike, and like the manifest: m anchor chunks read m  *)
(* times what one does.                                                    *)
Aligned(c) == \A v \in DOMAIN c.views : SampleChunkSize(c.views[v]) = c.refSpc
ReadFrom(c, k, A) == \E row \in Nat \X Nat : row[1] \in A /\ row[2] < c.refSpc /\ k \in RowKeys(row, c.views, c.refSpc)

LEMMA AlignedChunksCharged ==
  ASSUME NEW c, Sound(c), Aligned(c), NEW w, NEW S, S \subseteq ReadableKeys(c.views),
         \A k \in S : w[k] = KeyBytes(c, k),
         NEW A, IsFiniteSet(A), NEW m \in Nat, Cardinality(A) <= m, \A k \in S : ReadFrom(c, k, A)
  PROVE  Counts(w, S) /\ SumOn(w, S) <= m * SumOn(PerView(Dataset(c)), DOMAIN c.views)
         /\ SumOn(w, S) \in Nat /\ SumOn(PerView(Dataset(c)), DOMAIN c.views) \in Nat
<1> DEFINE I == DOMAIN c.views
           s == c.refSpc
           E(v) == Straddles(c.views[v], s)
           T == [v \in I |-> {z[1] + z[2] : z \in A \X E(v)}]
           d == Dataset(c)
<1>1. s \in Nat \ {0} /\ \A v \in I : c.views[v].offset \in Int /\ SampleChunkSize(c.views[v]) = s
  BY DEF Sound, Readable, Aligned
<1>2. /\ Counts(PerView(d), I)
      /\ \A v \in I : /\ ChunksPerAnchor(c.views[v]) \in {1, 2} /\ BytesPerChunk(d, v) \in Nat
                      /\ PerView(d)[v] = ChunksPerAnchor(c.views[v]) * BytesPerChunk(d, v)
  BY ChargesOfViews
<1>3. Cardinality(A) \in Nat
  BY FS_CardinalityType
<1> HIDE DEF s, d
<1>4. ASSUME NEW v \in I
      PROVE  /\ IsFiniteSet(T[v]) /\ Cardinality(T[v]) * BytesPerChunk(d, v) <= m * PerView(d)[v]
  <2>1. IsFiniteSet(E(v)) /\ Cardinality(E(v)) = ChunksPerAnchor(c.views[v])
    BY <1>1, StraddlesAreFew
  <2> DEFINE P == A \X E(v)
             g == [z \in P |-> z[1] + z[2]]
  <2> HIDE DEF E
  <2>2. IsFiniteSet(P) /\ Cardinality(P) = Cardinality(A) * Cardinality(E(v))
    BY <2>1, FS_Product
  <2>3. \A y \in T[v] : \E z \in P : y = g[z]
    OBVIOUS
  <2> HIDE DEF g, P, T
  <2>4. IsFiniteSet(T[v]) /\ Cardinality(T[v]) <= Cardinality(P) /\ Cardinality(T[v]) \in Nat
    BY <2>2, <2>3, ImageIsFew
  <2>5. PICK t \in Nat, a \in Nat, e \in Nat, b \in Nat :
          /\ t = Cardinality(T[v]) /\ a = Cardinality(A) /\ e = ChunksPerAnchor(c.views[v]) /\ b = BytesPerChunk(d, v)
          /\ t <= a * e /\ a <= m
    BY <1>2, <1>3, <2>1, <2>2, <2>4
  <2>6. a * e \in Nat /\ m * e \in Nat /\ a * e <= m * e
    BY <2>5, TimesGrows
  <2>7. t <= m * e
    BY <2>5, <2>6
  <2>8. t * b <= (m * e) * b
    BY <2>6, <2>7, TimesGrows
  <2>9. (m * e) * b = m * (e * b)
    OBVIOUS
  <2>10. PerView(d)[v] = e * b
    BY <1>2, <2>5
  <2>11. t * b <= m * PerView(d)[v]
    BY <2>8, <2>9, <2>10
  <2> QED
    BY <2>4, <2>5, <2>11
<1>5. ASSUME NEW k \in S
      PROVE  \E v \in I : k[1] = c.views[v].path /\ k[2] \in T[v]
  <2>1. PICK row \in Nat \X Nat : row[1] \in A /\ row[2] < s /\ k \in RowKeys(row, c.views, s)
    BY DEF ReadFrom, s
  <2>2. PICK v \in I : k = <<c.views[v].path, ChunkOf(c.views[v], Anchor(row, s) + c.views[v].offset)>>
    BY <2>1 DEF RowKeys
  <2>3. PICK u \in Nat : u = row[1]
    OBVIOUS
  <2>4. PICK e \in E(v) : ChunkOf(c.views[v], Anchor(row, s) + c.views[v].offset) = row[1] + e
    BY <1>1, <2>1, AlignedRowReads
  <2>5. k[2] = u + e
    BY <2>2, <2>3, <2>4
  <2>6. <<u, e>> \in A \X E(v)
    BY <2>1, <2>3
  <2> HIDE DEF E
  <2>7. <<u, e>>[1] + <<u, e>>[2] = u + e
    OBVIOUS
  <2>8. u + e \in T[v]
    BY <2>6, <2>7
  <2> QED
    BY <2>2, <2>5, <2>8
<1> HIDE DEF T, I
<1> QED
  BY <1>2, <1>4, <1>5, KeysCharged DEF I, d, NoMoreThan

-----------------------------------------------------------------------------
(* What is held when a block is awaited.                                   *)

(* A block draws from as many chunks as it was to be wide.                 *)
LEMMA BlockIsNarrow ==
  ASSUME NEW p, Planned(p), Sound(p.config), NEW b \in 1 .. Len(p.blocks)
  PROVE  /\ IsFiniteSet(p.blocks[b].chunks) /\ Cardinality(p.blocks[b].chunks) \in Nat
         /\ Cardinality(p.blocks[b].chunks) <= BlockChunks(p.config)
<1>1. PICK size \in Nat \ {0} : size = BlockChunks(p.config)
  BY OrderIs
<1>2. PICK w \in Nat : WindowIn(p, b, w)
  BY BlocksHaveWindows
<1>3. PICK from \in Nat : from = w * size
  OBVIOUS
<1> DEFINE perm == DrawnChunks(p.config)
           S == (from + 1) .. (from + size)
<1>4. ASSUME NEW x \in Nat, 1 <= x, WindowNo(x, size) = w PROVE x \in S
  <2>0. x - 1 \in Nat /\ (x - 1) \div size = w
    BY <1>4 DEF WindowNo
  <2>1. PICK y \in Nat : y = x - 1 /\ y \div size = w
    BY <2>0
  <2>5. /\ y \div size \in Int /\ (y \div size) * size <= y
        /\ y < (y \div size + 1) * size
    BY WholePart
  <2>2. PICK q \in Int : q = y \div size /\ q * size <= y /\ y < (q + 1) * size
    BY <2>5
  <2>3. PICK e \in Int : e = q * size /\ (q + 1) * size = e + size
    OBVIOUS
  <2>4. e = from
    BY <1>3, <2>1, <2>2, <2>3
  <2> QED
    BY <1>3, <2>1, <2>2, <2>3, <2>4
<1>5. Len(perm) \in Nat
  BY DrawnChunksAre DEF PermOf
<1> HIDE DEF perm, S
<1>6. ASSUME NEW y \in p.blocks[b].chunks PROVE \E x \in S : y = perm[x]
  <2>1. PICK i \in RowsIn(p, b) : y = RowAt(p, i)[1]
    BY BlockHasRows
  <2>2. PICK x \in 1 .. Len(perm) : y = perm[x] /\ WindowNo(x, size) = w
    BY <1>1, <1>2, <2>1 DEF WindowIn, perm
  <2> QED
    BY <1>4, <1>5, <2>2
<1>7. IsFiniteSet(S) /\ Cardinality(S) = size
  BY <1>3, FS_Interval DEF S
<1>8. /\ IsFiniteSet(p.blocks[b].chunks) /\ Cardinality(p.blocks[b].chunks) <= Cardinality(S)
      /\ Cardinality(p.blocks[b].chunks) \in Nat
  BY <1>6, <1>7, ImageIsFew
<1> QED
  BY <1>1, <1>7, <1>8
(* In a row of sequences each of which holds no element twice, an element  *)
(* stands no oftener than there are sequences that hold it.                *)
Copies(S, k, seqs, m, T) ==
  /\ IsFiniteSet(T)
  /\ \A c \in 1 .. m : Distinct(seqs[c]) /\ (k \in Terms(seqs[c]) => c \in T)
  /\ \A i \in S : i \in 1 .. Len(FlattenSeq(seqs)) /\ FlattenSeq(seqs)[i] = k

LEMMA CopiesAreFew ==
  ASSUME NEW E, NEW m, NEW seqs, Rowed(seqs, m, E), NEW S, NEW k, NEW T, Copies(S, k, seqs, m, T)
  PROVE  IsFiniteSet(S) /\ Cardinality(S) <= Cardinality(T)
<1> USE DEF Copies
<1> DEFINE before(c) == SumOn(LengthsOf(seqs), 1 .. c - 1)
           At2(i, c) == c \in 1 .. m /\ \E j \in 1 .. Len(seqs[c]) : i = before(c) + j
           f == [i \in S |-> CHOOSE c : At2(i, c)]
<1>1. ASSUME NEW i \in S
      PROVE  At2(i, f[i])
  <2>1. \E c \in 1 .. m : \E j \in 1 .. Len(seqs[c]) : i = SumOn(LengthsOf(seqs), 1 .. c - 1) + j
    BY PlaceOf
  <2>2. \E c : At2(i, c)
    BY <2>1
  <2> HIDE DEF At2
  <2> QED
    BY <2>2
<1>2. ASSUME NEW i \in S, NEW c, NEW j \in 1 .. Len(seqs[c]), c \in 1 .. m, i = before(c) + j
      PROVE  seqs[c][j] = k
  BY <1>2, Placed
<1>6. f = [i \in S |-> f[i]]
  <2> HIDE DEF At2
  <2> QED
    OBVIOUS
<1> HIDE DEF before, f
<1>3. ASSUME NEW i \in S PROVE f[i] \in T
  <2>1. f[i] \in 1 .. m
    BY <1>1
  <2>2. PICK j \in 1 .. Len(seqs[f[i]]) : i = before(f[i]) + j
    BY <1>1
  <2>3. seqs[f[i]][j] = k
    BY <1>2, <2>1, <2>2
  <2>4. k \in Terms(seqs[f[i]])
    BY <2>3 DEF Terms
  <2> QED
    BY <2>1, <2>4
<1>4. ASSUME NEW i \in S, NEW z \in S, f[i] = f[z] PROVE i = z
  <2>1. PICK c \in 1 .. m : c = f[i]
    BY <1>1
  <2>2. PICK j \in 1 .. Len(seqs[c]) : i = before(c) + j
    BY <1>1, <2>1
  <2>3. PICK y \in 1 .. Len(seqs[c]) : z = before(c) + y
    BY <1>1, <1>4, <2>1
  <2>4. seqs[c][j] = k /\ seqs[c][y] = k
    BY <1>2, <2>2, <2>3
  <2>5. j = y
    BY <2>4 DEF Distinct
  <2> QED
    BY <2>2, <2>3, <2>5
<1>5. f \in Injection(S, T)
  <2>1. f \in [S -> T]
    BY <1>3, <1>6
  <2> QED
    BY <1>4, <2>1 DEF Injection, IsInjective
<1> QED
  BY <1>5, FS_Injection
LEMMA ReadsAreDistinct ==
  ASSUME NEW p, Planned(p), NEW c \in 1 .. Len(p.blocks)
  PROVE  Distinct(ReadsOfPlan(p, Len(p.blocks))[c])
<1> DEFINE reads == ReadsOfBlock(GroupsOf(p.blocks)[c], p.config.views, p.config.refSpc)
           keys == KeysOfAnchors(p.blocks[c].chunks, p.config.views, p.config.refSpc)
<1>1. ReadsAre(reads, keys, p.config.views)
  BY ReadsOfPlanAre
<1>2. ReadsOfPlan(p, Len(p.blocks))[c] = reads
  BY DEF ReadsOfPlan
<1> HIDE DEF reads, keys
<1>3. PICK s \in Seq(ReadableKeys(p.config.views)) : reads = Unseen(s)
  BY <1>1 DEF ReadsAre
<1>4. Distinct(reads)
  BY <1>3, UnseenHolds DEF Distinct
<1> QED
  BY <1>2, <1>4

(* What a pass that keeps to its first reads holds when a block is awaited *)
(* has been read for and is still to be read: no block before the one that *)
(* reads it last gives it back.                                            *)
LEMMA HeldUntilRead ==
  ASSUME Made(plan), ~plan.reread, ClaimsNoMore(plan), BatchesSpanTwoBlocks,
         NEW b \in 1 .. NBlocksOf, NEW k \in HeldFor(b)
  PROVE  \E x, y \in 1 .. NBlocksOf :
           /\ x <= b /\ b <= y + 1
           /\ k \in plan.blocks[x].keys /\ k \in plan.blocks[y].keys
<1> DEFINE n == NBlocksOf
           blocks == plan.blocks
           F == FreedFor(b)
           S == {i \in 1 .. plan.claimedBy[b] : plan.admissions[i] = k}
           T == {c \in F : k \in plan.release[c]}
<1>1. /\ Legible(blocks) /\ n \in Nat /\ DOMAIN blocks = 1 .. n
      /\ plan.release = Release(blocks, FALSE)
  BY MadeOf DEF NBlocksOf, Legible, Release
<1>2. /\ F \subseteq 1 .. n /\ \A c \in F : c < b
      /\ \A c \in 1 .. n : c + 1 < b => c \in F
  BY DrainedBefore
<1>3. Cardinality(S) > Cardinality(T)
  BY DEF HeldFor, ClaimsOf, ReleasesOf
<1>4. IsFiniteSet(T) /\ Cardinality(T) \in Nat
  <2>1. IsFiniteSet(1 .. n)
    BY <1>1, FS_Interval
  <2>2. T \in SUBSET (1 .. n)
    BY <1>2
  <2> HIDE DEF T, n
  <2> QED
    BY <2>1, <2>2, FS_Subset, FS_CardinalityType
<1>5. \A i, j \in S : i = j
  <2>1. plan.claimedBy[b] \in 0 .. Len(plan.admissions) /\ Len(plan.admissions) \in Nat
    BY DEF Made, Coherent, ClaimedAhead, Sized, NBlocksOf
  <2>2. \A i, j \in 1 .. Len(plan.admissions) : plan.admissions[i] = plan.admissions[j] => i = j
    BY DEF Made, Coherent, ClaimedAhead
  <2> QED
    BY <2>1, <2>2
<1> HIDE DEF n, blocks, F
<1>6. S # {}
  <2>1. S = {} => Cardinality(S) = 0
    BY FS_EmptySet
  <2> HIDE DEF S, T
  <2> QED
    BY <1>3, <1>4, <2>1
<1>7. PICK i \in S : S = {i}
  BY <1>5, <1>6
<1>8. Cardinality(S) = 1
  BY <1>7, FS_Singleton
<1>9. PICK x \in 1 .. b : k \in blocks[x].keys
  BY <1>7 DEF ClaimsNoMore, NBlocksOf, blocks
<1>10. x \in 1 .. n /\ x \in Nat /\ b \in Nat /\ x <= b /\ k \in KeysOf(blocks)
  <2>1. x \in 1 .. n /\ x \in Nat /\ b \in Nat /\ x <= b
    BY <1>1 DEF n
  <2> QED
    BY <1>1, <1>9, <2>1 DEF KeysOf
<1>11. PICK y \in 1 .. n : y = LastUse(blocks, k)
  BY <1>1, <1>10, FirstAndLast
<1>12. k \in blocks[y].keys /\ k \in plan.release[y]
  BY <1>1, <1>10, <1>11, FirstAndLast, HandedBackOnce
<1>13. T = {}
  <2>1. Cardinality(T) = 0
    <3> HIDE DEF S, T
    <3> QED
      BY <1>3, <1>4, <1>8
  <2> QED
    BY <1>4, <2>1, FS_EmptySet
<1>14. ~(y + 1 < b)
  BY <1>2, <1>12, <1>13
<1>15. b <= y + 1
  BY <1>1, <1>10, <1>14
<1> QED
  BY <1>9, <1>10, <1>12, <1>15 DEF n, blocks
(* A pass that rereads claims the keys of every block and gives a block's  *)
(* keys back with the block: it holds what the block awaited and the one   *)
(* before it read.                                                         *)
LEMMA HeldByTwo ==
  ASSUME Made(plan), plan.reread, DeclaredIsAwaited, BatchesSpanTwoBlocks,
         NEW b \in 1 .. NBlocksOf, NEW k \in HeldFor(b)
  PROVE  \E x \in 1 .. NBlocksOf : x <= b /\ b <= x + 1 /\ k \in plan.blocks[x].keys
<1> DEFINE n == NBlocksOf
           blocks == plan.blocks
           F == FreedFor(b)
           S == {i \in 1 .. plan.claimedBy[b] : plan.admissions[i] = k}
           T == {c \in F : k \in plan.release[c]}
           E == ReadableKeys(plan.config.views)
           seqs == ReadsOfPlan(plan, n)
           first == ReadsOfPlan(plan, b)
<1> SUFFICES ASSUME \A x \in 1 .. n : x <= b /\ b <= x + 1 => k \notin blocks[x].keys
             PROVE  FALSE
  OBVIOUS
<1>1. /\ Legible(blocks) /\ n \in Nat /\ DOMAIN blocks = 1 .. n /\ n = Len(blocks)
      /\ plan.release = Release(blocks, TRUE) /\ Planned(plan)
  BY MadeOf DEF NBlocksOf, Legible, Release, Made
<1>2. /\ F \subseteq 1 .. n /\ \A c \in F : c < b
      /\ \A c \in 1 .. n : c + 1 < b => c \in F
  BY DrainedBefore
<1>3. Cardinality(S) > Cardinality(T)
  BY DEF HeldFor, ClaimsOf, ReleasesOf
<1>4. IsFiniteSet(T) /\ Cardinality(T) \in Nat
  <2>1. IsFiniteSet(1 .. n)
    BY <1>1, FS_Interval
  <2>2. T \in SUBSET (1 .. n)
    BY <1>2
  <2> HIDE DEF T, n
  <2> QED
    BY <2>1, <2>2, FS_Subset, FS_CardinalityType
<1>5. ASSUME NEW c \in 1 .. n
      PROVE  seqs[c] \in Seq(E) /\ Terms(seqs[c]) = blocks[c].keys /\ Distinct(seqs[c])
  <2>1. seqs[c] = ReadsOfBlock(GroupsOf(plan.blocks)[c], plan.config.views, plan.config.refSpc)
    BY DEF ReadsOfPlan
  <2>2. seqs[c] \in Seq(E)
    BY <1>1, ReadsHold
  <2>3. ToSet(seqs[c]) = blocks[c].keys
    BY <1>1, <2>1 DEF DeclaredIsAwaited, Blocked, Config
  <2>4. Distinct(seqs[c])
    BY <1>1, ReadsAreDistinct
  <2> HIDE DEF seqs, E
  <2>5. DOMAIN seqs[c] = 1 .. Len(seqs[c])
    BY <2>2
  <2>6. Terms(seqs[c]) = blocks[c].keys
    BY <2>3, <2>5 DEF ToSet, Terms
  <2> QED
    BY <2>2, <2>4, <2>6
<1>6. b \in Nat /\ \A c \in 1 .. b : c \in 1 .. n
  BY <1>1
<1>7. Rowed(first, b, E) /\ \A c \in 1 .. b : first[c] = seqs[c]
  <2>1. \A c \in 1 .. b : first[c] = seqs[c]
    BY <1>6 DEF ReadsOfPlan
  <2>2. DOMAIN first = 1 .. b /\ Len(first) = b /\ first = [c \in 1 .. b |-> first[c]]
    BY <1>6 DEF ReadsOfPlan
  <2> HIDE DEF first, seqs, n, E
  <2>3. \A c \in 1 .. b : first[c] \in Seq(E)
    BY <1>5, <1>6, <2>1
  <2> QED
    BY <1>6, <2>1, <2>2, <2>3 DEF Rowed
<1>8. PICK flat, all :
        /\ flat = FlattenSeq(first) /\ Begins(flat, all)
        /\ plan.claimedBy[b] = Len(flat) /\ plan.admissions = all
  <2>1. \E flat, all :
           /\ flat = FlattenSeq(ReadsOfPlan(plan, b)) /\ all \in Seq(E)
           /\ flat \in Seq(E) /\ Begins(flat, all)
           /\ Terms(flat) = TermsUpTo(seqs, b)
           /\ plan.claimedBy[b] = Len(IF plan.reread THEN flat ELSE Unseen(flat))
           /\ plan.admissions = (IF plan.reread THEN all ELSE Unseen(all))
    BY <1>1, ClaimsBegin
  <2> QED
    BY <2>1
<1> HIDE DEF n, blocks, F, seqs, first, E
<1>9. \A c \in 1 .. b : Distinct(first[c]) /\ (k \in Terms(first[c]) => c \in T)
  <2> SUFFICES ASSUME NEW c \in 1 .. b
               PROVE  Distinct(first[c]) /\ (k \in Terms(first[c]) => c \in T)
    OBVIOUS
  <2>1. c \in 1 .. n /\ first[c] = seqs[c] /\ c \in Nat /\ c <= b
    BY <1>6, <1>7
  <2>2. Distinct(first[c]) /\ Terms(first[c]) = blocks[c].keys
    BY <1>5, <2>1
  <2>3. ASSUME k \in blocks[c].keys PROVE c \in T
    <3>1. ~(b <= c + 1)
      BY <2>1, <2>3 DEF blocks, n
    <3>2. c \in F
      BY <1>2, <1>6, <2>1, <3>1
    <3>3. plan.release[c] = blocks[c].keys
      BY <1>1, <2>1 DEF Release
    <3> QED
      BY <2>3, <3>2, <3>3
  <2> QED
    BY <2>2, <2>3
<1>10. \A i \in S : i \in 1 .. Len(FlattenSeq(first)) /\ FlattenSeq(first)[i] = k
  <2> SUFFICES ASSUME NEW i \in 1 .. plan.claimedBy[b], plan.admissions[i] = k
               PROVE  i \in 1 .. Len(FlattenSeq(first)) /\ FlattenSeq(first)[i] = k
    OBVIOUS
  <2>1. i \in 1 .. Len(flat) /\ all[i] = k
    BY <1>8
  <2>2. all[i] = flat[i]
    BY <1>8, <2>1 DEF Begins
  <2> QED
    BY <1>8, <2>1, <2>2
<1> HIDE DEF S, T
<1>11. IsFiniteSet(S) /\ Cardinality(S) <= Cardinality(T)
  <2>1. Rowed(first, b, E)
    BY <1>7
  <2>2. Copies(S, k, first, b, T)
    BY <1>4, <1>9, <1>10 DEF Copies
  <2> QED
    BY <2>1, <2>2, CopiesAreFew
<1>12. Cardinality(S) \in Nat
  BY <1>11, FS_CardinalityType
<1> QED
  BY <1>3, <1>4, <1>11, <1>12
-----------------------------------------------------------------------------
(* What the floor counts.                                                  *)

TrainChunks(c) == Cardinality(c.manifest.train)
Spread(c) == CeilDiv(MaxOffset(c.views) - MinOffset(c.views), SampleChunkSize(c.views[1]))
ViewsBytes(c, samples) == [v \in DOMAIN c.views |-> ViewBytes(Dataset(c), v, samples)]

LEMMA MeasuresAre ==
  ASSUME NEW c, Sound(c)
  PROVE  /\ TrainChunks(c) \in Nat /\ Spread(c) \in Nat /\ BlockChunks(c) \in Nat \ {0}
         /\ IsFiniteSet(c.manifest.train)
         /\ MaxOffset(c.views) - MinOffset(c.views) \in Nat
         /\ \A v \in DOMAIN c.views : /\ c.views[v].offset \in Int
                                      /\ MinOffset(c.views) <= c.views[v].offset
                                      /\ c.views[v].offset <= MaxOffset(c.views)
         /\ MinOffset(c.views) \in Int /\ MaxOffset(c.views) \in Int
<1>1. CeilDiv(c.n, c.refSpc) \in Nat /\ c.manifest.train \subseteq Span(0, CeilDiv(c.n, c.refSpc))
  BY CeilingIs DEF Sound, Parts
<1>2. IsFiniteSet(Span(0, CeilDiv(c.n, c.refSpc)))
  BY <1>1, FS_Interval DEF Span
<1>3. TrainChunks(c) \in Nat /\ IsFiniteSet(c.manifest.train)
  BY <1>1, <1>2, FS_Subset, FS_CardinalityType DEF TrainChunks
<1>4. MaxOffset(c.views) - MinOffset(c.views) \in Nat
  BY OffsetsLie DEF Sound, Viewing
<1>5. SampleChunkSize(c.views[1]) \in Nat \ {0}
  BY ChargesOfPaths DEF Sound, Readable
<1>6. Spread(c) \in Nat
  BY <1>4, <1>5, CeilingIs DEF Spread
<1>7. BlockChunks(c) \in Nat \ {0}
  BY OrderIs
<1>8. /\ \A v \in DOMAIN c.views : /\ c.views[v].offset \in Int
                                   /\ MinOffset(c.views) <= c.views[v].offset
                                   /\ c.views[v].offset <= MaxOffset(c.views)
      /\ MinOffset(c.views) \in Int /\ MaxOffset(c.views) \in Int
  BY OffsetsLie DEF Sound, Viewing, Readable
<1> QED
  BY <1>3, <1>4, <1>6, <1>7, <1>8

LEMMA FloorOfAligned ==
  ASSUME NEW c, Sound(c), UniformSpc(Dataset(c))
  PROVE  LET per == SumOn(PerView(Dataset(c)), DOMAIN c.views)
             each == SumOn(PerPath(Dataset(c)), PathsOf(Dataset(c)))
         IN  /\ per \in Nat /\ each \in Nat /\ WorkingSet(c) \in Nat
             /\ (2 * BlockChunks(c)) * per <= WorkingSet(c)
             /\ Windowed(Dataset(c)) /\ c.shuffle /\ ~RereadSpill(c)
                  => (TrainChunks(c) + Spread(c)) * each <= WorkingSet(c)
<1> DEFINE d == Dataset(c)
           per == SumOver(PerView(d))
           each == SumOver(PerPath(d))
           blocks == (IF RereadSpill(c) THEN 3 ELSE 2) * BlockChunks(c) * per
           reach == TrainChunks(c) + Spread(c)
<1>1. /\ d.views = c.views /\ d.blockChunks = BlockChunks(c) /\ d.shuffle = c.shuffle
  BY DEF Dataset
<1>2. DOMAIN PerView(d) = DOMAIN c.views /\ DOMAIN PerPath(d) = PathsOf(d)
  BY <1>1 DEF PerView, PerPath
<1>3. per = SumOn(PerView(d), DOMAIN c.views) /\ each = SumOn(PerPath(d), PathsOf(d)) /\ BytesPerPath(d) = each
  BY <1>2, ChargesOfPaths DEF SumOver
<1>4. per \in Nat /\ each \in Nat
  BY <1>3, ChargesOfViews, ChargesOfPaths, NumberedIsFinite
<1>5. WorkingSet(c) = IF Windowed(d) /\ d.shuffle /\ ~RereadSpill(c) THEN MaxOf(blocks, reach * BytesPerPath(d)) ELSE blocks
  <2>1. WorkingSet(c) = UniformFloor(d, TrainChunks(c), RereadSpill(c))
    BY DEF WorkingSet, WorkingSetBytes, TrainChunks
  <2>2. UniformFloor(d, TrainChunks(c), RereadSpill(c))
          = IF Windowed(d) /\ d.shuffle /\ ~RereadSpill(c) THEN MaxOf(blocks, reach * BytesPerPath(d)) ELSE blocks
    BY <1>1 DEF UniformFloor, PerView, Spread
  <2> QED
    BY <2>1, <2>2
<1> HIDE DEF d, per, each
<1>6. TrainChunks(c) \in Nat /\ Spread(c) \in Nat /\ BlockChunks(c) \in Nat /\ WorkingSet(c) \in Nat
  BY MeasuresAre, FloorIsNumber
<1>7. blocks \in Nat /\ reach * each \in Nat /\ (2 * BlockChunks(c)) * per <= blocks /\ (2 * BlockChunks(c)) * per \in Nat
  <2>1. ASSUME NEW w \in Nat, NEW x \in Nat
        PROVE  /\ (2 * w) * x <= 2 * w * x /\ 2 * w * x <= 3 * w * x
               /\ 2 * w * x \in Nat /\ 3 * w * x \in Nat /\ (2 * w) * x \in Nat
    <3>1. PICK z \in Nat : z = w * x
      OBVIOUS
    <3>2. 2 * w * x = 2 * z /\ 3 * w * x = 3 * z /\ (2 * w) * x = 2 * z
      BY <3>1
    <3> QED
      BY <3>1, <3>2
  <2> QED
    BY <1>4, <1>6, <2>1
<1> HIDE DEF blocks, reach
<1>8. blocks <= WorkingSet(c) /\ (Windowed(d) /\ d.shuffle /\ ~RereadSpill(c) => reach * each <= WorkingSet(c))
  BY <1>3, <1>5, <1>7 DEF MaxOf
<1>9. (2 * BlockChunks(c)) * per <= WorkingSet(c)
  BY <1>6, <1>7, <1>8
<1> QED
  BY <1>1, <1>3, <1>4, <1>6, <1>8, <1>9 DEF reach, d

LEMMA FloorOfMixed ==
  ASSUME NEW c, Sound(c), ~UniformSpc(Dataset(c))
  PROVE  LET floorOf(samples) == SumOn(ViewsBytes(c, samples), DOMAIN c.views)
         IN  /\ WorkingSet(c) \in Nat
             /\ floorOf((2 * BlockChunks(c)) * c.refSpc) <= WorkingSet(c)
             /\ c.shuffle => floorOf(TrainChunks(c) * c.refSpc) <= WorkingSet(c)
<1> DEFINE d == Dataset(c)
           floorOf(samples) == SumOn(ViewsBytes(c, samples), DOMAIN c.views)
           near == (2 * BlockChunks(c)) * c.refSpc
           far == TrainChunks(c) * c.refSpc
<1>1. /\ d.views = c.views /\ d.blockChunks = BlockChunks(c) /\ d.shuffle = c.shuffle /\ d.refSpc = c.refSpc
  BY DEF Dataset
<1>2. TrainChunks(c) \in Nat /\ BlockChunks(c) \in Nat /\ c.refSpc \in Nat /\ WorkingSet(c) \in Nat
  BY MeasuresAre, FloorIsNumber DEF Sound
<1>3. 2 * BlockChunks(c) * c.refSpc = near /\ near \in Nat /\ far \in Nat
  BY <1>2
<1>4. \A samples : SumOver([v \in DOMAIN d.views |-> ViewBytes(d, v, samples)]) = floorOf(samples)
  BY <1>1 DEF SumOver, ViewsBytes
<1>5. WorkingSet(c) = IF d.shuffle THEN MaxOf(floorOf(near), floorOf(far)) ELSE floorOf(near)
  <2>1. WorkingSet(c) = MixedFloor(d, TrainChunks(c))
    BY DEF WorkingSet, WorkingSetBytes, TrainChunks
  <2> HIDE DEF floorOf
  <2>2. MixedFloor(d, TrainChunks(c)) = IF d.shuffle THEN MaxOf(floorOf(near), floorOf(far)) ELSE floorOf(near)
    BY <1>1, <1>3, <1>4 DEF MixedFloor
  <2> QED
    BY <2>1, <2>2
<1>6. \A samples \in Nat : floorOf(samples) \in Nat
  BY ChargesOfViews, NumberedIsFinite DEF ViewsBytes
<1> HIDE DEF near, far, floorOf, d
<1>7. floorOf(near) <= WorkingSet(c) /\ (d.shuffle => floorOf(far) <= WorkingSet(c))
  BY <1>3, <1>5, <1>6 DEF MaxOf
<1> QED
  BY <1>1, <1>2, <1>7 DEF floorOf, near, far, d
-----------------------------------------------------------------------------
(* Where a held key belongs to the block awaited or to the one before it.  *)

NearBlocks(p, b) == {x \in 1 .. Len(p.blocks) : x <= b /\ b <= x + 1}
NearChunks(p, b) == UNION {p.blocks[x].chunks : x \in NearBlocks(p, b)}
HeldNear(p, b, S) == \A k \in S : \E x \in NearBlocks(p, b) : k \in p.blocks[x].keys

LEMMA NearIsFew ==
  ASSUME NEW p, Planned(p), Sound(p.config), NEW b \in 1 .. Len(p.blocks)
  PROVE  /\ IsFiniteSet(NearChunks(p, b))
         /\ Cardinality(NearChunks(p, b)) <= 2 * BlockChunks(p.config)
<1> DEFINE n == Len(p.blocks)
           w == BlockChunks(p.config)
<1>1. n \in Nat /\ w \in Nat \ {0}
  BY PlannedBlocks, MeasuresAre
<1>2. ASSUME NEW x \in 1 .. n
      PROVE  IsFiniteSet(p.blocks[x].chunks) /\ Cardinality(p.blocks[x].chunks) \in Nat /\ Cardinality(p.blocks[x].chunks) <= w
  BY BlockIsNarrow
<1>3. CASE b = 1
  <2>1. NearBlocks(p, b) = {b}
    BY <1>1, <1>3 DEF NearBlocks
  <2>2. NearChunks(p, b) = p.blocks[b].chunks
    BY <2>1 DEF NearChunks
  <2> HIDE DEF n, w
  <2> QED
    BY <1>1, <1>2, <2>2 DEF w, n
<1>4. CASE b # 1
  <2>1. b - 1 \in 1 .. n /\ b \in 1 .. n
    BY <1>1, <1>4
  <2>2. NearBlocks(p, b) = {b - 1, b}
    BY <1>1, <2>1 DEF NearBlocks
  <2> DEFINE P == p.blocks[b - 1].chunks
             Q == p.blocks[b].chunks
  <2>3. NearChunks(p, b) = P \cup Q
    BY <2>2 DEF NearChunks
  <2>4. /\ IsFiniteSet(P) /\ Cardinality(P) \in Nat /\ Cardinality(P) <= w
        /\ IsFiniteSet(Q) /\ Cardinality(Q) \in Nat /\ Cardinality(Q) <= w
    BY <1>2, <2>1
  <2> HIDE DEF P, Q
  <2>5. IsFiniteSet(P \cup Q) /\ Cardinality(P \cup Q) <= Cardinality(P) + Cardinality(Q)
    BY <2>4, CountOfBoth
  <2>6. Cardinality(P \cup Q) \in Nat
    BY <2>5, FS_CardinalityType
  <2> HIDE DEF w
  <2>7. Cardinality(P \cup Q) <= 2 * w
    BY <1>1, <2>4, <2>5, <2>6
  <2> QED
    BY <2>3, <2>5, <2>7 DEF w
<1> QED
  BY <1>3, <1>4

LEMMA WeightsAre ==
  ASSUME NEW p, Planned(p), Sound(p.config), NEW k \in ReadableKeys(p.config.views)
  PROVE  p.weight[k] = KeyBytes(p.config, k)
<1>1. p.weight = [j \in ChargedKeys(p.config) |-> KeyBytes(p.config, j)]
  BY DEF Planned, PlanOf
<1>2. ChargedKeys(p.config) = ReadableKeys(p.config.views)
  BY ChargedAre
<1> QED
  BY <1>1, <1>2

LEMMA NearIsReadFrom ==
  ASSUME NEW p, Planned(p), Sound(p.config), NEW b \in 1 .. Len(p.blocks),
         NEW x \in NearBlocks(p, b), NEW k \in p.blocks[x].keys
  PROVE  ReadFrom(p.config, k, NearChunks(p, b))
<1>1. x \in 1 .. Len(p.blocks)
  BY DEF NearBlocks
<1>2. PICK i \in RowsIn(p, x) : k \in RowKeys(RowAt(p, i), p.config.views, p.config.refSpc)
  BY <1>1, BlockHasRows
<1>3. i \in 1 .. Len(OrderOf(p.config).rows) /\ RowAt(p, i)[1] \in p.blocks[x].chunks
  BY <1>1, BlockHasRows
<1>4. RowAt(p, i) \in RowsOn(ChunkIds(p.config.manifest, p.config.part), p.config.views, p.config.refSpc, p.config.n)
  BY <1>3, RowsAreDrawn
<1>5. RowAt(p, i) \in Nat \X Nat /\ RowAt(p, i)[2] < p.config.refSpc
  BY <1>4, RowKeysAre DEF RowsOn, RowsOf, Sound
<1>6. RowAt(p, i)[1] \in NearChunks(p, b)
  BY <1>3 DEF NearChunks
<1> QED
  BY <1>2, <1>5, <1>6 DEF ReadFrom

(* What is so held counts, on arrays that chunk with the manifest, one or  *)
(* two chunks of a view to a chunk of either block.                        *)
LEMMA NearIsCharged ==
  ASSUME NEW p, Planned(p), Sound(p.config), Aligned(p.config), UniformSpc(Dataset(p.config)),
         NEW b \in 1 .. Len(p.blocks), NEW S, S \subseteq ReadableKeys(p.config.views), HeldNear(p, b, S)
  PROVE  SumOn(p.weight, S) <= WorkingSet(p.config)
<1> DEFINE c == p.config
           per == SumOn(PerView(Dataset(c)), DOMAIN c.views)
           m == 2 * BlockChunks(c)
<1>1. IsFiniteSet(NearChunks(p, b)) /\ Cardinality(NearChunks(p, b)) <= m
  BY NearIsFew
<1>2. \A k \in S : p.weight[k] = KeyBytes(c, k)
  BY WeightsAre
<1>3. \A k \in S : ReadFrom(c, k, NearChunks(p, b))
  BY NearIsReadFrom DEF HeldNear
<1>4. m \in Nat
  BY MeasuresAre
<1>5. per \in Nat /\ WorkingSet(c) \in Nat /\ m * per <= WorkingSet(c)
  BY FloorOfAligned
<1> HIDE DEF c, m
<1>6. SumOn(p.weight, S) <= m * per /\ SumOn(p.weight, S) \in Nat
  BY <1>1, <1>2, <1>3, <1>4, AlignedChunksCharged DEF c
<1> HIDE DEF per
<1>7. m * per \in Nat
  BY <1>4, <1>5
<1>8. SumOn(p.weight, S) <= WorkingSet(c)
  BY <1>5, <1>6, <1>7
<1> QED
  BY <1>8 DEF c
(* Without a window a key is that of the chunk its rows are drawn from,    *)
(* and so of one block.                                                    *)
LEMMA KeysOfOneBlock ==
  ASSUME NEW p, Planned(p), Sound(p.config), Aligned(p.config), ~Windowed(Dataset(p.config)),
         NEW x \in 1 .. Len(p.blocks), NEW y \in 1 .. Len(p.blocks),
         NEW k, k \in p.blocks[x].keys, k \in p.blocks[y].keys
  PROVE  x = y
<1> DEFINE c == p.config
<1>1. ASSUME NEW z \in 1 .. Len(p.blocks), k \in p.blocks[z].keys
      PROVE  k[2] \in p.blocks[z].chunks
  <2>1. PICK i \in RowsIn(p, z) : k \in RowKeys(RowAt(p, i), c.views, c.refSpc)
    BY <1>1, BlockHasRows
  <2>2. i \in 1 .. Len(OrderOf(c).rows) /\ RowAt(p, i)[1] \in p.blocks[z].chunks
    BY BlockHasRows
  <2>3. RowAt(p, i) \in RowsOn(ChunkIds(c.manifest, c.part), c.views, c.refSpc, c.n)
    BY <2>2, RowsAreDrawn
  <2>4. RowAt(p, i) \in Nat \X Nat /\ RowAt(p, i)[2] < c.refSpc
    BY <2>3, RowKeysAre DEF RowsOn, RowsOf, Sound
  <2>5. PICK v \in DOMAIN c.views : k = <<c.views[v].path, ChunkOf(c.views[v], Anchor(RowAt(p, i), c.refSpc) + c.views[v].offset)>>
    BY <2>1 DEF RowKeys
  <2>6. PICK s \in Nat \ {0} : s = c.refSpc /\ SampleChunkSize(c.views[v]) = s /\ c.views[v].offset = 0
    BY DEF Sound, Aligned, Windowed, Dataset
  <2>7. PICK row \in Nat \X Nat : row = RowAt(p, i) /\ row[2] < s
    BY <2>4, <2>6
  <2>8. PICK e \in Straddles(c.views[v], s) : ChunkOf(c.views[v], Anchor(row, s) + c.views[v].offset) = row[1] + e
    BY <2>6, <2>7, AlignedRowReads
  <2>9. e = 0
    <3>1. 0 % s = 0 /\ 0 \div s = 0
      BY <2>6
    <3> QED
      BY <2>6, <2>8, <3>1 DEF Straddles
  <2>10. k[2] = row[1]
    BY <2>5, <2>6, <2>7, <2>8, <2>9
  <2> QED
    BY <2>2, <2>7, <2>10
<1>2. k[2] \in p.blocks[x].chunks /\ k[2] \in p.blocks[y].chunks
  BY <1>1
<1>3. Len(p.blocks) \in Nat
  BY PlannedBlocks
<1>4. ~(x < y) /\ ~(y < x)
  BY <1>2, BlocksShareNoChunk
<1> QED
  BY <1>3, <1>4

LEMMA BudgetHoldsFloor ==
  ASSUME Made(plan), Sound(Config)
  PROVE  WorkingSet(Config) <= plan.budget /\ plan.budget \in Nat
<1>1. plan.budget = MaxOf(Config.userBudget, WorkingSet(Config))
  BY DEF Made, Planned, PlanOf, Config
<1>2. WorkingSet(Config) \in Nat /\ Config.userBudget \in Nat
  BY FloorIsNumber DEF Sound
<1> QED
  BY <1>1, <1>2 DEF MaxOf

LEMMA HeldIsKnown ==
  ASSUME Made(plan), Sound(Config), NEW b \in 1 .. NBlocksOf
  PROVE  HeldFor(b) \subseteq ReadableKeys(Config.views)
<1>1. DOMAIN plan.weight = ReadableKeys(plan.config.views)
  BY KeysAreKnown DEF Made, Config
<1> QED
  BY <1>1 DEF HeldFor, Keys, Config

LEMMA FloorHoldsWithoutWindow ==
  ASSUME Made(plan), Sound(Config), Aligned(Config), UniformSpc(Dataset(Config)),
         BatchesSpanTwoBlocks, DeclaredIsAwaited, Windowed(Dataset(Config)) => plan.reread,
         NEW b \in 1 .. NBlocksOf
  PROVE  Weight(HeldFor(b)) <= WorkingSet(Config)
<1>1. b \in 1 .. Len(plan.blocks) /\ Planned(plan) /\ Sound(plan.config)
  BY DEF NBlocksOf, Made, Config
<1>2. HeldNear(plan, b, HeldFor(b))
  <2> SUFFICES ASSUME NEW k \in HeldFor(b)
               PROVE  \E x \in NearBlocks(plan, b) : k \in plan.blocks[x].keys
    BY DEF HeldNear
  <2>1. CASE plan.reread
    <3>1. PICK x \in 1 .. NBlocksOf : x <= b /\ b <= x + 1 /\ k \in plan.blocks[x].keys
      BY <2>1, HeldByTwo
    <3> QED
      BY <3>1 DEF NearBlocks, NBlocksOf
  <2>2. CASE ~plan.reread
    <3>1. ClaimsNoMore(plan)
      BY DeclaredIsClaimed
    <3>2. PICK x, y \in 1 .. NBlocksOf : x <= b /\ b <= y + 1 /\ k \in plan.blocks[x].keys /\ k \in plan.blocks[y].keys
      BY <2>2, <3>1, HeldUntilRead
    <3>3. x = y
      BY <1>1, <2>2, <3>2, KeysOfOneBlock DEF NBlocksOf, Config
    <3> QED
      BY <3>2, <3>3 DEF NearBlocks, NBlocksOf
  <2> QED
    BY <2>1, <2>2
<1>3. HeldFor(b) \subseteq ReadableKeys(plan.config.views)
  BY HeldIsKnown DEF Config
<1>4. SumOn(plan.weight, HeldFor(b)) <= WorkingSet(plan.config)
  BY <1>1, <1>2, <1>3, NearIsCharged DEF Config
<1> QED
  BY <1>4 DEF Weight, Config
-----------------------------------------------------------------------------
(* Where a window has keys wait for later blocks.                          *)

LEMMA KeyIsOfRow ==
  ASSUME NEW p, Planned(p), Sound(p.config), NEW x \in 1 .. Len(p.blocks), NEW k \in p.blocks[x].keys
  PROVE  \E i \in RowsIn(p, x), v \in DOMAIN p.config.views :
           /\ RowAt(p, i) \in RowsOn(ChunkIds(p.config.manifest, p.config.part),
                                     p.config.views, p.config.refSpc, p.config.n)
           /\ RowAt(p, i)[1] \in p.blocks[x].chunks
           /\ k = <<p.config.views[v].path,
                    ChunkOf(p.config.views[v], Anchor(RowAt(p, i), p.config.refSpc) + p.config.views[v].offset)>>
<1>1. PICK i \in RowsIn(p, x) : k \in RowKeys(RowAt(p, i), p.config.views, p.config.refSpc)
  BY BlockHasRows
<1>2. i \in 1 .. Len(OrderOf(p.config).rows) /\ RowAt(p, i)[1] \in p.blocks[x].chunks
  BY BlockHasRows
<1>3. RowAt(p, i) \in RowsOn(ChunkIds(p.config.manifest, p.config.part), p.config.views, p.config.refSpc, p.config.n)
  BY <1>2, RowsAreDrawn
<1> QED
  BY <1>1, <1>2, <1>3 DEF RowKeys

LEMMA StandsIn ==
  ASSUME NEW S \in SUBSET Nat, IsFiniteSet(S), Together(S)
  PROVE  \E lo \in Nat : \A z \in S : lo <= z /\ z < lo + Cardinality(S)
<1> SUFFICES ASSUME S # {}
             PROVE  \E lo \in Nat : \A z \in S : lo <= z /\ z < lo + Cardinality(S)
  OBVIOUS
<1>1. PICK lo \in S : \A z \in S : lo <= z
  BY SmallestOf
<1>2. Cardinality(S) \in Nat
  BY FS_CardinalityType
<1>3. ASSUME NEW z \in S PROVE z < lo + Cardinality(S)
  <2>1. lo .. z \in SUBSET S
    BY <1>1 DEF Together
  <2>2. Cardinality(lo .. z) <= Cardinality(S)
    BY <2>1, FS_Subset
  <2>3. Cardinality(lo .. z) = z - lo + 1
    <3>1. lo \in Nat /\ z \in Nat /\ lo <= z
      BY <1>1
    <3> QED
      BY <3>1, FS_Interval
  <2> QED
    BY <1>1, <1>2, <2>2, <2>3
<1> QED
  BY <1>1, <1>3

(* The keys that the samples of a stretch of anchors touch.                *)
ReadWithin(c, k, a, samples) ==
  \E v \in DOMAIN c.views, t \in Int :
    /\ a <= t /\ t < a + samples
    /\ k = <<c.views[v].path, ChunkOf(c.views[v], t + c.views[v].offset)>>

LEMMA StretchIsCharged ==
  ASSUME NEW c, Sound(c), NEW w, NEW S, S \subseteq ReadableKeys(c.views), \A k \in S : w[k] = KeyBytes(c, k),
         NEW a \in Int, NEW samples \in Nat, \A k \in S : ReadWithin(c, k, a, samples)
  PROVE  SumOn(w, S) <= SumOn(ViewsBytes(c, samples), DOMAIN c.views)
<1> DEFINE f == ViewsBytes(c, samples)
           size(v) == SampleChunkSize(c.views[v])
           lo(v) == (a + c.views[v].offset) \div size(v)
           T == [v \in DOMAIN c.views |-> lo(v) .. (lo(v) + CeilDiv(samples, size(v)))]
<1>1. Counts(f, DOMAIN c.views)
  BY ChargesOfViews DEF ViewsBytes
<1>2. ASSUME NEW v \in DOMAIN c.views
      PROVE  /\ c.views[v].offset \in Int /\ size(v) \in Nat \ {0}
             /\ CeilDiv(samples, size(v)) \in Nat /\ lo(v) \in Int
             /\ T[v] = lo(v) .. (lo(v) + CeilDiv(samples, size(v)))
  <2>1. c.views[v].offset \in Int /\ size(v) \in Nat \ {0} /\ CeilDiv(samples, size(v)) \in Nat
    BY ChargesOfViews DEF Sound, Readable
  <2> HIDE DEF size
  <2>2. a + c.views[v].offset \in Int
    BY <2>1
  <2>3. lo(v) \in Int
    BY <2>1, <2>2, WholePart
  <2> QED
    BY <2>1, <2>3
<1>3. NoMoreThan(c, T, 1, f)
  <2> SUFFICES ASSUME NEW v \in DOMAIN c.views
               PROVE  /\ IsFiniteSet(T[v])
                      /\ Cardinality(T[v]) * BytesPerChunk(Dataset(c), v) <= 1 * f[v]
    BY DEF NoMoreThan
  <2>1. IsFiniteSet(T[v]) /\ Cardinality(T[v]) = CeilDiv(samples, size(v)) + 1
    <3> HIDE DEF T, lo, size
    <3> QED
      BY <1>2, RangeIsFew
  <2>2. f[v] = (CeilDiv(samples, size(v)) + 1) * BytesPerChunk(Dataset(c), v)
    BY ChargesOfViews DEF ViewsBytes
  <2>3. f[v] \in Nat
    BY <1>1 DEF Counts
  <2> HIDE DEF T, f, size
  <2> QED
    BY <2>1, <2>2, <2>3
<1>4. ASSUME NEW k \in S
      PROVE  \E v \in DOMAIN c.views : k[1] = c.views[v].path /\ k[2] \in T[v]
  <2>1. PICK v \in DOMAIN c.views, t \in Int :
          a <= t /\ t < a + samples /\ k = <<c.views[v].path, ChunkOf(c.views[v], t + c.views[v].offset)>>
    BY DEF ReadWithin
  <2>2. PICK o \in Int, d \in Nat \ {0} : o = c.views[v].offset /\ d = size(v)
    BY <1>2
  <2>3. PICK x \in Int, y \in Int : x = t + o /\ y = a + o /\ y <= x /\ x < y + samples
    <3>1. a + o <= t + o /\ t + o < a + o + samples /\ t + o \in Int /\ a + o \in Int
      BY <2>1
    <3> QED
      BY <3>1
  <2>4. x \div d \in (y \div d) .. (y \div d + CeilDiv(samples, d))
    BY <2>3, TouchedAre
  <2>5. k[2] = x \div d
    BY <2>1, <2>2, <2>3 DEF ChunkOf
  <2>6. lo(v) = y \div d
    BY <2>2, <2>3
  <2> HIDE DEF lo, size, T
  <2>7. k[2] \in T[v]
    BY <1>2, <2>2, <2>4, <2>5, <2>6
  <2> QED
    BY <2>1, <2>7
<1> HIDE DEF f, T
<1>5. SumOn(w, S) <= 1 * SumOn(f, DOMAIN c.views) /\ SumOn(f, DOMAIN c.views) \in Nat
  BY <1>1, <1>3, <1>4, KeysCharged
<1> QED
  BY <1>5 DEF f
LEMMA RowWithin ==
  ASSUME NEW lo \in Nat, NEW u \in Nat, NEW m \in Nat, NEW r \in Nat \ {0}, NEW i \in Nat,
         lo <= u, u < lo + m, i < r
  PROVE  lo * r <= u * r + i /\ u * r + i < lo * r + m * r
<1>1. lo * r <= u * r /\ lo * r \in Nat /\ u * r \in Nat /\ m * r \in Nat
  BY TimesGrows
<1>2. u + 1 <= lo + m /\ u + 1 \in Nat /\ lo + m \in Nat
  OBVIOUS
<1>3. (u + 1) * r <= (lo + m) * r
  BY <1>2, TimesGrows
<1>4. (u + 1) * r = u * r + r /\ (lo + m) * r = lo * r + m * r
  OBVIOUS
<1> QED
  BY <1>1, <1>3, <1>4

(* The chunks that a shuffled pass draws stand together if the train part  *)
(* does.                                                                   *)
LEMMA TrainIsDrawn ==
  ASSUME NEW c, Sound(c), Shuffles(c), Together(c.manifest.train)
  PROVE  \E lo \in Nat :
           \A row \in RowsOn(ChunkIds(c.manifest, c.part), c.views, c.refSpc, c.n) :
             /\ row \in Nat \X Nat /\ lo <= row[1] /\ row[1] < lo + TrainChunks(c)
             /\ row[2] < c.refSpc
<1>1. ChunkIds(c.manifest, c.part) = c.manifest.train
  BY DEF Shuffles, ChunkIds
<1>2. CeilDiv(c.n, c.refSpc) \in Nat /\ c.manifest.train \subseteq Span(0, CeilDiv(c.n, c.refSpc))
  BY CeilingIs DEF Sound, Parts
<1>3. c.manifest.train \in SUBSET Nat /\ IsFiniteSet(c.manifest.train)
  BY <1>2, MeasuresAre DEF Span
<1>4. PICK lo \in Nat : \A z \in c.manifest.train : lo <= z /\ z < lo + TrainChunks(c)
  BY <1>3, StandsIn DEF TrainChunks
<1>5. \A row \in RowsOn(c.manifest.train, c.views, c.refSpc, c.n) :
        row \in Nat \X Nat /\ row[1] \in c.manifest.train /\ row[2] < c.refSpc
  BY DEF RowsOn, RowsOf
<1> QED
  BY <1>1, <1>4, <1>5

LEMMA MixedTrainIsCharged ==
  ASSUME NEW p, Planned(p), Sound(p.config), ~UniformSpc(Dataset(p.config)),
         Shuffles(p.config), Together(p.config.manifest.train),
         NEW S, S \subseteq ReadableKeys(p.config.views),
         \A k \in S : \E x \in 1 .. Len(p.blocks) : k \in p.blocks[x].keys
  PROVE  SumOn(p.weight, S) <= WorkingSet(p.config)
<1> DEFINE c == p.config
<1>1. PICK lo \in Nat :
        \A row \in RowsOn(ChunkIds(c.manifest, c.part), c.views, c.refSpc, c.n) :
          row \in Nat \X Nat /\ lo <= row[1] /\ row[1] < lo + TrainChunks(c) /\ row[2] < c.refSpc
  BY TrainIsDrawn
<1>2. PICK r \in Nat \ {0}, m \in Nat : r = c.refSpc /\ m = TrainChunks(c)
  BY MeasuresAre DEF Sound
<1>3. ASSUME NEW k \in S PROVE ReadWithin(c, k, lo * r, m * r)
  <2>1. PICK x \in 1 .. Len(p.blocks) : k \in p.blocks[x].keys
    OBVIOUS
  <2>2. PICK i \in RowsIn(p, x), v \in DOMAIN c.views :
          /\ RowAt(p, i) \in RowsOn(ChunkIds(c.manifest, c.part), c.views, c.refSpc, c.n)
          /\ k = <<c.views[v].path, ChunkOf(c.views[v], Anchor(RowAt(p, i), c.refSpc) + c.views[v].offset)>>
    BY <2>1, KeyIsOfRow
  <2>3. PICK u \in Nat, j \in Nat : u = RowAt(p, i)[1] /\ j = RowAt(p, i)[2] /\ lo <= u /\ u < lo + m /\ j < r
    BY <1>1, <1>2, <2>2
  <2>4. PICK t \in Int : t = u * r + j /\ lo * r <= t /\ t < lo * r + m * r
    <3>1. lo * r <= u * r + j /\ u * r + j < lo * r + m * r
      BY <2>3, RowWithin
    <3>2. u * r + j \in Int
      OBVIOUS
    <3> QED
      BY <3>1, <3>2
  <2>5. t = Anchor(RowAt(p, i), c.refSpc)
    BY <1>2, <2>3, <2>4 DEF Anchor
  <2> HIDE DEF c
  <2> QED
    BY <2>2, <2>4, <2>5 DEF ReadWithin
<1>4. \A k \in S : p.weight[k] = KeyBytes(c, k)
  BY WeightsAre
<1>5. lo * r \in Int /\ m * r \in Nat
  OBVIOUS
<1>6. SumOn(p.weight, S) <= SumOn(ViewsBytes(c, m * r), DOMAIN c.views)
  <2> HIDE DEF c
  <2> QED
    BY <1>3, <1>4, <1>5, StretchIsCharged DEF c
<1>7. c.shuffle
  BY DEF Shuffles
<1>8. SumOn(ViewsBytes(c, m * r), DOMAIN c.views) <= WorkingSet(c)
  BY <1>2, <1>7, FloorOfMixed
<1>9. /\ SumOn(ViewsBytes(c, m * r), DOMAIN c.views) \in Nat /\ WorkingSet(c) \in Nat
      /\ SumOn(p.weight, S) \in Nat
  <2>1. Counts(ViewsBytes(c, m * r), DOMAIN c.views)
    BY <1>5, ChargesOfViews DEF ViewsBytes
  <2>2. Counts(p.weight, S)
    <3>1. S \subseteq DOMAIN p.weight /\ IsFiniteSet(DOMAIN p.weight) /\ \A k \in DOMAIN p.weight : p.weight[k] \in Nat
      BY KeysAreKnown
    <3> QED
      BY <3>1, FS_Subset DEF Counts
  <2> QED
    BY <2>1, <2>2, NumberedIsFinite, FloorIsNumber
<1> HIDE DEF c
<1> QED
  BY <1>6, <1>8, <1>9 DEF c
(* What samples of neighbouring chunks touch under a window, on an array   *)
(* that chunks alike.                                                      *)
LEMMA WindowWithin ==
  ASSUME NEW s \in Nat \ {0}, NEW lo \in Nat, NEW u \in Nat, NEW m \in Nat, NEW j \in Nat,
         lo <= u, u < lo + m, j < s,
         NEW least \in Int, NEW most \in Int, NEW o \in Int, least <= o, o <= most,
         NEW C \in Nat, C = CeilDiv((most - least) + (least % s), s)
  PROVE  (u * s + j + o) \div s \in (lo + (least \div s)) .. (lo + (least \div s) + (m + C) - 1)
<1>1. ASSUME NEW y \in Int, NEW z \in Int, y * s < z * s
      PROVE  y < z
  BY <1>1
<1>2. PICK q \in Int, e \in Int, a \in Int :
        q = least \div s /\ e = least % s /\ a = q * s /\ least = a + e /\ 0 <= e /\ e < s
  <2>1. /\ least \div s \in Int /\ least = (least \div s) * s + (least % s) /\ least % s \in 0 .. s - 1
    BY WholePart
  <2> QED
    BY <2>1
<1>3. PICK R \in Nat : R = (most - least) + e
  BY <1>2
<1>4. PICK b \in Int : b = C * s /\ R <= b
  <2>1. R <= CeilDiv(R, s) * s
    BY <1>3, CeilingIs
  <2> QED
    BY <1>2, <1>3, <2>1
<1>5. PICK x \in Int : x = u * s + j + o
  OBVIOUS
<1>6. PICK w \in Int, f \in Int : w = x \div s /\ f = w * s /\ f <= x /\ x < f + s
  <2>1. x \div s \in Int /\ (x \div s) * s <= x /\ x < (x \div s + 1) * s
    BY WholePart
  <2>2. PICK w \in Int : w = x \div s /\ w * s <= x /\ x < (w + 1) * s
    BY <2>1
  <2>3. w * s \in Int /\ (w + 1) * s = w * s + s
    OBVIOUS
  <2> QED
    BY <2>2, <2>3
<1>7. PICK g \in Int, h \in Int : g = lo * s /\ h = m * s /\ g <= u * s + j /\ u * s + j < g + h
  <2>1. lo * s <= u * s + j /\ u * s + j < lo * s + m * s
    BY RowWithin
  <2>2. lo * s \in Int /\ m * s \in Int
    OBVIOUS
  <2> QED
    BY <2>1, <2>2
<1>8. lo + q < w + 1
  <2>1. g + a <= x
    BY <1>2, <1>5, <1>7
  <2>2. g + a < f + s
    BY <1>6, <2>1
  <2>3. (lo + q) * s = lo * s + q * s /\ (w + 1) * s = w * s + s
    OBVIOUS
  <2>4. (lo + q) * s < (w + 1) * s
    BY <1>2, <1>6, <1>7, <2>2, <2>3
  <2> QED
    BY <1>1, <2>4
<1>9. w < lo + q + m + C
  <2>1. x < g + h + a + b
    BY <1>2, <1>3, <1>4, <1>5, <1>7
  <2>2. f < g + h + a + b
    BY <1>6, <2>1
  <2>3. (lo + q + m + C) * s = lo * s + q * s + m * s + C * s
    OBVIOUS
  <2>4. w * s < (lo + q + m + C) * s
    BY <1>2, <1>4, <1>6, <1>7, <2>2, <2>3
  <2> QED
    BY <1>1, <2>4
<1>10. w \in (lo + q) .. (lo + q + (m + C) - 1)
  BY <1>8, <1>9
<1> QED
  BY <1>2, <1>5, <1>6, <1>10
EdgesFit(c) ==
  CeilDiv((MaxOffset(c.views) - MinOffset(c.views)) + (MinOffset(c.views) % c.refSpc), c.refSpc) = Spread(c)

LEMMA AlignedTrainIsCharged ==
  ASSUME NEW p, Planned(p), Sound(p.config), Aligned(p.config), UniformSpc(Dataset(p.config)),
         Windowed(Dataset(p.config)), ~RereadSpill(p.config),
         Shuffles(p.config), Together(p.config.manifest.train), EdgesFit(p.config),
         NEW S, S \subseteq ReadableKeys(p.config.views),
         \A k \in S : \E x \in 1 .. Len(p.blocks) : k \in p.blocks[x].keys
  PROVE  SumOn(p.weight, S) <= WorkingSet(p.config)
<1> DEFINE c == p.config
           d == Dataset(c)
           I == PathsOf(d)
           least == MinOffset(c.views)
           most == MaxOffset(c.views)
<1>1. PICK lo \in Nat :
        \A row \in RowsOn(ChunkIds(c.manifest, c.part), c.views, c.refSpc, c.n) :
          row \in Nat \X Nat /\ lo <= row[1] /\ row[1] < lo + TrainChunks(c) /\ row[2] < c.refSpc
  BY TrainIsDrawn
<1>2. PICK s \in Nat \ {0}, m \in Nat, C \in Nat :
        s = c.refSpc /\ m = TrainChunks(c) /\ C = Spread(c) /\ C = CeilDiv((most - least) + (least % s), s)
  BY MeasuresAre DEF Sound, EdgesFit
<1>3. /\ least \in Int /\ most \in Int
      /\ \A v \in DOMAIN c.views : c.views[v].offset \in Int /\ least <= c.views[v].offset /\ c.views[v].offset <= most
  BY MeasuresAre
<1>4. /\ IsFiniteSet(I) /\ Counts(PerPath(d), I)
      /\ \A v \in DOMAIN c.views : c.views[v].path \in I /\ PerPath(d)[c.views[v].path] = BytesPerChunk(d, v)
  BY ChargesOfPaths
<1> HIDE DEF least, most
<1>5. least \div s \in Int
  BY <1>3, WholePart
<1> DEFINE T == (lo + (least \div s)) .. (lo + (least \div s) + (m + C) - 1)
           K == [path \in I |-> {<<path, x>> : x \in T}]
           f == PerPath(d)
<1>6. IsFiniteSet(T) /\ Cardinality(T) = m + C
  <2>1. PICK q \in Int : q = lo + (least \div s)
    BY <1>5
  <2>2. PICK z \in Nat : z = m + C
    OBVIOUS
  <2>3. IsFiniteSet(q .. (q + z - 1)) /\ Cardinality(q .. (q + z - 1)) = z
    BY FS_Interval
  <2> QED
    BY <2>1, <2>2, <2>3
<1> HIDE DEF T, I, f, d
<1>7. \A path \in I : /\ IsFiniteSet(K[path]) /\ f[path] \in Nat
                      /\ Cardinality(K[path]) * f[path] <= (m + C) * f[path]
  <2> SUFFICES ASSUME NEW path \in I
               PROVE  /\ IsFiniteSet(K[path]) /\ f[path] \in Nat
                      /\ Cardinality(K[path]) * f[path] <= (m + C) * f[path]
    OBVIOUS
  <2>1. \A y \in K[path] : \E x \in T : y = <<path, x>>
    OBVIOUS
  <2> HIDE DEF K
  <2>2. IsFiniteSet(K[path]) /\ Cardinality(K[path]) <= Cardinality(T) /\ Cardinality(K[path]) \in Nat
    BY <1>6, <2>1, TaggedAreFew
  <2>3. f[path] \in Nat
    BY <1>4 DEF Counts, f
  <2>4. Cardinality(K[path]) <= m + C /\ m + C \in Nat
    BY <1>6, <2>2
  <2> QED
    BY <2>2, <2>3, <2>4, TimesGrows
<1>8. ASSUME NEW k \in S
      PROVE  \E path \in I : k \in K[path] /\ p.weight[k] \in Nat /\ p.weight[k] <= f[path]
  <2>1. PICK x \in 1 .. Len(p.blocks) : k \in p.blocks[x].keys
    OBVIOUS
  <2>2. PICK i \in RowsIn(p, x), v \in DOMAIN c.views :
          /\ RowAt(p, i) \in RowsOn(ChunkIds(c.manifest, c.part), c.views, c.refSpc, c.n)
          /\ k = <<c.views[v].path, ChunkOf(c.views[v], Anchor(RowAt(p, i), c.refSpc) + c.views[v].offset)>>
    BY <2>1, KeyIsOfRow
  <2>3. PICK u \in Nat, j \in Nat : u = RowAt(p, i)[1] /\ j = RowAt(p, i)[2] /\ lo <= u /\ u < lo + m /\ j < s
    BY <1>1, <1>2, <2>2
  <2>4. PICK o \in Int : o = c.views[v].offset /\ least <= o /\ o <= most
    BY <1>3
  <2>5. (u * s + j + o) \div s \in T
    BY <1>2, <1>3, <2>3, <2>4, WindowWithin DEF T
  <2>6. Anchor(RowAt(p, i), c.refSpc) = u * s + j
    BY <1>2, <2>3 DEF Anchor
  <2>7. SampleChunkSize(c.views[v]) = s
    BY <1>2 DEF Aligned
  <2>8. k = <<c.views[v].path, (u * s + j + o) \div s>>
    BY <2>2, <2>4, <2>6, <2>7 DEF ChunkOf
  <2>9. c.views[v].path \in I /\ f[c.views[v].path] = BytesPerChunk(d, v)
    BY <1>4 DEF f
  <2>10. k \in K[c.views[v].path]
    BY <2>5, <2>8, <2>9
  <2>11. p.weight[k] = KeyBytes(c, k) /\ k \in ReadableKeys(c.views)
    BY WeightsAre
  <2>12. k[2] \in Nat
    <3>1. PICK z \in DOMAIN c.views : k \in {c.views[z].path} \X Span(0, NChunks(c.views[z]))
      BY <2>11 DEF ReadableKeys
    <3>2. NChunks(c.views[z]) \in Nat
      BY CeilingIs DEF Sound, Readable, NChunks
    <3> QED
      BY <3>1, <3>2 DEF Span
  <2>13. PICK cid \in Nat : k = <<c.views[v].path, cid>>
    BY <2>8, <2>12
  <2>14. KeyBytes(c, k) \in Nat /\ KeyBytes(c, k) <= BytesPerChunk(d, v)
    BY <2>13, KeysAreCharged DEF d
  <2> QED
    BY <2>9, <2>10, <2>11, <2>14
<1>9. \A path \in I : \A k \in K[path] \cap S : p.weight[k] \in Nat /\ p.weight[k] <= f[path]
  <2> SUFFICES ASSUME NEW path \in I, NEW k \in S, k \in K[path]
               PROVE  p.weight[k] \in Nat /\ p.weight[k] <= f[path]
    OBVIOUS
  <2>1. PICK other \in I : k \in K[other] /\ p.weight[k] \in Nat /\ p.weight[k] <= f[other]
    BY <1>8
  <2>2. other = path
    BY <2>1
  <2> QED
    BY <2>1, <2>2
<1>10. S \subseteq UNION {K[path] : path \in I}
  BY <1>8
<1> HIDE DEF K
<1>11. Counts(f, I) /\ m + C \in Nat
  BY <1>4 DEF f
<1>12. SumOn(p.weight, S) <= (m + C) * SumOn(f, I) /\ SumOn(p.weight, S) \in Nat /\ SumOn(f, I) \in Nat
  BY <1>7, <1>9, <1>10, <1>11, SumCharged
<1>13. c.shuffle
  BY DEF Shuffles
<1>14. (m + C) * SumOn(f, I) <= WorkingSet(c) /\ WorkingSet(c) \in Nat
  BY <1>2, <1>13, FloorOfAligned DEF f, I, d
<1> HIDE DEF c
<1>15. (m + C) * SumOn(f, I) \in Nat
  BY <1>11, <1>12
<1> QED
  BY <1>12, <1>14, <1>15 DEF c
-----------------------------------------------------------------------------
(* A pass in storage order.                                                *)

LEMMA ChunksDrawn ==
  ASSUME NEW c, Sound(c)
  PROVE  /\ ChunkIds(c.manifest, c.part) \in SUBSET Nat /\ IsFiniteSet(ChunkIds(c.manifest, c.part))
         /\ Len(DrawnChunks(c)) \in Nat /\ Distinct(DrawnChunks(c))
         /\ \A x \in 1 .. Len(DrawnChunks(c)) :
              DrawnChunks(c)[x] \in Nat /\ DrawnChunks(c)[x] \in ChunkIds(c.manifest, c.part)
         /\ \A z \in ChunkIds(c.manifest, c.part) : \E x \in 1 .. Len(DrawnChunks(c)) : DrawnChunks(c)[x] = z
<1> DEFINE chunks == ChunkIds(c.manifest, c.part)
           perm == DrawnChunks(c)
<1>1. /\ perm \in Seq(Span(0, CeilDiv(c.n, c.refSpc))) /\ Distinct(perm) /\ ChunkIdsOf(perm) = chunks
  BY DrawnChunksAre DEF PermOf
<1>2. PICK k \in Nat : k = CeilDiv(c.n, c.refSpc)
  BY CeilingIs DEF Sound
<1> HIDE DEF perm, chunks
<1>3. Len(perm) \in Nat /\ \A x \in 1 .. Len(perm) : perm[x] \in Span(0, k)
  BY <1>1, <1>2
<1>4. chunks = {perm[x] : x \in 1 .. Len(perm)}
  BY <1>1 DEF ChunkIdsOf
<1>5. chunks \in SUBSET Span(0, k)
  BY <1>3, <1>4
<1>6. chunks \in SUBSET Nat /\ IsFiniteSet(chunks)
  BY <1>2, <1>5, ChunksAreNumbers
<1> QED
  BY <1>1, <1>3, <1>4, <1>6 DEF perm, chunks

LEMMA DrawnRise ==
  ASSUME NEW c, Sound(c), ~Shuffles(c), NEW x \in 1 .. Len(DrawnChunks(c)), NEW y \in 1 .. Len(DrawnChunks(c)), x < y
  PROVE  DrawnChunks(c)[x] + (y - x) <= DrawnChunks(c)[y]
<1> DEFINE chunks == ChunkIds(c.manifest, c.part)
           perm == DrawnChunks(c)
<1>1. perm = Ascending(chunks)
  BY DEF DrawnChunks, SplitView
<1>2. /\ chunks \in SUBSET Nat /\ IsFiniteSet(chunks) /\ Len(perm) \in Nat
      /\ \A z \in 1 .. Len(perm) : perm[z] \in Nat
  BY ChunksDrawn
<1> HIDE DEF chunks
<1>3. PICK m \in Nat : m = Cardinality(chunks) /\ Len(perm) = m
  <2>1. PICK m \in Nat : m = Cardinality(chunks) /\ Ascending(chunks) \in [1 .. m -> chunks]
    BY <1>2, AscendingCounts
  <2>2. Len(Ascending(chunks)) = m
    BY <2>1
  <2> QED
    BY <1>1, <2>1, <2>2
<1>4. \A a, b \in 1 .. m : a < b => perm[a] < perm[b]
  BY <1>1, <1>2, <1>3, AscendingRises
<1> DEFINE lo == perm[x]
           hi == perm[y]
           f == [z \in x .. y |-> perm[z]]
<1> HIDE DEF perm
<1>5. x \in 1 .. m /\ y \in 1 .. m /\ lo \in Nat /\ hi \in Nat /\ \A z \in x .. y : z \in 1 .. m /\ perm[z] \in Nat
  BY <1>2, <1>3 DEF perm
<1>6. \A z \in x .. y : f[z] \in lo .. hi
  <2> SUFFICES ASSUME NEW z \in x .. y PROVE perm[z] \in lo .. hi
    OBVIOUS
  <2>1. z = x \/ lo < perm[z]
    BY <1>4, <1>5
  <2>2. z = y \/ perm[z] < hi
    BY <1>4, <1>5
  <2> QED
    BY <1>5, <2>1, <2>2
<1>7. \A a, b \in x .. y : f[a] = f[b] => a = b
  <2> SUFFICES ASSUME NEW a \in x .. y, NEW b \in x .. y, perm[a] = perm[b] PROVE a = b
    OBVIOUS
  <2>1. ~(perm[a] < perm[b]) /\ ~(perm[b] < perm[a])
    BY <1>5
  <2>2. ~(a < b) /\ ~(b < a)
    BY <1>4, <1>5, <2>1
  <2> QED
    BY <1>5, <2>2
<1>8. f \in [x .. y -> lo .. hi]
  BY <1>6
<1> HIDE DEF f, lo, hi
<1>9. f \in Injection(x .. y, lo .. hi)
  BY <1>7, <1>8 DEF Injection, IsInjective
<1>10. IsFiniteSet(lo .. hi)
  BY <1>5, FS_Interval
<1>11. Cardinality(x .. y) <= Cardinality(lo .. hi)
  BY <1>9, <1>10, FS_Injection
<1>12. lo < hi
  BY <1>4, <1>5 DEF lo, hi
<1>13. Cardinality(x .. y) = y - x + 1 /\ Cardinality(lo .. hi) = hi - lo + 1
  BY <1>5, <1>12, FS_Interval
<1> QED
  BY <1>5, <1>11, <1>13 DEF lo, hi, perm

LEMMA AnchorIsNumber ==
  ASSUME NEW row \in Nat \X Nat, NEW r \in Nat
  PROVE  Anchor(row, r) \in Nat
<1>1. PICK u \in Nat, i \in Nat : u = row[1] /\ i = row[2]
  OBVIOUS
<1>2. u * r + i \in Nat
  OBVIOUS
<1> QED
  BY <1>1, <1>2 DEF Anchor

StartsAt(c, x) == DrawnChunks(c)[x] * c.refSpc

(* A chunk of the pass whose first anchor lies between two that are drawn  *)
(* is drawn from its first anchor on.                                      *)
LEMMA BetweenIsDrawn ==
  ASSUME NEW p, Planned(p), Sound(p.config),
         NEW x \in 1 .. Len(DrawnChunks(p.config)), NEW t \in Nat, t = StartsAt(p.config, x),
         NEW i \in 1 .. Len(OrderOf(p.config).rows), NEW j \in 1 .. Len(OrderOf(p.config).rows),
         Anchor(RowAt(p, i), p.config.refSpc) <= t, t <= Anchor(RowAt(p, j), p.config.refSpc)
  PROVE  \E b \in 1 .. Len(p.blocks) :
           /\ WindowIn(p, b, WindowNo(x, BlockChunks(p.config)))
           /\ \E z \in RowsIn(p, b) : Anchor(RowAt(p, z), p.config.refSpc) = t
<1> DEFINE c == p.config
           chunks == ChunkIds(c.manifest, c.part)
           perm == DrawnChunks(c)
           order == OrderOf(c)
           row == <<perm[x], 0>>
           r == c.refSpc
<1>1. /\ RowAt(p, i) \in RowsOn(chunks, c.views, r, c.n)
      /\ RowAt(p, j) \in RowsOn(chunks, c.views, r, c.n)
  BY RowsAreDrawn
<1>2. r \in Nat \ {0} /\ c.n \in Nat /\ \A v \in DOMAIN c.views : c.views[v].offset \in Int
  BY DEF Sound, Readable
<1>3. perm[x] \in Nat /\ perm[x] \in chunks /\ Distinct(perm)
  BY ChunksDrawn
<1>4. Anchor(row, r) = t
  BY <1>2, <1>3 DEF Anchor, StartsAt
<1>5. PICK a \in Int, d \in Int : a = Anchor(RowAt(p, i), r) /\ d = Anchor(RowAt(p, j), r) /\ a <= t /\ t <= d
  <2>1. RowAt(p, i) \in Nat \X Nat /\ RowAt(p, j) \in Nat \X Nat
    BY <1>1 DEF RowsOn, RowsOf
  <2>2. Anchor(RowAt(p, i), r) \in Nat /\ Anchor(RowAt(p, j), r) \in Nat
    BY <1>2, <2>1, AnchorIsNumber
  <2> QED
    BY <2>2
<1>6. OnEach(a, c.views, c.n) /\ OnEach(d, c.views, c.n) /\ d < c.n
  BY <1>1, <1>5 DEF RowsOn, RowsOf
<1>7. OnEach(t, c.views, c.n)
  <2> SUFFICES ASSUME NEW v \in DOMAIN c.views PROVE t + c.views[v].offset \in Span(0, c.n)
    BY DEF OnEach
  <2>1. a + c.views[v].offset \in Span(0, c.n) /\ d + c.views[v].offset \in Span(0, c.n)
    BY <1>6 DEF OnEach
  <2>2. PICK o \in Int, n \in Nat : o = c.views[v].offset /\ n = c.n
    BY <1>2
  <2>3. a + o \in 0 .. n - 1 /\ d + o \in 0 .. n - 1
    BY <2>1, <2>2 DEF Span
  <2>4. PICK s \in Int : s = t /\ a <= s /\ s <= d
    BY <1>5
  <2>5. s + o \in 0 .. n - 1
    BY <2>3, <2>4
  <2> QED
    BY <2>2, <2>4, <2>5 DEF Span
<1>8. row \in RowsOn(chunks, c.views, r, c.n)
  <2>1. row \in RowsOf(chunks, r, c.n)
    <3>1. row \in Nat \X Nat /\ row[1] \in chunks /\ row[2] < r
      BY <1>2, <1>3
    <3>2. PICK n \in Nat : n = c.n /\ t < n
      BY <1>2, <1>5, <1>6
    <3> HIDE DEF row, chunks, r, c
    <3> QED
      BY <1>4, <3>1, <3>2 DEF RowsOf
  <2> QED
    BY <1>4, <1>7, <2>1 DEF RowsOn
<1>9. Terms(order.rows) = RowsOn(chunks, c.views, r, c.n) /\ Laid(order)
  BY OrderIs
<1> HIDE DEF order, chunks, r
<1>10. PICK z \in 1 .. Len(order.rows) : order.rows[z] = row
  BY <1>8, <1>9 DEF Terms
<1>11. PICK b \in 1 .. Len(order.bounds) - 1 : order.bounds[b] < z /\ z <= order.bounds[b + 1]
  BY <1>9, BlockOfRow
<1>12. b \in 1 .. Len(p.blocks) /\ z \in RowsIn(p, b)
  <2>1. PICK m \in Nat : m = Len(p.blocks) /\ m + 1 = Len(order.bounds)
    BY PlannedBlocks DEF order
  <2>2. b \in 1 .. Len(p.blocks)
    BY <2>1
  <2>3. PICK lo \in Nat, hi \in Nat : /\ lo = order.bounds[b] /\ hi = order.bounds[b + 1]
                                      /\ p.blocks[b].start = lo /\ p.blocks[b].stop = hi
    BY <2>2, PlannedBlocks DEF order
  <2>4. z \in (lo + 1) .. hi
    <3>1. Len(order.rows) \in Nat
      BY <1>9, BoundsAre
    <3> QED
      BY <1>11, <2>3, <3>1
  <2> QED
    BY <2>2, <2>3, <2>4 DEF RowsIn
<1>13. RowAt(p, z) = row
  BY <1>10 DEF RowAt, order
<1>14. PICK w \in Nat : WindowIn(p, b, w)
  BY <1>12, BlocksHaveWindows
<1>15. PICK y \in 1 .. Len(perm) : row[1] = perm[y] /\ WindowNo(y, BlockChunks(c)) = w
  BY <1>12, <1>13, <1>14 DEF WindowIn
<1>16. y = x
  BY <1>3, <1>15 DEF Distinct
<1> QED
  BY <1>4, <1>12, <1>13, <1>14, <1>15, <1>16 DEF r
LEMMA WindowHolds ==
  ASSUME NEW size \in Nat \ {0}, NEW x \in Nat \ {0}
  PROVE  \E w \in Nat, g \in Nat : /\ w = WindowNo(x, size) /\ g = w * size
                                   /\ g + 1 <= x /\ x <= g + size
<1>1. PICK y \in Nat : y = x - 1
  OBVIOUS
<1>2. /\ y \div size \in Int /\ (y \div size) * size <= y /\ y < (y \div size + 1) * size
  BY WholePart
<1>3. PICK w \in Int : w = y \div size /\ w * size <= y /\ y < (w + 1) * size
  BY <1>2
<1>4. w \in Nat
  BY <1>3, QuotientOf
<1>5. PICK g \in Nat : g = w * size /\ (w + 1) * size = g + size
  <2>1. w * size \in Nat /\ (w + 1) * size = w * size + size
    BY <1>4
  <2> QED
    BY <2>1
<1>6. g + 1 <= x /\ x <= g + size
  BY <1>1, <1>3, <1>5
<1>7. w = WindowNo(x, size)
  BY <1>1, <1>3 DEF WindowNo
<1> QED
  BY <1>4, <1>5, <1>6, <1>7

(* The first chunk of the window that a block draws from starts above what *)
(* earlier blocks draw and not above what it draws or later ones.          *)
FirstOfBlock(p, b, f) ==
  \A d \in 1 .. Len(p.blocks) : \A i \in RowsIn(p, d) :
    /\ d < b => Anchor(RowAt(p, i), p.config.refSpc) < StartsAt(p.config, f)
    /\ b <= d => StartsAt(p.config, f) <= Anchor(RowAt(p, i), p.config.refSpc)

LEMMA FirstInWindow ==
  ASSUME NEW p, Planned(p), Sound(p.config), ~Shuffles(p.config),
         NEW b \in 1 .. Len(p.blocks), NEW w \in Nat, WindowIn(p, b, w)
  PROVE  \E f \in 1 .. Len(DrawnChunks(p.config)) :
           /\ f = w * BlockChunks(p.config) + 1 /\ WindowNo(f, BlockChunks(p.config)) = w
           /\ FirstOfBlock(p, b, f)
<1> DEFINE c == p.config
           perm == DrawnChunks(c)
<1>1. PICK size \in Nat \ {0}, r \in Nat \ {0}, m \in Nat :
        size = BlockChunks(c) /\ r = c.refSpc /\ m = Len(perm)
  BY MeasuresAre, ChunksDrawn DEF Sound
<1>2. PICK f \in Nat : f = w * size + 1
  OBVIOUS
<1>3. WindowNo(f, size) = w
  <2>1. 1 \in 1 .. size
    BY <1>1
  <2> QED
    BY <1>2, <2>1, WindowNumber
<1>4. ASSUME NEW d \in 1 .. Len(p.blocks), NEW z \in Nat, WindowIn(p, d, z), NEW i \in RowsIn(p, d)
      PROVE  \E x \in 1 .. m, g \in Nat :
               RowAt(p, i)[1] = perm[x] /\ g = z * size /\ g + 1 <= x /\ x <= g + size
  <2>1. PICK x \in 1 .. m : RowAt(p, i)[1] = perm[x] /\ WindowNo(x, size) = z
    BY <1>1, <1>4 DEF WindowIn
  <2>2. x \in Nat \ {0}
    OBVIOUS
  <2>3. PICK v \in Nat, g \in Nat : v = WindowNo(x, size) /\ g = v * size /\ g + 1 <= x /\ x <= g + size
    BY <2>2, WindowHolds
  <2> QED
    BY <2>1, <2>3
<1>5. f \in 1 .. m
  <2>1. PICK i \in RowsIn(p, b) : TRUE
    BY BlockHasRows
  <2>2. PICK x \in 1 .. m, g \in Nat : g = w * size /\ g + 1 <= x
    BY <1>4
  <2> QED
    BY <1>2, <2>2
<1>6. ASSUME NEW x \in 1 .. m, NEW y \in 1 .. m, x < y PROVE perm[x] + 1 <= perm[y] /\ perm[x] \in Nat /\ perm[y] \in Nat
  <2>1. perm[x] \in Nat /\ perm[y] \in Nat
    BY <1>1, ChunksDrawn
  <2>2. perm[x] + (y - x) <= perm[y]
    BY <1>1, <1>6, DrawnRise
  <2> HIDE DEF perm
  <2> QED
    BY <1>6, <2>1, <2>2
<1>7. ASSUME NEW d \in 1 .. Len(p.blocks), NEW i \in RowsIn(p, d)
      PROVE  /\ d < b => Anchor(RowAt(p, i), c.refSpc) < StartsAt(c, f)
             /\ b <= d => StartsAt(c, f) <= Anchor(RowAt(p, i), c.refSpc)
  <2>1. PICK z \in Nat : WindowIn(p, d, z)
    BY BlocksHaveWindows
  <2>2. PICK x \in 1 .. m, g \in Nat :
          RowAt(p, i)[1] = perm[x] /\ g = z * size /\ g + 1 <= x /\ x <= g + size
    BY <1>4, <2>1
  <2>3. (d < b <=> z < w) /\ (b < d <=> w < z)
    BY <2>1, BlocksHaveWindows
  <2>4. RowAt(p, i) \in Nat \X Nat /\ RowAt(p, i)[2] < r
    <3>1. i \in 1 .. Len(OrderOf(c).rows)
      BY BlockHasRows
    <3>2. RowAt(p, i) \in RowsOn(ChunkIds(c.manifest, c.part), c.views, c.refSpc, c.n)
      BY <3>1, RowsAreDrawn
    <3> QED
      BY <1>1, <3>2 DEF RowsOn, RowsOf
  <2>5. PICK u \in Nat, e \in Nat : u = RowAt(p, i)[1] /\ e = RowAt(p, i)[2] /\ e < r
    BY <2>4
  <2>6. PICK q \in Nat : q = perm[f]
    BY <1>1, <1>5, ChunksDrawn
  <2>7. Anchor(RowAt(p, i), c.refSpc) = u * r + e /\ StartsAt(c, f) = q * r
    BY <1>1, <2>5, <2>6 DEF Anchor, StartsAt
  <2>8. z < w => u < q
    <3> SUFFICES ASSUME z < w PROVE u < q
      OBVIOUS
    <3>1. (z + 1) * size <= w * size /\ (z + 1) * size = z * size + size
      BY TimesGrows
    <3>2. x < f
      BY <1>2, <2>2, <3>1
    <3> HIDE DEF perm
    <3> QED
      BY <1>5, <1>6, <2>2, <2>5, <2>6, <3>2
  <2>9. w <= z => q <= u
    <3> SUFFICES ASSUME w <= z PROVE q <= u
      OBVIOUS
    <3>1. w * size <= z * size /\ w * size \in Nat
      BY TimesGrows
    <3>2. f <= x
      BY <1>2, <2>2, <3>1
    <3> HIDE DEF perm
    <3> QED
      BY <1>5, <1>6, <2>2, <2>5, <2>6, <3>2
  <2>10. u < q => u * r + e < q * r
    <3> SUFFICES ASSUME u < q PROVE u * r + e < q * r
      OBVIOUS
    <3>1. PICK t \in Nat : t = u + 1 /\ t <= q
      BY <2>5, <2>6
    <3>2. t * r <= q * r
      BY <1>1, <3>1, TimesGrows
    <3>3. (u + 1) * r = u * r + r
      OBVIOUS
    <3>4. PICK v \in Nat, h \in Nat : v = u * r /\ h = q * r
      OBVIOUS
    <3>5. v + r <= h
      BY <3>1, <3>2, <3>3, <3>4
    <3>6. e < r
      BY <2>5
    <3>7. v + e < h
      BY <3>5, <3>6
    <3> QED
      BY <3>4, <3>7
  <2>11. q <= u => q * r <= u * r + e
    <3> SUFFICES ASSUME q <= u PROVE q * r <= u * r + e
      OBVIOUS
    <3>1. q * r <= u * r /\ u * r \in Nat /\ q * r \in Nat
      BY TimesGrows
    <3> QED
      BY <3>1
  <2>12. Len(p.blocks) \in Nat
    BY PlannedBlocks
  <2>13. d < b => u * r + e < q * r
    BY <2>3, <2>8, <2>10
  <2>14. b <= d => q * r <= u * r + e
    BY <2>3, <2>9, <2>11, <2>12
  <2> QED
    BY <2>7, <2>13, <2>14
<1>8. FirstOfBlock(p, b, f)
  BY <1>7 DEF FirstOfBlock
<1> QED
  BY <1>1, <1>2, <1>3, <1>5, <1>8

(* A view that reads the chunk C at one sample and an earlier chunk at no  *)
(* higher one, in spite of a lower offset, lies far below the other.       *)
LEMMA ChunksApart ==
  ASSUME NEW d \in Nat \ {0}, NEW C \in Int, NEW a \in Int, NEW b \in Int,
         C < a \div d, b \div d < C
  PROVE  b + d < a
<1>1. /\ a \div d \in Int /\ (a \div d) * d <= a /\ b \div d \in Int /\ b < (b \div d + 1) * d
  BY WholePart
<1>2. PICK q \in Int, e \in Int : q = a \div d /\ e = b \div d /\ q * d <= a /\ b < (e + 1) * d /\ C < q /\ e < C
  BY <1>1
<1>3. PICK s \in Nat : q = e + 2 + s
  <2>1. q - e - 2 \in Nat /\ q = e + 2 + (q - e - 2)
    BY <1>2
  <2> QED
    BY <2>1
<1>4. (e + 2 + s) * d = (e + 1) * d + d + s * d /\ s * d \in Nat /\ (e + 1) * d \in Int
  OBVIOUS
<1>5. PICK g \in Int, h \in Nat : g = (e + 1) * d /\ h = s * d
  BY <1>4
<1>6. q * d = g + d + h
  BY <1>3, <1>4, <1>5
<1>7. PICK z \in Int : z = q * d /\ z = g + d + h /\ z <= a
  BY <1>2, <1>5, <1>6
<1>8. b < g
  BY <1>2, <1>5
<1> QED
  BY <1>5, <1>7, <1>8

(* A row reads the key of each view.                                       *)
LEMMA RowReadsKeys ==
  ASSUME NEW p, Planned(p), Sound(p.config), NEW b \in 1 .. Len(p.blocks), NEW i \in RowsIn(p, b),
         NEW v \in DOMAIN p.config.views
  PROVE  <<p.config.views[v].path,
           ChunkOf(p.config.views[v], Anchor(RowAt(p, i), p.config.refSpc) + p.config.views[v].offset)>>
           \in p.blocks[b].keys
<1>1. p.blocks[b].keys = UNION {RowKeys(RowAt(p, z), p.config.views, p.config.refSpc) : z \in RowsIn(p, b)}
  BY BlockHasRows
<1>2. <<p.config.views[v].path,
        ChunkOf(p.config.views[v], Anchor(RowAt(p, i), p.config.refSpc) + p.config.views[v].offset)>>
        \in RowKeys(RowAt(p, i), p.config.views, p.config.refSpc)
  BY DEF RowKeys
<1> QED
  BY <1>1, <1>2

(* Views of one array chunk alike along the sample axis.                   *)
LEMMA PathsChunkAlike ==
  ASSUME NEW c, Sound(c), NEW v \in DOMAIN c.views, NEW w \in DOMAIN c.views,
         c.views[v].path = c.views[w].path
  PROVE  SampleChunkSize(c.views[v]) = SampleChunkSize(c.views[w])
<1> DEFINE g == c.views[v]
           k == c.views[w].offset - c.views[v].offset
<1>1. c.views[w] = Shift(g, k) /\ Measured(g)
  BY DEF Sound
<1>2. DOMAIN g = {"path", "shape", "chunks", "item", "offset", "axis"}
  BY <1>1 DEF Measured
<1> HIDE DEF g, k
<1>3. Shift(g, k).chunks = g.chunks /\ Shift(g, k).axis = g.axis
  BY <1>2 DEF Shift
<1>4. SampleChunkSize(Shift(g, k)) = SampleChunkSize(g)
  BY <1>3 DEF SampleChunkSize
<1> QED
  BY <1>1, <1>4 DEF g

(* Of the anchors of a block's rows.                                       *)
LEMMA RowsAreOfOrder ==
  ASSUME NEW p, Planned(p), Sound(p.config), NEW b \in 1 .. Len(p.blocks), NEW i \in RowsIn(p, b)
  PROVE  /\ i \in 1 .. Len(OrderOf(p.config).rows)
         /\ RowAt(p, i) \in Nat \X Nat /\ RowAt(p, i)[2] < p.config.refSpc
         /\ Anchor(RowAt(p, i), p.config.refSpc) \in Nat
<1>1. i \in 1 .. Len(OrderOf(p.config).rows)
  BY BlockHasRows
<1>2. RowAt(p, i) \in RowsOn(ChunkIds(p.config.manifest, p.config.part), p.config.views, p.config.refSpc, p.config.n)
  BY <1>1, RowsAreDrawn
<1>3. p.config.refSpc \in Nat
  BY DEF Sound
<1>4. RowAt(p, i) \in Nat \X Nat /\ RowAt(p, i)[2] < p.config.refSpc
  BY <1>2 DEF RowsOn, RowsOf
<1> QED
  BY <1>1, <1>3, <1>4, AnchorIsNumber

(* A window is drawn by one block.                                         *)
LEMMA OneBlockToWindow ==
  ASSUME NEW p, Planned(p), Sound(p.config), NEW b \in 1 .. Len(p.blocks), NEW d \in 1 .. Len(p.blocks),
         NEW w \in Nat, WindowIn(p, b, w), WindowIn(p, d, w)
  PROVE  b = d
<1>1. ~(w < w)
  OBVIOUS
<1>2. ~(b < d) /\ ~(d < b)
  BY <1>1, BlocksHaveWindows
<1>3. PICK m \in Nat : m = Len(p.blocks)
  BY PlannedBlocks
<1> QED
  BY <1>2, <1>3

(* The views reach no further than a window of the draw.                   *)
ReachFits(c) == MaxOffset(c.views) - MinOffset(c.views) <= BlockChunks(c) * c.refSpc

(* Of a pass in file order whose views reach no further than a window: a   *)
(* key that one block reads and a much later one reads again is read by    *)
(* every two neighbouring blocks between them.                             *)
LEMMA NoKeyJumps ==
  ASSUME NEW p, Planned(p), Sound(p.config), ~Shuffles(p.config),
         ReachFits(p.config),
         NEW x \in 1 .. Len(p.blocks), NEW b \in 1 .. Len(p.blocks), NEW y \in 1 .. Len(p.blocks),
         x + 1 < b, b < y, NEW k, k \in p.blocks[x].keys, k \in p.blocks[y].keys
  PROVE  k \in p.blocks[b - 1].keys \/ k \in p.blocks[b].keys
<1> DEFINE c == p.config
           perm == DrawnChunks(c)
           W == BlockChunks(c)
           r == c.refSpc
           at(i) == Anchor(RowAt(p, i), r)
<1>1. b - 1 \in 1 .. Len(p.blocks) /\ x < b - 1 /\ b - 1 < b /\ b - 1 <= y /\ x < b /\ b <= y
  <2>1. PICK m \in Nat : m = Len(p.blocks)
    BY PlannedBlocks
  <2> QED
    BY <2>1
<1>2. PICK i \in RowsIn(p, x), v \in DOMAIN c.views :
        k = <<c.views[v].path, ChunkOf(c.views[v], at(i) + c.views[v].offset)>>
  BY KeyIsOfRow
<1>3. PICK j \in RowsIn(p, y), w \in DOMAIN c.views :
        k = <<c.views[w].path, ChunkOf(c.views[w], at(j) + c.views[w].offset)>>
  BY KeyIsOfRow
<1>4. PICK z1 \in Nat, z2 \in Nat : WindowIn(p, b - 1, z1) /\ WindowIn(p, b, z2) /\ z1 < z2
  <2>1. PICK z1 \in Nat : WindowIn(p, b - 1, z1)
    BY <1>1, BlocksHaveWindows
  <2>2. PICK z2 \in Nat : WindowIn(p, b, z2)
    BY <1>1, BlocksHaveWindows
  <2>3. z1 < z2
    BY <1>1, <2>1, <2>2, BlocksHaveWindows
  <2> QED
    BY <2>1, <2>2, <2>3
<1>5. PICK f1 \in 1 .. Len(perm) : f1 = z1 * W + 1 /\ WindowNo(f1, W) = z1 /\ FirstOfBlock(p, b - 1, f1)
  <2>1. \E f \in 1 .. Len(perm) : f = z1 * W + 1 /\ WindowNo(f, W) = z1 /\ FirstOfBlock(p, b - 1, f)
    BY <1>1, <1>4, FirstInWindow
  <2> QED
    BY <2>1
<1>6. PICK f2 \in 1 .. Len(perm) : f2 = z2 * W + 1 /\ WindowNo(f2, W) = z2 /\ FirstOfBlock(p, b, f2)
  <2>1. \E f \in 1 .. Len(perm) : f = z2 * W + 1 /\ WindowNo(f, W) = z2 /\ FirstOfBlock(p, b, f)
    BY <1>1, <1>4, FirstInWindow
  <2> QED
    BY <2>1
<1>7. PICK a \in Nat, d \in Nat, s1 \in Nat, s2 \in Nat :
        /\ a = at(i) /\ d = at(j) /\ s1 = StartsAt(c, f1) /\ s2 = StartsAt(c, f2)
        /\ a <= s1 /\ s1 <= d /\ a <= s2 /\ s2 <= d
  <2>1. at(i) \in Nat /\ at(j) \in Nat
    BY RowsAreOfOrder
  <2>2. perm[f1] \in Nat /\ perm[f2] \in Nat /\ r \in Nat
    BY ChunksDrawn DEF Sound
  <2>3. PICK s1 \in Nat, s2 \in Nat : s1 = StartsAt(c, f1) /\ s2 = StartsAt(c, f2)
    <3>1. PICK q1 \in Nat, q2 \in Nat, r1 \in Nat : q1 = perm[f1] /\ q2 = perm[f2] /\ r1 = r
      BY <2>2
    <3>2. q1 * r1 \in Nat /\ q2 * r1 \in Nat
      OBVIOUS
    <3>3. StartsAt(c, f1) = q1 * r1 /\ StartsAt(c, f2) = q2 * r1
      BY <3>1 DEF StartsAt
    <3> QED
      BY <3>2, <3>3
  <2>4. at(i) < StartsAt(c, f1) /\ StartsAt(c, f1) <= at(j)
    BY <1>1, <1>5 DEF FirstOfBlock
  <2>5. at(i) < StartsAt(c, f2) /\ StartsAt(c, f2) <= at(j)
    BY <1>1, <1>6 DEF FirstOfBlock
  <2>6. PICK a \in Nat, d \in Nat : a = at(i) /\ d = at(j)
    BY <2>1
  <2> HIDE DEF at, perm, c, r
  <2> QED
    BY <2>3, <2>4, <2>5, <2>6
<1>8. PICK g \in Nat : g = W * r /\ s1 + g <= s2
  <2>1. PICK W1 \in Nat \ {0}, r1 \in Nat : W1 = W /\ r1 = r
    BY MeasuresAre DEF Sound
  <2>2. PICK q1 \in Nat, q2 \in Nat : q1 = perm[f1] /\ q2 = perm[f2]
    BY ChunksDrawn
  <2>3. f1 + W1 <= f2
    <3>1. PICK n \in Nat : n = z1 + 1 /\ n <= z2
      BY <1>4
    <3>2. n * W1 <= z2 * W1 /\ n * W1 \in Nat /\ z2 * W1 \in Nat
      <4>1. n \in Nat /\ z2 \in Nat /\ W1 \in Nat /\ n <= z2 /\ W1 <= W1
        BY <3>1
      <4> HIDE DEF W, r, c, perm, at
      <4> QED
        BY <4>1, TimesGrows
    <3>3. (z1 + 1) * W1 = z1 * W1 + W1 /\ z1 * W1 \in Nat
      OBVIOUS
    <3>4. PICK g1 \in Nat, g2 \in Nat : g1 = z1 * W1 /\ g2 = z2 * W1
      BY <3>2, <3>3
    <3>5. g1 + W1 <= g2
      BY <3>1, <3>2, <3>3, <3>4
    <3>6. f1 = g1 + 1 /\ f2 = g2 + 1
      BY <1>5, <1>6, <2>1, <3>4
    <3>7. PICK h1 \in Nat, h2 \in Nat : h1 = f1 /\ h2 = f2
      OBVIOUS
    <3>8. h1 = g1 + 1 /\ h2 = g2 + 1
      BY <3>6, <3>7
    <3>9. h1 + W1 <= h2
      BY <3>5, <3>8
    <3> QED
      BY <3>7, <3>9
  <2>4. q1 + W1 <= q2
    <3>1. f1 < f2
      BY <2>1, <2>3
    <3>2. perm[f1] + (f2 - f1) <= perm[f2]
      BY <3>1, DrawnRise
    <3>3. q1 + (f2 - f1) <= q2
      BY <2>2, <3>2
    <3> QED
      BY <2>3, <3>3
  <2>5. q1 * r1 + W1 * r1 <= q2 * r1 /\ W1 * r1 \in Nat
    <3>1. PICK n \in Nat : n = q1 + W1 /\ n <= q2
      BY <2>4
    <3>2. n * r1 <= q2 * r1
      BY <3>1, TimesGrows
    <3>3. (q1 + W1) * r1 = q1 * r1 + W1 * r1 /\ W1 * r1 \in Nat
      OBVIOUS
    <3> QED
      BY <3>1, <3>2, <3>3
  <2>6. s1 = q1 * r1 /\ s2 = q2 * r1
    BY <1>7, <2>1, <2>2 DEF StartsAt
  <2>7. PICK g \in Nat : g = W1 * r1
    BY <2>5
  <2>8. s1 + g <= s2
    BY <2>5, <2>6, <2>7
  <2> QED
    BY <2>1, <2>7, <2>8
<1>9. PICK n1 \in RowsIn(p, b - 1) : at(n1) = s1
  <2>1. i \in 1 .. Len(OrderOf(c).rows) /\ j \in 1 .. Len(OrderOf(c).rows)
    BY RowsAreOfOrder
  <2>2. at(i) <= s1 /\ s1 <= at(j)
    BY <1>7
  <2>3. \E e \in 1 .. Len(p.blocks) : WindowIn(p, e, WindowNo(f1, W)) /\ \E n \in RowsIn(p, e) : at(n) = s1
    BY <1>5, <1>7, <2>1, <2>2, BetweenIsDrawn
  <2>4. PICK e \in 1 .. Len(p.blocks) : WindowIn(p, e, z1) /\ \E n \in RowsIn(p, e) : at(n) = s1
    BY <1>5, <2>3
  <2>5. e = b - 1
    BY <1>1, <1>4, <2>4, OneBlockToWindow
  <2> QED
    BY <2>4, <2>5
<1>10. PICK n2 \in RowsIn(p, b) : at(n2) = s2
  <2>1. i \in 1 .. Len(OrderOf(c).rows) /\ j \in 1 .. Len(OrderOf(c).rows)
    BY RowsAreOfOrder
  <2>2. at(i) <= s2 /\ s2 <= at(j)
    BY <1>7
  <2>3. \E e \in 1 .. Len(p.blocks) : WindowIn(p, e, WindowNo(f2, W)) /\ \E n \in RowsIn(p, e) : at(n) = s2
    BY <1>6, <1>7, <2>1, <2>2, BetweenIsDrawn
  <2>4. PICK e \in 1 .. Len(p.blocks) : WindowIn(p, e, z2) /\ \E n \in RowsIn(p, e) : at(n) = s2
    BY <1>6, <2>3
  <2>5. e = b
    BY <1>4, <2>4, OneBlockToWindow
  <2> QED
    BY <2>4, <2>5
<1>11. PICK o1 \in Int, o2 \in Int :
         o1 = c.views[v].offset /\ o2 = c.views[w].offset /\ o1 - o2 <= g
  <2>1. PICK least \in Int, most \in Int : least = MinOffset(c.views) /\ most = MaxOffset(c.views) /\ most - least <= g
    BY <1>8, MeasuresAre DEF ReachFits
  <2>2. PICK o1 \in Int, o2 \in Int : /\ o1 = c.views[v].offset /\ o2 = c.views[w].offset
                                      /\ o1 <= most /\ least <= o2
    BY <2>1, MeasuresAre
  <2>3. most - least <= g /\ o1 <= most /\ least <= o2
    BY <2>1, <2>2
  <2>4. o1 - o2 <= g
    BY <2>3
  <2> HIDE DEF c
  <2> QED
    BY <2>2, <2>4
<1>12. PICK D \in Nat \ {0} : D = SampleChunkSize(c.views[v]) /\ D = SampleChunkSize(c.views[w])
  <2>1. SampleChunkSize(c.views[v]) \in Nat \ {0}
    BY DEF Sound, Readable
  <2>2. SampleChunkSize(c.views[v]) = SampleChunkSize(c.views[w])
    BY <1>2, <1>3, PathsChunkAlike
  <2> QED
    BY <2>1, <2>2
<1>13. PICK C \in Int : C = (a + o1) \div D /\ C = (d + o2) \div D
  <2>1. ChunkOf(c.views[v], at(i) + c.views[v].offset) = ChunkOf(c.views[w], at(j) + c.views[w].offset)
    BY <1>2, <1>3
  <2>2. (a + o1) \div D = (d + o2) \div D
    BY <1>7, <1>11, <1>12, <2>1 DEF ChunkOf
  <2>3. a + o1 \in Int
    BY <1>7
  <2>4. (a + o1) \div D \in Int
    BY <2>3, WholePart
  <2> QED
    BY <2>2, <2>4
<1>14. <<c.views[v].path, (s1 + o1) \div D>> \in p.blocks[b - 1].keys
  <2>1. <<c.views[v].path, ChunkOf(c.views[v], at(n1) + c.views[v].offset)>> \in p.blocks[b - 1].keys
    BY <1>1, RowReadsKeys
  <2> QED
    BY <1>9, <1>11, <1>12, <2>1 DEF ChunkOf
<1>15. <<c.views[w].path, (s2 + o2) \div D>> \in p.blocks[b].keys
  <2>1. <<c.views[w].path, ChunkOf(c.views[w], at(n2) + c.views[w].offset)>> \in p.blocks[b].keys
    BY RowReadsKeys
  <2> QED
    BY <1>10, <1>11, <1>12, <2>1 DEF ChunkOf
<1>16. k = <<c.views[v].path, C>> /\ k = <<c.views[w].path, C>>
  BY <1>2, <1>3, <1>7, <1>11, <1>12, <1>13 DEF ChunkOf
<1> HIDE DEF c, perm, W, r, at
<1>17. PICK t1 \in Int, t2 \in Int : t1 = s1 + o1 /\ t2 = s2 + o2 /\ t1 <= t2 + D /\ a + o1 <= t1 /\ t2 <= d + o2
  <2>1. PICK t1 \in Int, t2 \in Int : t1 = s1 + o1 /\ t2 = s2 + o2
    OBVIOUS
  <2>2. a <= s1 /\ s2 <= d /\ s1 + g <= s2 /\ o1 - o2 <= g
    BY <1>7, <1>8, <1>11
  <2>3. t1 <= t2
    BY <2>1, <2>2
  <2>4. t1 <= t2 + D
    BY <2>3
  <2>5. a + o1 <= t1 /\ t2 <= d + o2
    BY <2>1, <2>2
  <2> QED
    BY <2>1, <2>4, <2>5
<1>18. C <= t1 \div D /\ t2 \div D <= C /\ t1 \div D \in Int /\ t2 \div D \in Int
  <2>1. PICK e1 \in Int, e2 \in Int : e1 = a + o1 /\ e2 = d + o2 /\ e1 <= t1 /\ t2 <= e2
    BY <1>17
  <2>2. C = e1 \div D /\ C = e2 \div D
    BY <1>13, <2>1
  <2>3. e1 \div D <= t1 \div D /\ t2 \div D <= e2 \div D /\ t1 \div D \in Int /\ t2 \div D \in Int
    BY <2>1, WholePartsRise
  <2> QED
    BY <2>2, <2>3
<1>19. ~(C < t1 \div D /\ t2 \div D < C)
  BY <1>17, ChunksApart
<1>20. t1 \div D = C \/ t2 \div D = C
  BY <1>18, <1>19
<1> QED
  BY <1>14, <1>15, <1>16, <1>17, <1>20
(* Where the chunks of the part stand together, a pass in file order draws *)
(* them one after the other.                                               *)
LEMMA DrawnInARow ==
  ASSUME NEW c, Sound(c), ~Shuffles(c), Together(ChunkIds(c.manifest, c.part))
  PROVE  \E lo \in Nat : \A x \in 1 .. Len(DrawnChunks(c)) :
           lo + (x - 1) <= DrawnChunks(c)[x] /\ DrawnChunks(c)[x] <= lo + (x - 1)
<1> DEFINE chunks == ChunkIds(c.manifest, c.part)
           perm == DrawnChunks(c)
<1>1. /\ chunks \in SUBSET Nat /\ IsFiniteSet(chunks) /\ Together(chunks)
      /\ \A x \in 1 .. Len(perm) : perm[x] \in Nat /\ perm[x] \in chunks
  BY ChunksDrawn
<1>2. PICK m \in Nat : m = Cardinality(chunks) /\ Len(perm) = m
  <2>1. perm = Ascending(chunks)
    BY DEF DrawnChunks, SplitView
  <2>2. PICK m \in Nat : m = Cardinality(chunks) /\ Ascending(chunks) \in [1 .. m -> chunks]
    BY <1>1, AscendingCounts
  <2>3. Len(Ascending(chunks)) = m
    BY <2>2
  <2> QED
    BY <2>1, <2>2, <2>3
<1>3. PICK lo \in Nat : \A z \in chunks : lo <= z /\ z < lo + m
  <2>1. \E lo \in Nat : \A z \in chunks : lo <= z /\ z < lo + Cardinality(chunks)
    BY <1>1, StandsIn
  <2> QED
    BY <1>2, <2>1
<1>4. ASSUME NEW x \in 1 .. m, NEW y \in 1 .. m, x < y PROVE perm[x] + (y - x) <= perm[y]
  BY <1>2, <1>4, DrawnRise
<1> HIDE DEF perm, chunks
<1>5. ASSUME NEW x \in 1 .. m PROVE lo + (x - 1) <= perm[x] /\ perm[x] <= lo + (x - 1)
  <2>1. 1 \in 1 .. m /\ m \in 1 .. m
    BY <1>5
  <2>2. PICK first \in Nat, mid \in Nat, last \in Nat : first = perm[1] /\ mid = perm[x] /\ last = perm[m]
    BY <1>1, <1>2, <1>5, <2>1
  <2>3. lo <= first /\ last < lo + m
    BY <1>1, <1>2, <1>3, <2>1, <2>2
  <2>4. x = 1 \/ first + (x - 1) <= mid
    BY <1>4, <1>5, <2>1, <2>2
  <2>5. x = m \/ mid + (m - x) <= last
    BY <1>4, <1>5, <2>1, <2>2
  <2>6. x = 1 => mid = first
    BY <2>2
  <2>7. x = m => mid = last
    BY <2>2
  <2>8. lo + (x - 1) <= mid /\ mid <= lo + (x - 1)
    BY <2>3, <2>4, <2>5, <2>6, <2>7
  <2> QED
    BY <2>2, <2>8
<1> QED
  BY <1>2, <1>5 DEF perm

(* Then a block and the one before it are drawn from adjoining windows.    *)
LEMMA WindowsAdjoin ==
  ASSUME NEW p, Planned(p), Sound(p.config), ~Shuffles(p.config),
         NEW b \in 1 .. Len(p.blocks), NEW d \in 1 .. Len(p.blocks), d = b + 1,
         NEW w \in Nat, NEW z \in Nat, WindowIn(p, b, w), WindowIn(p, d, z)
  PROVE  z = w + 1
<1> DEFINE c == p.config
           perm == DrawnChunks(c)
           at(i) == Anchor(RowAt(p, i), c.refSpc)
<1>1. PICK W \in Nat \ {0} : W = BlockChunks(c)
  BY MeasuresAre
<1>2. b < d /\ w < z
  <2>1. b < d
    OBVIOUS
  <2> QED
    BY <2>1, BlocksHaveWindows
<1>3. SUFFICES ASSUME w + 1 < z PROVE FALSE
  BY <1>2
<1>4. PICK f2 \in 1 .. Len(perm) : f2 = z * W + 1
  BY <1>1, FirstInWindow
<1>5. PICK n \in Nat, g \in Nat : n = w + 1 /\ n < z /\ g = n * W
  <2>1. PICK n \in Nat : n = w + 1 /\ n < z
    BY <1>3
  <2>2. n * W \in Nat
    OBVIOUS
  <2> QED
    BY <2>1, <2>2
<1>6. PICK f \in 1 .. Len(perm) : f = g + 1
  <2>1. PICK h \in Nat : h = z * W /\ g <= h
    <3>1. n * W <= z * W /\ z * W \in Nat
      BY <1>5, TimesGrows
    <3> QED
      BY <1>5, <3>1
  <2>2. PICK h2 \in Nat : h2 = f2 /\ h2 = h + 1
    BY <1>4, <2>1
  <2>3. g + 1 <= h2
    BY <2>1, <2>2
  <2>4. Len(perm) \in Nat
    BY ChunksDrawn
  <2>5. h2 <= Len(perm)
    BY <2>2
  <2>6. g + 1 \in 1 .. Len(perm)
    BY <2>3, <2>4, <2>5
  <2> QED
    BY <2>6
<1>7. WindowNo(f, W) = n
  <2>1. 1 \in 1 .. W
    OBVIOUS
  <2>2. WindowNo(n * W + 1, W) = n
    BY <2>1, WindowNumber
  <2> QED
    BY <1>5, <1>6, <2>2
<1>8. PICK q \in Nat, r \in Nat \ {0} : q = perm[f] /\ r = c.refSpc
  BY ChunksDrawn DEF Sound
<1>9. PICK t \in Nat : t = q * r /\ t = StartsAt(c, f)
  <2>1. q * r \in Nat
    OBVIOUS
  <2> QED
    BY <1>8, <2>1 DEF StartsAt
<1>10. ASSUME NEW e \in 1 .. Len(p.blocks), NEW v \in Nat, WindowIn(p, e, v), NEW i \in RowsIn(p, e)
       PROVE  /\ v < n => at(i) <= t
              /\ n < v => t <= at(i)
  <2>1. PICK x \in 1 .. Len(perm) : RowAt(p, i)[1] = perm[x] /\ WindowNo(x, W) = v
    BY <1>1, <1>10 DEF WindowIn
  <2>2. PICK X \in Nat \ {0}, G \in Nat : X = x /\ G = v * W /\ G + 1 <= X /\ X <= G + W
    <3>1. x \in Nat \ {0}
      OBVIOUS
    <3>2. PICK y \in Nat, G \in Nat : y = WindowNo(x, W) /\ G = y * W /\ G + 1 <= x /\ x <= G + W
      BY <3>1, WindowHolds
    <3> QED
      BY <2>1, <3>1, <3>2
  <2>3. PICK u \in Nat, j \in Nat : u = RowAt(p, i)[1] /\ j = RowAt(p, i)[2] /\ j < r
    BY <1>8, RowsAreOfOrder
  <2>4. at(i) = u * r + j
    BY <1>8, <2>3 DEF Anchor
  <2>5. ASSUME v < n PROVE u < q
    <3>1. PICK v1 \in Nat : v1 = v + 1 /\ v1 <= n
      BY <2>5
    <3>2. v1 * W <= n * W
      BY <3>1, TimesGrows
    <3>3. (v + 1) * W = v * W + W
      OBVIOUS
    <3>4. G + W <= g
      BY <1>5, <2>2, <3>1, <3>2, <3>3
    <3>5. x < f
      BY <1>6, <2>2, <3>4
    <3>6. perm[x] + (f - x) <= perm[f]
      BY <3>5, DrawnRise
    <3>7. u + (f - x) <= q
      BY <1>8, <2>1, <2>3, <3>6
    <3> HIDE DEF perm
    <3> QED
      BY <3>5, <3>7
  <2>6. ASSUME n < v PROVE q < u
    <3>1. PICK n1 \in Nat : n1 = n + 1 /\ n1 <= v
      BY <2>6
    <3>2. n1 * W <= v * W
      BY <3>1, TimesGrows
    <3>3. (n + 1) * W = n * W + W
      OBVIOUS
    <3>4. g + W <= G
      BY <1>5, <2>2, <3>1, <3>2, <3>3
    <3>5. f < x
      BY <1>6, <2>2, <3>4
    <3>6. perm[f] + (x - f) <= perm[x]
      BY <3>5, DrawnRise
    <3>7. q + (x - f) <= u
      BY <1>8, <2>1, <2>3, <3>6
    <3> HIDE DEF perm
    <3> QED
      BY <3>5, <3>7
  <2>7. u < q => u * r + j <= q * r
    <3> SUFFICES ASSUME u < q PROVE u * r + j <= q * r
      OBVIOUS
    <3>1. PICK e1 \in Nat : e1 = u + 1 /\ e1 <= q
      OBVIOUS
    <3>2. e1 * r <= q * r
      BY <3>1, TimesGrows
    <3>3. (u + 1) * r = u * r + r
      OBVIOUS
    <3>4. PICK g1 \in Nat, g2 \in Nat : g1 = u * r /\ g2 = q * r
      OBVIOUS
    <3>5. g1 + r <= g2
      BY <3>1, <3>2, <3>3, <3>4
    <3>6. j < r
      BY <2>3
    <3>7. g1 + j <= g2
      BY <3>5, <3>6
    <3> QED
      BY <3>4, <3>7
  <2>8. q < u => q * r <= u * r + j
    <3> SUFFICES ASSUME q < u PROVE q * r <= u * r + j
      OBVIOUS
    <3>1. q <= u /\ r <= r
      OBVIOUS
    <3>2. q * r <= u * r
      BY <3>1, TimesGrows
    <3>3. PICK g1 \in Nat, g2 \in Nat : g1 = u * r /\ g2 = q * r
      OBVIOUS
    <3>4. g2 <= g1 + j
      BY <3>2, <3>3
    <3> QED
      BY <3>3, <3>4
  <2> HIDE DEF at
  <2> QED
    BY <1>9, <2>4, <2>5, <2>6, <2>7, <2>8
<1>11. PICK i \in RowsIn(p, b), j \in RowsIn(p, d) : TRUE
  BY BlockHasRows
<1>12. w < n /\ n < z
  BY <1>5
<1>13. at(i) <= t /\ t <= at(j)
  BY <1>10, <1>12
<1>14. i \in 1 .. Len(OrderOf(c).rows) /\ j \in 1 .. Len(OrderOf(c).rows)
  BY RowsAreOfOrder
<1>15. PICK e \in 1 .. Len(p.blocks) : WindowIn(p, e, n)
  <2>1. \E e \in 1 .. Len(p.blocks) : WindowIn(p, e, WindowNo(f, BlockChunks(c)))
    BY <1>9, <1>13, <1>14, BetweenIsDrawn
  <2> QED
    BY <1>1, <1>7, <2>1
<1>16. b < e /\ e < d
  BY <1>12, <1>15, BlocksHaveWindows
<1> QED
  <2>1. PICK m \in Nat : m = Len(p.blocks)
    BY PlannedBlocks
  <2> QED
    BY <1>16, <2>1
(* The chunks of a block and the one before it stand in two windows' room. *)
LEMMA NearStand ==
  ASSUME NEW p, Planned(p), Sound(p.config), ~Shuffles(p.config),
         Together(ChunkIds(p.config.manifest, p.config.part)), NEW b \in 1 .. Len(p.blocks)
  PROVE  \E lo \in Nat : \A x \in NearBlocks(p, b) : \A i \in RowsIn(p, x) :
           lo <= RowAt(p, i)[1] /\ RowAt(p, i)[1] < lo + 2 * BlockChunks(p.config)
<1> DEFINE c == p.config
           perm == DrawnChunks(c)
<1>1. PICK W \in Nat \ {0} : W = BlockChunks(c)
  BY MeasuresAre
<1>2. PICK from \in Nat : \A y \in 1 .. Len(perm) : from + (y - 1) <= perm[y] /\ perm[y] <= from + (y - 1)
  BY DrawnInARow
<1>3. ASSUME NEW x \in 1 .. Len(p.blocks), NEW w \in Nat, WindowIn(p, x, w), NEW i \in RowsIn(p, x)
      PROVE  \E u \in Nat, g \in Nat : u = RowAt(p, i)[1] /\ g = w * W /\ from + g <= u /\ u < from + g + W
  <2>1. PICK y \in 1 .. Len(perm) : RowAt(p, i)[1] = perm[y] /\ WindowNo(y, W) = w
    BY <1>1, <1>3 DEF WindowIn
  <2>2. PICK Y \in Nat \ {0}, g \in Nat : Y = y /\ g = w * W /\ g + 1 <= Y /\ Y <= g + W
    <3>1. y \in Nat \ {0}
      OBVIOUS
    <3>2. PICK v \in Nat, g \in Nat : v = WindowNo(y, W) /\ g = v * W /\ g + 1 <= y /\ y <= g + W
      BY <3>1, WindowHolds
    <3> QED
      BY <2>1, <3>1, <3>2
  <2>3. PICK u \in Nat : u = perm[y] /\ u = RowAt(p, i)[1]
    BY <2>1, ChunksDrawn
  <2>4. from + (Y - 1) <= u /\ u <= from + (Y - 1)
    BY <1>2, <2>2, <2>3
  <2>5. from + g <= u /\ u < from + g + W
    BY <2>2, <2>4
  <2> HIDE DEF perm
  <2> QED
    BY <2>2, <2>3, <2>5
<1>4. PICK z \in Nat : WindowIn(p, b, z)
  BY BlocksHaveWindows
<1>5. PICK m \in Nat : m = Len(p.blocks)
  BY PlannedBlocks
<1>6. CASE b = 1
  <2>1. PICK g \in Nat, lo \in Nat : g = z * W /\ lo = from + g
    <3>1. z * W \in Nat
      OBVIOUS
    <3>2. from + z * W \in Nat
      BY <3>1
    <3> QED
      BY <3>1, <3>2
  <2>2. ASSUME NEW x \in NearBlocks(p, b), NEW i \in RowsIn(p, x)
        PROVE  lo <= RowAt(p, i)[1] /\ RowAt(p, i)[1] < lo + 2 * W
    <3>1. x = b
      BY <1>5, <1>6 DEF NearBlocks
    <3>2. PICK u \in Nat : u = RowAt(p, i)[1] /\ from + g <= u /\ u < from + g + W
      BY <1>3, <1>4, <2>1, <3>1
    <3>3. lo <= u /\ u < lo + 2 * W
      BY <2>1, <3>2
    <3> QED
      BY <3>2, <3>3
  <2> QED
    BY <1>1, <2>2
<1>7. CASE b # 1
  <2>1. PICK a \in 1 .. Len(p.blocks) : a = b - 1 /\ b = a + 1
    BY <1>5, <1>7
  <2>2. PICK w \in Nat : WindowIn(p, a, w)
    BY BlocksHaveWindows
  <2>3. z = w + 1
    BY <1>4, <2>1, <2>2, WindowsAdjoin
  <2>4. PICK g \in Nat, h \in Nat, lo \in Nat : g = w * W /\ h = z * W /\ h = g + W /\ lo = from + g
    <3>1. w * W \in Nat /\ z * W \in Nat
      OBVIOUS
    <3>2. (w + 1) * W = w * W + W
      OBVIOUS
    <3>3. from + w * W \in Nat
      BY <3>1
    <3> QED
      BY <2>3, <3>1, <3>2, <3>3
  <2>5. ASSUME NEW x \in NearBlocks(p, b), NEW i \in RowsIn(p, x)
        PROVE  lo <= RowAt(p, i)[1] /\ RowAt(p, i)[1] < lo + 2 * W
    <3>1. x = b \/ x = a
      BY <1>5, <2>1 DEF NearBlocks
    <3>2. PICK u \in Nat : u = RowAt(p, i)[1] /\ (\/ from + g <= u /\ u < from + g + W
                                                  \/ from + h <= u /\ u < from + h + W)
      BY <1>3, <1>4, <2>2, <2>4, <3>1
    <3>3. lo <= u /\ u < lo + 2 * W
      BY <2>4, <3>2
    <3> QED
      BY <3>2, <3>3
  <2> QED
    BY <1>1, <2>5
<1> QED
  BY <1>6, <1>7

(* What is held near a block of such a pass the floor of a mixed dataset   *)
(* covers.                                                                 *)
LEMMA MixedNearIsCharged ==
  ASSUME NEW p, Planned(p), Sound(p.config), ~UniformSpc(Dataset(p.config)), ~Shuffles(p.config),
         Together(ChunkIds(p.config.manifest, p.config.part)), NEW b \in 1 .. Len(p.blocks),
         NEW S, S \subseteq ReadableKeys(p.config.views), HeldNear(p, b, S)
  PROVE  SumOn(p.weight, S) <= WorkingSet(p.config)
<1> DEFINE c == p.config
<1>1. PICK r \in Nat \ {0}, W \in Nat \ {0} : r = c.refSpc /\ W = BlockChunks(c)
  BY MeasuresAre DEF Sound
<1>2. PICK m \in Nat : m = 2 * W
  OBVIOUS
<1>3. PICK lo \in Nat : \A x \in NearBlocks(p, b) : \A i \in RowsIn(p, x) :
                          lo <= RowAt(p, i)[1] /\ RowAt(p, i)[1] < lo + m
  <2>1. \E lo \in Nat : \A x \in NearBlocks(p, b) : \A i \in RowsIn(p, x) :
           lo <= RowAt(p, i)[1] /\ RowAt(p, i)[1] < lo + 2 * BlockChunks(p.config)
    BY NearStand
  <2> QED
    BY <1>1, <1>2, <2>1
<1>4. ASSUME NEW k \in S PROVE ReadWithin(c, k, lo * r, m * r)
  <2>1. PICK x \in NearBlocks(p, b) : k \in p.blocks[x].keys
    BY DEF HeldNear
  <2>2. x \in 1 .. Len(p.blocks)
    BY DEF NearBlocks
  <2>3. PICK i \in RowsIn(p, x), v \in DOMAIN c.views :
          k = <<c.views[v].path, ChunkOf(c.views[v], Anchor(RowAt(p, i), c.refSpc) + c.views[v].offset)>>
    BY <2>1, <2>2, KeyIsOfRow
  <2>4. PICK u \in Nat, j \in Nat : u = RowAt(p, i)[1] /\ j = RowAt(p, i)[2] /\ lo <= u /\ u < lo + m /\ j < r
    <3>1. RowAt(p, i) \in Nat \X Nat /\ RowAt(p, i)[2] < r
      BY <1>1, <2>2, RowsAreOfOrder
    <3> QED
      BY <1>3, <3>1
  <2>5. PICK t \in Int : t = u * r + j /\ lo * r <= t /\ t < lo * r + m * r
    <3>1. lo * r <= u * r + j /\ u * r + j < lo * r + m * r
      BY <2>4, RowWithin
    <3>2. u * r + j \in Int
      OBVIOUS
    <3> QED
      BY <3>1, <3>2
  <2>6. t = Anchor(RowAt(p, i), c.refSpc)
    BY <1>1, <2>4, <2>5 DEF Anchor
  <2> HIDE DEF c
  <2> QED
    BY <2>3, <2>5, <2>6 DEF ReadWithin
<1>5. \A k \in S : p.weight[k] = KeyBytes(c, k)
  BY WeightsAre
<1>6. lo * r \in Int /\ m * r \in Nat
  OBVIOUS
<1>7. SumOn(p.weight, S) <= SumOn(ViewsBytes(c, m * r), DOMAIN c.views)
  <2> HIDE DEF c
  <2> QED
    BY <1>4, <1>5, <1>6, StretchIsCharged DEF c
<1>8. SumOn(ViewsBytes(c, m * r), DOMAIN c.views) <= WorkingSet(c)
  BY <1>1, <1>2, FloorOfMixed
<1>9. /\ SumOn(ViewsBytes(c, m * r), DOMAIN c.views) \in Nat /\ WorkingSet(c) \in Nat
      /\ SumOn(p.weight, S) \in Nat
  <2>1. Counts(ViewsBytes(c, m * r), DOMAIN c.views)
    BY <1>6, ChargesOfViews DEF ViewsBytes
  <2>2. Counts(p.weight, S)
    <3>1. S \subseteq DOMAIN p.weight /\ IsFiniteSet(DOMAIN p.weight) /\ \A k \in DOMAIN p.weight : p.weight[k] \in Nat
      BY KeysAreKnown
    <3> QED
      BY <3>1, FS_Subset DEF Counts
  <2> QED
    BY <2>1, <2>2, NumberedIsFinite, FloorIsNumber
<1> HIDE DEF c
<1> QED
  BY <1>7, <1>8, <1>9 DEF c

(* A pass in file order holds nothing but what is read near the block at   *)
(* hand.                                                                   *)
LEMMA HeldNearInOrder ==
  ASSUME Made(plan), Sound(Config), ~Shuffles(Config), ReachFits(Config), ClaimsNoMore(plan),
         BatchesSpanTwoBlocks, DeclaredIsAwaited, NEW b \in 1 .. NBlocksOf
  PROVE  HeldNear(plan, b, HeldFor(b))
<1>1. Planned(plan) /\ plan.config = Config /\ Len(plan.blocks) = NBlocksOf
  BY DEF Made, Config, NBlocksOf
<1>2. PICK m \in Nat : m = NBlocksOf
  BY <1>1, PlannedBlocks
<1> SUFFICES ASSUME NEW k \in HeldFor(b) PROVE \E x \in NearBlocks(plan, b) : k \in plan.blocks[x].keys
  BY DEF HeldNear
<1>3. CASE plan.reread
  <2>1. PICK x \in 1 .. NBlocksOf : x <= b /\ b <= x + 1 /\ k \in plan.blocks[x].keys
    BY <1>3, HeldByTwo
  <2> QED
    BY <1>1, <2>1 DEF NearBlocks
<1>4. CASE ~plan.reread
  <2>1. PICK x \in 1 .. NBlocksOf, y \in 1 .. NBlocksOf :
          x <= b /\ b <= y + 1 /\ k \in plan.blocks[x].keys /\ k \in plan.blocks[y].keys
    BY <1>4, HeldUntilRead
  <2>2. CASE b <= x + 1
    BY <1>1, <2>1, <2>2 DEF NearBlocks
  <2>3. CASE y <= b
    BY <1>1, <2>1, <2>3 DEF NearBlocks
  <2>4. CASE ~(b <= x + 1) /\ ~(y <= b)
    <3>1. x + 1 < b /\ b < y
      BY <1>2, <2>4
    <3>2. k \in plan.blocks[b - 1].keys \/ k \in plan.blocks[b].keys
      BY <1>1, <2>1, <3>1, NoKeyJumps
    <3>3. b - 1 \in NearBlocks(plan, b) /\ b \in NearBlocks(plan, b)
      BY <1>1, <1>2, <3>1 DEF NearBlocks
    <3> QED
      BY <3>2, <3>3
  <2> QED
    BY <2>2, <2>3, <2>4
<1> QED
  BY <1>3, <1>4
-----------------------------------------------------------------------------
(* The floor is enough.                                                    *)

(* Whatever is held, some block reads.                                     *)
LEMMA HeldIsRead ==
  ASSUME Made(plan), BatchesSpanTwoBlocks, DeclaredIsAwaited, NEW b \in 1 .. NBlocksOf, NEW k \in HeldFor(b)
  PROVE  \E x \in 1 .. Len(plan.blocks) : k \in plan.blocks[x].keys
<1>1. ClaimsNoMore(plan)
  BY DeclaredIsClaimed
<1>2. CASE plan.reread
  BY <1>2, HeldByTwo DEF NBlocksOf
<1>3. CASE ~plan.reread
  BY <1>1, <1>3, HeldUntilRead DEF NBlocksOf
<1> QED
  BY <1>2, <1>3

(* The alignment the property assumes, of every view.                      *)
LEMMA GridIsAligned ==
  ASSUME Sound(Config), AlignedGrid, UniformSpc(Dataset(Config))
  PROVE  /\ Aligned(Config)
         /\ EdgesCounted => EdgesFit(Config)
<1>1. Dataset(Config).views = Config.views
  BY DEF Dataset
<1>2. 1 \in DOMAIN Config.views
  BY ChargesOfPaths
<1>3. SampleChunkSize(Config.views[1]) = Config.refSpc
  BY DEF AlignedGrid
<1>4. Aligned(Config)
  BY <1>1, <1>2, <1>3 DEF UniformSpc, Aligned
<1>5. EdgesCounted => EdgesFit(Config)
  BY <1>3 DEF EdgesCounted, EdgesFit, Reach, Spread
<1> QED
  BY <1>4, <1>5

(* What a pass must hold at one time the working set of its dataset        *)
(* covers, under the hypotheses of the property, and the automatic budget  *)
(* is no less (summary.py, working_set_bytes; source.py, __init__).        *)
THEOREM FloorIsEnough ==
  ASSUME Made(plan), Sound(Config), Compact, AlignedGrid, BatchesSpanTwoBlocks, DeclaredIsAwaited
  PROVE  BudgetSuffices
<1>1. Planned(plan) /\ plan.config = Config /\ NBlocksOf = Len(plan.blocks) /\ ClaimsNoMore(plan)
  BY DeclaredIsClaimed DEF Made, Config, NBlocksOf
<1>2. SUFFICES ASSUME NEW b \in 1 .. NBlocksOf PROVE Weight(HeldFor(b)) <= WorkingSet(Config)
  <2>1. ASSUME NEW b \in 1 .. NBlocksOf PROVE Weight(HeldFor(b)) <= plan.budget
    <3>1. WorkingSet(Config) <= plan.budget /\ plan.budget \in Nat /\ WorkingSet(Config) \in Nat
      BY BudgetHoldsFloor, FloorIsNumber
    <3>2. Weight(HeldFor(b)) <= WorkingSet(Config)
      BY <1>2
    <3>3. Weight(HeldFor(b)) \in Nat
      <4>1. HeldFor(b) \subseteq DOMAIN plan.weight /\ IsFiniteSet(DOMAIN plan.weight)
            /\ \A k \in DOMAIN plan.weight : plan.weight[k] \in Nat
        BY <1>1, HeldIsKnown, KeysAreKnown
      <4>2. Counts(plan.weight, HeldFor(b))
        BY <4>1, FS_Subset DEF Counts
      <4> QED
        BY <4>2, NumberedIsFinite DEF Weight
    <3> QED
      BY <3>1, <3>2, <3>3
  <2> QED
    BY <2>1 DEF BudgetSuffices
<1>3. b \in 1 .. Len(plan.blocks) /\ HeldFor(b) \subseteq ReadableKeys(Config.views)
  BY <1>1, HeldIsKnown
<1>4. \A k \in HeldFor(b) : \E x \in 1 .. Len(plan.blocks) : k \in plan.blocks[x].keys
  BY HeldIsRead
<1>5. CASE UniformSpc(Dataset(Config)) /\ (Windowed(Dataset(Config)) => plan.reread)
  BY <1>5, GridIsAligned, FloorHoldsWithoutWindow
<1>6. CASE /\ UniformSpc(Dataset(Config)) /\ ~(Windowed(Dataset(Config)) => plan.reread)
           /\ Shuffles(Config) /\ Together(Config.manifest.train) /\ EdgesCounted
  <2>1. plan.reread <=> RereadSpill(Config)
    BY <1>1 DEF Planned, PlanOf
  <2>2. SumOn(plan.weight, HeldFor(b)) <= WorkingSet(plan.config)
    BY <1>1, <1>3, <1>4, <1>6, <2>1, GridIsAligned, AlignedTrainIsCharged
  <2> QED
    BY <1>1, <2>2 DEF Weight
<1>7. CASE ~UniformSpc(Dataset(Config)) /\ Shuffles(Config) /\ Together(Config.manifest.train)
  <2>1. SumOn(plan.weight, HeldFor(b)) <= WorkingSet(plan.config)
    BY <1>1, <1>3, <1>4, <1>7, MixedTrainIsCharged
  <2> QED
    BY <1>1, <2>1 DEF Weight
<1>8. CASE ~Shuffles(Config) /\ Reach <= BlockChunks(Config) * Config.refSpc
           /\ (UniformSpc(Dataset(Config)) \/ Together(ChunkIds(Config.manifest, Config.part)))
  <2>1. ReachFits(Config)
    BY <1>8 DEF Reach, ReachFits
  <2>2. HeldNear(plan, b, HeldFor(b))
    BY <1>1, <1>8, <2>1, HeldNearInOrder
  <2>3. CASE UniformSpc(Dataset(Config))
    <3>1. SumOn(plan.weight, HeldFor(b)) <= WorkingSet(plan.config)
      BY <1>1, <1>3, <2>2, <2>3, GridIsAligned, NearIsCharged
    <3> QED
      BY <1>1, <3>1 DEF Weight
  <2>4. CASE ~UniformSpc(Dataset(Config))
    <3>1. SumOn(plan.weight, HeldFor(b)) <= WorkingSet(plan.config)
      BY <1>1, <1>3, <1>8, <2>2, <2>4, MixedNearIsCharged
    <3> QED
      BY <1>1, <3>1 DEF Weight
  <2> QED
    BY <2>3, <2>4
<1> QED
  BY <1>5, <1>6, <1>7, <1>8 DEF Compact

(* The floor that the automatic budget is set from is enough for the pass, *)
(* where the part, the window and the grid are as the floor counts them    *)
(* (summary.py, working_set_bytes).                                        *)
THEOREM FloorsSuffice == Spec => []FloorSuffices
<1>1. plan \in Plans => FloorSuffices
  BY PlansAreMade, PlansArePlanned, FloorIsEnough DEF FloorSuffices, Config
<1> QED
  BY <1>1, PlanStays, PTL

(* So a pass that reads nothing twice is never starved there: the driver   *)
(* always finds a permit and room to go on (scheduler.py, _drive and       *)
(* _ahead_starvation; pool.py, _await_capacity).                           *)
COROLLARY CompactPassesNeverStarve ==
  ASSUME PromptLoop
  PROVE  Spec => [](~plan.reread /\ DeclaredIsAwaited /\ BatchesSpanTwoBlocks /\ Compact /\ AlignedGrid
                      => driver # "starved")
<1>1. Spec => [](~plan.reread /\ DeclaredIsAwaited /\ BatchesSpanTwoBlocks /\ driver = "starved"
                   => ~BudgetSuffices)
  BY DeclaredNeverStarves
<1>2. ASSUME plan \in Plans,
             ~plan.reread /\ DeclaredIsAwaited /\ BatchesSpanTwoBlocks /\ driver = "starved" => ~BudgetSuffices
      PROVE  ~plan.reread /\ DeclaredIsAwaited /\ BatchesSpanTwoBlocks /\ Compact /\ AlignedGrid
               => driver # "starved"
  BY <1>2, PlansAreMade, PlansArePlanned, FloorIsEnough DEF Config
<1> QED
  BY <1>1, <1>2, PlanStays, PTL

(* And nowhere on full chunks without a window, with no other condition.   *)
COROLLARY EvenPassesAreFed ==
  ASSUME PromptLoop
  PROVE  Spec => [](EvenChunks /\ Unwindowed => driver # "starved")
<1>1. Spec => [](~plan.reread /\ EvenChunks /\ Unwindowed /\ driver = "starved" => ~BudgetSuffices)
  BY EvenPassesNeverStarve
<1>2. ASSUME plan \in Plans, EvenChunks, Unwindowed
      PROVE  ~plan.reread /\ BudgetSuffices
  <2>1. Made(plan) /\ Planned(plan) /\ Sound(Config)
    BY <1>2, PlansAreMade, PlansArePlanned DEF Config
  <2>2. DeclaredIsAwaited /\ BatchesSpanTwoBlocks
    BY <1>2, <2>1, BatchMeetsTwo, EvenBlocksAwaitTheirReads
  <2>3. UniformSpc(Dataset(Config)) /\ AlignedGrid
    <3>1. Dataset(Config).views = Config.views /\ 1 \in DOMAIN Config.views
      BY <2>1, ChargesOfPaths DEF Dataset
    <3> QED
      BY <1>2, <3>1 DEF EvenChunks, UniformSpc, AlignedGrid
  <2>4. ~Windowed(Dataset(Config)) /\ ~plan.reread
    <3>1. ~Windowed(Dataset(Config)) /\ ~RereadSpill(Config)
      BY <1>2 DEF Unwindowed, Windowed, Dataset, RereadSpill
    <3>2. plan.reread <=> RereadSpill(Config)
      BY <2>1 DEF Planned, PlanOf, Config
    <3> QED
      BY <3>1, <3>2
  <2>5. Compact
    BY <2>3, <2>4 DEF Compact
  <2> QED
    BY <2>1, <2>2, <2>3, <2>4, <2>5, FloorIsEnough
<1>3. ASSUME plan \in Plans,
             ~plan.reread /\ EvenChunks /\ Unwindowed /\ driver = "starved" => ~BudgetSuffices
      PROVE  EvenChunks /\ Unwindowed => driver # "starved"
  BY <1>2, <1>3
<1> QED
  BY <1>1, <1>3, PlanStays, PTL

-----------------------------------------------------------------------------
(* Memory.                                                                 *)

Fits == Weight(Resident) <= plan.budget

(* Fewer chunks in memory weigh less.                                      *)
LEMMA FewerWeighLess ==
  ASSUME Held, Fits, plan' = plan, \A k \in Keys : Present(k)' => Present(k)
  PROVE  Fits'
<1>1. Resident' \in SUBSET Resident /\ Resident \in SUBSET Keys /\ Keys' = Keys
  BY DEF Resident, Keys
<1>2. Counts(plan.weight, Keys)
  BY WeightsCount
<1>3. Counts(plan.weight, Resident)
  BY <1>1, <1>2, SumOfLess
<1>4. /\ SumOn(plan.weight, Resident') <= SumOn(plan.weight, Resident)
      /\ SumOn(plan.weight, Resident') \in Nat /\ SumOn(plan.weight, Resident) \in Nat
  BY <1>1, <1>3, SumOfLess
<1>5. plan.budget \in Nat
  BY Ground DEF KnownPlan, Coherent, Sized
<1>6. SumOn(plan.weight, Resident) <= plan.budget
  BY DEF Fits, Weight
<1>7. SumOn(plan.weight, Resident') <= plan.budget
  BY <1>4, <1>5, <1>6
<1>8. Weight(Resident)' = SumOn(plan.weight, Resident')
  BY DEF Weight, SumOn, Numbered
<1> QED
  BY <1>7, <1>8 DEF Fits

(* A chunk is admitted where it fits.                                      *)
LEMMA AdmittedFits ==
  ASSUME Held, plan' = plan, Key \in Keys, ~Present(Key), NEW V \in Victims(Key), NEW s \in {"ready", "filling"},
         slot' = [Evicted(V) EXCEPT ![Key] = s]
  PROVE  Fits'
<1>1. V \subseteq Evictable /\ FitsWithout(V, Key)
  BY DEF Victims
<1>2. Keys' = Keys
  BY DEF Keys
<1>3. ASSUME NEW k \in Keys
      PROVE  slot'[k] # "absent" <=> (slot[k] # "absent" /\ k \notin V) \/ k = Key
  BY DEF Evicted
<1>4. Resident' = (Resident \ V) \cup {Key}
  BY <1>2, <1>3 DEF Resident, Present
<1>5. Resident \ V \in SUBSET Keys /\ Key \notin Resident \ V
  BY DEF Resident
<1>6. Counts(plan.weight, Keys)
  BY WeightsCount
<1>7. Counts(plan.weight, Resident \ V) /\ plan.weight[Key] \in Nat
  BY <1>5, <1>6, SumOfLess DEF Counts
<1>8. SumOn(plan.weight, (Resident \ V) \cup {Key}) = SumOn(plan.weight, Resident \ V) + plan.weight[Key]
  BY <1>5, <1>7, SumWithOneMore
<1>9. Weight(Resident)' = SumOn(plan.weight, (Resident \ V) \cup {Key})
  BY <1>4 DEF Weight, SumOn, Numbered
<1> QED
  BY <1>1, <1>8, <1>9 DEF Fits, FitsWithout, Weight

LEMMA FitsStep ==
  ASSUME Held, Fits, [Next]_vars
  PROVE  Fits'
<1>0. plan' = plan /\ Pooled /\ Typed /\ Driving
  BY PlanKept, Ground
<1>1. CASE UNCHANGED vars \/ ConsumerStep \/ ThreadStep \/ LoopStep
  BY <1>0, <1>1, PoolLeftAlone, FewerWeighLess DEF Present
<1>2. CASE ClaimStep
  <2>1. Key \in Keys
    BY <1>0, <1>2, ClaimEffect
  <2>2. CASE PinReady \/ JoinResident
    BY <1>0, <2>2, FewerWeighLess DEF PinReady, JoinResident, Present
  <2>3. CASE Revive
    <3>1. ~Present(Key) /\ \E V \in Victims(Key) : slot' = [Evicted(V) EXCEPT ![Key] = "ready"]
      BY <2>3 DEF Revive
    <3> QED
      BY <1>0, <2>1, <3>1, AdmittedFits
  <2>4. CASE AdmitFresh
    <3>1. ~Present(Key) /\ \E V \in Victims(Key) : slot' = [Evicted(V) EXCEPT ![Key] = "filling"]
      BY <2>4 DEF AdmitFresh
    <3> QED
      BY <1>0, <2>1, <3>1, AdmittedFits
  <2> QED
    BY <1>2, <2>2, <2>3, <2>4 DEF ClaimStep
<1>3. CASE Park
  <2>1. slot' = Evicted(Evictable)
    BY <1>3 DEF Park
  <2>2. \A k \in Keys : Present(k)' => Present(k)
    BY <1>0, <2>1 DEF Evicted, Present
  <2> QED
    BY <1>0, <2>2, FewerWeighLess
<1>4. CASE ReleaseBlock \/ CloseScheduler
  <2>1. slot' = slot
    BY <1>4 DEF ReleaseBlock, CloseScheduler
  <2> QED
    BY <1>0, <2>1, FewerWeighLess DEF Present
<1>5. CASE ReleaseOwner
  <2>1. slot' = [k \in Keys |-> IF SurvivesPass(k) THEN slot[k] ELSE "absent"]
    BY <1>5 DEF ReleaseOwner
  <2>2. \A k \in Keys : Present(k)' => Present(k)
    BY <1>0, <2>1 DEF Present
  <2> QED
    BY <1>0, <2>2, FewerWeighLess
<1>6. CASE \E k \in Keys : TileArrives(k) \/ TileFails(k) \/ OtherPassEvicts(k)
  <2>1. PICK j \in Keys : TileArrives(j) \/ TileFails(j) \/ OtherPassEvicts(j)
    BY <1>6
  <2>2. CASE TileArrives(j)
    <3>1. \A k \in Keys : slot'[k] = IF k = j /\ slot[k] = "filling" THEN "ready" ELSE slot[k]
      BY <1>0, <2>2 DEF TileArrives, Pooled
    <3>2. \A k \in Keys : Present(k)' => Present(k)
      BY <3>1 DEF Present
    <3> QED
      BY <1>0, <3>2, FewerWeighLess
  <2>3. CASE TileFails(j)
    <3>1. \A k \in Keys : slot'[k] = IF k = j THEN "failed" ELSE slot[k]
      BY <1>0, <2>3 DEF TileFails, Pooled
    <3>2. slot[j] \in {"filling", "failed"}
      BY <2>3 DEF TileFails, Held, InFlight
    <3>3. \A k \in Keys : Present(k)' => Present(k)
      BY <3>1, <3>2 DEF Present
    <3> QED
      BY <1>0, <3>3, FewerWeighLess
  <2>4. CASE OtherPassEvicts(j)
    <3>1. \A k \in Keys : slot'[k] = IF k = j THEN "absent" ELSE slot[k]
      BY <1>0, <2>4 DEF OtherPassEvicts, Pooled
    <3>2. \A k \in Keys : Present(k)' => Present(k)
      BY <3>1 DEF Present
    <3> QED
      BY <1>0, <3>2, FewerWeighLess
  <2> QED
    BY <2>1, <2>2, <2>3, <2>4
<1> QED
  BY <1>1, <1>2, <1>3, <1>4, <1>5, <1>6, StepCases

(* A pass begins with what its pool held.                                  *)
LEMMA FitsInit ==
  ASSUME Held, Init, WarmFits(plan), plan.warm \subseteq Keys
  PROVE  Fits
<1>1. Resident = plan.warm
  BY DEF Init, Resident, Present
<1> QED
  BY <1>1 DEF Fits, WarmFits, Weight

(* What the pool holds at first are chunks it knows.                       *)
LEMMA WarmIsKnown ==
  ASSUME NEW p, Planned(p), Sound(p.config)
  PROVE  p.warm \subseteq DOMAIN p.weight
<1>1. p.warm = {<<p.config.views[1].path, cid>> : cid \in p.config.warm}
  BY DEF Planned, PlanOf
<1>2. DOMAIN p.weight = ReadableKeys(p.config.views)
  BY KeysAreKnown
<1>3. 1 \in DOMAIN p.config.views
  BY DEF Sound, Readable
<1>4. p.config.warm \subseteq Span(0, NChunks(p.config.views[1]))
  BY DEF Sound
<1>5. ASSUME NEW cid \in p.config.warm
      PROVE  <<p.config.views[1].path, cid>> \in ReadableKeys(p.config.views)
  BY <1>3, <1>4 DEF ReadableKeys
<1> QED
  BY <1>1, <1>2, <1>5

LEMMA BatchIsMeasured ==
  ASSUME NEW c, Sound(c)
  PROVE  BatchBytes(c) \in Nat
<1> DEFINE f == [v \in DOMAIN c.views |-> Product(InnerShape(Output(c, v))) * Output(c, v).item * c.batchSize]
<1>1. DOMAIN c.views = 1 .. Len(c.views) /\ Len(c.views) \in Nat /\ c.batchSize \in Nat
  BY DEF Sound, Readable
<1>2. ASSUME NEW v \in DOMAIN c.views
      PROVE  f[v] \in Nat
  <2>1. Measured(Output(c, v))
    BY DEF Sound, Output
  <2>2. Product(InnerShape(Output(c, v))) \in Nat /\ Output(c, v).item \in Nat
    BY <2>1, ProductOf, AxesAre
  <2>3. Product(InnerShape(Output(c, v))) * Output(c, v).item \in Nat
    BY <2>2
  <2>4. Product(InnerShape(Output(c, v))) * Output(c, v).item * c.batchSize \in Nat
    BY <1>1, <2>3
  <2> QED
    BY <2>4
<1>3. Counts(f, DOMAIN c.views)
  BY <1>1, <1>2, UpToIsFinite DEF Counts
<1>4. DOMAIN f = DOMAIN c.views
  OBVIOUS
<1>5. BatchBytes(c) = SumOver(f)
  BY DEF BatchBytes
<1> HIDE DEF f
<1>6. SumOn(f, DOMAIN c.views) \in Nat
  BY <1>3, NumberedIsFinite
<1> QED
  BY <1>4, <1>5, <1>6 DEF SumOver

LEMMA MemoryIs ==
  ASSUME NEW c, NEW budget
  PROVE  LET report == Report(c, budget)
         IN  /\ report.memory.residency = budget * c.iterations
             /\ report.memory.queue = (MaxOf(c.depth, 1) + 1) * BatchBytes(c)
             /\ report.config.blockChunks = BlockChunks(c)
             /\ report.config.drawable = [part \in Parts |-> DrawableSamples(c, part)]
             /\ report.config.splitChunks = [part \in Parts |-> Cardinality(c.manifest[part])]
<1> DEFINE variables == [v \in DOMAIN c.views |-> VariableReport(c, v)]
           config == ConfigReport(c, budget)
<1>1. /\ config.budget = budget /\ config.prefetchDepth = MaxOf(c.depth, 1) /\ config.blockChunks = BlockChunks(c)
      /\ config.drawable = [part \in Parts |-> DrawableSamples(c, part)]
      /\ config.splitChunks = [part \in Parts |-> Cardinality(c.manifest[part])]
  BY DEF ConfigReport
<1>2. Report(c, budget).config = config /\ Report(c, budget).memory = MemoryReport(c, variables, config)
  BY DEF Report
<1> HIDE DEF variables, config
<1>3. /\ MemoryReport(c, variables, config).residency = config.budget * c.iterations
      /\ MemoryReport(c, variables, config).queue = (config.prefetchDepth + 1) * BatchBytes(c)
  BY DEF MemoryReport
<1> QED
  BY <1>1, <1>2, <1>3

LEMMA BatchesInHandAreFew ==
  ASSUME Held
  PROVE  BatchesInHand \in Nat /\ BatchesInHand <= plan.depth + 1
<1> DEFINE batches == {i \in DOMAIN outq : outq[i].kind = "batch"}
<1>1. DOMAIN outq = 1 .. Len(outq) /\ Len(outq) \in Nat /\ Len(outq) <= plan.depth
  BY Ground DEF Callers
<1>2. IsFiniteSet(DOMAIN outq) /\ Cardinality(DOMAIN outq) = Len(outq)
  BY <1>1, UpToIsFinite
<1>3. IsFiniteSet(batches) /\ Cardinality(batches) <= Cardinality(DOMAIN outq) /\ Cardinality(batches) \in Nat
  BY <1>2, FS_Subset, FS_CardinalityType
<1>4. plan.depth \in Nat
  BY Ground, Sizes
<1>5. BatchesInHand \in {Cardinality(batches), Cardinality(batches) + 1}
  BY <1>3 DEF BatchesInHand
<1> HIDE DEF batches
<1> QED
  BY <1>1, <1>2, <1>3, <1>4, <1>5

(* The queue and the residency a report announces are never exceeded.      *)
LEMMA MemoryIsEnough ==
  ASSUME Held, Fits, plan = PlanOf(Config), Sound(Config)
  PROVE  HoldsThePass(Report(Config, plan.budget).memory)
<1>1. plan.depth = MaxOf(Config.depth, 1)
  <2> DEFINE p == plan
  <2>1. PlanOf(Config).depth = MaxOf(Config.depth, 1)
    BY DEF PlanOf
  <2> QED
    BY <2>1
<1>2. plan.depth \in Nat /\ plan.budget \in Nat
  BY Ground, Sizes DEF KnownPlan, Coherent, Sized
<1>3. BatchBytes(Config) \in Nat
  BY BatchIsMeasured
<1>4. BatchesInHand * BatchBytes(Config) <= (plan.depth + 1) * BatchBytes(Config)
  BY <1>2, <1>3, BatchesInHandAreFew, TimesGrows
<1>5. Config.iterations \in Nat \ {0}
  BY DEF Sound
<1>6. plan.budget * 1 <= plan.budget * Config.iterations /\ plan.budget * Config.iterations \in Nat
  BY <1>2, <1>5, TimesGrows
<1>7. Weight(Resident) \in Nat /\ Weight(Resident) <= plan.budget
  BY WeightsCount DEF Fits, Resident
<1>8. Weight(Resident) <= plan.budget * Config.iterations
  BY <1>2, <1>6, <1>7
<1> QED
  BY <1>1, <1>4, <1>8, MemoryIs DEF HoldsThePass

-----------------------------------------------------------------------------
(* Notes.                                                                  *)

LEMMA NotesAre ==
  ASSUME NEW variables, NEW config, NEW subject
  PROVE  /\ Note("split-yields-nothing", subject) \in Notes(variables, config) <=>
              subject \in Parts /\ config.drawable[subject] = 0 /\ config.splitChunks[subject] # 0
         /\ Note("ragged-grid", subject) \in Notes(variables, config) <=>
              subject \in DOMAIN variables /\ Ragged(variables[subject])
<1> DEFINE short == {Note("short-gather-run", v) : v \in {w \in DOMAIN variables : variables[w].gatherRun < MinGatherRunBytes}}
           ragged == {Note("ragged-grid", v) : v \in {w \in DOMAIN variables : Ragged(variables[w])}}
           fat == {Note("single-inner-fat-chunk", v) : v \in {w \in DOMAIN variables : variables[w].storedChunks = 1}}
           empty == {Note("split-yields-nothing", part) :
                       part \in {p \in Parts : config.drawable[p] = 0 /\ config.splitChunks[p] # 0}}
           widened == IF config.blockChunks # config.blockChunksRequested
                      THEN {Note("block-chunks-widened", "config")} ELSE {}
<1>1. Notes(variables, config) = short \cup ragged \cup fat \cup empty \cup widened
  BY DEF Notes
<1>2. /\ Note("split-yields-nothing", subject) \notin short /\ Note("split-yields-nothing", subject) \notin ragged
      /\ Note("split-yields-nothing", subject) \notin fat /\ Note("split-yields-nothing", subject) \notin widened
  BY DEF Note
<1>3. /\ Note("ragged-grid", subject) \notin short /\ Note("ragged-grid", subject) \notin empty
      /\ Note("ragged-grid", subject) \notin fat /\ Note("ragged-grid", subject) \notin widened
  BY DEF Note
<1>4. Note("split-yields-nothing", subject) \in empty <=>
        subject \in Parts /\ config.drawable[subject] = 0 /\ config.splitChunks[subject] # 0
  BY DEF Note
<1>5. Note("ragged-grid", subject) \in ragged <=> subject \in DOMAIN variables /\ Ragged(variables[subject])
  BY DEF Note
<1> HIDE DEF short, ragged, fat, empty, widened
<1> QED
  BY <1>1, <1>2, <1>3, <1>4, <1>5

-----------------------------------------------------------------------------
(* Rows.                                                                   *)

(* The rows of one chunk that each view has a sample for lie between two   *)
(* anchors.                                                                *)
LeftOf(c, cid) ==
  LET valid == ValidAnchorRange(c.views, c.n)
  IN  MaxOf(0, MinOf(valid.hi, MinOf((cid + 1) * c.refSpc, c.n)) - MaxOf(valid.lo, cid * c.refSpc))
RowsOnChunk(chunks, cid, c) == {row \in RowsOn(chunks, c.views, c.refSpc, c.n) : row[1] = cid}

LEMMA RowsOfChunkCount ==
  ASSUME NEW c, Sound(c), NEW chunks \in SUBSET Nat, NEW cid \in chunks
  PROVE  /\ IsFiniteSet(RowsOnChunk(chunks, cid, c)) /\ LeftOf(c, cid) \in Nat
         /\ Cardinality(RowsOnChunk(chunks, cid, c)) = LeftOf(c, cid)
<1> DEFINE valid == ValidAnchorRange(c.views, c.n)
           first == MaxOf(valid.lo, cid * c.refSpc)
           past == MinOf(valid.hi, MinOf((cid + 1) * c.refSpc, c.n))
<1>1. c.n \in Nat /\ c.refSpc \in Nat \ {0} /\ Viewing(c.views) /\ cid \in Nat
  BY DEF Sound, Viewing
<1>2. /\ valid.lo \in Nat /\ valid.hi \in Int
      /\ \A a \in Span(0, c.n) : a \in Span(valid.lo, valid.hi) <=> OnEach(a, c.views, c.n)
  BY <1>1, ValidRangeIs
<1>3. PICK from \in Nat : from = cid * c.refSpc
  BY <1>1
<1>4. (cid + 1) * c.refSpc = from + c.refSpc
  BY <1>1, <1>3
<1>5. PICK f \in Nat, e \in Int, lo \in Nat, hi \in Int :
        /\ lo = valid.lo /\ hi = valid.hi
        /\ f = MaxOf(lo, from) /\ f = first
        /\ e = MinOf(hi, MinOf(from + c.refSpc, c.n)) /\ e = past
  <2>1. PICK lo \in Nat, hi \in Int : lo = valid.lo /\ hi = valid.hi
    BY <1>2
  <2>2. PICK n \in Nat, s \in Nat : n = c.n /\ s = c.refSpc
    BY <1>1
  <2>3. first = MaxOf(lo, from) /\ past = MinOf(hi, MinOf(from + s, n))
    BY <1>3, <1>4, <2>1, <2>2
  <2>4. MaxOf(lo, from) \in Nat /\ MinOf(hi, MinOf(from + s, n)) \in Int
    BY DEF MinOf, MaxOf
  <2> HIDE DEF valid, first, past
  <2> QED
    BY <2>1, <2>2, <2>3, <2>4
<1>0. LeftOf(c, cid) = MaxOf(0, past - first)
  BY DEF LeftOf
<1> HIDE DEF valid, first, past
<1>6. PICK m \in Nat : m = MaxOf(0, past - first) /\ (m = e - f \/ (m = 0 /\ e <= f))
  BY <1>5 DEF MaxOf
<1>7. ASSUME NEW row
      PROVE  row \in RowsOnChunk(chunks, cid, c) <=>
               row \in Nat \X Nat /\ row[1] = cid /\ f <= from + row[2] /\ from + row[2] < e
  <2>1. CASE row \in Nat \X Nat /\ row[1] = cid
    <3>1. PICK w \in Nat : row[2] = w /\ Anchor(row, c.refSpc) = from + w
      BY <1>3, <2>1 DEF Anchor
    <3>2. row \in RowsOnChunk(chunks, cid, c) <=> w < c.refSpc /\ from + w < c.n /\ OnEach(from + w, c.views, c.n)
      BY <2>1, <3>1 DEF RowsOnChunk, RowsOn, RowsOf
    <3>3. from + w < c.n => (OnEach(from + w, c.views, c.n) <=> lo <= from + w /\ from + w < hi)
      BY <1>1, <1>2, <1>5, <3>1 DEF Span
    <3>4. f <= from + w <=> lo <= from + w
      BY <1>5 DEF MaxOf
    <3>5. from + w < e <=> from + w < hi /\ w < c.refSpc /\ from + w < c.n
      BY <1>1, <1>5 DEF MinOf
    <3> QED
      BY <2>1, <3>1, <3>2, <3>3, <3>4, <3>5
  <2>2. CASE ~(row \in Nat \X Nat /\ row[1] = cid)
    BY <2>2 DEF RowsOnChunk, RowsOn, RowsOf
  <2> QED
    BY <2>1, <2>2
<1> DEFINE g == [i \in 1 .. m |-> <<cid, f - from + i - 1>>]
<1>8. f >= from
  BY <1>5 DEF MaxOf
<1>9. g \in Bijection(1 .. m, RowsOnChunk(chunks, cid, c))
  <2>1. ASSUME NEW i \in 1 .. m PROVE g[i] \in RowsOnChunk(chunks, cid, c)
    <3>1. f - from + i - 1 \in Nat /\ from + (f - from + i - 1) < e /\ f <= from + (f - from + i - 1)
      BY <1>6, <1>8
    <3>2. g[i] = <<cid, f - from + i - 1>> /\ g[i] \in Nat \X Nat
      BY <1>1, <3>1
    <3> QED
      BY <1>7, <3>1, <3>2
  <2>2. ASSUME NEW i \in 1 .. m, NEW j \in 1 .. m, g[i] = g[j] PROVE i = j
    <3>1. f - from + i - 1 = f - from + j - 1
      BY <2>2
    <3> QED
      BY <3>1
  <2>3. ASSUME NEW row \in RowsOnChunk(chunks, cid, c) PROVE \E i \in 1 .. m : g[i] = row
    <3>1. PICK w \in Nat : row = <<cid, w>> /\ f <= from + w /\ from + w < e
      <4>1. row \in Nat \X Nat /\ row[1] = cid /\ f <= from + row[2] /\ from + row[2] < e
        BY <1>7, <2>3
      <4> QED
        BY <4>1
    <3>2. from + w - f + 1 \in 1 .. m
      BY <1>6, <3>1
    <3>3. g[from + w - f + 1] = <<cid, f - from + (from + w - f + 1) - 1>>
      BY <3>2
    <3>4. f - from + (from + w - f + 1) - 1 = w
      BY <1>5, <3>1
    <3> QED
      BY <3>1, <3>2, <3>3, <3>4
  <2> HIDE DEF g
  <2>4. g \in [1 .. m -> RowsOnChunk(chunks, cid, c)]
    BY <2>1 DEF g
  <2> QED
    BY <2>2, <2>3, <2>4 DEF Bijection, Injection, Surjection, IsInjective
<1> HIDE DEF g
<1>10. IsFiniteSet(1 .. m) /\ Cardinality(1 .. m) = m
  BY UpToIsFinite
<1>11. IsFiniteSet(RowsOnChunk(chunks, cid, c)) /\ Cardinality(RowsOnChunk(chunks, cid, c)) = m
  <2>1. PICK D : D = 1 .. m
    OBVIOUS
  <2>2. ExistsBijection(D, RowsOnChunk(chunks, cid, c))
    BY <1>9, <2>1 DEF ExistsBijection
  <2> QED
    BY <1>10, <2>1, <2>2, FS_Bijection
<1> QED
  BY <1>0, <1>6, <1>11
LEMMA DrawableCounts ==
  ASSUME NEW c, Sound(c), SampleChunkSize(c.views[1]) = c.refSpc, NEW part \in Parts
  PROVE  /\ IsFiniteSet(RowsOn(c.manifest[part], c.views, c.refSpc, c.n))
         /\ DrawableSamples(c, part) = Cardinality(RowsOn(c.manifest[part], c.views, c.refSpc, c.n))
<1> DEFINE F == c.manifest[part]
           R == [cid \in F |-> RowsOnChunk(F, cid, c)]
           drawable == [cid \in F |-> LeftOf(c, cid)]
<1>1. c.n \in Nat /\ c.refSpc \in Nat \ {0} /\ NSamples(c.views[1]) = c.n
  BY DEF Sound, Readable, Paired
<1>2. IsFiniteSet(F) /\ F \in SUBSET Nat
  <2>1. CeilDiv(c.n, c.refSpc) \in Nat
    BY <1>1, CeilingIs
  <2>2. PICK m \in Nat : m = CeilDiv(c.n, c.refSpc)
    BY <2>1
  <2>3. Span(0, m) \in SUBSET Nat /\ IsFiniteSet(Span(0, m))
    BY FS_Interval DEF Span
  <2>4. F \subseteq Span(0, m)
    BY <2>2 DEF Sound
  <2> QED
    BY <2>3, <2>4, FS_Subset
<1>3. DrawableSamples(c, part) = SumOver(drawable)
  BY <1>1 DEF DrawableSamples, LeftOf
<1> HIDE DEF F
<1>4. SumOver(drawable) = SumOn(drawable, F)
  BY DEF SumOver
<1>5. ASSUME NEW cid \in F
      PROVE  IsFiniteSet(R[cid]) /\ Cardinality(R[cid]) = drawable[cid] /\ R[cid] = RowsOnChunk(F, cid, c)
  BY <1>2, RowsOfChunkCount
<1>6. SumOn(drawable, F) = SumOn([cid \in F |-> Cardinality(R[cid])], F)
  <2> HIDE DEF R, drawable
  <2>1. \A cid \in F : drawable[cid] = [x \in F |-> Cardinality(R[x])][cid]
    BY <1>5
  <2> QED
    BY <2>1, SumOfSame
<1>7. Apart(R, F)
  <2>1. \A x, y \in F : R[x] \cap R[y] # {} => x = y
    BY DEF RowsOnChunk
  <2> HIDE DEF R
  <2> QED
    BY <1>2, <1>5, <2>1 DEF Apart
<1>8. UNION {R[cid] : cid \in F} = RowsOn(F, c.views, c.refSpc, c.n)
  BY DEF RowsOnChunk, RowsOn, RowsOf
<1> HIDE DEF R, drawable
<1>9. /\ IsFiniteSet(UNION {R[cid] : cid \in F})
      /\ SumOn([cid \in F |-> Cardinality(R[cid])], F) = Cardinality(UNION {R[cid] : cid \in F})
  BY <1>7, SumOfDisjoint
<1> QED
  BY <1>3, <1>4, <1>6, <1>8, <1>9 DEF F

(* A pass over another part, in order, is a pass that can be made.         *)
LEMMA OtherPartIsSound ==
  ASSUME NEW c, Sound(c), NEW part \in Parts
  PROVE  LET other == [c EXCEPT !.part = part, !.shuffle = FALSE]
         IN  /\ Sound(other) /\ ChunkIds(other.manifest, other.part) = c.manifest[part]
             /\ other.views = c.views /\ other.refSpc = c.refSpc /\ other.n = c.n
<1> DEFINE other == [c EXCEPT !.part = part, !.shuffle = FALSE]
<1>1. Fields \subseteq DOMAIN c
  BY DEF Sound
<1>2. /\ other.n = c.n /\ other.refSpc = c.refSpc /\ other.requested = c.requested
      /\ other.batchSize = c.batchSize /\ other.depth = c.depth /\ other.views = c.views
      /\ other.part = part /\ other.manifest = c.manifest /\ other.perm = c.perm
      /\ other.warm = c.warm /\ other.cached = c.cached /\ other.userBudget = c.userBudget
      /\ other.iterations = c.iterations /\ other.pipeline = c.pipeline /\ other.shuffle = FALSE
      /\ DOMAIN other = DOMAIN c
  BY <1>1 DEF Fields
<1> HIDE DEF other
<1>3. ~Shuffles(other) /\ (Paired(other) <=> Paired(c))
  BY <1>2 DEF Shuffles, Paired
<1>4. Sound(other)
  BY <1>2, <1>3 DEF Sound
<1>5. ChunkIds(other.manifest, other.part) = c.manifest[part]
  BY <1>2 DEF ChunkIds, Parts
<1> QED
  BY <1>2, <1>4, <1>5 DEF other

LEMMA RowsAreCounted ==
  ASSUME Sound(Config), SampleChunkSize(Config.views[1]) = Config.refSpc, NEW part \in Parts
  PROVE  RowsOfPart(part) = DrawableSamples(Config, part)
<1> DEFINE other == [Config EXCEPT !.part = part, !.shuffle = FALSE]
           rows == OrderOf(other).rows
<1>1. /\ Sound(other) /\ ChunkIds(other.manifest, other.part) = Config.manifest[part]
      /\ other.views = Config.views /\ other.refSpc = Config.refSpc /\ other.n = Config.n
  BY OtherPartIsSound
<1>2. RowsOfPart(part) = Len(rows)
  BY DEF RowsOfPart
<1> HIDE DEF other
<1>3. /\ Laid(OrderOf(other)) /\ Distinct(rows)
      /\ Terms(rows) = RowsOn(Config.manifest[part], Config.views, Config.refSpc, Config.n)
  BY <1>1, OrderIs
<1>4. rows \in Seq(Nat \X Nat)
  BY <1>3 DEF Laid
<1> HIDE DEF rows
<1>5. Len(rows) = Cardinality(Terms(rows))
  BY <1>3, <1>4, DistinctCounts
<1> QED
  BY <1>2, <1>3, <1>5, DrawableCounts

LEMMA RowsAreReported ==
  ASSUME Sound(Config), SampleChunkSize(Config.views[1]) = Config.refSpc, NEW budget
  PROVE  CountsRows(Report(Config, budget))
<1> DEFINE report == Report(Config, budget)
<1> SUFFICES ASSUME NEW part \in Parts
             PROVE  /\ report.config.drawable[part] = RowsOfPart(part)
                    /\ Note("split-yields-nothing", part) \in report.notes <=>
                         Config.manifest[part] # {} /\ RowsOfPart(part) = 0
  BY DEF CountsRows
<1>1. /\ report.config.drawable[part] = DrawableSamples(Config, part)
      /\ report.config.splitChunks[part] = Cardinality(Config.manifest[part])
  <2>1. report.config.drawable = [x \in Parts |-> DrawableSamples(Config, x)]
    BY MemoryIs
  <2>2. report.config.splitChunks = [x \in Parts |-> Cardinality(Config.manifest[x])]
    BY MemoryIs
  <2> HIDE DEF report
  <2> QED
    BY <2>1, <2>2
<1>2. report.notes = Notes(report.variables, report.config)
  BY DEF Report
<1> HIDE DEF report
<1>3. Note("split-yields-nothing", part) \in report.notes <=>
        report.config.drawable[part] = 0 /\ report.config.splitChunks[part] # 0
  BY <1>2, NotesAre
<1>4. Cardinality(Config.manifest[part]) # 0 <=> Config.manifest[part] # {}
  <2>1. Config.n \in Nat /\ Config.refSpc \in Nat \ {0}
    BY DEF Sound
  <2>2. PICK m \in Nat : m = CeilDiv(Config.n, Config.refSpc)
    BY <2>1, CeilingIs
  <2>3. IsFiniteSet(Span(0, m))
    BY FS_Interval DEF Span
  <2>4. Config.manifest[part] \subseteq Span(0, m)
    BY <2>2 DEF Sound
  <2>5. IsFiniteSet(Config.manifest[part])
    BY <2>3, <2>4, FS_Subset
  <2> QED
    BY <2>5, FS_EmptySet
<1> QED
  BY <1>1, <1>3, <1>4, RowsAreCounted

-----------------------------------------------------------------------------
(* Padding.                                                                *)

(* The declarations of a pipeline, one after the other: f[n] is what the   *)
(* first n of them make of base.                                           *)
Declarations(f, base, transforms, n) ==
  f = [k \in 0 .. n |-> IF k = 0 THEN base ELSE Declared(f[k - 1], transforms[k])]

LEMMA DeclarationsExist ==
  ASSUME NEW base, NEW transforms, NEW n \in Nat
  PROVE  \E f : Declarations(f, base, transforms, n)
<1> DEFINE Bad == {m \in Nat : ~ \E f : Declarations(f, base, transforms, m)}
<1> SUFFICES ASSUME Bad # {} PROVE FALSE
  OBVIOUS
<1>1. PICK m \in Bad : \A k \in Bad : m <= k
  BY SmallestOf
<1>2. CASE m = 0
  <2>1. Declarations([k \in 0 .. 0 |-> base], base, transforms, 0)
    BY DEF Declarations
  <2> QED
    BY <1>2, <2>1
<1>3. CASE m # 0
  <2>1. m - 1 \in Nat /\ m - 1 \notin Bad
    BY <1>1, <1>3
  <2>2. PICK p : Declarations(p, base, transforms, m - 1)
    BY <2>1
  <2> DEFINE g == [k \in 0 .. m |-> IF k = m THEN Declared(p[m - 1], transforms[m]) ELSE p[k]]
  <2>3. \A k \in 0 .. m : g[k] = IF k = 0 THEN base ELSE Declared(g[k - 1], transforms[k])
    <3> SUFFICES ASSUME NEW k \in 0 .. m
                 PROVE  g[k] = IF k = 0 THEN base ELSE Declared(g[k - 1], transforms[k])
      OBVIOUS
    <3>0. k \in Nat /\ m \in Nat
      BY <2>1
    <3>1. CASE k = m
      <4>1. g[k - 1] = p[m - 1] /\ g[k] = Declared(p[m - 1], transforms[m])
        BY <1>3, <3>0, <3>1
      <4> QED
        BY <1>3, <3>1, <4>1
    <3>2. CASE k # m
      <4>1. k \in 0 .. m - 1 /\ g[k] = p[k] /\ (k # 0 => k - 1 \in 0 .. m /\ k - 1 # m)
        BY <3>0, <3>2
      <4>2. p[k] = IF k = 0 THEN base ELSE Declared(p[k - 1], transforms[k])
        BY <2>2, <4>1 DEF Declarations
      <4>3. k # 0 => g[k - 1] = p[k - 1]
        BY <4>1
      <4> QED
        BY <4>1, <4>2, <4>3
    <3> QED
      BY <3>1, <3>2
  <2>4. g = [k \in 0 .. m |-> g[k]]
    OBVIOUS
  <2>5. Declarations(g, base, transforms, m)
    <3> HIDE DEF g
    <3> QED
      BY <2>3, <2>4 DEF Declarations
  <2> QED
    BY <1>1, <2>5
<1> QED
  BY <1>2, <1>3

(* Transforms that declare nothing change nothing.                         *)
LEMMA NothingFolded ==
  ASSUME NEW base, NEW transforms, Len(transforms) \in Nat,
         \A k \in 1 .. Len(transforms) : ~transforms[k].declares
  PROVE  Declaring(base, transforms) = base
<1> DEFINE f == CHOOSE g : Declarations(g, base, transforms, Len(transforms))
<1>1. Declarations(f, base, transforms, Len(transforms))
  BY DeclarationsExist
<1>2. Declaring(base, transforms) = f[Len(transforms)]
  BY DEF Declaring, Declarations
<1> HIDE DEF f
<1>3. PICK n \in Nat : n = Len(transforms)
  OBVIOUS
<1> DEFINE Bad == {k \in 0 .. n : f[k] # base}
<1>4. Bad = {}
  <2> SUFFICES ASSUME Bad # {} PROVE FALSE
    OBVIOUS
  <2>1. PICK m \in Bad : \A k \in Bad : m <= k
    <3>1. Bad \in SUBSET Nat
      OBVIOUS
    <3> HIDE DEF Bad
    <3> QED
      BY <3>1, SmallestOf
  <2>2. m \in 1 .. n /\ f[m] # base
    BY <1>1, <1>3 DEF Declarations
  <2>3. m - 1 \in 0 .. n /\ f[m - 1] = base
    BY <2>1, <2>2
  <2>4. f[m] = Declared(f[m - 1], transforms[m])
    BY <1>1, <1>3, <2>2 DEF Declarations
  <2>5. ~transforms[m].declares
    BY <1>3, <2>2
  <2> QED
    BY <2>2, <2>3, <2>4, <2>5 DEF Declared
<1> QED
  BY <1>2, <1>3, <1>4

(* Without transforms an array is what it was, in one tile.                *)
LEMMA NothingDeclared ==
  ASSUME NEW g, Measured(g)
  PROVE  LET out == OutputGeometry(g, <<>>)
         IN  /\ InnerShape(out) = InnerShape(g) /\ out.item = g.item
             /\ SamplesInChunk(out, 0) = SamplesInChunk(g, 0)
<1> DEFINE out == OutputGeometry(g, <<>>)
           inner == InnerShape(g)
           shape == InsertAt(inner, g.axis + 1, NSamples(g))
           chunks == InsertAt(inner, g.axis + 1, SampleChunkSize(g))
<1>1. TransformsFor(g.path, <<>>) = <<>>
  <2>1. DOMAIN <<>> = {}
    OBVIOUS
  <2>2. Ascending({}) = <<>>
    BY FS_EmptySet DEF Ascending
  <2>3. {i \in DOMAIN <<>> : AppliesTo(<<>>[i], g.path)} = {}
    BY <2>1
  <2> QED
    BY <2>1, <2>2, <2>3 DEF TransformsFor, At
<1>2. out = Rebuild(g, inner, g.item)
  BY <1>1, NothingFolded DEF OutputGeometry
<1>3. DOMAIN g = {"path", "shape", "chunks", "item", "offset", "axis"}
  BY DEF Measured
<1> HIDE DEF out, inner
<1>4. out.shape = shape /\ out.chunks = chunks /\ out.item = g.item /\ out.axis = g.axis
  BY <1>2, <1>3 DEF Rebuild
<1>5. /\ inner \in Seq(Nat) /\ NSamples(g) \in Nat /\ SampleChunkSize(g) \in Nat
      /\ g.axis \in Nat /\ g.axis <= Len(inner)
  BY AxesAre DEF inner
<1>6. /\ shape[g.axis + 1] = NSamples(g) /\ RemoveAt(shape, g.axis + 1) = inner
      /\ chunks[g.axis + 1] = SampleChunkSize(g)
  <2>1. PICK b : b = g.axis + 1 /\ b \in 1 .. Len(inner) + 1
    BY <1>5
  <2>2. PICK E : E = Nat
    OBVIOUS
  <2>3. inner \in Seq(E) /\ NSamples(g) \in E /\ SampleChunkSize(g) \in E
    BY <1>5, <2>2
  <2>4. /\ InsertAt(inner, b, NSamples(g))[b] = NSamples(g) /\ RemoveAt(InsertAt(inner, b, NSamples(g)), b) = inner
        /\ InsertAt(inner, b, SampleChunkSize(g))[b] = SampleChunkSize(g)
    BY <2>1, <2>3, AxisInserted
  <2> QED
    BY <2>1, <2>4
<1> HIDE DEF shape, chunks
<1>8. InnerShape(out) = inner /\ NSamples(out) = NSamples(g) /\ SampleChunkSize(out) = SampleChunkSize(g)
  BY <1>4, <1>6 DEF InnerShape, DropSample, NSamples, SampleChunkSize
<1>9. SamplesInChunk(out, 0) = SamplesInChunk(g, 0)
  BY <1>8 DEF SamplesInChunk
<1> QED
  BY <1>4, <1>8, <1>9 DEF inner, out

(* What is reported of a view without transforms.                          *)
LEMMA ReportOfPlain ==
  ASSUME NEW c, c.pipeline = <<>>, NEW v \in DOMAIN c.views, Measured(c.views[v])
  PROVE  LET g == c.views[v]
         IN  /\ VariableReport(c, v).logical = Product(SlotShape(g, 0)) * g.item
             /\ VariableReport(c, v).slot = NInnerChunks(g) * Product(TileShape(g)) * g.item
<1> DEFINE g == c.views[v]
           out == OutputGeometry(g, <<>>)
<1>1. /\ InnerShape(out) = InnerShape(g) /\ out.item = g.item
      /\ SamplesInChunk(out, 0) = SamplesInChunk(g, 0)
  BY NothingDeclared
<1>2. /\ VariableReport(c, v).logical = Product(SlotShape(out, 0)) * out.item
      /\ VariableReport(c, v).slot = SlotChargeBytes(g, out, 0, Assembles(c.pipeline))
  BY DEF VariableReport, Output
<1>3. SlotShape(out, 0) = SlotShape(g, 0)
  BY <1>1 DEF SlotShape
<1>4. SlotChargeBytes(g, out, 0, Assembles(c.pipeline)) = ChunkBytes(g)
  BY DEF SlotChargeBytes, Assembles
<1> HIDE DEF out
<1> QED
  BY <1>1, <1>2, <1>3, <1>4 DEF ChunkBytes

(* The members of a box.                                                   *)
LEMMA InBox ==
  ASSUME NEW shape \in Seq(Nat), NEW f
  PROVE  f \in Box(shape) <=>
           /\ f = [d \in 1 .. Len(shape) |-> f[d]]
           /\ \A d \in 1 .. Len(shape) : f[d] \in Nat /\ f[d] < shape[d]
<1>1. DOMAIN shape = 1 .. Len(shape)
  OBVIOUS
<1>2. ASSUME f \in Box(shape), NEW d \in 1 .. Len(shape)
      PROVE  f[d] \in Nat /\ f[d] < shape[d]
  <2>1. f[d] \in UNION {Span(0, shape[e]) : e \in DOMAIN shape} /\ f[d] < shape[d]
    BY <1>1, <1>2 DEF Box
  <2>2. PICK e \in 1 .. Len(shape) : f[d] \in Span(0, shape[e])
    BY <1>1, <2>1
  <2>3. shape[e] \in Nat
    OBVIOUS
  <2>4. f[d] \in Nat
    BY <2>2, <2>3 DEF Span
  <2> QED
    BY <2>1, <2>4
<1>3. ASSUME f \in Box(shape)
      PROVE  f = [d \in 1 .. Len(shape) |-> f[d]]
  BY <1>1, <1>3 DEF Box
<1>4. ASSUME f = [d \in 1 .. Len(shape) |-> f[d]],
             \A d \in 1 .. Len(shape) : f[d] \in Nat /\ f[d] < shape[d]
      PROVE  f \in Box(shape)
  <2>1. ASSUME NEW d \in 1 .. Len(shape)
        PROVE  f[d] \in Span(0, shape[d])
    <3>1. shape[d] \in Nat /\ f[d] \in Nat /\ f[d] < shape[d]
      BY <1>4
    <3> QED
      BY <3>1 DEF Span
  <2>2. ASSUME NEW d \in 1 .. Len(shape)
        PROVE  f[d] \in UNION {Span(0, shape[e]) : e \in DOMAIN shape}
    BY <1>1, <2>1
  <2> DEFINE all == UNION {Span(0, shape[e]) : e \in DOMAIN shape}
  <2>3. f \in [DOMAIN shape -> all]
    <3> HIDE DEF all
    <3> QED
      BY <1>1, <1>4, <2>2 DEF all
  <2>4. \A d \in DOMAIN shape : f[d] < shape[d]
    BY <1>1, <1>4
  <2> QED
    BY <2>3, <2>4 DEF Box
<1> QED
  BY <1>2, <1>3, <1>4

(* How much of a chunk's first sample-axis chunk an array fills.           *)
LEMMA FirstChunkHolds ==
  ASSUME NEW g, Measured(g)
  PROVE  /\ Cardinality(SamplesInChunk(g, 0)) \in Nat
         /\ Cardinality(SamplesInChunk(g, 0)) <= SampleChunkSize(g)
<1>1. PICK n \in Nat, s \in Nat : n = NSamples(g) /\ s = SampleChunkSize(g)
  BY AxesAre
<1>2. 0 * s = 0 /\ (0 + 1) * s = s
  OBVIOUS
<1>3. PICK m \in Nat : m = MinOf(s, n) /\ m <= s
  BY DEF MinOf
<1>4. SamplesInChunk(g, 0) = 0 .. m - 1
  BY <1>1, <1>2, <1>3 DEF SamplesInChunk, Span
<1>5. Cardinality(0 .. m - 1) = m
  <2>1. 0 \in Int /\ m - 1 \in Int
    OBVIOUS
  <2>2. Cardinality(0 .. m - 1) = IF 0 > m - 1 THEN 0 ELSE m - 1 - 0 + 1
    BY <2>1, FS_Interval
  <2> QED
    BY <2>2
<1> QED
  BY <1>1, <1>3, <1>4, <1>5

(* When a stored tile is all data.                                         *)
LEMMA CompleteIs ==
  ASSUME NEW g, Measured(g), NEW coord \in InnerCoords(g)
  PROVE  TilePlacement(g, 0, coord).complete <=>
           /\ Cardinality(SamplesInChunk(g, 0)) = SampleChunkSize(g)
           /\ \A i \in 1 .. Len(InnerShape(g)) :
                MinOf((coord[i] + 1) * InnerChunks(g)[i], InnerShape(g)[i]) - coord[i] * InnerChunks(g)[i]
                  = InnerChunks(g)[i]
<1> DEFINE low(i) == coord[i] * InnerChunks(g)[i]
           high(i) == MinOf((coord[i] + 1) * InnerChunks(g)[i], InnerShape(g)[i])
           rest == [i \in DOMAIN coord |-> <<low(i), high(i)>>]
           card == Cardinality(SamplesInChunk(g, 0))
           out == <<<<0, card>>>> \o rest
           chunk == [i \in DOMAIN out |-> <<0, out[i][2] - out[i][1]>>]
<1>1. TilePlacement(g, 0, coord).complete <=> \A i \in DOMAIN chunk : chunk[i][2] = TileShape(g)[i]
  BY DEF TilePlacement
<1>2. PICK n \in Nat : n = Len(InnerShape(g))
  BY AxesAre
<1>3. /\ InnerShape(g) \in Seq(Nat) /\ InnerChunks(g) \in Seq(Nat \ {0}) /\ Len(InnerChunks(g)) = n
      /\ SampleChunkSize(g) \in Nat /\ DOMAIN InnerShape(g) = 1 .. n
  BY <1>2, AxesAre
<1>4. ASSUME NEW i \in 1 .. n
      PROVE  InnerGrid(g)[i] \in Nat
  <2>1. InnerShape(g)[i] \in Nat /\ InnerChunks(g)[i] \in Nat \ {0}
    BY <1>2, <1>3
  <2>2. CeilDiv(InnerShape(g)[i], InnerChunks(g)[i]) \in Nat
    BY <2>1, CeilingIs
  <2> QED
    BY <1>3, <2>2 DEF InnerGrid
<1>5. InnerGrid(g) \in Seq(Nat) /\ Len(InnerGrid(g)) = n
  BY <1>3, <1>4 DEF InnerGrid
<1>6. coord = [i \in 1 .. n |-> coord[i]] /\ \A i \in 1 .. n : coord[i] \in Nat
  BY <1>5, InBox DEF InnerCoords
<1>7. card \in Nat
  BY FirstChunkHolds
<1>8. ASSUME NEW i \in 1 .. n
      PROVE  low(i) \in Int /\ high(i) \in Int
  <2>1. PICK a \in Nat, b \in Nat, c \in Nat : a = coord[i] /\ b = InnerChunks(g)[i] /\ c = InnerShape(g)[i]
    BY <1>2, <1>3, <1>6
  <2>2. a * b \in Int /\ (a + 1) * b \in Int
    OBVIOUS
  <2> QED
    BY <2>1, <2>2 DEF MinOf
<1> HIDE DEF low, high, card
<1>9. PICK E : E = Int \X Int
  OBVIOUS
<1>0. PICK h : h = <<<<0, card>>>>
  OBVIOUS
<1>10. h \in Seq(E) /\ Len(h) = 1 /\ h[1] = <<0, card>>
  <2>1. <<0, card>> \in E
    BY <1>7, <1>9
  <2> QED
    BY <1>0, <2>1
<1>11. rest \in Seq(E) /\ Len(rest) = n /\ \A i \in 1 .. n : rest[i] = <<low(i), high(i)>>
  <2>1. DOMAIN coord = 1 .. n
    BY <1>6
  <2>2. \A i \in 1 .. n : <<low(i), high(i)>> \in E
    BY <1>8, <1>9
  <2> QED
    BY <2>1, <2>2
<1> HIDE DEF rest
<1>12. /\ out \in Seq(E) /\ Len(out) = 1 + n
       /\ \A i \in 1 .. 1 + n : out[i] = IF i <= 1 THEN h[i] ELSE rest[i - 1]
  <2>1. /\ h \o rest \in Seq(E) /\ Len(h \o rest) = Len(h) + Len(rest)
        /\ \A i \in 1 .. Len(h) + Len(rest) : (h \o rest)[i] = IF i <= Len(h) THEN h[i] ELSE rest[i - Len(h)]
    BY <1>10, <1>11, JoinIs
  <2> QED
    BY <1>0, <1>10, <1>11, <2>1
<1> HIDE DEF out
<1>13. DOMAIN chunk = 1 .. 1 + n
  BY <1>12
<1>22. PICK k : k = <<SampleChunkSize(g)>>
  OBVIOUS
<1>14. k \in Seq(Nat) /\ Len(k) = 1 /\ k[1] = SampleChunkSize(g)
  BY <1>3, <1>22
<1>15. \A i \in 1 .. 1 + n : TileShape(g)[i] = IF i <= 1 THEN k[i] ELSE InnerChunks(g)[i - 1]
  <2>1. PICK F : F = Nat
    OBVIOUS
  <2>2. k \in Seq(F) /\ InnerChunks(g) \in Seq(F)
    BY <1>3, <1>14, <2>1
  <2>3. \A i \in 1 .. Len(k) + Len(InnerChunks(g)) :
          (k \o InnerChunks(g))[i] = IF i <= Len(k) THEN k[i] ELSE InnerChunks(g)[i - Len(k)]
    BY <2>2, JoinIs
  <2> QED
    BY <1>3, <1>14, <1>22, <2>3 DEF TileShape
<1>16. chunk[1][2] = card /\ TileShape(g)[1] = SampleChunkSize(g)
  <2>1. 1 \in 1 .. 1 + n
    BY <1>2
  <2>2. out[1] = <<0, card>>
    BY <1>10, <1>12, <2>1
  <2>3. chunk[1] = <<0, card - 0>>
    BY <1>13, <2>1, <2>2
  <2> QED
    BY <1>7, <1>14, <1>15, <2>1, <2>3
<1>17. ASSUME NEW i \in 1 .. n
       PROVE  chunk[i + 1][2] = high(i) - low(i) /\ TileShape(g)[i + 1] = InnerChunks(g)[i]
  <2>1. PICK j \in 1 .. 1 + n : j = i + 1 /\ ~(j <= 1) /\ j - 1 = i
    BY <1>2
  <2>2. out[j] = <<low(i), high(i)>>
    BY <1>11, <1>12, <2>1
  <2>3. chunk[j] = <<0, high(i) - low(i)>>
    BY <1>13, <2>1, <2>2
  <2>4. TileShape(g)[j] = InnerChunks(g)[i]
    BY <1>15, <2>1
  <2> QED
    BY <2>1, <2>3, <2>4
<1>18. \A j \in 1 .. 1 + n : j = 1 \/ (\E i \in 1 .. n : j = i + 1)
  <2>1. ASSUME NEW j \in 1 .. 1 + n, j # 1 PROVE j - 1 \in 1 .. n /\ j = (j - 1) + 1
    BY <1>2, <2>1
  <2> QED
    BY <2>1
<1>19. \A i \in 1 .. n : i + 1 \in 1 .. 1 + n
  BY <1>2
<1>20. 1 \in 1 .. 1 + n
  BY <1>2
<1> HIDE DEF chunk
<1>21. TilePlacement(g, 0, coord).complete <=>
         card = SampleChunkSize(g) /\ \A i \in 1 .. n : high(i) - low(i) = InnerChunks(g)[i]
  <2>1. TilePlacement(g, 0, coord).complete <=> \A j \in 1 .. 1 + n : chunk[j][2] = TileShape(g)[j]
    BY <1>1, <1>13
  <2>2. ASSUME \A j \in 1 .. 1 + n : chunk[j][2] = TileShape(g)[j]
        PROVE  card = SampleChunkSize(g) /\ \A i \in 1 .. n : high(i) - low(i) = InnerChunks(g)[i]
    <3>1. card = SampleChunkSize(g)
      BY <1>16, <1>20, <2>2
    <3>2. ASSUME NEW i \in 1 .. n PROVE high(i) - low(i) = InnerChunks(g)[i]
      BY <1>17, <1>19, <2>2
    <3> QED
      BY <3>1, <3>2
  <2>3. ASSUME card = SampleChunkSize(g), \A i \in 1 .. n : high(i) - low(i) = InnerChunks(g)[i],
               NEW j \in 1 .. 1 + n
        PROVE  chunk[j][2] = TileShape(g)[j]
    <3>1. CASE j = 1
      BY <1>16, <2>3, <3>1
    <3>2. CASE \E i \in 1 .. n : j = i + 1
      BY <1>17, <2>3, <3>2
    <3> QED
      BY <1>18, <3>1, <3>2
  <2> QED
    BY <2>1, <2>2, <2>3
<1> QED
  BY <1>2, <1>21 DEF high, low, card

(* One axis of stored tiles: where a tile holds something, and the last    *)
(* one.                                                                    *)
LEMMA TileIsPart ==
  ASSUME NEW a \in Nat, NEW d \in Nat \ {0}, NEW x \in Nat, x < CeilDiv(a, d)
  PROVE  /\ 0 < a
         /\ MinOf((x + 1) * d, a) - x * d = d \/ CeilDiv(a, d) * d # a
<1>1. PICK q \in Nat : q = CeilDiv(a, d)
  BY CeilingIs
<1>2. PICK low \in Nat, past \in Nat, all \in Nat : low = x * d /\ past = (x + 1) * d /\ all = q * d
  <2>1. x * d \in Nat /\ (x + 1) * d \in Nat /\ q * d \in Nat
    BY TimesGrows, <1>1
  <2> QED
    BY <2>1
<1>3. low < a
  BY <1>2, CeilingIs
<1>4. past = low + d
  <2>1. (x + 1) * d = x * d + d
    OBVIOUS
  <2> QED
    BY <1>2, <2>1
<1>5. past <= all
  <2>1. x + 1 <= q
    BY <1>1
  <2>2. (x + 1) * d <= q * d
    BY <2>1, TimesGrows
  <2> QED
    BY <1>2, <2>2
<1>6. a <= all
  BY <1>1, <1>2, CeilingIs
<1>7. MinOf(past, a) - low = d \/ all # a
  BY <1>3, <1>4, <1>5, <1>6 DEF MinOf
<1>8. 0 < a
  BY <1>3
<1> QED
  BY <1>1, <1>2, <1>7, <1>8

LEMMA LastTileIsPart ==
  ASSUME NEW a \in Nat, NEW d \in Nat \ {0}, 0 < a
  PROVE  \E q \in Nat :
           /\ CeilDiv(a, d) = q + 1 /\ 0 < CeilDiv(a, d)
           /\ MinOf((q + 1) * d, a) - q * d = d => CeilDiv(a, d) * d = a
<1>1. PICK w \in Nat : w = CeilDiv(a, d)
  BY CeilingIs
<1>2. 0 < w
  <2>1. 0 * d = 0 /\ 0 \in Nat
    OBVIOUS
  <2>2. 0 < w <=> 0 * d < a
    BY <1>1, <2>1, CeilingIs
  <2> QED
    BY <2>1, <2>2
<1>3. PICK q \in Nat : w = q + 1
  <2>1. w - 1 \in Nat /\ w = w - 1 + 1
    BY <1>2
  <2> QED
    BY <2>1
<1>4. PICK low \in Nat, all \in Nat : low = q * d /\ all = (q + 1) * d
  <2>1. q * d \in Nat /\ (q + 1) * d \in Nat
    BY TimesGrows
  <2> QED
    BY <2>1
<1>5. all = low + d
  <2>1. (q + 1) * d = q * d + d
    OBVIOUS
  <2> QED
    BY <1>4, <2>1
<1>6. a <= all
  BY <1>1, <1>3, <1>4, CeilingIs
<1>7. MinOf(all, a) - low = d => all = a
  BY <1>5, <1>6 DEF MinOf
<1> QED
  BY <1>1, <1>2, <1>3, <1>4, <1>7

(* How far the tiles of an axis reach.                                     *)
Reaching(g, i) == CeilDiv(InnerShape(g)[i], InnerChunks(g)[i]) * InnerChunks(g)[i]

(* Tiles are padded where the grid reaches past the array.                 *)
LEMMA PaddedWhere ==
  ASSUME NEW g, Measured(g)
  PROVE  (\E coord \in InnerCoords(g) : ~TilePlacement(g, 0, coord).complete) <=>
           /\ \A i \in 1 .. Len(InnerShape(g)) : 0 < InnerShape(g)[i]
           /\ \/ Cardinality(SamplesInChunk(g, 0)) # SampleChunkSize(g)
              \/ \E i \in 1 .. Len(InnerShape(g)) : Reaching(g, i) # InnerShape(g)[i]
<1>1. PICK n \in Nat : n = Len(InnerShape(g))
  BY AxesAre
<1>2. /\ InnerShape(g) \in Seq(Nat) /\ InnerChunks(g) \in Seq(Nat \ {0}) /\ Len(InnerChunks(g)) = n
      /\ DOMAIN InnerShape(g) = 1 .. n
  BY <1>1, AxesAre
<1>3. ASSUME NEW i \in 1 .. n
      PROVE  /\ InnerShape(g)[i] \in Nat /\ InnerChunks(g)[i] \in Nat \ {0} /\ InnerGrid(g)[i] \in Nat
             /\ InnerGrid(g)[i] = CeilDiv(InnerShape(g)[i], InnerChunks(g)[i])
  <2>1. InnerShape(g)[i] \in Nat /\ InnerChunks(g)[i] \in Nat \ {0}
    BY <1>1, <1>2
  <2>2. CeilDiv(InnerShape(g)[i], InnerChunks(g)[i]) \in Nat
    BY <2>1, CeilingIs
  <2> QED
    BY <1>2, <2>1, <2>2 DEF InnerGrid
<1>4. InnerGrid(g) \in Seq(Nat) /\ Len(InnerGrid(g)) = n
  BY <1>2, <1>3 DEF InnerGrid
<1> DEFINE filled(coord, i) ==
             MinOf((coord[i] + 1) * InnerChunks(g)[i], InnerShape(g)[i]) - coord[i] * InnerChunks(g)[i]
               = InnerChunks(g)[i]
<1>5. ASSUME NEW coord \in InnerCoords(g)
      PROVE  TilePlacement(g, 0, coord).complete <=>
               Cardinality(SamplesInChunk(g, 0)) = SampleChunkSize(g) /\ \A i \in 1 .. n : filled(coord, i)
  BY <1>1, CompleteIs
<1>6. ASSUME NEW coord
      PROVE  coord \in InnerCoords(g) <=>
               /\ coord = [d \in 1 .. n |-> coord[d]]
               /\ \A d \in 1 .. n : coord[d] \in Nat /\ coord[d] < InnerGrid(g)[d]
  BY <1>4, InBox DEF InnerCoords
<1>7. ASSUME NEW coord \in InnerCoords(g), NEW i \in 1 .. n
      PROVE  0 < InnerShape(g)[i] /\ (filled(coord, i) \/ Reaching(g, i) # InnerShape(g)[i])
  <2>1. coord[i] \in Nat /\ coord[i] < CeilDiv(InnerShape(g)[i], InnerChunks(g)[i])
    BY <1>3, <1>6
  <2> QED
    BY <1>3, <2>1, TileIsPart DEF Reaching
<1>8. ASSUME NEW coord \in InnerCoords(g), ~TilePlacement(g, 0, coord).complete
      PROVE  /\ \A i \in 1 .. n : 0 < InnerShape(g)[i]
             /\ \/ Cardinality(SamplesInChunk(g, 0)) # SampleChunkSize(g)
                \/ \E i \in 1 .. n : Reaching(g, i) # InnerShape(g)[i]
  <2> HIDE DEF filled
  <2> QED
    BY <1>5, <1>7, <1>8
<1>9. ASSUME \A i \in 1 .. n : 0 < InnerShape(g)[i]
      PROVE  \E coord \in InnerCoords(g) :
               \A i \in 1 .. n : filled(coord, i) => Reaching(g, i) = InnerShape(g)[i]
  <2> DEFINE last == [i \in 1 .. n |-> InnerGrid(g)[i] - 1]
  <2>1. ASSUME NEW i \in 1 .. n
        PROVE  /\ last[i] \in Nat /\ last[i] < InnerGrid(g)[i]
               /\ filled(last, i) => Reaching(g, i) = InnerShape(g)[i]
    <3>1. PICK q \in Nat :
            /\ CeilDiv(InnerShape(g)[i], InnerChunks(g)[i]) = q + 1
            /\ MinOf((q + 1) * InnerChunks(g)[i], InnerShape(g)[i]) - q * InnerChunks(g)[i] = InnerChunks(g)[i]
                 => CeilDiv(InnerShape(g)[i], InnerChunks(g)[i]) * InnerChunks(g)[i] = InnerShape(g)[i]
      BY <1>3, <1>9, LastTileIsPart
    <3>2. last[i] = q /\ q < InnerGrid(g)[i]
      BY <1>3, <3>1
    <3> HIDE DEF last
    <3>3. filled(last, i) => Reaching(g, i) = InnerShape(g)[i]
      BY <3>1, <3>2 DEF Reaching
    <3> QED
      BY <3>2, <3>3
  <2>2. last = [d \in 1 .. n |-> last[d]]
    OBVIOUS
  <2> HIDE DEF last, filled
  <2>3. last \in InnerCoords(g)
    BY <1>6, <2>1, <2>2
  <2> QED
    BY <2>1, <2>3
<1>10. ASSUME \A i \in 1 .. n : 0 < InnerShape(g)[i],
              \/ Cardinality(SamplesInChunk(g, 0)) # SampleChunkSize(g)
              \/ \E i \in 1 .. n : Reaching(g, i) # InnerShape(g)[i]
       PROVE  \E coord \in InnerCoords(g) : ~TilePlacement(g, 0, coord).complete
  <2> HIDE DEF filled
  <2>1. PICK coord \in InnerCoords(g) :
          \A i \in 1 .. n : filled(coord, i) => Reaching(g, i) = InnerShape(g)[i]
    BY <1>9, <1>10
  <2>2. ~TilePlacement(g, 0, coord).complete
    BY <1>5, <1>10, <2>1
  <2> QED
    BY <2>2
<1> QED
  BY <1>1, <1>8, <1>10

(* What a slot weighs against what it holds, both as products over the     *)
(* axes.                                                                   *)
Holding(g) == <<Cardinality(SamplesInChunk(g, 0))>> \o InnerShape(g)
Spanning(g) == <<SampleChunkSize(g)>> \o [i \in 1 .. Len(InnerShape(g)) |-> Reaching(g, i)]

LEMMA SlotIsSpan ==
  ASSUME NEW g, Measured(g)
  PROVE  /\ Holding(g) \in Seq(Nat) /\ Spanning(g) \in Seq(Nat)
         /\ Len(Holding(g)) = Len(InnerShape(g)) + 1 /\ Len(Spanning(g)) = Len(Holding(g))
         /\ Holding(g)[1] = Cardinality(SamplesInChunk(g, 0)) /\ Spanning(g)[1] = SampleChunkSize(g)
         /\ \A i \in 1 .. Len(InnerShape(g)) :
              Holding(g)[i + 1] = InnerShape(g)[i] /\ Spanning(g)[i + 1] = Reaching(g, i)
         /\ \A i \in 1 .. Len(InnerShape(g)) :
              InnerShape(g)[i] \in Nat /\ Reaching(g, i) \in Nat /\ InnerShape(g)[i] <= Reaching(g, i)
         /\ NInnerChunks(g) * Product(TileShape(g)) = Product(Spanning(g))
<1>1. PICK n \in Nat : n = Len(InnerShape(g))
  BY AxesAre
<1>2. /\ InnerShape(g) \in Seq(Nat) /\ InnerChunks(g) \in Seq(Nat \ {0}) /\ Len(InnerChunks(g)) = n
      /\ DOMAIN InnerShape(g) = 1 .. n /\ SampleChunkSize(g) \in Nat
  BY <1>1, AxesAre
<1>3. ASSUME NEW i \in 1 .. n
      PROVE  /\ InnerShape(g)[i] \in Nat /\ InnerChunks(g)[i] \in Nat /\ InnerGrid(g)[i] \in Nat
             /\ Reaching(g, i) \in Nat /\ InnerShape(g)[i] <= Reaching(g, i)
             /\ InnerGrid(g)[i] * InnerChunks(g)[i] = Reaching(g, i)
  <2>1. InnerShape(g)[i] \in Nat /\ InnerChunks(g)[i] \in Nat \ {0}
    BY <1>1, <1>2
  <2>2. CeilDiv(InnerShape(g)[i], InnerChunks(g)[i]) \in Nat /\ InnerShape(g)[i] <= Reaching(g, i)
    BY <2>1, CeilingIs DEF Reaching
  <2>3. InnerGrid(g)[i] = CeilDiv(InnerShape(g)[i], InnerChunks(g)[i])
    BY <1>2 DEF InnerGrid
  <2>4. Reaching(g, i) \in Nat
    BY <2>1, <2>2, TimesGrows DEF Reaching
  <2> QED
    BY <2>1, <2>2, <2>3, <2>4 DEF Reaching
<1> DEFINE wide == [i \in 1 .. n |-> Reaching(g, i)]
<1>4. wide \in Seq(Nat) /\ Len(wide) = n /\ \A i \in 1 .. n : wide[i] = Reaching(g, i)
  BY <1>3
<1>5. InnerGrid(g) \in Seq(Nat) /\ Len(InnerGrid(g)) = n
  BY <1>2, <1>3 DEF InnerGrid
<1> HIDE DEF wide
<1>6. InnerChunks(g) \in Seq(Nat)
  BY <1>2
<1>7. Product(wide) = Product(InnerGrid(g)) * Product(InnerChunks(g))
  <2>1. \A i \in 1 .. Len(InnerGrid(g)) : wide[i] = InnerGrid(g)[i] * InnerChunks(g)[i]
    BY <1>3, <1>4, <1>5
  <2>2. Len(InnerGrid(g)) = Len(InnerChunks(g)) /\ Len(wide) = Len(InnerGrid(g))
    BY <1>2, <1>4, <1>5
  <2> QED
    BY <1>4, <1>5, <1>6, <2>1, <2>2, ProductOfBoth
<1>8. Spanning(g) = <<SampleChunkSize(g)>> \o wide
  BY <1>1 DEF Spanning, wide
<1>9. /\ Spanning(g) \in Seq(Nat) /\ Len(Spanning(g)) = n + 1 /\ Spanning(g)[1] = SampleChunkSize(g)
      /\ \A i \in 1 .. n : Spanning(g)[i + 1] = Reaching(g, i)
      /\ Product(Spanning(g)) = SampleChunkSize(g) * Product(wide)
  BY <1>2, <1>4, <1>8, ProductWithFirst
<1>10. Cardinality(SamplesInChunk(g, 0)) \in Nat
  BY FirstChunkHolds
<1>11. /\ Holding(g) \in Seq(Nat) /\ Len(Holding(g)) = n + 1
       /\ Holding(g)[1] = Cardinality(SamplesInChunk(g, 0))
       /\ \A i \in 1 .. n : Holding(g)[i + 1] = InnerShape(g)[i]
  BY <1>1, <1>2, <1>10, ProductWithFirst DEF Holding
<1>12. Product(TileShape(g)) = SampleChunkSize(g) * Product(InnerChunks(g))
  BY <1>2, <1>6, ProductWithFirst DEF TileShape
<1>13. NInnerChunks(g) * Product(TileShape(g)) = Product(Spanning(g))
  <2>1. PICK a \in Nat, b \in Nat, s \in Nat :
          a = Product(InnerGrid(g)) /\ b = Product(InnerChunks(g)) /\ s = SampleChunkSize(g)
    BY <1>2, <1>5, <1>6, ProductOf
  <2>2. a * (s * b) = s * (a * b)
    OBVIOUS
  <2>3. NInnerChunks(g) = a /\ Product(TileShape(g)) = s * b /\ Product(Spanning(g)) = s * (a * b)
    BY <1>7, <1>9, <1>12, <2>1 DEF NInnerChunks
  <2> QED
    BY <2>2, <2>3
<1> QED
  BY <1>1, <1>3, <1>9, <1>11, <1>13

(* The sizes in a report, and the note they make.                          *)
LEMMA RaggedSizes ==
  ASSUME NEW held \in Nat, NEW spanned \in Nat, NEW item \in Nat, NEW r,
         r.logical = held * item, r.slot = spanned * item
  PROVE  /\ held = 0 \/ held = spanned => ~Ragged(r)
         /\ held < spanned /\ r.logical \in 1 .. 999 => Ragged(r)
<1>1. PICK x \in Nat : x = held * item
  BY TimesGrows
<1>2. held = 0 \/ held = spanned => ~Ragged(r)
  <2>1. CASE held = 0
    <3>1. 0 * item = 0
      OBVIOUS
    <3> QED
      BY <2>1, <3>1 DEF Ragged
  <2>2. CASE held = spanned
    BY <1>1, <2>2 DEF Ragged
  <2> QED
    BY <2>1, <2>2
<1>3. ASSUME held < spanned, r.logical \in 1 .. 999
      PROVE  Ragged(r)
  <2>1. item # 0
    <3>1. held * 0 = 0
      OBVIOUS
    <3> QED
      BY <1>3, <3>1
  <2>2. held + 1 <= spanned
    BY <1>3
  <2>3. (held + 1) * item <= spanned * item /\ spanned * item \in Nat
    BY <2>2, TimesGrows
  <2>4. PICK y \in Nat : y = spanned * item
    BY <2>3
  <2>5. (held + 1) * item = held * item + item
    OBVIOUS
  <2>6. x + item <= y /\ x = r.logical /\ y = r.slot
    BY <1>1, <2>3, <2>4, <2>5
  <2> QED
    BY <1>3, <2>1, <2>6 DEF Ragged
<1> QED
  BY <1>2, <1>3

(* Without transforms, a note of padding is of tiles that are padded, and  *)
(* of all that are by a thousandth or more.                                *)
LEMMA PaddingIsNoted ==
  ASSUME NEW c, c.pipeline = <<>>, NEW v \in DOMAIN c.views, Measured(c.views[v]), NEW r,
         r = VariableReport(c, v)
  PROVE  LET padded == \E coord \in InnerCoords(c.views[v]) : ~TilePlacement(c.views[v], 0, coord).complete
         IN  /\ Ragged(r) => padded
             /\ padded /\ r.logical \in 1 .. 999 => Ragged(r)
<1>1. PICK g : g = c.views[v] /\ Measured(g)
  OBVIOUS
<1>2. PICK n \in Nat : n = Len(InnerShape(g))
  BY <1>1, AxesAre
<1> DEFINE card == Cardinality(SamplesInChunk(g, 0))
           size == SampleChunkSize(g)
           padded == \E coord \in InnerCoords(g) : ~TilePlacement(g, 0, coord).complete
<1>3. padded <=> /\ \A i \in 1 .. n : 0 < InnerShape(g)[i]
                 /\ card # size \/ \E i \in 1 .. n : Reaching(g, i) # InnerShape(g)[i]
  BY <1>1, <1>2, PaddedWhere
<1>4. card \in Nat /\ size \in Nat \ {0} /\ card <= size /\ g.item \in Nat
  BY <1>1, AxesAre, FirstChunkHolds
<1> HIDE DEF card, size, padded
<1>5. PICK s \in Seq(Nat), t \in Seq(Nat) :
        /\ s = Holding(g) /\ t = Spanning(g) /\ Len(s) = n + 1 /\ Len(t) = n + 1
        /\ s[1] = card /\ t[1] = size
        /\ \A i \in 1 .. n : s[i + 1] = InnerShape(g)[i] /\ t[i + 1] = Reaching(g, i)
        /\ \A i \in 1 .. n : InnerShape(g)[i] \in Nat /\ Reaching(g, i) \in Nat /\ InnerShape(g)[i] <= Reaching(g, i)
        /\ NInnerChunks(g) * Product(TileShape(g)) = Product(t)
  <2>1. Holding(g) \in Seq(Nat) /\ Spanning(g) \in Seq(Nat)
    BY <1>1, SlotIsSpan
  <2>2. /\ Len(Holding(g)) = n + 1 /\ Len(Spanning(g)) = n + 1
        /\ Holding(g)[1] = card /\ Spanning(g)[1] = size
        /\ \A i \in 1 .. n : Holding(g)[i + 1] = InnerShape(g)[i] /\ Spanning(g)[i + 1] = Reaching(g, i)
        /\ \A i \in 1 .. n : InnerShape(g)[i] \in Nat /\ Reaching(g, i) \in Nat /\ InnerShape(g)[i] <= Reaching(g, i)
        /\ NInnerChunks(g) * Product(TileShape(g)) = Product(Spanning(g))
    BY <1>1, <1>2, SlotIsSpan DEF card, size
  <2> QED
    BY <2>1, <2>2
<1>6. PICK held \in Nat, spanned \in Nat, item \in Nat :
        held = Product(s) /\ spanned = Product(t) /\ item = g.item
  BY <1>4, ProductOf
<1>7. r.logical = held * item /\ r.slot = spanned * item
  <2>1. r.logical = Product(SlotShape(g, 0)) * g.item /\ r.slot = NInnerChunks(g) * Product(TileShape(g)) * g.item
    BY <1>1, ReportOfPlain
  <2>2. SlotShape(g, 0) = s
    BY <1>5 DEF SlotShape, Holding
  <2> QED
    BY <1>5, <1>6, <2>1, <2>2
<1>8. /\ held = 0 \/ held = spanned => ~Ragged(r)
      /\ held < spanned /\ r.logical \in 1 .. 999 => Ragged(r)
  BY <1>7, RaggedSizes
<1>9. \A j \in 1 .. n + 1 : j = 1 \/ \E i \in 1 .. n : j = i + 1
  <2>1. ASSUME NEW j \in 1 .. n + 1, j # 1 PROVE j - 1 \in 1 .. n /\ j = (j - 1) + 1
    BY <2>1
  <2> QED
    BY <2>1
<1>10. ASSUME ~padded
       PROVE  held = 0 \/ held = spanned
  <2>1. CASE \A i \in 1 .. n : 0 < InnerShape(g)[i]
    <3>1. card = size /\ \A i \in 1 .. n : Reaching(g, i) = InnerShape(g)[i]
      BY <1>3, <1>10, <2>1
    <3>2. ASSUME NEW j \in 1 .. n + 1
          PROVE  s[j] = t[j]
      BY <1>5, <1>9, <3>1
    <3>3. s = t
      <4>1. s = [j \in 1 .. n + 1 |-> s[j]] /\ t = [j \in 1 .. n + 1 |-> t[j]]
        BY <1>5
      <4> QED
        BY <3>2, <4>1
    <3> QED
      BY <1>6, <3>3
  <2>2. CASE \E i \in 1 .. n : ~(0 < InnerShape(g)[i])
    <3>1. PICK i \in 1 .. n : ~(0 < InnerShape(g)[i])
      BY <2>2
    <3>2. PICK j \in 1 .. Len(s) : j = i + 1
      BY <1>5
    <3>3. s[j] = 0
      <4>1. InnerShape(g)[i] \in Nat /\ s[i + 1] = InnerShape(g)[i]
        BY <1>5
      <4> QED
        BY <3>1, <3>2, <4>1
    <3> QED
      BY <1>6, <3>3, ProductOfZero
  <2> QED
    BY <2>1, <2>2
<1>11. ASSUME padded, held # 0
       PROVE  held < spanned
  <2>1. card # 0
    <3>1. ASSUME card = 0 PROVE FALSE
      <4>1. 1 \in 1 .. Len(s) /\ s[1] = 0
        BY <1>5, <3>1
      <4>2. Product(s) = 0
        BY <4>1, ProductOfZero
      <4> QED
        BY <1>6, <1>11, <4>2
    <3> QED
      BY <3>1
  <2>2. \A i \in 1 .. n : 0 < InnerShape(g)[i]
    BY <1>3, <1>11
  <2>3. ASSUME NEW j \in 1 .. Len(s)
        PROVE  0 < s[j] /\ s[j] <= t[j]
    <3>1. CASE j = 1
      BY <1>4, <1>5, <2>1, <3>1
    <3>2. CASE \E i \in 1 .. n : j = i + 1
      BY <1>5, <2>2, <3>2
    <3> QED
      BY <1>5, <1>9, <3>1, <3>2
  <2>4. PICK j \in 1 .. Len(s) : s[j] < t[j]
    <3>1. CASE card # size
      <4>1. 1 \in 1 .. Len(s) /\ s[1] < t[1]
        BY <1>4, <1>5, <3>1
      <4> QED
        BY <4>1
    <3>2. CASE \E i \in 1 .. n : Reaching(g, i) # InnerShape(g)[i]
      <4>1. PICK i \in 1 .. n : Reaching(g, i) # InnerShape(g)[i]
        BY <3>2
      <4>2. i + 1 \in 1 .. Len(s) /\ s[i + 1] < t[i + 1]
        BY <1>5, <4>1
      <4> QED
        BY <4>2
    <3> QED
      BY <1>3, <1>11, <3>1, <3>2
  <2>5. Len(s) = Len(t)
    BY <1>5
  <2>6. Product(s) < Product(t)
    BY <2>3, <2>4, <2>5, ProductRises
  <2> QED
    BY <1>6, <2>6
<1>12. r.logical \in 1 .. 999 => held # 0
  <2>1. 0 * item = 0
    OBVIOUS
  <2>2. ASSUME held = 0 PROVE r.logical = 0
    BY <1>7, <2>1, <2>2
  <2>3. 0 \notin 1 .. 999
    OBVIOUS
  <2>4. ASSUME r.logical \in 1 .. 999, held = 0 PROVE FALSE
    BY <2>2, <2>3, <2>4
  <2> QED
    BY <2>4
<1>13. /\ Ragged(r) => padded
       /\ padded /\ r.logical \in 1 .. 999 => Ragged(r)
  <2>1. ~padded => ~Ragged(r)
    BY <1>8, <1>10
  <2>2. padded /\ held # 0 => held < spanned
    BY <1>11
  <2>3. padded /\ r.logical \in 1 .. 999 => Ragged(r)
    BY <1>8, <1>12, <2>2
  <2> QED
    BY <2>1, <2>3
<1> QED
  BY <1>1, <1>13 DEF padded

-----------------------------------------------------------------------------
(* The report and the pass.                                                *)

LEMMA PaddingIsReported ==
  ASSUME Sound(Config), Config.pipeline = <<>>, NEW budget
  PROVE  NotesPadding(Report(Config, budget))
<1> DEFINE report == Report(Config, budget)
<1>1. /\ report.variables = [v \in DOMAIN Config.views |-> VariableReport(Config, v)]
      /\ report.notes = Notes(report.variables, report.config)
  BY DEF Report
<1> HIDE DEF report
<1>2. ASSUME NEW v \in DOMAIN Config.views
      PROVE  LET g == Config.views[v]
                 padded == \E coord \in InnerCoords(g) : ~TilePlacement(g, 0, coord).complete
                 noted == Note("ragged-grid", v) \in report.notes
             IN  /\ noted => padded
                 /\ padded /\ report.variables[v].logical \in 1 .. 999 => noted
  <2>1. PICK r : r = VariableReport(Config, v)
    OBVIOUS
  <2>2. report.variables[v] = r /\ DOMAIN report.variables = DOMAIN Config.views
    BY <1>1, <2>1
  <2>3. Note("ragged-grid", v) \in report.notes <=> Ragged(r)
    BY <1>1, <2>2, NotesAre
  <2>4. Measured(Config.views[v])
    BY DEF Sound, Readable
  <2>5. LET padded == \E coord \in InnerCoords(Config.views[v]) :
                         ~TilePlacement(Config.views[v], 0, coord).complete
        IN  /\ Ragged(r) => padded
            /\ padded /\ r.logical \in 1 .. 999 => Ragged(r)
    BY <2>1, <2>4, PaddingIsNoted
  <2> QED
    BY <2>2, <2>3, <2>5
<1> QED
  BY <1>2 DEF NotesPadding, report

(* What a pass of a dataset is like at every moment, as far as its report  *)
(* goes.                                                                   *)
LEMMA FitsAlways == Spec => [](Held /\ Fits)
<1>1. CoherentPlans
  BY PlansAreCoherent
<1>2. Init => Held /\ Fits
  <2> SUFFICES ASSUME Init PROVE Held /\ Fits
    OBVIOUS
  <2>1. Held
    BY <1>1, HeldInit
  <2>2. plan \in Plans
    BY <2>1 DEF Held, Typed, KnownPlan
  <2>3. WarmFits(plan) /\ Planned(plan) /\ Sound(plan.config)
    BY <2>2, PlansAssumption, PlansArePlanned
  <2>4. plan.warm \subseteq Keys
    BY <2>3, WarmIsKnown DEF Keys
  <2> QED
    BY <2>1, <2>3, <2>4, FitsInit
<1>3. Held /\ Fits /\ [Next]_vars => (Held /\ Fits)'
  BY HeldStep, FitsStep
<1> QED
  BY <1>2, <1>3, PTL DEF Spec

(* What a dataset reports before it runs is so in every pass of it: the    *)
(* memory of the batches and of the chunks never exceeds what is           *)
(* announced, no block is wider, each part yields as many rows, and a note *)
(* of padding is of padded tiles (summary.py, describe).                   *)
THEOREM ReportsPredict == Spec => []ReportPredictsPass
<1>1. ASSUME Held, Fits
      PROVE  ReportPredictsPass
  <2>1. plan \in Plans
    BY <1>1 DEF Held, Typed, KnownPlan
  <2>2. Planned(plan) /\ Sound(Config) /\ plan = PlanOf(Config)
    BY <2>1, PlansArePlanned DEF Planned, Config
  <2> DEFINE report == Report(Config, plan.budget)
  <2>3. HoldsThePass(report.memory)
    BY <1>1, <2>2, MemoryIsEnough
  <2>4. \A b \in DOMAIN Blocked : Cardinality(Blocked[b].chunks) <= report.config.blockChunks
    <3>1. report.config.blockChunks = BlockChunks(Config)
      BY MemoryIs
    <3>2. DOMAIN plan.blocks = 1 .. Len(plan.blocks)
      BY <1>1, Ground DEF KnownPlan, Coherent, Sized
    <3> HIDE DEF report
    <3> QED
      BY <2>2, <3>1, <3>2, BlockIsNarrow DEF Blocked, Config
  <2>5. SampleChunkSize(Config.views[1]) = Config.refSpc => CountsRows(report)
    BY <2>2, RowsAreReported
  <2>6. Config.pipeline = <<>> => NotesPadding(report)
    BY <2>2, PaddingIsReported
  <2> HIDE DEF report
  <2> QED
    BY <2>3, <2>4, <2>5, <2>6 DEF ReportPredictsPass, report
<1> QED
  BY <1>1, FitsAlways, PTL
=============================================================================
