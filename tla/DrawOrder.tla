----------------------------- MODULE DrawOrder -----------------------------
(***************************************************************************)
(* Which anchors a pass draws, in which order, and how they are grouped    *)
(* into shuffle-blocks: insitubatch/split.py, insitubatch/shuffle.py and   *)
(* the two methods of insitubatch/source.py that put them together.        *)
(*                                                                         *)
(* A row is a pair <<chunk, within>> on the anchor grid, a draw order a    *)
(* record [rows, bounds]: block b is rows[bounds[b] + 1 .. bounds[b + 1]]. *)
(* The generator's permutation of the chunks is an input, and so is what   *)
(* it does to the rows of a block, of which the two extremes are modelled: *)
(* left alone, or reversed.                                                *)
(***************************************************************************)
EXTENDS ArrayGeometry, Sums

(* The views of a dataset are a sequence of array views.                   *)
Readable(views) ==
  /\ Len(views) \in Nat /\ DOMAIN views = 1 .. Len(views)
  /\ \A v \in DOMAIN views : /\ NSamples(views[v]) \in Nat /\ SampleChunkSize(views[v]) \in Nat \ {0}
                             /\ views[v].offset \in Int

Offsets(views) == {views[i].offset : i \in DOMAIN views}
MaxOffset(views) == CHOOSE o \in Offsets(views) : \A p \in Offsets(views) : o >= p
MinOffset(views) == CHOOSE o \in Offsets(views) : \A p \in Offsets(views) : o <= p

ValidAnchorRange(views, n) ==
  LET lo == MaxOf(0, 0 - MinOffset(views))
      hi == n - MaxOf(0, MaxOffset(views))
  IN  [lo |-> lo, hi |-> MaxOf(lo, hi)]

-----------------------------------------------------------------------------
(* Splits.  Fractions are parts of a whole, a pair <<train, val>> of       *)
(* percentages; python's round takes a tie to the even neighbour.          *)

RoundHalfEven(num, den) ==
  LET q == num \div den
      twice == 2 * (num % den)
  IN  IF twice < den \/ (twice = den /\ q % 2 = 0) THEN q ELSE q + 1

(* The chunks a split is made from: all, or those overlapping a window of  *)
(* samples, which is then a pair <<start, stop>>.                          *)
Selected(n, spc, window) ==
  IF window = <<>> THEN Span(0, CeilDiv(n, spc))
                   ELSE Span(window[1] \div spc, CeilDiv(window[2], spc))

Slice(s, from, to) == SubSeq(s, from + 1, MinOf(to, Len(s)))

(* Mutant: the test part starts where the train part ends.                 *)
SplitByChunkOverlap(order, pct) ==
  LET nTrain == RoundHalfEven(pct[1] * Len(order), 100)
      nVal == RoundHalfEven(pct[2] * Len(order), 100)
  IN  [train |-> ToSet(Slice(order, 0, nTrain)),
       val   |-> ToSet(Slice(order, nTrain, nTrain + nVal)),
       test  |-> ToSet(Slice(order, nTrain, Len(order)))]

(* order: the selected chunks, ascending or permuted.  Each part is kept   *)
(* as a sorted list, here as a set.                                        *)
SplitByChunk(order, pct) ==
  LET nTrain == RoundHalfEven(pct[1] * Len(order), 100)
      nVal == RoundHalfEven(pct[2] * Len(order), 100)
  IN  [train |-> ToSet(Slice(order, 0, nTrain)),
       val   |-> ToSet(Slice(order, nTrain, nTrain + nVal)),
       test  |-> ToSet(Slice(order, nTrain + nVal, Len(order)))]

Parts == {"train", "val", "test"}

(* _chunk_ids: "all" stands for the view over every part.                  *)
ChunkIds(manifest, part) ==
  IF part = "all" THEN UNION {manifest[p] : p \in Parts} ELSE manifest[part]

(* The samples of a part, g: the geometry it was split by.                 *)
SampleIndices(manifest, part, g) == UNION {SamplesInChunk(g, cid) : cid \in manifest[part]}

-----------------------------------------------------------------------------
(* Draw orders.                                                            *)

(* What the generator may return for the chunks of a part.                 *)
Permutes(perm, chunks) == ToSet(perm) = chunks /\ Len(perm) = Cardinality(chunks)

ChunkRows(cid, spc, n) ==
  [i \in 1 .. MinOf(spc, n - cid * spc) |-> <<cid, i - 1>>]

(* range(0, len, size): the windows of `size` chunks of a permutation.     *)
Windows(perm, size) ==
  [i \in 1 .. CeilDiv(Len(perm), size) |->
     SubSeq(perm, (i - 1) * size + 1, MinOf(i * size, Len(perm)))]

RowsOfWindow(window, spc, n) ==
  FlattenSeq([i \in DOMAIN window |-> ChunkRows(window[i], spc, n)])

Order(rows, bounds) == [rows |-> rows, bounds |-> bounds]

FromBlocks(blocks) ==
  Order(FlattenSeq(blocks),
        [b \in 1 .. Len(blocks) + 1 |->
           SumOn([i \in DOMAIN blocks |-> Len(blocks[i])], 1 .. b - 1)])

SequentialOrder(chunks, spc, n, blockChunks) ==
  LET windows == Windows(chunks, blockChunks)
  IN  FromBlocks([b \in DOMAIN windows |-> RowsOfWindow(windows[b], spc, n)])

BlockShuffledOrder(perm, mixed, spc, n, blockChunks) ==
  LET windows == Windows(perm, blockChunks)
      Shuffled(rows) == IF mixed THEN Reverse(rows) ELSE rows
  IN  FromBlocks([b \in DOMAIN windows |->
                    Shuffled(RowsOfWindow(windows[b], spc, n))])

NBlocks(order) == MaxOf(Len(order.bounds) - 1, 0)
BlockRows(order, b) == SubSeq(order.rows, order.bounds[b] + 1, order.bounds[b + 1])

(* What a mask keeps, and how much of it lies among the first `upto` rows: *)
(* the place searchsorted finds.                                           *)
Kept(order, mask) == At(order.rows, {i \in DOMAIN mask : mask[i]})
KeptBefore(mask, upto) == Cardinality({i \in 1 .. upto : mask[i]})

(* Mutant: rows are dropped and the bounds stay what they were.            *)
KeepStaleBounds(order, mask) ==
  Order(Kept(order, mask),
        [b \in DOMAIN order.bounds |-> MinOf(order.bounds[b], Len(Kept(order, mask)))])

(* The rows that fail the test go; a block narrows by what it lost and     *)
(* disappears when it lost everything.                                     *)
Keep(order, mask) ==
  LET moved == [b \in DOMAIN order.bounds |-> KeptBefore(mask, order.bounds[b])]
  IN  Order(Kept(order, mask),
            At(moved, {b \in DOMAIN moved : b = 1 \/ moved[b] > moved[b - 1]}))

Anchor(row, spc) == row[1] * spc + row[2]

DropEdgeAnchors(order, views, spc, n) ==
  LET range == ValidAnchorRange(views, n)
      onArray == [i \in DOMAIN order.rows |->
                    Anchor(order.rows[i], spc) \in Span(range.lo, range.hi)]
  IN  IF range.lo = 0 /\ range.hi = n THEN order ELSE Keep(order, onArray)

(* The mean distance in the source of two rows drawn one after the other,  *)
(* in percent of the third of the source it is in a global shuffle.        *)
ShuffleQuality(rows, spc) ==
  LET gap(i) == LET d == Anchor(rows[i + 1], spc) - Anchor(rows[i], spc)
                IN  MaxOf(d, 0 - d)
      gaps == FoldLeft(LAMBDA acc, i : acc + gap(i), 0, [i \in 1 .. Len(rows) - 1 |-> i])
  IN  IF Len(rows) <= 1 THEN 0 ELSE MinOf(100, (300 * gaps) \div (Len(rows) * (Len(rows) - 1)))

(* perm: the chunks of the part, ascending for an unshuffled pass.         *)
Draw(perm, shuffle, mixed, views, spc, n, blockChunks) ==
  DropEdgeAnchors(
    IF shuffle THEN BlockShuffledOrder(perm, mixed, spc, n, blockChunks)
               ELSE SequentialOrder(perm, spc, n, blockChunks),
    views, spc, n)
=============================================================================
