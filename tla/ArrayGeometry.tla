--------------------------- MODULE ArrayGeometry ---------------------------
(***************************************************************************)
(* The geometry of one zarr array as the engine sees it (ArrayGeometry in  *)
(* insitubatch/types.py) and what the pool derives from it                 *)
(* (insitubatch/pool.py).  An array view is a record                       *)
(*   [path, shape, chunks, item, offset, axis]                             *)
(* with shape and chunks in physical axis order, axis the sample axis      *)
(* counted from 0 as in the source, item the bytes of one element and      *)
(* offset the shift along the sample axis.  Sequences are indexed from 1,  *)
(* so position p of a python tuple is p + 1 here.                          *)
(***************************************************************************)
EXTENDS Integers, Sequences, FiniteSets, SequencesExt

CeilDiv(a, b) == (a + b - 1) \div b
Product(s) ==
  LET p[n \in 0 .. Len(s)] == IF n = 0 THEN 1 ELSE p[n - 1] * s[n] IN p[Len(s)]
MinOf(a, b) == IF a <= b THEN a ELSE b
MaxOf(a, b) == IF a >= b THEN a ELSE b

(* A half-open python range or slice as the set of its elements.           *)
Span(lo, hi) == lo .. (hi - 1)

(* The index tuples of an array of this shape.                             *)
Box(shape) ==
  {i \in [DOMAIN shape -> UNION {Span(0, shape[d]) : d \in DOMAIN shape}] :
     \A d \in DOMAIN shape : i[d] < shape[d]}

(* The place of an index tuple in row-major order.                         *)
RowMajor(shape, i) ==
  LET place[d \in 0 .. Len(shape)] == IF d = 0 THEN 0 ELSE place[d - 1] * shape[d] + i[d]
  IN  place[Len(shape)]

(* The members of a set of numbers in ascending order, and the part of a   *)
(* sequence at a set of positions.                                         *)
Ascending(S) ==
  [n \in 1 .. Cardinality(S) |-> CHOOSE x \in S : Cardinality({y \in S : y <= x}) = n]
At(s, positions) ==
  LET order == Ascending(positions) IN [n \in DOMAIN order |-> s[order[n]]]

(* An array read at the anchor itself.  Its sample axis must be one of its *)
(* axes, or there is no such geometry.                                     *)
Unshifted(path, shape, chunks, item, axis) ==
  [path |-> path, shape |-> shape, chunks |-> chunks, item |-> item,
   offset |-> 0, axis |-> axis]

WellFormed(g) == g.axis \in Span(0, Len(g.shape))

Shift(g, k) == [g EXCEPT !.offset = @ + k]

DropSample(g, dims) == RemoveAt(dims, g.axis + 1)

(* Mutant: the sample axis is always put first.                            *)
CoordSampleFirst(g, cid, coord) == <<cid>> \o coord

PhysicalChunkCoord(g, cid, coord) == InsertAt(coord, g.axis + 1, cid)

NSamples(g) == g.shape[g.axis + 1]
SampleChunkSize(g) == g.chunks[g.axis + 1]
InnerShape(g) == DropSample(g, g.shape)
InnerChunks(g) == DropSample(g, g.chunks)
NChunks(g) == CeilDiv(NSamples(g), SampleChunkSize(g))
ChunkOf(g, sample) == sample \div SampleChunkSize(g)

SamplesInChunk(g, cid) ==
  Span(cid * SampleChunkSize(g),
       MinOf((cid + 1) * SampleChunkSize(g), NSamples(g)))

(* The geometry of an array: lengths that are numbers, chunks that are not *)
(* empty.                                                                  *)
Measured(g) ==
  /\ DOMAIN g = {"path", "shape", "chunks", "item", "offset", "axis"}
  /\ g.shape \in Seq(Nat) /\ g.chunks \in Seq(Nat \ {0}) /\ Len(g.shape) = Len(g.chunks)
  /\ WellFormed(g) /\ g.item \in Nat

-----------------------------------------------------------------------------
(* Stored tiles: the grid of stored chunks inside one sample-axis chunk.   *)

InnerGrid(g) ==
  [i \in DOMAIN InnerShape(g) |-> CeilDiv(InnerShape(g)[i], InnerChunks(g)[i])]

InnerCoords(g) == Box(InnerGrid(g))

NInnerChunks(g) == Product(InnerGrid(g))

InnerIndex(g, coord) == RowMajor(InnerGrid(g), coord)

SlotShape(g, cid) == <<Cardinality(SamplesInChunk(g, cid))>> \o InnerShape(g)
TileShape(g) == <<SampleChunkSize(g)>> \o InnerChunks(g)
ChunkBytes(g) == NInnerChunks(g) * Product(TileShape(g)) * g.item

(* Where a tile lands in its outer chunk (out) and the part of the tile    *)
(* that is data (chunk), as half-open intervals per sample-first axis.     *)
TilePlacement(g, cid, coord) ==
  LET out == <<<<0, Cardinality(SamplesInChunk(g, cid))>>>> \o
             [i \in DOMAIN coord |->
                <<coord[i] * InnerChunks(g)[i],
                  MinOf((coord[i] + 1) * InnerChunks(g)[i], InnerShape(g)[i])>>]
      chunk == [i \in DOMAIN out |-> <<0, out[i][2] - out[i][1]>>]
  IN  [out      |-> out,
       chunk    |-> chunk,
       complete |-> \A i \in DOMAIN chunk : chunk[i][2] = TileShape(g)[i]]

-----------------------------------------------------------------------------
(* The transform pipeline, and what the pool charges for a slot.  A        *)
(* transform is a record [scope, declares, inner, item]: the array paths   *)
(* it is applied to ({} for all), whether it declares an output shape, and *)
(* that shape and element size.                                            *)

AppliesTo(t, path) == t.scope = {} \/ path \in t.scope
TransformsFor(path, pipeline) ==
  At(pipeline, {i \in DOMAIN pipeline : AppliesTo(pipeline[i], path)})

UnknownScopes(pipeline, paths) == {p \in UNION {t.scope : t \in ToSet(pipeline)} : p \notin paths}
ValidScopes(pipeline, paths) == UnknownScopes(pipeline, paths) = {}

(* Only the inner axes and the element size change; the sample axis is     *)
(* put back at its place, and the inner axes become one tile.              *)
Rebuild(g, inner, item) ==
  [g EXCEPT !.shape = InsertAt(inner, g.axis + 1, NSamples(g)),
            !.chunks = InsertAt(inner, g.axis + 1, SampleChunkSize(g)),
            !.item = item]

Declared(acc, t) == IF t.declares THEN [inner |-> t.inner, item |-> t.item] ELSE acc

Declaring(base, transforms) ==
  LET final[n \in 0 .. Len(transforms)] ==
        IF n = 0 THEN base ELSE Declared(final[n - 1], transforms[n])
  IN  final[Len(transforms)]

OutputGeometry(g, pipeline) ==
  LET final == Declaring([inner |-> InnerShape(g), item |-> g.item],
                         TransformsFor(g.path, pipeline))
  IN  Rebuild(g, final.inner, final.item)

(* A pool with transforms publishes every slot as one whole array.         *)
Assembles(pipeline) == pipeline # <<>>

AssembledBytes(out, cid) == Product(SlotShape(out, cid)) * out.item

SlotChargeBytes(g, out, cid, assembles) ==
  IF assembles THEN MaxOf(ChunkBytes(g), AssembledBytes(out, cid)) ELSE ChunkBytes(g)

(* The tiles a slot ends up with: one whole array if the pool assembles.   *)
TileGrid(g, out, cid, assembles) ==
  IF assembles THEN [tiles |-> 1, shape |-> SlotShape(out, cid)]
               ELSE [tiles |-> NInnerChunks(g), shape |-> TileShape(g)]
=============================================================================
