--------------------------- MODULE BatchContents ---------------------------
(***************************************************************************)
(* What is in a batch: the way of an element of a stored chunk through the *)
(* fetch (insitubatch/scheduler.py), the slot, the transforms and the      *)
(* cache file, to its place in a batch (insitubatch/pool.py).              *)
(*                                                                         *)
(* An element is the array, sample and inner position it was stored at and *)
(* the transforms it went through, or a hole.  c is the configuration of   *)
(* the dataset (EpochPlan), g an array view.                               *)
(***************************************************************************)
EXTENDS ReadPlan, ChunkTransforms, StoreGroup

Element(path, sample, inner) ==
  [path |-> path, sample |-> sample, inner |-> inner, via |-> <<>>]
Hole(kind) == [path |-> kind, sample |-> -1, inner |-> <<>>, via |-> <<>>]
Pad == Hole("padding")
Fill == Hole("fill value")
NaN == Hole("NaN")
Unwritten == Hole("unwritten")
Garbled == Hole("garbled")

Filled(shape, element) == [shape |-> shape, at |-> [i \in Box(shape) |-> element]]

(* A tuple of half-open intervals holds an index tuple; the index of the   *)
(* same element in a box with another corner.                              *)
Within(i, box) == \A d \in DOMAIN i : i[d] \in Span(box[d][1], box[d][2])
Moved(i, from, to) == [d \in DOMAIN i |-> i[d] - from[d][1] + to[d][1]]

-----------------------------------------------------------------------------
(* The fetch.  The store is outside: a chunk key is the object's place in  *)
(* physical axis order, an edge object is stored whole, and there is none  *)
(* beyond the edge.                                                        *)

StoredChunk(a, phys, axis) ==
  LET size == IF a.shards # <<>> THEN a.shards ELSE a.chunks
      at(i) == [d \in DOMAIN i |-> phys[d] * size[d] + i[d]]
  IN  [shape |-> size,
       at    |-> [i \in Box(size) |->
                    IF \A d \in DOMAIN i : at(i)[d] < a.shape[d]
                    THEN Element(a.name, at(i)[axis + 1], RemoveAt(at(i), axis + 1)) ELSE Pad]]

(* What the scheduler keeps of an array it has opened.                     *)
ArrayCtx(array, chunkShape, axis) == [array |-> array, chunkShape |-> chunkShape, axis |-> axis]
EnsureArrays(c, g) ==
  LET a == Named(c.group, g.path) IN ArrayCtx(a, StorageChunks(a), g.axis)

(* Bytes are decoded as one chunk of the shape that the context has.       *)
Decoded(ctx, object) ==
  IF object.shape = ctx.chunkShape THEN object ELSE Filled(ctx.chunkShape, Garbled)

(* np.moveaxis(tile, axis, 0)                                              *)
SampleFirst(axis, tile) ==
  LET shape == <<tile.shape[axis + 1]>> \o RemoveAt(tile.shape, axis + 1)
  IN  [shape |-> shape,
       at    |-> [i \in Box(shape) |-> tile.at[InsertAt(Tail(i), axis + 1, Head(i))]]]

(* A chunk the store does not have reads as fill values.                   *)
FetchDecode(ctx, phys, absent) ==
  LET beyond == \E d \in DOMAIN phys : phys[d] * ctx.chunkShape[d] >= ctx.array.shape[d]
  IN  SampleFirst(ctx.axis,
        IF absent \/ beyond THEN Filled(ctx.chunkShape, Fill)
                            ELSE Decoded(ctx, StoredChunk(ctx.array, phys, ctx.axis)))

(* Under on_bad_chunk="nan" a chunk that cannot be decoded is replaced     *)
(* where the fetch would have returned: with the axes in physical order.   *)
BadFill(ctx) == Filled(ctx.chunkShape, NaN)

FetchedTile(c, g, cid, coord) ==
  LET hit(ids) == g.path = c.views[1].path /\ cid \in ids /\ InnerIndex(g, coord) = 0
      ctx == EnsureArrays(c, g)
  IN  IF hit(c.corrupt) THEN BadFill(ctx)
      ELSE FetchDecode(ctx, PhysicalChunkCoord(g, cid, coord), hit(c.absent))

FetchedTiles(c, g, cid) == [coord \in InnerCoords(g) |-> FetchedTile(c, g, cid, coord)]

-----------------------------------------------------------------------------
(* The slot.  On the heap the tiles are adopted as they are.  In the file  *)
(* of a tiled chunk they stand at inner_index, the slot keeps the views,   *)
(* and a later run takes them back in that order.                          *)

FileOf(g, tiles) ==
  [i \in Span(0, NInnerChunks(g)) |-> tiles[CHOOSE c \in InnerCoords(g) : InnerIndex(g, c) = i]]
Backed(g, tiles) == [c \in InnerCoords(g) |-> FileOf(g, tiles)[InnerIndex(g, c)]]
Revived(g, file) ==
  [c \in InnerCoords(g) |->
     file[Cardinality({d \in InnerCoords(g) : InnerIndex(g, d) < InnerIndex(g, c)})]]

Assembled(g, cid, tiles) ==
  LET home(i) == CHOOSE c \in InnerCoords(g) : Within(i, TilePlacement(g, cid, c).out)
      place(i) == TilePlacement(g, cid, home(i))
  IN  [shape |-> SlotShape(g, cid),
       at    |-> [i \in Box(SlotShape(g, cid)) |->
                    tiles[home(i)].at[Moved(i, place(i).out, place(i).chunk)]]]

(* Into a file only the declared shape is let; the heap takes any.         *)
Accepts(out, cid, data, persist) == persist => data.shape = SlotShape(out, cid)

(* The chunk that insitubatch-check-transform opens: a plain slice along   *)
(* the first axis, whatever the dataset's sample axis is.                  *)
CheckedGeometry(c, path) == OpenGeometries(c.group, <<path>>, 0)[1]
ReadChunk(c, path, cid) ==
  LET g == CheckedGeometry(c, path)
  IN  DecodedChunk(g, cid,
        [shape |-> SlotShape(g, cid),
         at    |-> [i \in Box(SlotShape(g, cid)) |->
                      Element(path, cid * SampleChunkSize(g) + i[1], Tail(i))]])

Prepared(c, g, cid) ==
  LET assembled == Assembled(g, cid, FetchedTiles(c, g, cid))
  IN  ApplyTransforms(DecodedChunk(g, cid, assembled), c.pipeline).data

(* The published slot: its tiles, and the geometry that places them.       *)
Published(c, g, cid, again) ==
  LET out == OutputGeometry(g, c.pipeline)
      tiles == FetchedTiles(c, g, cid)
  IN  IF Assembles(c.pipeline)
      THEN [grid |-> out, tiles |-> [coord \in InnerCoords(out) |-> Prepared(c, g, cid)]]
      ELSE [grid |-> g, tiles |-> IF ~c.persist THEN tiles
                                  ELSE IF again THEN Revived(g, FileOf(g, tiles))
                                  ELSE Backed(g, tiles)]

-----------------------------------------------------------------------------
(* gather.  The rows of one chunk are indexed together, tile by tile; what *)
(* no tile covers stays as the buffer was lent.                            *)

WithinChunk(g, sample) == sample % SampleChunkSize(g)

Gathered(g, out, slot, within, cid) ==
  [i \in Box(InnerShape(out)) |->
     LET home == {c \in DOMAIN slot.tiles :
                    Within(i, Tail(TilePlacement(slot.grid, cid, c).out))}
         c == CHOOSE c \in home : TRUE
         place == TilePlacement(slot.grid, cid, c)
     IN  IF home = {} THEN Unwritten
         ELSE slot.tiles[c].at[<<within>> \o Moved(i, Tail(place.out), Tail(place.chunk))]]

(* A Batch: the anchors of its rows, and per view an offset and an array.  *)
Batch(samples, offsets, arrays) ==
  [samples |-> samples, offsets |-> offsets, arrays |-> arrays]

(* A view is read at the anchor shifted by its offset.  again: are the     *)
(* slots revived ones?                                                     *)
GatheredBatch(c, rows, again) ==
  LET anchors == [i \in DOMAIN rows |-> Anchor(rows[i], c.refSpc)]
      row(g, sample) ==
        Gathered(g, OutputGeometry(g, c.pipeline), Published(c, g, ChunkOf(g, sample), again),
                 WithinChunk(g, sample), ChunkOf(g, sample))
  IN  Batch(anchors,
            [v \in DOMAIN c.views |-> c.views[v].offset],
            [v \in DOMAIN c.views |->
               [i \in DOMAIN rows |-> row(c.views[v], anchors[i] + c.views[v].offset)]])

BatchLen(batch) == Len(batch.samples)
ReadIndices(batch, v) == [i \in DOMAIN batch.samples |-> batch.samples[i] + batch.offsets[v]]
Stack(batch, labels) ==
  [i \in DOMAIN batch.samples |-> [k \in DOMAIN labels |-> batch.arrays[labels[k]][i]]]
=============================================================================
