------------------------------ MODULE ReadPlan ------------------------------
(***************************************************************************)
(* What one pass reads: the two accounts of it that must agree, and the    *)
(* bounds computed from them.  The driver expands the anchor chunks of     *)
(* every block (insitubatch/plan.py); the consumer works out the keys its  *)
(* rows touch (_block_read_keys in source.py), from which come the release *)
(* schedule, the read-ahead bound and the residency floor                  *)
(* (working_set_bytes in summary.py).                                      *)
(*                                                                         *)
(* A key is a pair <<path, chunk>> on the grid of its own array.           *)
(***************************************************************************)
EXTENDS DrawOrder

(* _Block: the row range <<start, stop>>, the anchor chunks drawn from and *)
(* the keys read.                                                          *)
AnchorChunks(rows) == {rows[i][1] : i \in DOMAIN rows}

(* Mutant: the key is taken on the anchor grid, not the array's own.       *)
BlockReadKeysAnchorGrid(rows, views, spc) ==
  {<<views[v].path, (Anchor(rows[i], spc) + views[v].offset) \div spc>> :
     v \in DOMAIN views, i \in DOMAIN rows}

BlockReadKeys(rows, views, spc) ==
  {<<views[v].path, (Anchor(rows[i], spc) + views[v].offset) \div SampleChunkSize(views[v])>> :
     v \in DOMAIN views, i \in DOMAIN rows}

Blocks(order, views, spc) ==
  [b \in 1 .. NBlocks(order) |->
     [start  |-> order.bounds[b],
      stop   |-> order.bounds[b + 1],
      chunks |-> AnchorChunks(BlockRows(order, b)),
      keys   |-> BlockReadKeys(BlockRows(order, b), views, spc)]]

KeysOf(blocks) == UNION {blocks[b].keys : b \in DOMAIN blocks}
ReadersOf(blocks, k) == {b \in DOMAIN blocks : k \in blocks[b].keys}
FirstUse(blocks, k) == CHOOSE b \in ReadersOf(blocks, k) : \A c \in ReadersOf(blocks, k) : b <= c
LastUse(blocks, k) == CHOOSE b \in ReadersOf(blocks, k) : \A c \in ReadersOf(blocks, k) : b >= c

Release(blocks, reread) ==
  [b \in DOMAIN blocks |-> {k \in blocks[b].keys : reread \/ LastUse(blocks, k) = b}]

-----------------------------------------------------------------------------
(* The driver's plan.  The stored tiles of a chunk stand together, so a    *)
(* run of reads is one entry: the chunk it belongs to.                     *)

(* _read_chunks: the chunks of a view that an anchor chunk needs, ascending.*)
ReadChunks(view, cid, refSpc) ==
  LET start == cid * refSpc
      stop == MinOf(start + refSpc, NSamples(view))
      lo == MaxOf(0, start + view.offset)
      hi == MinOf(NSamples(view) - 1, stop - 1 + view.offset)
      first == lo \div SampleChunkSize(view)
      last == hi \div SampleChunkSize(view)
  IN  [i \in 1 .. (IF lo > hi THEN 0 ELSE last - first + 1) |-> first + i - 1]

ReadsOfAnchor(cid, views, refSpc) ==
  FlattenSeq([v \in DOMAIN views |->
    LET chunks == ReadChunks(views[v], cid, refSpc)
    IN  [i \in DOMAIN chunks |-> <<views[v].path, chunks[i]>>]])

Unseen(reads) ==
  At(reads, {i \in DOMAIN reads : \A j \in 1 .. i - 1 : reads[j] # reads[i]})

(* build_stored_chunk_reads for the anchor chunks `groups`, one sequence   *)
(* per block: what is dropped as already read is so within a block when    *)
(* the pass rereads and within the pass otherwise.  The result keeps the   *)
(* block structure only where the code does (block_starts).                *)
ReadsOfBlock(chunks, views, refSpc) ==
  Unseen(FlattenSeq([i \in DOMAIN chunks |-> ReadsOfAnchor(chunks[i], views, refSpc)]))

(* Mutant: every block reads what it needs, also when nothing is reread.   *)
AdmissionsPerBlock(groups, views, refSpc, reread) ==
  FlattenSeq([b \in DOMAIN groups |-> ReadsOfBlock(groups[b], views, refSpc)])

(* The driver's admissions: one per run of reads of the same chunk, where  *)
(* a block start ends a run if the plan has block starts.                  *)
Admissions(groups, views, refSpc, reread) ==
  LET perBlock == [b \in DOMAIN groups |-> ReadsOfBlock(groups[b], views, refSpc)]
  IN  IF reread THEN FlattenSeq(perBlock) ELSE Unseen(FlattenSeq(perBlock))

(* How many admissions the driver has made when it is through with block b.*)
ClaimedBy(groups, views, refSpc, reread) ==
  [b \in DOMAIN groups |-> Len(Admissions(SubSeq(groups, 1, b), views, refSpc, reread))]

(* np.unique leaves the chunks of a block in ascending order.              *)
GroupsOf(blocks) == [b \in DOMAIN blocks |-> Ascending(blocks[b].chunks)]

-----------------------------------------------------------------------------
(* The read-ahead bound.                                                   *)

LiveAt(blocks, b) ==
  {k \in KeysOf(blocks) : FirstUse(blocks, k) <= b /\ b <= LastUse(blocks, k)}

NextKeys(blocks, b) == IF b < Len(blocks) THEN blocks[b + 1].keys ELSE {}

Peak(S) == IF S = {} THEN 1 ELSE CHOOSE m \in S \cup {1} : \A x \in S \cup {1} : m >= x

(* Mutant: only the current block is counted, not what it keeps for later. *)
BoundOfAdjacentBlocks(blocks) ==
  Peak({Cardinality(blocks[b].keys) + Cardinality(NextKeys(blocks, b)) : b \in DOMAIN blocks})

ReadAheadBound(blocks) ==
  Peak({Cardinality(LiveAt(blocks, b)) + Cardinality(NextKeys(blocks, b)) :
          b \in DOMAIN blocks})

ThreeBlockBound(blocks) ==
  LET sizes == [b \in DOMAIN blocks |-> Cardinality(blocks[b].keys)]
  IN  Peak({SumOn(sizes, b .. MinOf(b + 2, Len(blocks))) : b \in 1 .. MaxOf(Len(blocks) - 2, 1)})

AheadOf(blocks, reread) ==
  IF reread THEN ThreeBlockBound(blocks) ELSE ReadAheadBound(blocks)

-----------------------------------------------------------------------------
(* The residency floor.  The dataset is a record with its views, its       *)
(* transform pipeline, block size and anchor grid; trainChunks is the size *)
(* of the train part.                                                      *)

BytesPerChunk(d, v) ==
  SlotChargeBytes(d.views[v], OutputGeometry(d.views[v], d.pipeline), 0, Assembles(d.pipeline))

Windowed(d) == \E v \in DOMAIN d.views : d.views[v].offset # 0
UniformSpc(d) ==
  \A v, w \in DOMAIN d.views : SampleChunkSize(d.views[v]) = SampleChunkSize(d.views[w])

SumOver(f) == SumOn(f, DOMAIN f)

ChunksPerAnchor(view) == IF view.offset % SampleChunkSize(view) = 0 THEN 1 ELSE 2

(* The bytes of one chunk of every array, each counted once.               *)
BytesPerPath(d) ==
  LET paths == {d.views[v].path : v \in DOMAIN d.views}
      bytes(p) == {BytesPerChunk(d, v) : v \in {w \in DOMAIN d.views : d.views[w].path = p}}
      largest(p) == CHOOSE m \in bytes(p) : \A x \in bytes(p) : m >= x
  IN  SumOver([p \in paths |-> largest(p)])

UniformFloor(d, trainChunks, reread) ==
  LET perAnchor == SumOver([v \in DOMAIN d.views |->
                              ChunksPerAnchor(d.views[v]) * BytesPerChunk(d, v)])
      blocks == (IF reread THEN 3 ELSE 2) * d.blockChunks * perAnchor
      reach == trainChunks + CeilDiv(MaxOffset(d.views) - MinOffset(d.views),
                                     SampleChunkSize(d.views[1]))
  IN  IF Windowed(d) /\ d.shuffle /\ ~reread
        THEN MaxOf(blocks, reach * BytesPerPath(d)) ELSE blocks

ViewBytes(d, v, samples) ==
  (CeilDiv(samples, SampleChunkSize(d.views[v])) + 1) * BytesPerChunk(d, v)

MixedFloor(d, trainChunks) ==
  LET floorOf(samples) == SumOver([v \in DOMAIN d.views |-> ViewBytes(d, v, samples)])
      blocks == floorOf(2 * d.blockChunks * d.refSpc)
  IN  IF d.shuffle THEN MaxOf(blocks, floorOf(trainChunks * d.refSpc)) ELSE blocks

(* Mutant: a view is charged one chunk per anchor chunk wherever it lands. *)
FloorWithoutStraddle(d, trainChunks, reread) ==
  IF UniformSpc(d)
    THEN (IF reread THEN 3 ELSE 2) * d.blockChunks * BytesPerPath(d)
    ELSE MixedFloor(d, trainChunks)

WorkingSetBytes(d, trainChunks, reread) ==
  IF UniformSpc(d) THEN UniformFloor(d, trainChunks, reread) ELSE MixedFloor(d, trainChunks)
=============================================================================
