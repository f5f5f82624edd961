------------------------------ MODULE EpochPlan ------------------------------
(***************************************************************************)
(* How an InSituDataset (insitubatch/source.py) derives from its           *)
(* configuration and geometry the plan that one of its passes runs by.     *)
(*                                                                         *)
(* A configuration is a record                                             *)
(*   group              the members of the zarr group (StoreGroup)         *)
(*   views, pipeline    the array views, the chunk transforms              *)
(*   n, refSpc          the manifest's samples and chunk size              *)
(*   manifest           the chunks of its parts train, val and test        *)
(*   shuffle, mixed     the shuffle flag; are rows mixed within a block    *)
(*   part               the view iterated: a part, or "all"                *)
(*   perm               the order the generator gives its chunks, if any   *)
(*   requested          block_chunks as asked for                          *)
(*   batchSize, depth   batch_size, prefetch_depth                         *)
(*   maxInflight        max_inflight, 0 for None                           *)
(*   onBadChunk         on_bad_chunk, "raise" or "nan"                     *)
(*   cacheDir, persist  is there a cache directory, and is it kept         *)
(*   userBudget         cache_budget_bytes, 0 for None                     *)
(* and, for what the run of the pass meets,                                *)
(*   absent, corrupt    chunk ids of the first view of which the store has *)
(*                      not, or cannot decode, the first tile              *)
(*   warm, cached       chunk ids of the first view in memory, on disk     *)
(*   badBatch           batch starts at which the gather raises            *)
(*   shared             do other passes use the pool                       *)
(***************************************************************************)
EXTENDS ReadPlan, ChunkTransforms, StoreGroup

(* Mutant: the block is not widened.                                       *)
BlockChunksAsAsked(c) == c.requested

BlockChunks(c) ==
  MaxOf(c.requested, MinOf(CeilDiv(c.batchSize, c.refSpc), CeilDiv(c.n, c.refSpc)))

RereadSpill(c) == c.persist /\ Windowed(c) /\ c.shuffle

Dataset(c) ==
  [views |-> c.views, pipeline |-> c.pipeline, blockChunks |-> BlockChunks(c),
   refSpc |-> c.refSpc, shuffle |-> c.shuffle]

WorkingSet(c) == WorkingSetBytes(Dataset(c), Cardinality(c.manifest.train), RereadSpill(c))

(* Samples are paired row by row, so every view has the manifest's number. *)
Paired(c) == \A v \in DOMAIN c.views : NSamples(c.views[v]) = c.n

(* What a dataset can be made with: views that open, lengths that pair,    *)
(* transforms that apply to arrays it has, a budget that is not below the  *)
(* floor, and a directory for a cache that is to be kept.                  *)
Accepted(c) ==
  LET paths == {c.views[v].path : v \in DOMAIN c.views}
  IN  /\ \A v \in DOMAIN c.views : Opens(c.group, <<c.views[v].path>>, c.views[v].axis)
      /\ Paired(c)
      /\ \A t \in ToSet(c.pipeline) : t.scope # {} => Applicable(t, t.scope)
      /\ ValidScopes(c.pipeline, paths)
      /\ c.userBudget # 0 => c.userBudget >= WorkingSet(c)
      /\ c.persist => c.cacheDir

DefaultMaxInflight == 32

SchedulerConfig(c, readAhead) ==
  [maxInflight     |-> IF c.maxInflight = 0 THEN DefaultMaxInflight ELSE c.maxInflight,
   readAheadChunks |-> readAhead,
   onBadChunk      |-> c.onBadChunk]

(* Of the views train, val, test and all only the first is ever shuffled.  *)
Shuffles(c) == c.shuffle /\ c.part = "train"
SplitView(c) == [part |-> c.part, shuffle |-> Shuffles(c)]

DrawnChunks(c) ==
  LET view == SplitView(c)
  IN  IF view.shuffle THEN c.perm ELSE Ascending(ChunkIds(c.manifest, view.part))

OrderOf(c) ==
  Draw(DrawnChunks(c), Shuffles(c), c.mixed, c.views, c.refSpc, c.n, BlockChunks(c))

BlocksOf(c) == Blocks(OrderOf(c), c.views, c.refSpc)

(* The keys the driver may claim, with what the pool charges for each.     *)
ChargedKeys(c) ==
  UNION {{<<c.views[v].path, cid>> : cid \in Span(0, NChunks(c.views[v]))} : v \in DOMAIN c.views}

KeyBytes(c, k) ==
  LET v == CHOOSE v \in DOMAIN c.views : c.views[v].path = k[1]
  IN  SlotChargeBytes(c.views[v], OutputGeometry(c.views[v], c.pipeline), k[2], Assembles(c.pipeline))

(* The keys whose slot ends failed: a tile that cannot be decoded and is   *)
(* not replaced, or a transform that raises on the array.                  *)
FailingKeys(c, scheduler) ==
  {k \in ChargedKeys(c) : RaisesOn(k[1], c.pipeline)}
    \cup (IF scheduler.onBadChunk = "raise" THEN {<<c.views[1].path, cid>> : cid \in c.corrupt}
                                            ELSE {})

PlanOf(c) ==
  LET order == OrderOf(c)
      blocks == Blocks(order, c.views, c.refSpc)
      reread == RereadSpill(c)
      scheduler == SchedulerConfig(c, AheadOf(blocks, reread))
      first(ids) == {<<c.views[1].path, cid>> : cid \in ids}
  IN  [config     |-> c,
       blocks     |-> blocks,
       reads      |-> [i \in DOMAIN order.rows |-> BlockReadKeys(<<order.rows[i]>>, c.views, c.refSpc)],
       release    |-> Release(blocks, reread),
       admissions |-> Admissions(GroupsOf(blocks), c.views, c.refSpc, reread),
       claimedBy  |-> ClaimedBy(GroupsOf(blocks), c.views, c.refSpc, reread),
       bound      |-> scheduler.readAheadChunks,
       reread     |-> reread,
       weight     |-> [k \in ChargedKeys(c) |-> KeyBytes(c, k)],
       budget     |-> MaxOf(c.userBudget, WorkingSet(c)),
       batchSize  |-> c.batchSize,
       depth      |-> MaxOf(c.depth, 1),
       persist    |-> c.persist,
       warm       |-> first(c.warm),
       cached     |-> first(c.cached),
       bad        |-> FailingKeys(c, scheduler),
       badBatch   |-> c.badBatch,
       shared     |-> c.shared]
=============================================================================
