---------------------------- MODULE MCPassStream ----------------------------
(***************************************************************************)
(* The epochs TLC looks at: a grid of configurations whose plans are       *)
(* checked, and a few whose passes are also run.                           *)
(***************************************************************************)
EXTENDS EpochProperties

(* A zarr group: arrays as they are stored, each with a dimension of its   *)
(* own name for every axis, and beside them what is never batched: a       *)
(* coordinate, a grid mapping and a subgroup.                              *)
Member(name, shape, chunks, shards, dims) ==
  [name |-> name, array |-> TRUE, shape |-> shape, chunks |-> chunks, shards |-> shards,
   item |-> 1, dims |-> dims, attrs |-> <<>>]
Field(name, shape, chunks) == Member(name, shape, chunks, <<>>, <<"time", "y", "x">>)
Aside ==
  <<Member("time", <<5>>, <<5>>, <<>>, <<"time">>), Member("crs", <<>>, <<>>, <<>>, <<>>),
    [Member("lat", <<2>>, <<2>>, <<>>, <<>>) EXCEPT !.attrs = <<"lat">>],
    [Member("raw", <<>>, <<>>, <<>>, <<>>) EXCEPT !.array = FALSE]>>

Flat(name, n, spc) == Field(name, <<n, 2>>, <<spc, 2>>)

(* Edge tiles in both inner axes, tiles that are slabs, objects that are   *)
(* shards of smaller chunks.                                               *)
Tiled == Field("t", <<3, 5, 5>>, <<2, 2, 2>>)
Slabs == Field("t", <<5, 4, 2>>, <<2, 2, 2>>)
Sharded == Member("t", <<5, 3>>, <<1, 1>>, <<2, 2>>, <<"time", "x">>)
WideChunk == Field("t", <<5, 2>>, <<2, 3>>)

(* A store and the views opened on it: of the variables a user names, each *)
(* shifted, or of those that open_geometries finds.                        *)
Opened(group, wanted, axis) ==
  [group |-> group,
   views |-> [i \in DOMAIN wanted |->
                Shift(OpenGeometries(group, <<wanted[i][1]>>, axis)[1], wanted[i][2])]]
Inferred(arrays, axis) ==
  [group |-> Aside \o arrays, views |-> OpenGeometries(Aside \o arrays, <<>>, axis)]

(* A random split can make any set of chunks the train part.               *)
TrainOn(chunks, n, spc) ==
  [train |-> chunks, val |-> Span(0, CeilDiv(n, spc)) \ chunks, test |-> {}]

Viewed(n, spc, offsets) ==
  Opened(<<Flat("t", n, spc)>>, [i \in DOMAIN offsets |-> <<"t", offsets[i]>>], 0)

(* A second variable "u" on a grid of its own beside "t".                  *)
TwoGrids(n, spc, spc2, offset) ==
  Opened(<<Flat("t", n, spc), Flat("u", n, spc2)>>, <<<<"t", 0>>, <<"u", offset>>>>, 0)
BothShifted ==
  Opened(<<Flat("t", 6, 2), Flat("u", 6, 2)>>, <<<<"t", 3>>, <<"u", 1>>>>, 0)

Base ==
  [group |-> Viewed(4, 2, <<0>>).group, views |-> Viewed(4, 2, <<0>>).views,
   pipeline |-> <<>>, n |-> 4, refSpc |-> 2, window |-> <<>>,
   manifest |-> TrainOn({0, 1}, 4, 2), part |-> "train", perm |-> <<0, 1>>,
   shuffle |-> TRUE, mixed |-> FALSE, requested |-> 1, batchSize |-> 2, depth |-> 1,
   maxInflight |-> 2, onBadChunk |-> "raise", iterations |-> 1,
   cacheDir |-> TRUE, persist |-> FALSE, userBudget |-> 0,
   absent |-> {}, corrupt |-> {}, warm |-> {}, cached |-> {}, badBatch |-> {},
   shared |-> FALSE]

On(c, opened) == [c EXCEPT !.group = opened.group, !.views = opened.views]

(* Base with n samples, anchor chunks of spc, and a train part drawn in    *)
(* the order of perm.                                                      *)
Drawing(n, spc, opened, perm) ==
  [On(Base, opened) EXCEPT !.n = n, !.refSpc = spc, !.perm = perm,
                           !.manifest = TrainOn(ToSet(perm), n, spc)]

-----------------------------------------------------------------------------
(* The grid.  Every shape has three anchor chunks.                         *)

Shape(n, spc, opened) == [n |-> n, spc |-> spc, opened |-> opened]
Shapes ==
  {Shape(6, 2, Viewed(6, 2, <<0>>)), Shape(9, 4, Viewed(9, 4, <<0>>)),
   Shape(3, 1, Viewed(3, 1, <<0>>)), Shape(5, 2, Inferred(<<Tiled>>, 1)),
   Shape(5, 2, Viewed(5, 2, <<1>>)),
   Shape(5, 2, Viewed(5, 2, <<0, 1>>)), Shape(6, 2, Viewed(6, 2, <<0, 2>>)),
   Shape(5, 2, Viewed(5, 2, <<-1, 1>>)), Shape(6, 2, Viewed(6, 2, <<0, 3>>)),
   Shape(5, 2, TwoGrids(5, 2, 3, 0)), Shape(6, 2, TwoGrids(6, 2, 1, 0)),
   Shape(6, 2, TwoGrids(6, 2, 2, 2)), Shape(6, 2, BothShifted),
   Shape(6, 2, TwoGrids(6, 3, 3, 0)), Shape(6, 2, TwoGrids(6, 3, 2, 1))}

(* A split, and the pass that draws one of its parts.  tail: is the split  *)
(* made from the samples of the second chunk on?                           *)
Pass(manifest, part, perm, shuffle, mixed, tail) ==
  [manifest |-> manifest, part |-> part, perm |-> perm, shuffle |-> shuffle,
   mixed |-> mixed, tail |-> tail]
AllTrain == SplitByChunk(<<0, 1, 2>>, <<100, 0>>)
Passes ==
  {Pass(AllTrain, "train", perm, TRUE, FALSE, FALSE) :
     perm \in {<<0, 1, 2>>, <<0, 2, 1>>, <<1, 2, 0>>, <<2, 0, 1>>}}
  \cup {Pass(AllTrain, "train", perm, TRUE, TRUE, FALSE) : perm \in {<<0, 2, 1>>, <<2, 0, 1>>}}
  \cup {Pass(SplitByChunk(<<0, 1, 2>>, <<67, 33>>), "train", <<1, 0>>, TRUE, FALSE, FALSE),
        Pass(SplitByChunk(<<2, 0, 1>>, <<67, 33>>), "train", <<0, 2>>, TRUE, FALSE, FALSE),
        Pass(AllTrain, "train", <<0, 1, 2>>, FALSE, FALSE, FALSE),
        Pass(SplitByChunk(<<2, 0, 1>>, <<34, 33>>), "all", <<2>>, TRUE, FALSE, FALSE),
        Pass(SplitByChunk(<<1, 2>>, <<50, 50>>), "val", <<1>>, TRUE, FALSE, TRUE)}

Knobs ==
  {[requested |-> 1, batchSize |-> 1], [requested |-> 1, batchSize |-> 2],
   [requested |-> 1, batchSize |-> 3], [requested |-> 2, batchSize |-> 3]}

Grid ==
  {[On(Base, shape.opened) EXCEPT !.n = shape.n, !.refSpc = shape.spc,
                !.window = IF pass.tail THEN <<2 * shape.spc - 1, shape.n>> ELSE <<>>,
                !.manifest = pass.manifest, !.part = pass.part, !.perm = pass.perm,
                !.shuffle = pass.shuffle, !.mixed = pass.mixed,
                !.requested = knobs.requested, !.batchSize = knobs.batchSize,
                !.persist = persist] :
     shape \in Shapes, pass \in Passes, knobs \in Knobs, persist \in BOOLEAN}

-----------------------------------------------------------------------------
(* What is stored, what is done to it, and what else may be done to it.    *)

Scale == ChunkTransform("scale")
Mask == Applies({"t"}, ChunkTransform("mask"))
MaskBoth == Applies({"t", "u"}, ChunkTransform("mask"))
MaskU == Applies({"u"}, ChunkTransform("mask"))
KeyedMask(arrays) == Applies(arrays, [ChunkTransform("mask again") EXCEPT !.key = "mask v2"])
Resample == Applies({"t"}, ReshapingChunkTransform("resample", <<3>>, 2))
Liar == [Resample EXCEPT !.yields = <<4>>]
Coarsen == ReshapingChunkTransform("coarsen", <<2, 1>>, 2)
Fitted(mean, std) == StandardScaler(mean, std, "1979")
OnT(fitted) == Applies({"t"}, fitted)

MCEdits ==
  {<<>>, <<Scale>>, <<Mask>>, <<Scale, Mask>>, <<Mask, Scale>>,
   <<Scale, MaskU>>, <<Scale, MaskBoth>>, <<OnT(Fitted({"t"}, {"t"}))>>,
   <<Scale, KeyedMask({"t"})>>, <<Scale, KeyedMask({"t", "u"})>>, <<Scale, Resample>>}

Piped(opened, pipeline) ==
  [Drawing(5, 2, opened, <<1, 0, 2>>) EXCEPT !.pipeline = pipeline, !.persist = TRUE]
AsNaN(c, ids) == [c EXCEPT !.corrupt = ids, !.onBadChunk = "nan"]

Contents ==
  {Piped(Viewed(5, 2, <<0, 1>>), <<Scale, Mask>>), Piped(TwoGrids(5, 2, 3, 0), <<Scale, Mask>>),
   Piped(TwoGrids(5, 2, 2, 0), <<Mask, Resample>>),
   Piped(Inferred(<<Tiled>>, 1), <<Scale>>), Piped(Inferred(<<Tiled>>, 1), <<Coarsen, Mask>>),
   Piped(Inferred(<<Slabs>>, 0), <<>>), Piped(Inferred(<<Sharded>>, 0), <<>>),
   Piped(Inferred(<<Sharded, Flat("u", 5, 3)>>, 0), <<Mask, OnT(Fitted({"t"}, {"t", "u"}))>>),
   Piped(Viewed(5, 2, <<0>>), <<Liar>>),
   Piped(Viewed(5, 2, <<0>>), <<Scale, KeyedMask({"t"})>>),
   [AsNaN(Piped(Inferred(<<Slabs>>, 0), <<Mask>>), {1}) EXCEPT !.absent = {0}],
   [Piped(Inferred(<<Tiled>>, 1), <<>>) EXCEPT !.absent = {1}],
   AsNaN(Piped(Inferred(<<Tiled>>, 1), <<>>), {1}),
   [Piped(Inferred(<<WideChunk>>, 0), <<>>) EXCEPT !.persist = FALSE, !.maxInflight = 0],
   \* a scaler without a std for t, and one that is scoped to nothing
   Piped(TwoGrids(5, 2, 2, 0), <<OnT(Fitted({"t"}, {"u"}))>>),
   Piped(TwoGrids(5, 2, 2, 0), <<Fitted({"t"}, {"t"})>>)}

(* What is refused: a view that does not open, lengths that do not pair, a *)
(* transform of arrays that are not there or that it was not fitted for, a *)
(* budget below the floor, a cache without a directory.                    *)
Refused ==
  {On(Base, Opened(<<Flat("t", 4, 2)>>, <<<<"t", 0>>>>, 2)),
   On(Base, Inferred(<<Flat("t", 4, 2), Flat("u", 5, 2)>>, 0)),
   [Base EXCEPT !.pipeline = <<MaskU>>],
   [Base EXCEPT !.pipeline = <<OnT(Fitted({"u"}, {"u"}))>>],
   [Base EXCEPT !.userBudget = 1],
   [Base EXCEPT !.persist = TRUE, !.cacheDir = FALSE]}

(* Statistics a pass may end with: the depths its consumer found, and how  *)
(* long each stage took.                                                   *)
MCProfiles ==
  {[wall |-> 20,
    times |-> [fetch |-> fetch, parked |-> parked, decode |-> decode, assemble |-> assemble,
               gather |-> gather, batchTransform |-> 1, consumer |-> computed],
    depths |-> Sampled(2, found) @@ [inflightPeak |-> peak, maxInflight |-> 2]] :
     fetch \in {0, 3, 8}, parked \in {0, 5, 9}, decode \in {0, 3, 4}, assemble \in {0, 3},
     gather \in {0, 2}, computed \in {1, 10}, peak \in {1, 2},
     found \in {<<>>, <<0, 1, 2>>, <<0, 0, 2>>, <<2, 2, 1>>}}

-----------------------------------------------------------------------------
(* Epochs the automatic budget is too small for: a scattered part under a  *)
(* wide window, and a validation pass, which is unshuffled, under a window *)
(* that reaches far past the next block.  And a window whose one offset    *)
(* moves every anchor chunk onto two chunks of the array: seven are held   *)
(* where the floor counts the six of the train part.                       *)

WideSequential ==
  [Drawing(21, 1, Viewed(21, 1, <<0, 7>>), <<0>>)
     EXCEPT !.part = "val", !.requested = 2, !.batchSize = 1]
Misaligned == [Drawing(21, 3, Viewed(21, 3, <<1>>), <<2, 4, 0, 5, 1, 3>>) EXCEPT !.batchSize = 2]
Wide ==
  {[Drawing(15, 1, Viewed(15, 1, <<0, 1, 2, 3>>), <<0, 5, 10, 1, 6, 11>>) EXCEPT !.batchSize = 1],
   WideSequential, Misaligned}

Narrow == [Drawing(9, 4, Viewed(9, 4, <<0>>), <<0, 2, 1>>) EXCEPT !.batchSize = 3]

MCStreamed == <<
  \* one variable, nothing shared between blocks
  [Drawing(6, 2, Viewed(6, 2, <<0>>), <<1, 0, 2>>)
     EXCEPT !.corrupt = {0}, !.badBatch = {2}, !.warm = {1}, !.shared = TRUE],
  \* a window, batches that straddle blocks
  [Drawing(7, 2, Viewed(7, 2, <<0, 2>>), <<2, 0, 3, 1>>)
     EXCEPT !.batchSize = 3, !.depth = 2, !.shared = TRUE],
  \* the released spill
  [Drawing(8, 2, Viewed(8, 2, <<0, 2>>), <<2, 0, 1, 3>>)
     EXCEPT !.persist = TRUE, !.cached = {0}],
  \* the same with batches that straddle blocks and chunks that fail
  [Drawing(7, 2, Viewed(7, 2, <<0, 2>>), <<1, 2, 0, 3>>)
     EXCEPT !.batchSize = 3, !.depth = 2, !.persist = TRUE, !.corrupt = {1}, !.cached = {2}],
  \* a part whose chunks are all in memory and whose budget retains them
  [Drawing(6, 2, TwoGrids(6, 2, 3, 0), <<2, 1, 0>>)
     EXCEPT !.depth = 2, !.userBudget = 100, !.warm = {0, 1, 2}, !.shared = TRUE],
  \* chunks the driver claims and no row waits for
  [Drawing(6, 2, BothShifted, <<1, 0, 2>>)
     EXCEPT !.corrupt = {1}, !.shared = TRUE],
  \* a block too narrow for a batch: three must be held at once
  Narrow,
  \* an unshuffled pass whose budget is tighter than its permits
  [Drawing(7, 1, Viewed(7, 1, <<0, 3>>), <<0, 1, 2, 3>>)
     EXCEPT !.batchSize = 1, !.shuffle = FALSE]
>>

MCStreamedSet == ToSet(MCStreamed)
MCConfigs == MCStreamedSet \cup Grid \cup Wide \cup Contents \cup Refused
MCPlans ==
  {PlanOf(c) : c \in {d \in MCConfigs : Accepted(d) /\ Permutes(d.perm, d.manifest.train)}}

(* The pass of the run that shows the floor falling short.                 *)
MCWideSet == {WideSequential}
MCWidePlans == {PlanOf(c) : c \in MCWideSet}
=============================================================================
