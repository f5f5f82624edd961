--------------------------- MODULE EpochProperties ---------------------------
(***************************************************************************)
(* What must be true of the plan of every epoch, whoever runs it: stated   *)
(* of the plan a pass starts with, against definitions that go sample by   *)
(* sample where the code computes on chunks.                               *)
(***************************************************************************)
EXTENDS PassStream, BatchContents, DatasetReport, PassReport

CONSTANTS
  Profiles,  \* bound: the statistics a pass may end with
  Edits      \* bound: the pipelines a dataset may be given instead of its own

ASSUME ProfilesAssumption == Profiles \subseteq PassStats(Nat)

(* What a configuration says.                                              *)
Fields ==
  {"group", "views", "pipeline", "n", "refSpc", "manifest", "part", "perm", "shuffle",
   "mixed", "requested", "batchSize", "depth", "maxInflight", "onBadChunk", "iterations",
   "cacheDir", "persist", "userBudget", "absent", "corrupt", "warm", "cached", "badBatch",
   "shared"}

(* The configuration of an epoch: numbers that are numbers, views that can *)
(* be read and pair row by row, a split of the chunks there are, and an    *)
(* order of the train part.                                                *)
Sound(c) ==
  /\ Fields \subseteq DOMAIN c
  /\ c.n \in Nat /\ c.refSpc \in Nat \ {0} /\ c.requested \in Nat \ {0}
  /\ c.batchSize \in Nat \ {0} /\ c.depth \in Nat
  /\ Readable(c.views) /\ c.views # <<>> /\ Paired(c)
  /\ c.part \in Parts \cup {"all"}
  /\ \A p \in Parts : c.manifest[p] \subseteq Span(0, CeilDiv(c.n, c.refSpc))
  /\ Shuffles(c) => c.perm \in Seq(Nat) /\ Permutes(c.perm, c.manifest.train)
  /\ c.warm \cup c.cached \subseteq Span(0, NChunks(c.views[1]))
  /\ c.userBudget \in Nat /\ c.iterations \in Nat \ {0}
  /\ \A v \in DOMAIN c.views :
       /\ Measured(c.views[v]) /\ Measured(OutputGeometry(c.views[v], c.pipeline))
       /\ \A w \in DOMAIN c.views :
            c.views[w].path = c.views[v].path =>
              c.views[w] = Shift(c.views[v], c.views[w].offset - c.views[v].offset)

(* What a pool holds when a pass begins is within its budget.              *)
WarmFits(p) == SumOn(p.weight, p.warm) <= p.budget

ASSUME PlansAssumption == \A p \in Plans : p = PlanOf(p.config) /\ Sound(p.config) /\ WarmFits(p)

(* A dataset that could be made of its group: its views are arrays that it *)
(* opened there, shifted.                                                  *)
OpenedOn(c) ==
  /\ Accepted(c)
  /\ c.pipeline \in Seq(ToSet(c.pipeline))
  /\ \A v \in DOMAIN c.views : LET g == c.views[v] IN
       g = Shift(OpenGeometries(c.group, <<g.path>>, g.axis)[1], g.offset)

ASSUME DatasetsAssumption == \A p \in Plans : OpenedOn(p.config)

Starting == consumer = "new"
Config == plan.config
Blocked == plan.blocks
RowsDrawn == OrderOf(Config).rows

OnArray(v, sample) == sample \in Span(0, NSamples(Config.views[v]))
OnEveryView(row) ==
  \A v \in DOMAIN Config.views : OnArray(v, Anchor(row, Config.refSpc) + Config.views[v].offset)

(* The anchors of some chunks that can be drawn: every view can be read    *)
(* there.                                                                  *)
Drawable(chunks) ==
  {row \in chunks \X Span(0, Config.refSpc) :
     Anchor(row, Config.refSpc) < Config.n /\ OnEveryView(row)}

(* A split deals each chunk of its window to one part, and a pass draws    *)
(* every anchor of its part exactly once, from the one block that its      *)
(* chunk belongs to; the blocks are consecutive row ranges (split.py,      *)
(* split_by_chunk; shuffle.py, DrawOrder.keep; source.py, _blocks).        *)
EveryAnchorOnce ==
  Starting =>
    /\ ChunkIds(Config.manifest, "all") = Selected(Config.n, Config.refSpc, Config.window)
    /\ \A p, q \in Parts : p # q => Config.manifest[p] \cap Config.manifest[q] = {}
    /\ ToSet(RowsDrawn) = Drawable(ChunkIds(Config.manifest, Config.part))
    /\ Config.part \in Parts /\ SampleChunkSize(Config.views[1]) = Config.refSpc =>
         \A row \in ToSet(RowsDrawn) :
           Anchor(row, Config.refSpc) \in SampleIndices(Config.manifest, Config.part, Config.views[1])
    /\ Len(RowsDrawn) = Cardinality(ToSet(RowsDrawn))
    /\ \A b \in DOMAIN Blocked :
         /\ Blocked[b].start < Blocked[b].stop
         /\ Blocked[b].start = IF b = 1 THEN 0 ELSE Blocked[b - 1].stop
         /\ \A c \in DOMAIN Blocked :
              b # c => Blocked[b].chunks \cap Blocked[c].chunks = {}
    /\ Blocked # <<>> => Blocked[Len(Blocked)].stop = Len(RowsDrawn)

(* The chunk of a view that holds a sample, found by looking at them all.  *)
HolderOf(v, sample) ==
  CHOOSE cid \in Span(0, NChunks(Config.views[v])) :
    sample \in SamplesInChunk(Config.views[v], cid)

(* The consumer waits only for what its rows touch, and the driver claims  *)
(* all of it by the time it is through with that block (plan.py,           *)
(* build_stored_chunk_reads; source.py, _block_read_keys).  The plan is    *)
(* coherent.                                                               *)
DriverPlansAwaited ==
  Starting => Coherent(plan) /\ \A b \in DOMAIN Blocked :
    Blocked[b].keys =
         {<<Config.views[v].path,
            HolderOf(v, Anchor(RowsDrawn[i], Config.refSpc) + Config.views[v].offset)>> :
            v \in DOMAIN Config.views, i \in Blocked[b].start + 1 .. Blocked[b].stop}

(* Where chunks are full and nothing is dropped at the edges of the array. *)
EvenChunks ==
  /\ Config.n % Config.refSpc = 0
  /\ \A v \in DOMAIN Config.views : SampleChunkSize(Config.views[v]) = Config.refSpc
Unwindowed == \A v \in DOMAIN Config.views : Config.views[v].offset = 0

(* The driver claims for a block exactly what its rows wait for.           *)
DeclaredIsAwaited ==
  \A b \in DOMAIN Blocked :
    ToSet(ReadsOfBlock(GroupsOf(Blocked)[b], Config.views, Config.refSpc)) = Blocked[b].keys

BatchesSpanTwoBlocks ==
  \A i \in {s \in Span(0, Len(RowsDrawn)) : s % Config.batchSize = 0} :
    Cardinality({b \in DOMAIN Blocked :
                   Blocked[b].start < i + Config.batchSize /\ Blocked[b].stop > i}) <= 2

(* When the driver is through with a block it has claimed nothing that no  *)
(* block so far reads, and if the pass rereads, no key of a block twice.   *)
ClaimsNoMore(p) ==
  \A b \in 1 .. Len(p.blocks) :
    IF p.reread
    THEN p.claimedBy[b] <= SumOn([c \in DOMAIN p.blocks |-> Cardinality(p.blocks[c].keys)], 1 .. b)
    ELSE \A i \in 1 .. p.claimedBy[b] : \E c \in 1 .. b : p.admissions[i] \in p.blocks[c].keys

(* Where blocks are widened to hold a batch a batch spans two of them at   *)
(* most, and then the read-ahead bound is enough (source.py, __init__ and  *)
(* read_ahead_bound in scheduler.py).                                      *)
BoundSuffices ==
  Starting =>
    /\ EvenChunks /\ Unwindowed => BatchesSpanTwoBlocks
    /\ DeclaredIsAwaited => ClaimsNoMore(plan)
    /\ BatchesSpanTwoBlocks /\ ClaimsNoMore(plan) => PermitsSuffice

(* The floor counts, for arrays that chunk alike, one or two chunks of a   *)
(* view to an anchor chunk: all there is to count where nothing waits for  *)
(* a later block, or a rereading pass puts it down.  What waits under a    *)
(* window it counts as if the train part stood together, ran past itself   *)
(* by the reach of the window alone (not so if its lowest offset splits a  *)
(* chunk that the reach would not have), and a pass that is not shuffled   *)
(* as if its window did not reach past the next block.  And it takes       *)
(* arrays that chunk alike to chunk like the manifest.                     *)
Together(chunks) == \A c, d \in chunks : c .. d \subseteq chunks
Reach == MaxOffset(Config.views) - MinOffset(Config.views)
EdgesCounted ==
  LET spc == SampleChunkSize(Config.views[1])
  IN  CeilDiv(Reach + (MinOffset(Config.views) % spc), spc) = CeilDiv(Reach, spc)
Compact ==
  \/ UniformSpc(Dataset(Config)) /\ (Windowed(Dataset(Config)) => plan.reread)
  \/ /\ Shuffles(Config) /\ Together(Config.manifest.train)
     /\ UniformSpc(Dataset(Config)) => EdgesCounted
  \/ /\ ~Shuffles(Config) /\ Reach <= BlockChunks(Config) * Config.refSpc
     /\ UniformSpc(Dataset(Config)) \/ Together(ChunkIds(Config.manifest, Config.part))
AlignedGrid == UniformSpc(Dataset(Config)) => SampleChunkSize(Config.views[1]) = Config.refSpc

(* The same for the automatic budget: on such a part it holds what the     *)
(* pass must hold at any one time (summary.py, working_set_bytes).         *)
FloorSuffices ==
  Starting /\ Compact /\ AlignedGrid /\ BatchesSpanTwoBlocks /\ DeclaredIsAwaited =>
    BudgetSuffices

-----------------------------------------------------------------------------
(* The contents of batches.                                                *)

(* What the consumer is to find at a position of a sample: what the array  *)
(* has there, put through the transforms of that array.                    *)
Expected(g, sample, i) ==
  LET at == Nearest(i, InnerShape(g))
      tile == [d \in DOMAIN at |-> at[d] \div InnerChunks(g)[d]]
      hit(ids) == /\ g.path = Config.views[1].path /\ ChunkOf(g, sample) \in ids
                  /\ \A d \in DOMAIN tile : tile[d] = 0
      stored == IF hit(Config.corrupt) THEN NaN ELSE IF hit(Config.absent) THEN Fill
                ELSE Element(g.path, sample, at)
      applied == TransformsFor(g.path, Config.pipeline)
  IN  [stored EXCEPT !.via = [k \in DOMAIN applied |-> applied[k].code]]

(* Every transform has passed insitubatch-check-transform on the first     *)
(* chunk of the arrays it is for.                                          *)
PipelineChecked ==
  \A v \in DOMAIN Config.views : LET path == Config.views[v].path IN
    \A t \in ToSet(TransformsFor(path, Config.pipeline)) :
      CheckPasses(t, CheckedGeometry(Config, path), ReadChunk(Config, path, 0))

(* A bad chunk's substitute has its axes in the order of the stored chunk, *)
(* which is a tile's where samples come first.  It does not fit elsewhere. *)
SubstituteFits ==
  Config.corrupt # {} => \A v \in DOMAIN Config.views : Config.views[v].axis = 0

(* Of the arrays a fitted transform was scoped to it fails those, and only *)
(* those, for which it has a mean and no deviation or a deviation and no   *)
(* mean: validate_scope asks for either, the call for both.                *)
ScopedIsFitted ==
  \A t \in ToSet(Config.pipeline) :
    t.scope # {} /\ t.stats # <<>> =>
      \A path \in t.scope :
        Raises(t, path) <=> (path \in t.stats[1]) # (path \in t.stats[2])

(* The elements of a batch row that one tile fills without a gap: places   *)
(* in row-major order, from its first.                                     *)
FirstRun(g) ==
  LET places == {RowMajor(InnerShape(g), i) : i \in Box(InnerChunks(g))}
  IN  CHOOSE n \in 1 .. Cardinality(places) : Span(0, n) \subseteq places /\ n \notin places
WritesRuns(g) ==
  (\A d \in DOMAIN InnerShape(g) : InnerChunks(g)[d] <= InnerShape(g)[d]) =>
    GatherRunBytes(g) = g.item * FirstRun(g)

(* Row by row and view by view, a batch holds the samples it says it       *)
(* holds, from fetched tiles, from the slices of a cache file and from a   *)
(* revived one; a transform sees no padding, and the cache file takes what *)
(* it returned.  No slot fails here, for its rows are never gathered;      *)
(* every transform has been checked on the first chunk of its arrays, and  *)
(* bad chunks are replaced only where samples come first.  A transform     *)
(* that applies() let through fails exactly where it is half fitted.  The  *)
(* bytes that the report gives as one gather run are those a tile's rows   *)
(* write contiguously, unless the tile is wider than the array             *)
(* (transforms.py, validate_scope; pool.py, gather, _deliver, _revive,     *)
(* _assemble, _persist; scheduler.py, _fetch_decode; store.py,             *)
(* open_geometries; types.py, Batch; summary.py, gather_run_bytes).        *)
GatherReadsItsSamples ==
  /\ Starting => ScopedIsFitted /\ \A v \in DOMAIN Config.views : WritesRuns(Config.views[v])
  /\ Starting /\ plan.bad = {} /\ PipelineChecked /\ SubstituteFits =>
      /\ \A v \in DOMAIN Config.views :
           LET g == Config.views[v] IN
           Assembles(Config.pipeline) => \A cid \in Span(0, NChunks(g)) :
             LET assembled == Assembled(g, cid, FetchedTiles(Config, g, cid)) IN
             /\ \A i \in Box(assembled.shape) : assembled.at[i] # Pad
             /\ Accepts(OutputGeometry(g, Config.pipeline), cid, Prepared(Config, g, cid), TRUE)
      /\ \A again \in {FALSE, Config.persist} :
           LET batch == GatheredBatch(Config, RowsDrawn, again)
               stack == Stack(batch, [v \in DOMAIN Config.views |-> v])
           IN  /\ BatchLen(batch) = Len(RowsDrawn)
               /\ \A v \in DOMAIN Config.views : \A i \in DOMAIN RowsDrawn :
                    /\ batch.samples[i] = Anchor(RowsDrawn[i], Config.refSpc)
                    /\ \A at \in Box(InnerShape(Output(Config, v))) :
                         stack[i][v][at] = Expected(Config.views[v], ReadIndices(batch, v)[i], at)

(* A cache entry is stamped so that two pipelines share an array's entries *)
(* exactly if they do the same to it, whatever they do to other arrays     *)
(* (pool.py, _pipeline_hash, _transform_token).                            *)
HashFollowsPipeline ==
  Starting => \A v \in DOMAIN Config.views :
    LET g == Config.views[v]
        chunk == DecodedChunk(g, 0, Assembled(g, 0, FetchedTiles(Config, g, 0)))
        applied(p) == ApplyTransforms(chunk, p).data
        own == applied(Config.pipeline)
    IN  \A other \in Edits :
          (PipelineHash(g.path, other) = PipelineHash(g.path, Config.pipeline))
            <=> applied(other) = own

-----------------------------------------------------------------------------
(* Reports.                                                                *)

(* How many rows a pass over a part would draw.                            *)
RowsOfPart(part) ==
  Len(OrderOf([Config EXCEPT !.part = part, !.shuffle = FALSE]).rows)

(* The batches the pass has in hand: those in the queue and the producer's *)
(* one.  The batch the caller was given last is the caller's.              *)
BatchesInHand ==
  Cardinality({i \in DOMAIN outq : outq[i].kind = "batch"})
    + IF producer \in {"gather", "release", "put"} THEN 1 ELSE 0

HoldsThePass(memory) ==
  /\ BatchesInHand * BatchBytes(Config) <= memory.queue
  /\ Weight(Resident) <= memory.residency

CountsRows(report) ==
  \A part \in Parts :
    /\ report.config.drawable[part] = RowsOfPart(part)
    /\ (Note("split-yields-nothing", part) \in report.notes)
         <=> Config.manifest[part] # {} /\ RowsOfPart(part) = 0

(* The note is for more than a thousandth of padding.                      *)
NotesPadding(report) ==
  \A v \in DOMAIN Config.views :
    LET g == Config.views[v]
        padded == \E coord \in InnerCoords(g) : ~TilePlacement(g, 0, coord).complete
        noted == Note("ragged-grid", v) \in report.notes
    IN  /\ noted => padded
        /\ padded /\ report.variables[v].logical \in 1 .. 999 => noted

(* What describe() says before a run is so in the run: the samples a part  *)
(* yields and which part yields none, how wide its blocks get, which slots *)
(* hold padding, and at every moment the memory of queued batches and      *)
(* resident chunks (summary.py, describe, drawable_samples, _notes).       *)
ReportPredictsPass ==
  LET report == Report(Config, plan.budget)
  IN  /\ HoldsThePass(report.memory)
      /\ Starting => \A b \in DOMAIN Blocked :
           Cardinality(Blocked[b].chunks) <= report.config.blockChunks
      /\ Starting /\ SampleChunkSize(Config.views[1]) = Config.refSpc => CountsRows(report)
      /\ Starting /\ Config.pipeline = <<>> => NotesPadding(report)

(* The time of each stage, and when it may be accused: it leads every      *)
(* other clearly, or it explains why admission was parked.                 *)
Spent(t) ==
  [residency |-> t.parked, store |-> t.fetch,
   decode |-> t.decode + t.assemble, gather |-> t.gather + t.batchTransform]
Rivals(t, stage) == {Spent(t)[r] : r \in DOMAIN Spent(t) \ {stage}}
Leads(t, stage) ==
  /\ 100 * Spent(t)[stage] >= 40 * ProducerTime(t)
  /\ \A time \in Rivals(t, stage) : 100 * (Spent(t)[stage] - time) >= 10 * ProducerTime(t)
  /\ stage = "residency" =>
       \A time \in Rivals(t, stage) : 100 * time < 20 * ProducerTime(t)
Explains(t, stage) ==
  /\ stage # "residency"
  /\ 100 * t.parked >= 40 * ProducerTime(t)
  /\ 100 * Spent(t)[stage] >= 20 * ProducerTime(t)
  /\ \A r \in DOMAIN Spent(t) : r # "residency" => Spent(t)[r] <= Spent(t)[stage] /\ Spent(t)[r] <= t.parked

(* A pass accuses a stage only on evidence, and withholds no accusation    *)
(* that the evidence supports (runtime.py, bottleneck, _dominant: "a coin  *)
(* flip wearing a diagnosis").                                             *)
Earned(stats) ==
  LET stage == Bottleneck(stats).stage
      t == stats.times
      d == stats.depths
      fed == d.samples > 0 /\ 2 * d.full >= d.samples
      starved == d.samples > 0 /\ 5 * d.empty >= d.samples
      asked == d.samples > 0 /\ (ConsumerIdle(stats) \/ (starved /\ ~fed))
  IN  /\ (stage = "consumer") <=> (fed /\ ~ConsumerIdle(stats))
      /\ stage \in DOMAIN Spent(t) => asked /\ (Leads(t, stage) \/ Explains(t, stage))
      /\ stage = "unknown" /\ asked /\ ProducerTime(t) > 0 =>
           \A s \in DOMAIN Spent(t) : ~Leads(t, s)
DiagnosisIsEarned ==
  Starting /\ Config \in Streamed => \A stats \in Profiles : Earned(stats)
=============================================================================
