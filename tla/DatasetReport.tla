--------------------------- MODULE DatasetReport ---------------------------
(***************************************************************************)
(* What a dataset reports of itself before it runs: describe() in          *)
(* insitubatch/summary.py, computed from the configuration alone.  Sizes   *)
(* are in bytes; the ratio of a slot to its logical chunk stays a pair of  *)
(* numbers; a note is its code and its subject.  The configuration has one *)
(* more field, iterations: how many passes are to share the pool.          *)
(***************************************************************************)
EXTENDS EpochPlan

CONSTANT MinGatherRunBytes

(* ALLOCATOR_RETENTION is 1.25.                                            *)
AllocatorRetention(bytes) == (5 * bytes) \div 4

Output(c, v) == OutputGeometry(c.views[v], c.pipeline)

(* Walking inward from the last axis, a run ends at the first axis that    *)
(* the stored chunk does not span.                                         *)
GatherRunBytes(g) ==
  LET narrow == {d \in DOMAIN InnerShape(g) : InnerChunks(g)[d] # InnerShape(g)[d]}
      ends == CHOOSE d \in narrow \cup {1} : \A e \in narrow : d >= e
  IN  g.item * Product(SubSeq(InnerChunks(g), ends, Len(InnerChunks(g))))

VariableReport(c, v) ==
  LET g == c.views[v]
      out == Output(c, v)
  IN  [nChunks      |-> NChunks(g),
       storedChunks |-> NInnerChunks(g),
       stored       |-> Product(TileShape(g)) * g.item,
       logical      |-> Product(SlotShape(out, 0)) * out.item,
       slot         |-> SlotChargeBytes(g, out, 0, Assembles(c.pipeline)),
       gatherRun    |-> GatherRunBytes(g)]

(* Mutant: the anchors that a window drops are counted.                    *)
DrawableWithoutWindow(c, part) ==
  SumOver([cid \in c.manifest[part] |-> MinOf(c.n, (cid + 1) * c.refSpc) - cid * c.refSpc])

(* Chunk by chunk, what the valid range leaves of it.  The chunks are      *)
(* those of the first view.                                                *)
DrawableSamples(c, part) ==
  LET ref == c.views[1]
      valid == ValidAnchorRange(c.views, NSamples(ref))
      left(cid) == MaxOf(0, MinOf(valid.hi, MinOf((cid + 1) * SampleChunkSize(ref), NSamples(ref)))
                            - MaxOf(valid.lo, cid * SampleChunkSize(ref)))
  IN  SumOver([cid \in c.manifest[part] |-> left(cid)])

(* What the dataset resolved to.  The order that is scored is the one its  *)
(* train part would be drawn in.                                           *)
ConfigReport(c, budget) ==
  LET train == OrderOf([c EXCEPT !.part = "train"])
  IN  [batchSize            |-> c.batchSize,
       blockChunks          |-> BlockChunks(c),
       blockChunksRequested |-> c.requested,
       maxInflight          |-> SchedulerConfig(c, 0).maxInflight,
       prefetchDepth        |-> MaxOf(c.depth, 1),
       shuffle              |-> c.shuffle,
       budget               |-> budget,
       persist              |-> c.persist,
       assembles            |-> Assembles(c.pipeline),
       windowed             |-> Windowed(c),
       offsets              |-> [v \in DOMAIN c.views |-> c.views[v].offset],
       samplesPerChunk      |-> c.refSpc,
       nChunks              |-> [v \in DOMAIN c.views |-> NChunks(c.views[v])],
       splitChunks          |-> [part \in Parts |-> Cardinality(c.manifest[part])],
       drawable             |-> [part \in Parts |-> DrawableSamples(c, part)],
       shuffleQuality       |-> ShuffleQuality(train.rows, c.refSpc)]

BatchBytes(c) ==
  SumOver([v \in DOMAIN c.views |->
             Product(InnerShape(Output(c, v))) * Output(c, v).item * c.batchSize])

MemoryReport(c, variables, config) ==
  LET stored == {variables[v].stored : v \in DOMAIN variables}
      residency == config.budget * c.iterations
      inflight == config.maxInflight * (CHOOSE m \in stored : \A x \in stored : m >= x)
      queue == (config.prefetchDepth + 1) * BatchBytes(c)
      scratch == IF ~config.assembles THEN 0
                 ELSE SumOver([v \in DOMAIN variables |->
                                 variables[v].stored * variables[v].storedChunks])
      accounted == residency + inflight + queue + scratch
  IN  [residency  |-> residency,
       inflight   |-> inflight,
       queue      |-> queue,
       scratch    |-> scratch,
       accounted  |-> accounted,
       peak       |-> AllocatorRetention(accounted),
       workingSet |-> WorkingSet(c),
       automatic  |-> config.budget = WorkingSet(c)]

Note(code, subject) == <<code, subject>>

(* The ratio is reported above 1.001.                                      *)
Ragged(r) == r.logical # 0 /\ 1000 * r.slot > 1001 * r.logical

Notes(variables, config) ==
  LET noted(code, Holds(_)) == {Note(code, v) : v \in {w \in DOMAIN variables : Holds(variables[w])}}
  IN  noted("short-gather-run", LAMBDA r : r.gatherRun < MinGatherRunBytes)
        \cup noted("ragged-grid", Ragged)
        \cup noted("single-inner-fat-chunk", LAMBDA r : r.storedChunks = 1)
        \cup {Note("split-yields-nothing", part) :
                part \in {p \in Parts : config.drawable[p] = 0 /\ config.splitChunks[p] # 0}}
        \cup (IF config.blockChunks # config.blockChunksRequested
              THEN {Note("block-chunks-widened", "config")} ELSE {})

(* describe() of a dataset whose pool has this budget.                     *)
Report(c, budget) ==
  LET variables == [v \in DOMAIN c.views |-> VariableReport(c, v)]
      config == ConfigReport(c, budget)
  IN  [variables |-> variables,
       config    |-> config,
       memory    |-> MemoryReport(c, variables, config),
       notes     |-> Notes(variables, config)]
=============================================================================
