# insitubatch: specification and proofs

insitubatch streams training batches out of chunked zarr arrays. A pass over a
split fetches and decodes stored chunks concurrently, keeps them in a budgeted
pool, gathers shuffled batches from them and hands these to the training loop
through a bounded queue. Several passes may share one pool, and a pool may keep
its chunks in a directory that later runs reopen. This directory holds TLA+
modules for the parts of that machinery whose correctness depends on the order
in which things happen, TLC configurations that check them on small instances,
and proofs, checked by TLAPS, of what holds for every instance.

Paths below are relative to `src/src/insitubatch/`.

## 1. Inventory

| component | state | operations | talks to |
|---|---|---|---|
| Chunk pool (`pool.py`, `ChunkPool`) | slots in LRU order, bytes charged, references by owner, waiters, a pool-wide error, live owners | `new_owner`, `pin_if_ready`, `try_admit`, `tile_write` / deliver / fail / release, `_advance`, `wait_ready`, `gather`, `unpin_keys`, `release_owner`, `set_error` | one lock and condition variable, called from the event loop, decode threads and producers |
| Cache directory (`pool.py`: `_lock`, `_load_log`, `_compact`, `_revive`, `_alloc`, `_record_completed`, `close`) | the lock file, the append-only log, one file per chunk, temporary files; in memory what the process believes is on disk and has logged | open, load, reset, compact, revive, allocate by rename, log, close; death | other processes, now and later |
| Scheduler (`scheduler.py`) | the driver's position in the plan, its tile tasks, an in-flight semaphore, read-ahead permits, a capacity event | `_drive`, `_admit`, `_take_ahead`, `_one`, `_starvation`, `unpin_block`, `close` | the pool; runs on zarr's shared event loop; decodes and assembles on a process-wide thread pool |
| Pass (`source.py`, `_iterate`) | block list, release schedule, two frontiers, the prefetch queue, a stop flag | produce (wait, gather, release, put), consume, tear down | a scheduler of its own, the shared pool, the training loop |
| Read plan, draw order, splits (`plan.py`, `shuffle.py`, `split.py`) | none | pure functions from a manifest, offsets and chunk sizes to an order of reads and rows | the pass |
| Working-set floor (`summary.py`) | none | computes the bytes one pass needs resident at once | the pool's budget and `new_owner` |
| Batch buffers (`buffers.py`), framework adapters (`frameworks.py`) | buffers by shape, a lend per live view; source arrays held until a device copy has finished | `take`, `set_allocator`, `clear`; `hold` | `gather`, the training loop |
| Statistics and reports (`runtime.py`, `summary.py`) | counters, each written by one thread | `sample_queue`, `times`, `bottleneck`; `describe` | read by the user, before a run and after a pass |
| Geometry, transforms, stores (`types.py`, `transforms.py`, `check_transform.py`, `store.py`) | none | index arithmetic, pipelines and their identity, `open_geometries` | everything above |
| Debugging (`debug.py`) | a logger | | |

What is hard about it, and what correctness means:

* **Sharing.** The event loop, decode threads and several producers act on one
  slot table. A chunk must be complete when it is published, published once,
  never written to afterwards, never evicted while some pass uses it, and the
  budget must never be exceeded however admissions, evictions, failures and
  teardowns interleave.
* **Waiting.** A producer waits for a chunk, a driver waits for budget that only
  producers return. Every wait must end, with a chunk or with an error that is
  true, and no wake-up may be lost.
* **Ending.** A pass may be abandoned at any point, with tasks queued, fetching
  or on a thread. It must leave neither references nor partial chunks behind,
  and must not take away what other passes hold.
* **Order and place.** A batch must hold the samples it says it holds, through a
  shuffle, a split, a window, several chunk grids, edge tiles and transforms, and
  the plan must ask for exactly what will be awaited. Reused buffers must not be
  written while anybody, or a device, still reads them.
* **Limits.** Read-ahead permits and the byte budget are computed beforehand from
  geometry; where they are below what a pass needs, it stops in mid-epoch.
* **Dying.** A process that shares or inherits a cache directory may die between
  any two system calls. What the log names must be whole and made by the
  pipeline it names, a finished chunk must not be lost, one run must not damage
  what another configuration keeps in the same directory, and a crash must
  never look like tampering.

`PROJECT.json` lists the single hazards, each at its line.

## 2. Modules

    PinnedCache        what the pool promises its passes (abstract)
    ChunkPool          pool, driver, tile tasks, producers and teardown; implements PinnedCache
    ChunkPoolProofs    the theorems about ChunkPool, and about passes that run one at a time
    CacheDir           processes that open, use, close and die on one cache directory
    CacheDirProofs     the theorems about CacheDir

    ArrayGeometry      one array view: chunks, tiles, axes, declared output, slot charge
    StoreGroup         what open_geometries makes of a zarr group
    ChunkTransforms    transforms, scopes, pipelines and their identity
    DrawOrder          splits, windows, draw orders, edge anchors
    Sums               sums over finite sets
    ReadPlan           blocks, reads, releases, read-ahead bound, residency floor
    EpochPlan          from a dataset's configuration to the plan of one pass
    BatchContents      what fetching, assembling, caching and gathering do to the data
    DatasetReport      describe(): what a dataset says before it runs
    PassReport         bottleneck(): what a pass says afterwards
    EpochProperties    what must be true of every plan, whoever runs it
    ReadPlanProofs     orders, splits and reads, for every dataset
    EpochProofs        the theorems about every epoch, its plan, its pass and its verdict
    SummaryProofs      the automatic budget of every epoch, and what every dataset reports
    ContentsProofs     what is in every batch, and which cache entries are shared

    InOrderStream      what a training loop is promised (abstract)
    PassStream         one pass from its plan to its teardown; implements InOrderStream
    PassStreamProofs   the theorems about PassStream: its stream, permits and starvation
    BatchBuffers       lending of reused batch memory, and device copies from it
    BatchBuffersProofs the theorems about BatchBuffers

    MCChunkPool, MCCacheDir, MCPassStream, MCBatchBuffers   instances for TLC

    StoreGroup  ChunkTransforms  DrawOrder     (all on ArrayGeometry)
         \            |             |
          \           |          ReadPlan
           \__________|_____________|
                   EpochPlan
                  /         \
         BatchContents   DatasetReport    PassReport    PassStream
                  \__________ \_____________|______________/
                             EpochProperties -- MCPassStream

    ReadPlanProofs <- PassStreamProofs <- EpochProofs <- SummaryProofs <- ContentsProofs

### ChunkPool

A step is one critical section of the pool's lock (`_cv`) together with the
surrounding code that no other actor can see. There are three kinds of actor:

* *The event loop.* A pass's driver (`PinIfReady`, `JoinResident`, `AdmitFresh`,
  `AdmitFull`, `Starve`) and its tile tasks (`TileWrite`, `HandToThread`,
  `Deliver`, `FetchFails`, ...) are coroutines, so only one of them runs at a
  time. A coroutine that takes several critical sections without an `await` in
  between holds the loop meanwhile: that is the variable `loop`, and every other
  step on the loop has `LoopFree` as a guard.
* *Decode threads.* When the pool assembles whole chunks (`Assembles`, i.e.
  `ChunkPool.assembles`), delivery, release, `_advance` and the transform run on
  a thread, interleaved with everything else.
* *Producer threads* (`WaitReady`, `Wake`, `UnpinBlock`), which sleep on the
  condition variable; `asleep` is who sleeps, and `Notify` is `notify_all`.

`slot[c]` is the `_Slot` of chunk `c` or `Absent`; `older` is the order of the
`OrderedDict`, as a relation; `refs[c]` is `_pinned[c]`. `claimed` is what the
driver has already referenced (its position in the plan, here in any order),
`parked` the chunk it is awaiting budget for, `task[j]` where the task of one
tile is, and `late` the decode threads that still deliver for a cancelled
coroutine. `_make_room` evicts oldest-first until the need fits; `Victims` says
which chunks go in one formula instead of a loop: a chunk goes exactly when
taking every older candidate was not enough. `Weight` gives the bytes of a set
of chunks and is assumed additive, which is all that is used of it.

Three things the code does are worth pointing out, because the model keeps them
and results depend on them:

* A pass that finds a chunk resident but not READY takes a reference *and
  fetches every tile again* (`JoinResident`; a driver that was parked when the
  slot appeared does so even if it is READY by now). `pending` counts
  deliveries, not tiles.
* `release_owner` drops every quiescent slot that is not READY and has no
  references, including one that is being assembled. Its task then publishes
  into a slot that is no longer in the table: phase `"orphan"`.
* `_on_drive_done` poisons the pool for good; no later pass can use it.

Producers are allowed to wait for a chunk whose driver has not come to it, and
may wait, release and stop in any order the reference discipline allows. A pass
holds a chunk from its claim to its last use, so it references a chunk at most
once; the exception, `reread_spill`, is the subject of PassStream below.

### PinnedCache

Four variables' worth of promise: what is resident, what of it is settled
(published or poisoned), what each pass holds. Only the steps a user of the pool
may rely on exist: a chunk may be claimed, admitted by dropping settled chunks
nobody holds, settled once all is delivered, released, and the pass's leftovers
dropped at its end. `ChunkPool!ImplementsPinnedCache` is the refinement; the
mapping is `Resident`, `Settled` and `Held`.

### CacheDir

Processes are configurations of a training run: persisting, spilling
(`cache_dir` without `persist`) or read-only, each with the arrays it reads, the
fingerprint of its transforms per array, the log format it was installed with,
and whether it passes `reset_stale_cache`. The disk is `file` (what each chunk's
file holds: which pipeline made it, and whether it is whole), the log (`head`,
`entries`, `lines`, how its last line ends in `tail`, and whether an unreadable
one stands before that in `broken`) and `temps`; the memory is `slot`, `persisted` and
`recorded`, as in the code. `pc` walks through the constructor and `close` one
system call at a time, and `Crash` may strike anywhere: it drops the lock and the
memory and leaves the disk. What happens to a slot between admission and
publication is compressed to admitted, backed, filled, ready.

A log with `head = "empty"` is a file that was created and never got a header;
`"headless"` is one whose first line is an entry, or a header cut short.

The disk may fill up at any line of the log and have room again at once: the
code's own clean-up makes some. A header that is cut short ends the constructor
(`HeaderFails`). An entry that is cut short (`AppendFails`) leaves the slot
READY, believed to be on disk and unlogged, because `_advance` sets the state
before it appends; `w.fail` poisons it in a critical section of its own
(`FailUnlogged`), or never, if the coroutine was cancelled, and until then the
chunk is served, dropped, or revived. `_write_line` does not remember what it
left behind, so the next append is glued to it: `CompleteAndLog` then records a
key whose entry is lost, and the append after that leaves the glued line in the
middle of the log (`broken`), which the next run takes for corruption
(`Corrupt`). `short` is who met a full disk, `shortWrites` how often anybody did.

The constants `DiesHeaderless` and `DiesClobbering` allow death in two
particular windows: between the log's creation and its header, and while a file
the log already lists has been replaced and not yet filled. With both closed and
every other death allowed, what is served and what the log names is right, full
disks or not. Two properties need more: that a served chunk is logged holds for
processes none of whose lines was cut short (`ReadyIsLogged`), and that nothing
looks like tampering holds as long as no write to the log was cut short by
anybody (`NoFalseCorruption`). Opening a window, or dropping the first of these
provisos (`EveryReadyIsLogged`), yields a finding.

Assumptions: a file system rename is atomic (the code relies on it too), a slot is
not dropped while its file is being allocated, and no one else edits the
directory. A line is cut short before its end: one that lacks only its newline
is not modelled. `FailUnlogged` strikes a slot that is READY and unlogged, not
one that was evicted and fetched again in the meantime.

### From a dataset to a plan

`ArrayGeometry` to `EpochPlan` are operators, one per function of the source,
translated chunk by chunk as the code computes. A configuration record `c` stands
for the arguments and geometry of an `InSituDataset`; `Accepted(c)` is what its
constructor lets through, and `PlanOf(c)` everything `_iterate` derives before a
pass runs: blocks with the keys they await, the order in which the driver claims
keys, what each block hands back, the read-ahead bound, the charge of each key
and the budget. Inputs the code takes from a random generator are fields of `c`
(`perm`, `mixed`), as are the events the pass will meet (`corrupt`, `absent`,
`badBatch`, `warm`, `cached`).

`BatchContents` follows the data. An element is `[path, sample, at, via]`: where
it was stored and which transforms it went through. `FetchDecode` turns a stored
chunk into a tile, with the sample axis moved to the front, or a fill value;
`Assembled` puts tiles into a slot by `TilePlacement` and crops padding;
`Backed`, `Revived` and `Accepts` are the cache file's way; `Gathered` copies rows
out into a buffer that starts as `Unwritten`. Data is a function on index tuples,
so a transposed axis, a missing tile, padding that shows through or a transform
run twice all make a different value.

`EpochProperties` states what must hold of these operators against definitions
that look at single samples (`HolderOf` searches all chunks, `Expected` says what
array element a row is to hold, `FirstRun` counts contiguous places). They are
invariants of `PassStream` guarded by `Starting`, so that TLC evaluates each once
per configuration, in the state a pass starts in.

### PassStream

A pass end to end on a pool nobody else fills (`OtherPassEvicts` may take what is
not referenced, where `plan.shared`). Four actors: the *driver* claims
`plan.admissions` in order (`TakePermit`, `PinReady`, `Revive`, `JoinResident`,
`AdmitFresh`, `Park`, `Starve`, `DriverEnds`); the *event loop* runs tile tasks
(`TileArrives`, `TileFails`) and the callbacks that hand permits back
(`ReturnPermits`, queued by `call_soon_threadsafe`, hence `returning`); the
*producer* waits for the blocks its batch draws from, gathers, releases drained
blocks, transforms and puts (`start`, `ready` and `freed` are the cursor and the
two frontiers of `produce`); the *consumer* is the generator: `Begin`, `Get`,
`Resume`, `Leave`, and the nested `finally` as `Drain`, `CloseScheduler`,
`ReleaseOwner`. References are counted, because under `reread_spill` a pass
claims one chunk once per block. A chunk is one tile and one step may span
several critical sections; their interleaving is what ChunkPool is for.

### InOrderStream

A sequence of row ranges and how the loop ended. `Yield` appends the next
`batch_size` rows, `Finish` is enabled after the last row only, `Fail` and
`Leave` at any time. `PassStream!ImplementsInOrderStream` is the refinement:
`stream <- received`, `total <- NRows`.

### BatchBuffers

`take` step by step (lock, scan of the owned buffers by `sys.getrefcount`, lend;
or allocate, calibrate the idle reference count, and lend), for several
producers; the places that hold references to a batch (`at`); `to_torch` with the
device copy it issues, its event and the two halves of `_InFlight.hold`; the
change to page-locked memory; closing the dataset. `Memory` are identities of
allocations, reused once freed, because "the same object" and "the same address"
must not be confused.

## 3. What the runs check

| run | instance | properties |
|---|---|---|
| `pool_shared` | two passes at once, 2 chunks of 2 tiles, budget of 1 chunk, delivery and transforms on decode threads, each transform may raise | `SolePublisher`, `WithinBudget`, `HeldIsResident`, `UsedIsPublished`, `NoLostWakeup`, `ImplementsPinnedCache` |
| `pool_one_at_a_time` | a budget for one working set, so `new_owner` admits one pass at a time; 3 chunks of different weights, 2 tiles, one may fail, delivery on the loop, with fairness | `TypeOK`, `ReadyIsComplete`, `QuiescentMeansNoWriter`, `NothingLeftBehind`, `PublishedIsStable`, `EveryWaitEnds` |
| `pool_duplicate` | two passes, one chunk of two tiles | finds `ReadyIsComplete` violated |
| `pool_late_thread` | one pass after another, delivery on threads | finds `QuiescentMeansNoWriter` violated |
| `pool_starvation` | two passes, a budget of one chunk | finds `StarvationIsTerminal` violated |
| `cache` | six configurations (persisting, the same with edited transforms and fewer arrays, an old installation, spilling, two readers), two arrays of one chunk, five openings, one full disk | `TypeOK`, `ServedIsMine`, `LogIsTruthful`, `ReadyIsLogged`, `MappedUnderLock`, `NoDuplicateLine`, `NoFalseCorruption`, `ResetTakesOnlyStale` |
| `cache_clobber` | one configuration, three openings, death while a logged file is replaced | finds `LogIsTruthful` violated |
| `cache_headerless` | one configuration, three openings, death before the header | finds `NoFalseCorruption` violated |
| `cache_full_disk` | one configuration, no deaths in the two windows, one log line cut short | finds `EveryReadyIsLogged` violated |
| `pass_stream` | the plans of 1346 configurations; the passes of eight of them, with fairness | see below |
| `pass_floor` | an unshuffled validation pass under a window of 7 chunks, automatic budget | finds `NeverStarved` violated |
| `batch_buffers` | two iterations, batches of two lengths, copies to a device, page-locked memory | `TypeOK`, `WrittenAlone`, `HeldUntilLanded`, `Converges` |

`pass_stream` answers two questions at once, because the passes are to run from
plans that the same run has checked. Of plans and reports:

| property | says | provided |
|---|---|---|
| `EveryAnchorOnce` | a pass draws each anchor of its part exactly once, from consecutive blocks; a split deals each chunk to one part | |
| `DriverPlansAwaited` | a block awaits what its rows read, found sample by sample, and the driver has claimed all of it by the end of that block; the plan is `Coherent`, which is the hypothesis of the proofs | |
| `BoundSuffices` | batches span two blocks at most where chunks are even and there is no window; where every declared key is awaited, the driver claims no more than the blocks so far read (`ClaimsNoMore`); from both, the permits suffice | |
| `FloorSuffices` | the automatic budget holds what the pass must hold at once | `Compact`, `AlignedGrid`, `BatchesSpanTwoBlocks`, `DeclaredIsAwaited` |
| `GatherReadsItsSamples` | each place of a batch holds the array element it should, through the transforms of its array in order, whether fetched, sliced from a cache file or revived from one; a transform sees no padding; a scope that was let through fails, in a decode thread, for exactly the arrays with half of the statistics; the gather run that `describe()` gives is what a tile writes without a gap | for what is gathered: no failing slot, `PipelineChecked`, `SubstituteFits`; for scopes and runs: nothing |
| `HashFollowsPipeline` | two pipelines share an array's cache entries exactly if they do the same to it | cache keys that change when the code does |
| `ReportPredictsPass` | rows per part, empty parts and widened blocks are as `describe()` said, a note of padding is of tiles that are clipped, and at every moment of the pass the batches in hand and the chunks in memory stay within the figures it gave | the rows: `refSpc` is the first view's chunk size; the note: no transform |
| `DiagnosisIsEarned` | a stage is accused if it leads clearly or explains why admission parked, and is accused whenever it leads clearly | |

and of the passes: `PermitsBalance` (a permit is free, in the driver's hand, spent
on a reference, or on its way back), `GatherIsSafe` (what is gathered is published
and held), `LeftoverIsUnread` and `NothingHeld` (what a pass leaves behind),
`StarvedForCause` (a verdict of starvation is only given on a plan with a block
for which the permits or the budget leave no room), `NoHang` and `ImplementsInOrderStream`.

*Bounds.* `MaxOwners` (how many passes are ever started) is 2: two passes at
once, or one that inherits what the other left. Tokens are reused only after the
pass and its threads have ended, as the code never mixes two owners. A budget
smaller than what the passes want makes eviction, parking and starvation happen;
two tiles are the least for which "some delivered, not all" exists; three chunks
of two weights are the least for which an eviction takes one chunk, two, or is
not enough. `MaxInflight` is 2 where two tasks of one pass must overlap.
`MaxOpens` (how often the directory is opened) is 5: write, crash, reset, crash,
read. `MaxShortWrites` (how many writes to the log a full disk cuts short) is 1: a
cut line, the one glued to it and the one behind that follow from one. `pass_stream` has a grid of 15 shapes (even and ragged chunks, one and two
views, positive and negative shifts, two chunk grids, the sample axis in second
place) by 11 ways to draw three anchor chunks (each order of blocks that matters,
rows mixed, splits with rounding, unshuffled, a windowed split, all parts) by four
block and batch sizes, with and without `persist`; three chunks are the least for
which a chunk is read by blocks that are not adjacent. To it come contents (tiles
with edges in both axes, slabs, shards, transforms that reshape, mask, lie or
lack statistics, missing and corrupt chunks) and configurations that are refused.
`Streamed`, a bound, names the eight that are also run: between them they have
windows, straddling batches, both release schedules, warm and cached chunks,
failing chunks and batches, other passes that evict, a block too narrow for its
batches, and an unshuffled pass under a tight budget; 54,854 states in all.
`Profiles` (1,728 statistics) and `Edits` (11 pipelines) bound what a diagnosis
and a cache identity are compared over, `MinGatherRunBytes` is scaled to arrays of
this size. In `batch_buffers`, `Memory`, `Slots` (1: one delivered batch kept per
iteration besides the one in hand) and `Events` (2) bound what is alive at a time,
`CopiedFrom` leaves three identities, so that freed memory is allocated again.
TLC's deadlock check is off everywhere, because the instances stop when
their bounds are used up; that nobody waits for ever is `EveryWaitEnds`.

*Symmetry* is used for interchangeable passes, readers, iterations and events,
never with liveness.

*Fairness* (`ChunkPool!FairSpec`): the event loop runs ready coroutines and the
thread pool its work items (weak fairness of each tile task and of the driver,
which also polls), a notified thread is scheduled (`Wake`), and a pass that is
being torn down is torn down. Nothing is assumed of the training loop: a pass
need not start, wait, release or end. Nothing makes a fetch or a transform fail.
`PassStream!FairSpec` is the same for a whole pass: the producer thread, the
driver, tile tasks and the loop's callbacks run, a consumer that is in `get` is
woken, and a teardown that has begun goes on. The caller owes nothing: it may keep
a batch for ever, and other passes need not evict. `PromptLoop` is the one
assumption about time: callbacks that are queued on the loop run before a poll of
a quarter of a second times out.

*`PublishedIsStable`* speaks of deliveries and not of contents: neither the tiles
of a READY slot nor its countdown may change, so that a tile delivered again,
which would be the same tile, counts.

*`EveryWaitEnds`* is checked for passes that run one at a time. With two at once
over a budget that holds only one, waits end too, but through the starvation
verdict, which then may be wrong (next section).

*Mutants.* Each property of a passing run is paired in `PROJECT.json` with a
mutated definition that TLC must catch; the mutants stand in the modules next to
the definition they mutate, marked `Mutant`.

## 4. Findings

1. **A chunk can be published incomplete** (`pool_duplicate`). Two passes that
   miss the same chunk both fetch all its tiles, and `pending` counts both. With
   two tiles, tile 1 delivered twice brings `pending` to 0; if no task is inside
   `tile_write` at that moment, `_advance` publishes. `gather` then leaves the
   missing tile's rectangle of the (reused, uninitialized) batch buffer as it
   was. One pass at a time is safe.
2. **A cancelled decode thread still writes** (`pool_late_thread`). Cancelling a
   coroutine that awaits `run_in_executor` unwinds `tile_write`, which releases
   the write while the thread goes on. `writers == 0` then does not mean that no
   thread can write.
3. **The starvation verdict is not proof** (`pool_starvation`).
   `_delivery_pending` asks about the scheduler's own tasks, `blocked_waiters()`
   about all owners. A driver parked on a full budget can see another pass's
   producer blocked, with that pass's tile about to arrive, and poison the pool.
4. **A refetch can poison the cache** (`cache_clobber`). `_alloc` renames an
   empty file over a chunk the log lists; a death before it is filled leaves a
   right-shaped file of zeroes that the next run serves.
5. **A crash can look like tampering** (`cache_headerless`). Death between the
   log's creation and its header: the next run appends entries to a log without
   header, and the one after refuses it as corrupted.

6. **The residency floor leaves out what a validation pass's window reaches**
   (`pass_floor`). `working_set_bytes` allows for spill only when shuffling, and
   then for the chunks of the train part, on the ground that unshuffled views
   spill only locally. Where the window reaches further than the next block, an
   unshuffled pass on the automatic budget parks for a chunk it cannot admit.

7. **A full disk serves what the log does not have** (`cache_full_disk`).
   `_advance` publishes the slot and then appends; when the append comes up short
   the chunk is served unlogged until `w.fail`, or for good if the coroutine was
   cancelled, and a death loses it. The error message says that the log "now ends
   in a torn line, which the next run drops"; but the same run appends behind it,
   loses that entry to it, and with one more the next run reports corruption.

Each is a claim about the code as modelled, with the line in `PROJECT.json`.

The premises of the properties above are places where the code does otherwise.
They were met while modelling; no run is spent on them:

* `DeclaredIsAwaited`: the driver plans whole anchor chunks, the rows of edge
  anchors are dropped later. A chunk claimed for such anchors only keeps its
  permit and reference to the end of the pass, so the two counts of
  `scheduler.py:472-475` can drift apart.
* *Batches span two blocks*: with a short chunk in the middle of the order a block
  may be narrower than a batch, which then spans three (`Narrow`); permits are for
  two (`scheduler.py:48-56`, `source.py:281-283`), and the pass starves.
* `Compact`: the floor for a shuffled window counts the train chunks as if they
  stood together; after a random split their windows reach more chunks. And it
  adds the reach of the window alone ("the split shifted by each offset ... runs
  past the split's edges by the offset range and no further",
  `summary.py:224-229`): a lowest offset that is no multiple of the chunk size
  moves each anchor chunk onto two chunks of the array, which the reach does not
  count (`EdgesCounted`). In `Misaligned`, one array read at offset 1 by a
  shuffled pass over six chunks of three samples, seven chunks are held and the
  floor counts six; put in the place of `WideSequential` it violates
  `NeverStarved`, too. Where arrays chunk differently, an unshuffled part with
  gaps reads further than two consecutive blocks' samples do.
* `AlignedGrid`: the floor takes the variables' common chunk size for the
  manifest's.
* `PromptLoop`: while a returned permit's callback is still queued,
  `_ahead_starvation` sees nobody left who could return one.
* *Released spill beside other passes*: the wait for a block may be satisfied by
  the reference of the block before it; once that is released another pass may
  evict the chunk before the gather.
* `SubstituteFits`: under `on_bad_chunk="nan"` the substitute has the stored
  chunk's axis order (`scheduler.py:781`), a decoded tile the sample axis first.
  For an array whose samples are on another axis nothing is claimed of a pass that
  meets an undecodable chunk, neither here nor in the theorem.
* `PipelineChecked`: without a cache directory nobody compares what a transform
  returns with what it declares (`pool.py:1656`); gather then truncates it. The
  tool that does compare opens every array along axis 0.
* `ScopedIsFitted`: `validate_scope` asks for a mean *or* a std
  (`transforms.py:213`), the call needs both. An array with one of them is let
  through and raises in a decode thread, "one chunk into training", which the
  docstring (`transforms.py:210-211`) says the check prevents. The property
  says that these are the arrays that fail, and the run has one. A scope around a
  scope replaces it.
* *Honest cache keys*: without cloudpickle a re-fitted scaler can have the same
  `repr` (`transforms.py:184-191` says so).
* *The first view's grid*: `drawable_samples` applies it to the manifest's chunk
  ids.
* *The "ragged-grid" note* also fires for a transform that shrinks, and only for
  more than a thousandth of padding: it is exact for slots of fewer than 1,000
  elements (`NotesPadding`).
* The counters of a pass are copied for its report before the scheduler is closed
  (`source.py:634-660`; line 699 gives the reason not to).
* When residency yields, the runner-up is accused even if a third stage is as
  slow (`Explains` asks no separation).
* The transfers kept by `_InFlight` are pruned at the next `hold`, so the tail of
  a training run keeps as many buffers as copies were in flight
  (`frameworks.py:205-214` says one).

## 5. What is proved

`ChunkPoolProofs` proves, for any finite sets of passes and tiles, any set of
chunks, any additive weight, any budget and with or without assembly:

| theorem | statement |
|---|---|
| `TypeCorrect` | `Spec => []TypeOK` |
| `BudgetKept` | `Spec => []WithinBudget` |
| `ReferencesKeepChunks` | `Spec => []HeldIsResident` |
| `GatherFindsItsChunks` | `Spec => []UsedIsPublished` |
| `WakeupsArriveInTime` | `Spec => []NoLostWakeup` |
| `PublishersAreAlone` | `Spec => []SolePublisher` |
| `PoolIsAPinnedCache` | `Spec => ImplementsPinnedCache` |

The assumptions are `WeightAssumption` (natural and additive over disjoint sets)
and `PoolAssumption` (the types of the constants), both stated in `ChunkPool`
and evaluated by every run.

The argument is one inductive invariant,

    PoolInv == TypeOK /\ WithinBudget /\ HeldIsResident /\ ReferenceIsClaimed
                 /\ SolePublisher /\ UsedIsPublished /\ NoLostWakeup

proved step by step, one lemma per action. The parts need each other:

* That a used chunk stays published rests on its reference, and eviction and
  `release_owner` spare what is referenced (`HeldIsResident`).
* `AdvanceAssembles` could take a published slot back to `"assembled"`, and
  `Publish` could resurrect a slot that somebody re-admitted meanwhile, if a
  task that is publishing were not alone and its slot not pinned down: that is
  `SolePublisher`. It holds because only a FILLING slot is assembled, because
  an assembled slot is not evictable, and because the one way it can go, the
  teardown of the last pass that holds it, turns the task into an orphan.
* A driver references a chunk once (`ReferenceIsClaimed`), so a release gives
  back exactly what was taken.
* `NoLostWakeup` goes over every action that can make `WaitSatisfied` true and
  finds a `Notify` in it.

The budget is arithmetic over sets: `Weight` of a disjoint union is the sum
(`WeightAssumption`), so what admission adds and eviction takes away keeps
`bytes = Weight[Resident]`. The refinement proof maps each action to one step of
`PinnedCache` or to none, under `PoolInv`.

`CacheDirProofs` proves, for any processes and configurations of them, any keys,
arrays, pipelines and formats, and any number of openings:

| theorem | statement | provided |
|---|---|---|
| `DirInvariant` | `Spec => []DirInv` | |
| `DirTypeCorrect` | `Spec => []TypeOK` | |
| `MappingsKeepTheLock` | `Spec => []MappedUnderLock` | |
| `FinishedWorkIsLogged` | `Spec => []ReadyIsLogged` | (in the property) no line of the process was cut short |
| `OneLinePerKey` | `Spec => []NoDuplicateLine` | |
| `ResetsAreNarrow` | `Spec => ResetTakesOnlyStale` | |
| `OnlyMineIsServed` | `Spec => []ServedIsMine` | `~DiesClobbering` |
| `LogTellsTheTruth` | `Spec => []LogIsTruthful` | `~DiesClobbering` |
| `CrashesLookLikeCrashes` | `Spec => []NoFalseCorruption` | `~DiesHeaderless`; (in the property) no write to the log was cut short |

The first six hold with deaths anywhere, the last three without the death of the
finding that breaks them; the disk may fill up at any line in all of them, and two
say what they claim until it does. The assumption is `CacheDirAssumption`
(the types of the constants, and that only a persisting process resets: the
constructor refuses it to a read-only one, and a spilling one loads no log). The argument has three layers.

* *One process at a time.* `DirInv` is the exclusive lock, the count of lines,
  and `ProcessInv(p)` for each process: its slots and temporary files are its
  own, and its memory agrees with the log. A process that does not act keeps its
  `ProcessInv` because its memory is private and because, while it holds the
  lock, only a process that could not have the lock would change the disk
  (`WritersWrite`, `DiskIsStable`). So only the acting process's own steps need
  looking at.
* *Memory and log.* After loading, `recorded` has every key of the log as it
  will be after compaction (`LogIsMine`; while the compacted log is still being
  written the log on disk is another one, hence `LogOf`), and no other until one
  of the process's own lines is cut short: it appends behind a whole line
  (`LogIsWhole`), since loading compacts what an earlier run left torn. From then
  on it may have recorded a key whose entry was glued and lost, or believe in one
  it never recorded. Such a key has no entry that could be wrong, and its file is
  the process's own work, whole, gone or being replaced (`UnloggedIsMine`): that
  is why what is served stays right although the log does not have it.
* *Files.* A listed file is as listed, or gone, or mapped by the one live writer
  (`FilesMatchLog`). The writer either completes it or takes it away, unless it
  dies in between, which is the proviso. What is served is the process's own
  (`ReadyIsMine`), revived from an entry or from its own unlogged work.
* *Corruption.* Without a line cut short there is no glued one either, and a log
  without a header is the one of the crash that is excluded (`HeaderInv`).

`PassStreamProofs` proves, for any set of plans that are `Coherent`, with any
budget, bound, queue depth and set of failing chunks and batches:

| theorem | statement |
|---|---|
| `TypeCorrect` | `CoherentPlans => (Spec => []TypeOK)` |
| `PassesLetGo` | `CoherentPlans => (Spec => []NothingHeld)` |
| `GatherFindsItsRows` | `CoherentPlans => (Spec => []GatherIsSafe)`, if no plan rereads |
| `LoopsAreInOrder` | `CoherentPlans => (Spec => ImplementsInOrderStream)` |

`Coherent(plan)` says that blocks are consecutive row ranges, a block awaits what
its rows read, and a plan that reads nothing twice hands a key back with the last
block that needs it. It is a hypothesis here, so that the pass is proved correct
for any such plan; that the plans the code makes are coherent is a theorem of its
own, `PlansAreCoherent` below. The inductive invariant is

    Held == Typed /\ Ended /\ InFlight /\ Frontiers /\ Retained

`Ended` ties the stages of teardown to what is still alive, `InFlight` the tile
tasks to slots that are not published, `Frontiers` orders `freed`,
`ready` and the cursor, and `Retained` says that what was waited for and not yet
released is published and referenced. `GatherIsSafe` follows because a batch's
rows lie between the frontiers; with a released spill, a key that a drained block
handed back may be wanted again, which TLC checks and the proof leaves out. For the refinement, `Continued` adds that the
queue behind what was received holds the next batches in order, and at most one
sentinel or error after them, put only when the cursor is at the end or a step
raised.

It proves further, under the same hypothesis, for any read-ahead bound
and any order of tiles, batches, callbacks and releases:

| theorem | statement |
|---|---|
| `PermitsAreKept` | `CoherentPlans => (Spec => []PermitsBalance)` |
| `LeftoversAreUnread` | `CoherentPlans => (Spec => []LeftoverIsUnread)` |
| `StarvationHasCause` | `CoherentPlans /\ PromptLoop => (Spec => [](~plan.reread => StarvedForCause))` |

References and permits are counted over sets of keys. `SumOn` (`Sums`) is the
size of a set of numbered copies, so that "one more of this key" is one more
element, and a sum is reasoned about through the library's facts on cardinality.
The invariant is `Balanced`, the conjunction of `Held`, `Continued` and

* `Ledger`: permits that are free, in hand, spent on a claim or on their way add
  up to the bound and what the released blocks handed back;
* `ReferencedOnce`: without rereading, a key has one reference from its one claim
  to its one release;
* `Prompt`: the producer has released each block that ends before its cursor, and
  waited for none that starts after its batch;
* `Slotted`, `ParkedFull`: what is referenced is resident, and a claim that the
  budget refused does not fit beside what is referenced, unless a block was
  released since;
* `Unstarted`, `NoneAhead`: no driver before the producer, no row before its put.

So when the driver gives up, the producer waits for a block whose keys were not
all claimed, everything before is released (`Prompt`), and what is still claimed
is what `PermitsSuffice` or `BudgetSuffices` counts for that block. A pass that
rereads is excluded: there a wait may be satisfied by the reference of an earlier
block, so that the references of a key outnumber the claims still to be released
and the ledger does not bound them. TLC checks `StarvedForCause` for these.

`ReadPlanProofs` and `EpochProofs` are about what a dataset makes of its
configuration, and so about every plan. They rest on one assumption on the plans
that a pass may start with, `PlansAssumption` in `EpochProperties`:

    \A p \in Plans : p = PlanOf(p.config) /\ Sound(p.config) /\ WarmFits(p)

It says what `PlanOf` made the plan from: numbers that are numbers (chunk sizes,
block and batch sizes not zero), views with as many samples as the manifest (which
the constructor enforces, `Paired`), views of one array that differ in their
offset alone, geometries that are geometries before and after the transforms
(`Measured`), parts that are chunks of the array, and for a shuffled pass a
permutation of the train part. `WarmFits` is that the pool a pass starts with is
within its budget, which `BudgetKept` proves of the pool. It says nothing of
blocks, reads, charges or bounds. TLC evaluates it on all 1346 configurations.
(`ContentsProofs`, on the data, adds `DatasetsAssumption`; see there.)

| theorem | statement |
|---|---|
| `DriverReadsWhatAnchorsNeed` | the chunk range the driver reads for an anchor chunk is the set of chunks that some sample of it needs |
| `SplitDealsOnce` | `SplitByChunk` deals each chunk to one part, whatever order it is given and however the fractions round |
| `PlansAreCoherent` | `CoherentPlans` |
| `PlansAwaitWhatRowsTouch` | `Spec => []DriverPlansAwaited` |
| `AnchorsAreDrawnOnce` | `Spec => []EveryAnchorOnce`, if each manifest is made by `SplitByChunk` from some order of the chunks of its window (`SplitOf`) |
| `BoundsSuffice` | `Spec => []BoundSuffices` |
| `DeclaredIsClaimed` | `Made(plan) /\ DeclaredIsAwaited => ClaimsNoMore(plan)` |
| `BoundIsEnough` | `Made(plan) /\ ClaimsNoMore(plan) /\ BatchesSpanTwoBlocks => PermitsSuffice` |
| `EvenBlocksAwaitTheirReads` | `EvenChunks /\ Unwindowed => DeclaredIsAwaited` |
| `PassesAreSafe` | `Spec` implies `[]TypeOK`, `[]NothingHeld`, `[]PermitsBalance`, `[]LeftoverIsUnread` and `ImplementsInOrderStream`, with no hypothesis on the plans |
| `ReadAheadNeverStarves` | with `PromptLoop`: a pass that reads nothing twice, with `ClaimsNoMore` and `BatchesSpanTwoBlocks`, starves only if `~BudgetSuffices` |
| `DeclaredNeverStarves` | the same with `DeclaredIsAwaited` in the place of `ClaimsNoMore` |
| `EvenPassesNeverStarve` | the same of every dataset in full chunks without windows |

`Made(p)` is what the plan theorems use of a plan: it is coherent, it is `PlanOf`
of its configuration, its views can be read and its order is laid; `PlansAreMade`
proves it of every plan. The argument has four parts.

* *The order.* `DrawIs`: whatever the permutation and however the rows of a block
  are mixed, what is drawn is `Laid` (bounds that start at 0, rise, and end at the
  last row, so that no block is empty), has no row twice, holds exactly the rows
  of its chunks that every view can be read at, and is `Unbroken` (rows of one
  chunk lie in one block). Each builder has these (`BuiltIsDrawn`), and dropping
  the edge anchors keeps them (`KeepIsLaid`, `DropIsDrawn`): that `Keep` drops
  the bounds of a block with its last row is what this turns on.
* *The two accounts.* The driver expands anchor chunks, the consumer its rows. A
  row's keys are among those of its anchor chunk (`RowKeysAre`), hence a block's
  among what the driver reads for it (`BlockReads`), hence claimed by the time it
  is through (`DriverClaimsAhead`), which with the order gives `Coherent`.
  `DriverReadsWhatAnchorsNeed` says that it reads no more than its anchors need.
* *The batches.* Where chunks are even and nothing is dropped all blocks but the
  last hold `BlockChunks * refSpc` rows (`FullTo`), no fewer than a batch, or one
  block holds everything (`WideOrWhole`); so a batch cannot touch three
  (`BatchMeetsTwo`).
* *The bound.* When block `b` is needed, all blocks but the one before it are
  drained (`DrainedBefore`), what is claimed by then is bounded by what the blocks
  so far read, and the difference to what the drained ones handed back lies in
  blocks whose reads the bound counts: the sliding window of three for a pass that
  rereads, the peak of retained keys otherwise (`FirstAndLast`, `HandedBackOnce`).

Some plans of `pass_stream` satisfy the provisos and some do not: there are claims
that run ahead and claims that do not, batches that span two blocks and three,
under either release schedule.

What the plan is made with are folds: sequences joined, positions in ascending
order, first occurrences. The library's induction theorems cannot be
instantiated here, and the proofs go by the smallest counterexample instead: a
set of naturals that is not empty has a smallest member (`SmallestOf`, which
comes from the well-foundedness of inclusion on finite sets). So
`FlattenJoins` (what `FlattenSeq` computes, for any number of sequences),
`PartHolds` (the members of a sequence at a set of positions), `UnseenHolds` and
`UnseenBegins` (first occurrences) and `FlattenLength` are proved for all inputs.

`ChunkPoolProofs` proves for the pool also what holds only while passes run one at a
time *and* deliver on the event loop, that is under

    AloneOnTheLoop == IterationBytes # 0 /\ 2 * IterationBytes > Budget /\ ~Assembles

which is how `pool_one_at_a_time` is configured. The first two conjuncts are what
`new_owner` enforces for a budget that holds one working set, the third excludes
decode threads: there are no chunk transforms and no cache files. Neither can be
spared. `pool_duplicate` is what happens with two passes; `pool_late_thread`
refutes `QuiescentMeansNoWriter` for one pass at a time with threads.

| theorem | statement |
|---|---|
| `PublishedIsComplete` | `AloneOnTheLoop => (Spec => []ReadyIsComplete)` |
| `QuietSlotsHaveNoWriter` | `AloneOnTheLoop => (Spec => []QuiescentMeansNoWriter)` |
| `PassesLeaveNothingBehind` | `AloneOnTheLoop => (Spec => []NothingLeftBehind)` |
| `PublishedChunksAreNotWritten` | `AloneOnTheLoop => (Spec => PublishedIsStable)` |

`AloneInv` adds to `PoolInv` that one pass is live (`Alone`), that all tasks
belong to it, that a slot is unfinished only if it claimed it, so that no
driver ever finds one to join, and, what all four rest on, that the counters tell
the truth (`CountedAt`): `pending` is the number of tiles not yet there, `writers`
the number of tasks inside `tile_write`. That nothing is delivered to a published
chunk follows from these: a slot is published with no tile pending and no task
inside, and none enters it later, because the one driver asks for no chunk that is
READY (`MissOrRetry`), which is what the mutant of `PublishedIsStable` breaks.

`BatchBuffersProofs` proves, for any finite set of iterations, places, lengths,
memory and events:

| theorem | statement |
|---|---|
| `TypeCorrect` | `Spec => []TypeOK` |
| `NoSharedRows` | `Spec => []WrittenAlone` |
| `CopiesHoldTheirSource` | `Spec => []HeldUntilLanded` |
| `PoolConverges` | `Spec => []Converges` |

from the named assumptions of `BatchBuffers` and the invariant

    IInv == TypeOK /\ Locked /\ Scanning /\ AtBaseline /\ Referenced /\ Copied

A buffer is lent because its reference count is at its idle baseline, so the
heart is `AtBaseline`: the baseline was taken when nobody but the allocation held
it. What is about to be lent is then seen by nobody (`LentFree`), and stays so
because only the holder of the lock scans (`Locked`) and a reference to memory
cannot come from nowhere. `HoldLocked` is the moment between the two halves of
`_InFlight.hold`: what pruning dropped had landed. That the pool stops growing is
a count: `Roomy` says that the buffers in use, together with those a scan has
passed by, are fewer than the places that can use one, since each of them is used
by another producer, place or transfer (`EventsApart`, `OwnedOnce`, `Vacant`); so
an allocation, which comes at the end of a scan, leaves no more than that.

`EpochProofs` proves of the verdict, for whatever statistics a pass may end with:

| theorem | statement |
|---|---|
| `AccusationsAreEarned` | `stats \in PassStats(Nat) => Earned(stats)` |
| `DiagnosesAreEarned` | `Spec => []DiagnosisIsEarned` |
| `ResidencyIsNoNearTie` | a pass that parked for most of its time is never called "unknown" |

They are about arithmetic with ties: the ranking is total (`PrecedesIsTotal`), and
the thresholds leave no statistics for which a stage is accused that neither leads
clearly nor explains the parking. `ProfilesAssumption` says that the statistics
compared by TLC are ones a pass can have.

`SummaryProofs` proves that the automatic budget is enough. It EXTENDS `EpochProofs`,
and needs no assumption beyond those above.

| theorem | statement |
|---|---|
| `FloorIsEnough` | `Compact /\ AlignedGrid /\ BatchesSpanTwoBlocks /\ DeclaredIsAwaited => BudgetSuffices`, of every plan that a dataset makes |
| `FloorsSuffice` | `Spec => []FloorSuffices` |
| `CompactPassesNeverStarve` | with `PromptLoop`: such a pass, if it reads nothing twice, never starves |
| `EvenPassesAreFed` | with `PromptLoop`: nor does any pass over full chunks of one size without windows |

`WorkingSetBytes` counts in one of three ways, so the proof has three parts. Each
says which chunks are held when block `b` is needed, and then that those of one
array are no more than the floor charges for it.

* *Nothing waits* (arrays chunk alike, and there is no window, or the pass
  rereads). What is held is read by block `b` or the one before it (`HeldByTwo`;
  a rereading pass holds a key once for each, and `CopiesAreFew` counts the
  claims). An anchor chunk under an offset stands on one or two chunks of the
  array (`Straddles`), as the floor has it.
* *Shuffled, under a window.* Everything may be held, and everything lies where
  the train part, shifted, reaches. If the part stands together, that is one
  stretch of each array: its samples divided by the chunk size
  (`MixedTrainIsCharged`), or, on one grid, its chunks and the reach of the window
  (`AlignedTrainIsCharged`), which is where `EdgesCounted` is used.
* *Unshuffled, under a window.* What is held is near block `b` or lies between
  two reads of it (`HeldUntilRead`). As blocks follow the order of the file
  (`DrawnRise`, `WindowsAdjoin`) and the window reaches no further than a block,
  no key is read by two blocks and not by one between them (`NoKeyJumps`); so all
  that is held is read by two adjacent blocks (`HeldNearInOrder`), and these read
  a stretch of each array.

The first attempt at this theorem failed, for good reason: with the premise that
the train part stands together, which the runs had been content with,
`FloorSuffices` is false (`Misaligned`, above), and on arrays that chunk
differently the unshuffled case needs a part without gaps. `Compact` is what the
proof goes through with.

It also proves that `describe()` tells the truth: `ReportsPredict`, which is
`Spec => []ReportPredictsPass`.

* *Memory.* `Fits` (what is resident weighs no more than the budget) is invariant
  together with `Held`: only an admission adds a chunk, and it evicts first
  (`AdmittedFits`). The batches in hand are those queued and the producer's one, and
  no batch is longer than `batchSize` (`BatchesInHandAreFew`). The one that was
  given to the caller last is not counted, neither here nor by the report: while
  the caller holds it `prefetchDepth + 2` batches can be alive.
* *Rows.* The rows on one anchor chunk are those of a range of samples
  (`RowsOfChunkCount`), chunks have no row in common, so the sum over a part's
  chunks is the number of rows its order lays (`DrawableCounts`), for each part,
  whichever of them the pass draws.
* *Padding.* A note compares two products over axes. No factor of the tiles' is
  smaller than that of the slot's, so the products are equal exactly if the factors
  are, unless a side is empty (`PaddedWhere`); a tile that is clipped is one that
  is past the array along some axis (`CompleteIs`).

A product over the axes of an array is a fold, and the facts about it
(`ProductRises`, `ProductOfZero`, `ProductOfBoth`) are proved by the smallest
counterexample as above.

`ContentsProofs` is about the data. It uses a second assumption on the plans,
`DatasetsAssumption` in `EpochProperties`, `\A p \in Plans : OpenedOn(p.config)`:
the dataset passed its constructor (`Accepted`: its views open on the group, its
scopes name arrays it has and has statistics for), its pipeline is a sequence, and
its views are arrays that `open_geometries` made of the group, shifted. TLC
evaluates this one, too, on all 1346 configurations.

| theorem | statement |
|---|---|
| `BatchesHoldTheirSamples` | `Spec => [](ShapesKept(Config.pipeline) => GatherReadsItsSamples)`, with the premises inside the property: checked transforms, and an undecodable chunk's substitute only where samples come first |
| `RunsAreWritten` | `Measured(g) => WritesRuns(g)` |
| `EntriesFollowPipelines` | `Spec => [](TokensTell /\ SubstituteFits => HashFollowsPipeline)` |

`ShapesKept` is that no transform declares another shape or returns one: scaling,
masking, filling. `PipelineChecked` is not used there. The proof follows one
element from the store to its place in a batch.

* *Places.* The place of an index tuple in row-major order is one function of the
  tuple (`RowMajorApart`), below the size (`RowMajorWithin`), and every number
  below the size is a place (`RowMajorReached`). So the file of a tiled chunk has
  each tile at its `inner_index`, and a revived one is sliced into the same tiles,
  though it counts them instead of looking them up (`BackedIs`, `RevivedIs`).
* *The fetch.* A chunk key has its axes in physical order, the tile that is
  returned has the sample axis first. Taking one axis out and putting it in at the
  other end undo each other (`InsertedIs`, `RemovedIs`), so what the tile has at a
  sample and an inner position is the stored element of that sample and position
  (`FetchHolds`), for every axis, shard and edge; or the fill value, or the
  substitute (`FetchedIs`), if its axes fit (`SubstituteFits`: on arrays with the
  sample axis first; elsewhere it does not, as the run's premise says).
* *The row.* Each place of a row is in one tile and no other (`TileExists`,
  `TileHolds`, where `/` and `%` meet the clipped edge), so whichever the gather
  finds, it reads the right element (`GatheredIs`, `PlainRowHolds`).
* *The transforms.* An assembled slot is whole (`AssembledIsWhole`), each
  transform tags each element where it stands (`CallAllKeeps`), and what comes out
  is of the shape of the slot, which is why the file takes it and why one tile of
  the source's shape is gathered from (`PreparedIs`, `PipedRowHolds`).
* *The run.* The first tile fills the places from zero to a product of lengths
  (`RunIsFilled`) and not the next (`RunEnds`): the walk from the last axis inward
  ends at the first one that the chunk does not span.

`TokensTell` is what the cache takes for granted of the user's transforms: that two
of them have one token exactly if they are the same callable (for a `cache_key`,
that it changes when the code does), and that arrays are not empty. It is true of
all 1346 configurations but one, whose transform returns another shape than it
declares. The theorem is about every pipeline, reshaping ones included: what comes
out has the tags of what it went through on every element (`CallAllTags`), so equal
results mean equal codes, hence equal tokens; and equal tokens mean equal
callables, whose results agree (`SameCallsAgree`).

*Only model-checked.* Liveness under fairness (`EveryWaitEnds`, `NoHang`) and
ENABLED are out of this prover's reach. RECURSIVE operators would be too; there
are none. Every invariant and action property of the runs that are to pass is
stated by a theorem; what the theorems' premises leave to TLC is:

* `GatherReadsItsSamples` for pipelines that reshape. A transform that reshapes is
  modelled by the nearest element, and the expectation takes the nearest element
  once, so that the property is about pipelines with at most one such transform of
  an array; and `insitubatch-check-transform` runs each transform alone, on a chunk
  along the first axis, so that what it lets through says nothing of a chain.
* `GatherIsSafe` and `StarvedForCause` for passes that reread. There a wait may be
  satisfied by the reference of an earlier block, so that what is gathered is
  published because of the order in which one pass claims and releases, and not
  because it is referenced; the ledger would have to count references per block.

## 6. Plan

Left, in this order:

1. `StarvedForCause` and `GatherIsSafe` for passes that reread, from a ledger that
   counts references per block.
2. Two passes in `PassStream` instead of one beside a pool that evicts.

### Not modelled

* Constructors of stores (obstore, fsspec, local, Icechunk) and the reads they do:
  I/O; an object is there, missing or undecodable.
* `print_summary`, `format_pass`, log lines, `repr`s: wording and layout. The
  report's lists of names, its note on a reset cache and the strings of dtypes.
* `PassCounters`, `last_pass` and the summing of several passes' statistics.
* The process-wide decode pool's creation and resizing; how the loop and zarr
  share threads.
* `StandardScaler.fit` and all arithmetic on values; JAX and TensorFlow
  conversions, which copy or hold their source themselves.
* The timing and command line of `check_transform.py`; `debug.py`; the programs
  under `bench/` and `examples/`, which use the package and are no part of it.
* Two array paths that sanitize to one file name (`pool.py:1470`): CacheDir keeps
  keys and files one to one. A short write that leaves out the newline only.
* `release_owner` beside tasks of its own pass that have not unwound when the five
  seconds of `close` are over (`scheduler.py:395`). Other passes' tasks may stand
  anywhere meanwhile, between two critical sections of a loop task, too: the
  consumer's thread calls it (`source.py:710`).
* In `PassStream` a revived chunk is charged what a fetched one is
  (`plan.weight`); the code charges the mapped bytes (`pool.py:1255`), which for a
  file that matches its geometry is the same. `BatchBuffers!Clear` waits for idle
  producers: a dataset is to be closed "when done training" (`source.py`, `close`),
  though nothing enforces it. A reference count below the baseline, for which
  `buffers.py:231` raises, is not reached.
