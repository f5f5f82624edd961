----------------------------- MODULE PassStream -----------------------------
(***************************************************************************)
(* One pass over a split, end to end: InSituDataset._iterate               *)
(* (insitubatch/source.py) and the Scheduler it owns                       *)
(* (insitubatch/scheduler.py), on a pool that no other pass fills.         *)
(*                                                                         *)
(* Four actors run here.  The driver claims chunks in plan order against   *)
(* two limits, its read-ahead permits and the pool's byte budget; the      *)
(* event loop runs the fetches and the callbacks that hand permits back;   *)
(* the producer thread waits for the blocks a batch draws from, gathers,   *)
(* and releases the blocks it has drained; the consumer takes batches off  *)
(* a bounded queue and tears the pass down.                                *)
(*                                                                         *)
(* The pool's own atomicity is the subject of ChunkPool: here one step may *)
(* span several of its critical sections, and a chunk is one tile.         *)
(***************************************************************************)
EXTENDS Integers, Sequences, FiniteSets, FiniteSetsExt, SequencesExt, Sums

CONSTANTS
  Plans,      \* the plans a pass may have
  Streamed,   \* bound: the configurations whose passes are also run
  PromptLoop  \* environment: are queued callbacks run before a poll times out?

VARIABLES
  plan,       \* the pass's plan, fixed when the pass is made
  consumer,   \* where the generator is
  outcome,    \* how the caller's loop ended, "open" while it has not
  received,   \* the row ranges of the batches yielded to the caller
  stop,       \* the stop event
  outq,       \* out_q
  producer,   \* where the producer thread is
  start,      \* first row of its batch
  ready,      \* how many blocks it has waited for
  freed,      \* how many blocks it has released
  driver,     \* where the driver coroutine is
  claims,     \* how many admissions it has made
  permits,    \* the read-ahead semaphore's value
  returning,  \* permit returns queued on the loop, in order
  freshRoom,  \* has a block been released since the budget last refused?
  slot,       \* slot[k]: state of the pool's slot for key k
  refs,       \* refs[k]: references of this pass on k
  onDisk,     \* keys persisted in the cache directory
  fetching,   \* keys with a tile task of this pass
  poolError   \* has the pool been poisoned?

caller == <<consumer, outcome, received>>
queue == <<stop, outq>>
thread == <<producer, start, ready, freed>>
drive == <<driver, claims>>
permit == <<permits, returning>>
pool == <<slot, refs, onDisk, fetching, poolError>>
vars == <<plan, caller, queue, thread, drive, permit, freshRoom, pool>>

(***************************************************************************)
(* The plan.  Blocks and reads are those of the draw order; admissions     *)
(* is the order in which the driver claims keys; release[b] is what the    *)
(* producer hands back once block b is drained.                            *)
(***************************************************************************)
Keys == DOMAIN plan.weight
NRows == Len(plan.reads)
NBlocksOf == Len(plan.blocks)

SlotStates == {"absent", "filling", "ready", "failed"}
Present(k) == slot[k] # "absent"

Weight(S) == SumOn(plan.weight, S)
Resident == {k \in Keys : Present(k)}

Init ==
  /\ plan \in Plans
  /\ consumer = "new"
  /\ outcome = "open"
  /\ received = <<>>
  /\ stop = FALSE
  /\ outq = <<>>
  /\ producer = "none"
  /\ start = 0
  /\ ready = 0
  /\ freed = 0
  /\ driver = "none"
  /\ claims = 0
  /\ permits = plan.bound
  /\ returning = <<>>
  /\ freshRoom = FALSE
  /\ slot = [k \in Keys |-> IF k \in plan.warm THEN "ready" ELSE "absent"]
  /\ refs = [k \in Keys |-> 0]
  /\ onDisk = plan.cached
  /\ fetching = {}
  /\ poolError = FALSE

-----------------------------------------------------------------------------
(* The producer thread.                                                    *)

Lesser(a, b) == IF a <= b THEN a ELSE b
StopRow == Lesser(start + plan.batchSize, NRows)

(* Mutant: a chunk of another block's claim, or of none, will do.          *)
AwaitedWithoutReference(k) == slot[k] = "ready"

(* wait_ready returns for k: it is there and this pass holds it.           *)
Awaited(k) == slot[k] = "ready" /\ refs[k] > 0
WaitRaises(k) == poolError \/ slot[k] = "failed"

NeedsBlock == ready < NBlocksOf /\ plan.blocks[ready + 1].start < StopRow

(* blocked_waiters(owner) is not empty.                                    *)
ProducerBlocked ==
  /\ producer = "wait"
  /\ NeedsBlock
  /\ \E k \in plan.blocks[ready + 1].keys : ~Awaited(k) /\ ~WaitRaises(k)

StartDriver ==
  /\ producer = "start"
  /\ producer' = "batch"
  /\ driver' = "permit"
  /\ UNCHANGED <<plan, caller, queue, start, ready, freed, claims, permit, freshRoom, pool>>

NextBatch ==
  /\ producer = "batch"
  /\ producer' = IF stop \/ start >= NRows THEN "end" ELSE "wait"
  /\ UNCHANGED <<plan, caller, queue, start, ready, freed, drive, permit, freshRoom, pool>>

(* The keys of a block are waited for one by one, in no order; a key that  *)
(* is held and ready stays so until this thread releases it, so the last   *)
(* return is a moment when they all are.                                   *)
BlockReady ==
  /\ producer = "wait"
  /\ NeedsBlock
  /\ ~poolError
  /\ \A k \in plan.blocks[ready + 1].keys : Awaited(k)
  /\ ready' = ready + 1
  /\ UNCHANGED <<plan, caller, queue, producer, start, freed, drive, permit, freshRoom, pool>>

BlockFails ==
  /\ producer = "wait"
  /\ NeedsBlock
  /\ \E k \in plan.blocks[ready + 1].keys : WaitRaises(k)
  /\ producer' = "raise"
  /\ UNCHANGED <<plan, caller, queue, start, ready, freed, drive, permit, freshRoom, pool>>

BatchReady ==
  /\ producer = "wait"
  /\ ~NeedsBlock
  /\ producer' = "gather"
  /\ UNCHANGED <<plan, caller, queue, start, ready, freed, drive, permit, freshRoom, pool>>

(* gather copies out of the slots.                                         *)
Gather ==
  /\ producer = "gather"
  /\ producer' = "release"
  /\ UNCHANGED <<plan, caller, queue, start, ready, freed, drive, permit, freshRoom, pool>>

Drained == freed < NBlocksOf /\ plan.blocks[freed + 1].stop <= StopRow

Unpinned(keys) == [k \in Keys |-> IF k \in keys /\ refs[k] > 0 THEN refs[k] - 1 ELSE refs[k]]

(* unpin_block: the references at once, the permits by a callback.         *)
ReleaseBlock ==
  /\ producer = "release"
  /\ Drained
  /\ refs' = Unpinned(plan.release[freed + 1])
  /\ returning' = Append(returning, Cardinality(plan.release[freed + 1]))
  /\ freed' = freed + 1
  /\ freshRoom' = TRUE
  /\ UNCHANGED <<plan, caller, queue, producer, start, ready, drive, permits,
                 slot, onDisk, fetching, poolError>>

(* The batch transforms run on the copy, after the release.                *)
TransformBatch ==
  /\ producer = "release"
  /\ ~Drained
  /\ producer' \in {"put"} \cup (IF start \in plan.badBatch THEN {"raise"} ELSE {})
  /\ UNCHANGED <<plan, caller, queue, start, ready, freed, drive, permit, freshRoom, pool>>

(* Mutant: the queue is unbounded.                                         *)
QueueUnbounded == TRUE

QueueHasRoom == Len(outq) < plan.depth

BatchItem == [kind |-> "batch", rows |-> <<start, StopRow>>]
ErrorItem == [kind |-> "error", rows |-> <<0, 0>>]
Sentinel == [kind |-> "sentinel", rows |-> <<0, 0>>]

PutBatch ==
  /\ producer = "put"
  /\ QueueHasRoom
  /\ outq' = Append(outq, BatchItem)
  /\ start' = start + plan.batchSize
  /\ producer' = "batch"
  /\ UNCHANGED <<plan, caller, stop, ready, freed, drive, permit, freshRoom, pool>>

(* Mutant: the exception ends the thread and is not forwarded.             *)
SwallowError ==
  /\ producer = "raise"
  /\ producer' = "end"
  /\ UNCHANGED <<plan, caller, queue, start, ready, freed, drive, permit, freshRoom, pool>>

PutError ==
  /\ producer = "raise"
  /\ QueueHasRoom
  /\ outq' = Append(outq, ErrorItem)
  /\ producer' = "end"
  /\ UNCHANGED <<plan, caller, stop, start, ready, freed, drive, permit, freshRoom, pool>>

PutSentinel ==
  /\ producer = "end"
  /\ QueueHasRoom
  /\ outq' = Append(outq, Sentinel)
  /\ producer' = "dead"
  /\ UNCHANGED <<plan, caller, stop, start, ready, freed, drive, permit, freshRoom, pool>>
-----------------------------------------------------------------------------
(* The driver.                                                             *)

Unclaimed == claims < Len(plan.admissions)
Key == plan.admissions[claims + 1]

(* Mutant: a permit is taken only by a chunk that is not there yet.        *)
TakePermitOnMiss ==
  /\ driver = "permit"
  /\ Unclaimed
  /\ slot[Key] = "ready" \/ permits > 0
  /\ permits' = IF slot[Key] = "ready" THEN permits ELSE permits - 1
  /\ driver' = "claim"
  /\ UNCHANGED <<plan, caller, queue, thread, claims, returning, freshRoom, pool>>

(* One permit per claim, hits included.                                    *)
TakePermit ==
  /\ driver = "permit"
  /\ Unclaimed
  /\ permits > 0
  /\ permits' = permits - 1
  /\ driver' = "claim"
  /\ UNCHANGED <<plan, caller, queue, thread, claims, returning, freshRoom, pool>>

Evictable == {k \in Keys : slot[k] = "ready" /\ refs[k] = 0}
FitsWithout(V, k) == Weight(Resident \ V) + plan.weight[k] <= plan.budget

(* What _make_room may evict: just enough in LRU order, which is not kept  *)
(* here, so the last one taken was needed and any may be the last.         *)
Victims(k) ==
  {V \in SUBSET Evictable :
     FitsWithout(V, k) /\ (V = {} \/ \E v \in V : ~FitsWithout(V \ {v}, k))}

Evicted(V) == [k \in Keys |-> IF k \in V THEN "absent" ELSE slot[k]]
Reference(k) == refs' = [refs EXCEPT ![k] = @ + 1]

Claimed ==
  /\ claims' = claims + 1
  /\ driver' = "permit"
  /\ UNCHANGED <<plan, caller, queue, thread, permit, freshRoom, poolError>>

(* pin_if_ready: a hit, in memory or revived from the cache directory.     *)
PinReady ==
  /\ driver = "claim"
  /\ slot[Key] = "ready"
  /\ Reference(Key)
  /\ Claimed
  /\ UNCHANGED <<slot, onDisk, fetching>>

Revive ==
  /\ driver = "claim"
  /\ ~Present(Key)
  /\ Key \in onDisk
  /\ \E V \in Victims(Key) : slot' = [Evicted(V) EXCEPT ![Key] = "ready"]
  /\ Reference(Key)
  /\ Claimed
  /\ UNCHANGED <<onDisk, fetching>>

(* A claim that was refused once only retries try_admit, which does not    *)
(* look on disk and does not mind the slot being ready by now.             *)
Missed == \/ driver = "claim" /\ slot[Key] # "ready"
          \/ driver = "parked"

Fetch(k) == fetching' = fetching \cup {k}

JoinResident ==
  /\ Missed
  /\ Present(Key)
  /\ Reference(Key)
  /\ Fetch(Key)
  /\ Claimed
  /\ UNCHANGED <<slot, onDisk>>

AdmitFresh ==
  /\ Missed
  /\ ~Present(Key)
  /\ driver = "claim" => Key \notin onDisk
  /\ \E V \in Victims(Key) : slot' = [Evicted(V) EXCEPT ![Key] = "filling"]
  /\ Reference(Key)
  /\ Fetch(Key)
  /\ Claimed
  /\ UNCHANGED onDisk

(* No room: what can be evicted is gone all the same.                      *)
Park ==
  /\ Missed
  /\ ~Present(Key)
  /\ ~FitsWithout(Evictable, Key)
  /\ driver = "claim" \/ Evictable # {} \/ freshRoom
  /\ slot' = Evicted(Evictable)
  /\ driver' = "parked"
  /\ freshRoom' = FALSE
  /\ UNCHANGED <<plan, caller, queue, thread, claims, permit, refs, onDisk, fetching, poolError>>

(* Mutant: a stall is declared while a tile is still on its way.           *)
StalledWhileFetching ==
  /\ PromptLoop => returning = <<>> /\ ~freshRoom
  /\ ProducerBlocked

(* The two verdicts share their evidence: no tile of this pass is on its   *)
(* way and its producer is blocked.  PromptLoop says that a release which  *)
(* happened before the poll timed out has been acted upon.                 *)
Stalled ==
  /\ PromptLoop => returning = <<>> /\ ~freshRoom
  /\ fetching = {}
  /\ ProducerBlocked

Starve ==
  /\ \/ driver = "permit" /\ Unclaimed /\ permits = 0
     \/ driver = "parked"
  /\ Stalled
  /\ driver' = "starved"
  /\ poolError' = TRUE
  /\ UNCHANGED <<plan, caller, queue, thread, claims, permit, freshRoom,
                 slot, refs, onDisk, fetching>>

(* The driver awaits its tile tasks and returns.                           *)
DriverEnds ==
  /\ driver = "permit"
  /\ ~Unclaimed
  /\ fetching = {}
  /\ driver' = "done"
  /\ UNCHANGED <<plan, caller, queue, thread, claims, permit, freshRoom, pool>>

-----------------------------------------------------------------------------
(* The event loop: tiles, and the callbacks of unpin_block.                *)

TileArrives(k) ==
  /\ k \in fetching
  /\ fetching' = fetching \ {k}
  /\ IF slot[k] = "filling"
     THEN /\ slot' = [slot EXCEPT ![k] = "ready"]
          /\ onDisk' = IF plan.persist THEN onDisk \cup {k} ELSE onDisk
     ELSE UNCHANGED <<slot, onDisk>>
  /\ UNCHANGED <<plan, caller, queue, thread, drive, permit, freshRoom, refs, poolError>>

(* on_bad_chunk = "raise": the slot is poisoned, its waiter raises.        *)
TileFails(k) ==
  /\ k \in fetching
  /\ k \in plan.bad
  /\ fetching' = fetching \ {k}
  /\ slot' = [slot EXCEPT ![k] = "failed"]
  /\ UNCHANGED <<plan, caller, queue, thread, drive, permit, freshRoom, refs, onDisk, poolError>>

(* _release_ahead(n).                                                      *)
ReturnPermits ==
  /\ returning # <<>>
  /\ permits' = permits + Head(returning)
  /\ returning' = Tail(returning)
  /\ UNCHANGED <<plan, caller, queue, thread, drive, freshRoom, pool>>

(* Other passes over the pool are not modelled, except that what they      *)
(* admit may evict a chunk nobody references.                              *)
OtherPassEvicts(k) ==
  /\ plan.shared
  /\ k \in Evictable
  /\ slot' = [slot EXCEPT ![k] = "absent"]
  /\ UNCHANGED <<plan, caller, queue, thread, drive, permit, freshRoom,
                 refs, onDisk, fetching, poolError>>

-----------------------------------------------------------------------------
(* The consumer: the generator the caller iterates.                        *)

Begin ==
  /\ consumer = "new"
  /\ plan.config \in Streamed
  /\ consumer' = "getting"
  /\ producer' = "start"
  /\ UNCHANGED <<plan, outcome, received, queue, start, ready, freed,
                 drive, permit, freshRoom, pool>>

(* The finally clause starts by setting the stop event.                    *)
EndLoop(how) == consumer' = "draining" /\ outcome' = how /\ stop' = TRUE

Get ==
  /\ consumer = "getting"
  /\ outq # <<>>
  /\ outq' = Tail(outq)
  /\ CASE Head(outq).kind = "batch" ->
            /\ consumer' = "yielded"
            /\ received' = Append(received, Head(outq).rows)
            /\ UNCHANGED <<outcome, stop>>
       [] Head(outq).kind = "error" -> EndLoop("raised") /\ UNCHANGED received
       [] Head(outq).kind = "sentinel" -> EndLoop("finished") /\ UNCHANGED received
  /\ UNCHANGED <<plan, thread, drive, permit, freshRoom, pool>>

(* The caller asks for the next batch, or leaves its loop.                 *)
Resume ==
  /\ consumer = "yielded"
  /\ consumer' = "getting"
  /\ UNCHANGED <<plan, outcome, received, queue, thread, drive, permit, freshRoom, pool>>

Leave ==
  /\ consumer = "yielded"
  /\ EndLoop("left")
  /\ UNCHANGED <<plan, received, outq, thread, drive, permit, freshRoom, pool>>

(* Mutant: the teardown joins the producer without draining the queue.     *)
DrainNothing ==
  /\ FALSE
  /\ UNCHANGED vars

Drain ==
  /\ consumer = "draining"
  /\ producer # "dead"
  /\ outq # <<>>
  /\ outq' = Tail(outq)
  /\ UNCHANGED <<plan, caller, stop, thread, drive, permit, freshRoom, pool>>

(* The producer is joined; the scheduler's close cancels what still runs.  *)
CloseScheduler ==
  /\ consumer = "draining"
  /\ producer = "dead"
  /\ consumer' = "closing"
  /\ driver' = IF driver \in {"permit", "claim", "parked"} THEN "cancelled" ELSE driver
  /\ fetching' = {}
  /\ UNCHANGED <<plan, outcome, received, queue, thread, claims, permit, freshRoom,
                 slot, refs, onDisk, poolError>>

(* Mutant: failed slots are left in the table.                             *)
KeepFailed(k) == slot[k] \in {"ready", "failed"}

SurvivesPass(k) == slot[k] = "ready"

ReleaseOwner ==
  /\ consumer = "closing"
  /\ consumer' = "done"
  /\ refs' = [k \in Keys |-> 0]
  /\ slot' = [k \in Keys |-> IF SurvivesPass(k) THEN slot[k] ELSE "absent"]
  /\ UNCHANGED <<plan, outcome, received, queue, thread, drive, permit, freshRoom,
                 onDisk, fetching, poolError>>

-----------------------------------------------------------------------------
ProducerStep ==
  \/ StartDriver \/ NextBatch \/ BlockReady \/ BlockFails \/ BatchReady \/ Gather
  \/ ReleaseBlock \/ TransformBatch \/ PutBatch \/ PutError \/ PutSentinel

DriverStep ==
  \/ TakePermit \/ PinReady \/ Revive \/ JoinResident \/ AdmitFresh
  \/ Park \/ Starve \/ DriverEnds

TileStep == \E k \in Keys : TileArrives(k) \/ TileFails(k)
TeardownStep == Drain \/ CloseScheduler \/ ReleaseOwner

Next ==
  \/ Begin \/ Get \/ Resume \/ Leave
  \/ ProducerStep \/ DriverStep \/ TileStep \/ ReturnPermits \/ TeardownStep
  \/ \E k \in Keys : OtherPassEvicts(k)

Spec == Init /\ [][Next]_vars

(***************************************************************************)
(* Threads and the event loop run; a fetch ends, one way or the other.     *)
(* The caller owes the pass nothing: it may hold a batch for ever.         *)
(***************************************************************************)
Fairness ==
  /\ WF_vars(ProducerStep)
  /\ WF_vars(DriverStep)
  /\ WF_vars(TileStep)
  /\ WF_vars(ReturnPermits)
  /\ WF_vars(Get)
  /\ WF_vars(TeardownStep)

FairSpec == Spec /\ Fairness

-----------------------------------------------------------------------------
(* Properties.                                                             *)

(* What a pass relies on in its plan: blocks are consecutive row ranges    *)
(* that hold every row, a block waits for what its rows read, and the      *)
(* driver has claimed that when it is through with the block; a plan that  *)
(* reads nothing twice claims a key once, and hands it back with the last  *)
(* block that needs it.                                                    *)
Sized(p) ==
  /\ p.batchSize \in Nat \ {0} /\ p.depth \in Nat \ {0} /\ p.bound \in Nat /\ p.budget \in Nat
  /\ IsFiniteSet(DOMAIN p.weight) /\ \A k \in DOMAIN p.weight : p.weight[k] \in Nat
  /\ Len(p.reads) \in Nat /\ Len(p.blocks) \in Nat /\ Len(p.admissions) \in Nat
InOrder(p) ==
  \A b \in 1 .. Len(p.blocks) :
    /\ p.blocks[b].start \in Nat /\ p.blocks[b].stop \in Nat
    /\ p.blocks[b].start < p.blocks[b].stop /\ p.blocks[b].stop <= Len(p.reads)
    /\ \A c \in 1 .. b : p.blocks[c].start <= p.blocks[b].start /\ p.blocks[c].stop <= p.blocks[b].stop
RowsAwaited(p) ==
  \A i \in 1 .. Len(p.reads) : \E b \in 1 .. Len(p.blocks) :
    /\ p.blocks[b].start < i /\ i <= p.blocks[b].stop
    /\ p.reads[i] \subseteq p.blocks[b].keys
HandedBack(p) ==
  \A c \in 1 .. Len(p.blocks) :
    /\ IsFiniteSet(p.release[c])
    /\ p.release[c] \subseteq p.blocks[c].keys
    /\ p.blocks[c].keys \subseteq DOMAIN p.weight
    /\ ~p.reread => \A b \in 1 .. Len(p.blocks) : p.blocks[b].keys \cap p.release[c] # {} => b <= c
    /\ ~p.reread => \A k \in p.blocks[c].keys : \E d \in 1 .. Len(p.blocks) : k \in p.release[d]
ClaimedAhead(p) ==
  /\ \A b \in 1 .. Len(p.blocks) :
       /\ p.claimedBy[b] \in 0 .. Len(p.admissions)
       /\ \A k \in p.blocks[b].keys : \E i \in 1 .. p.claimedBy[b] : p.admissions[i] = k
  /\ ~p.reread => \A i, j \in 1 .. Len(p.admissions) : p.admissions[i] = p.admissions[j] => i = j
OnlyKnownKeys(p) ==
  /\ p.cached \subseteq DOMAIN p.weight
  /\ \A i \in 1 .. Len(p.admissions) : p.admissions[i] \in DOMAIN p.weight
Coherent(p) ==
  Sized(p) /\ InOrder(p) /\ RowsAwaited(p) /\ HandedBack(p) /\ ClaimedAhead(p) /\ OnlyKnownKeys(p)

ConsumerPlaces == {"new", "getting", "yielded", "draining", "closing", "done"}
ProducerPlaces == {"none", "start", "batch", "wait", "gather", "release",
                   "put", "raise", "end", "dead"}
DriverPlaces == {"none", "permit", "claim", "parked", "done", "starved", "cancelled"}
Outcomes == {"open", "finished", "raised", "left"}
Items == [kind : {"batch", "error", "sentinel"}, rows : Nat \X Nat]

(* Every variable has the type of what it stands for in the code.          *)
TypeOK ==
  /\ consumer \in ConsumerPlaces
  /\ outcome \in Outcomes
  /\ received \in Seq(Nat \X Nat)
  /\ stop \in BOOLEAN
  /\ outq \in Seq(Items)
  /\ Len(outq) <= plan.depth
  /\ producer \in ProducerPlaces
  /\ start \in Nat
  /\ ready \in 0 .. NBlocksOf
  /\ freed \in 0 .. ready
  /\ driver \in DriverPlaces
  /\ claims \in 0 .. Len(plan.admissions)
  /\ permits \in Nat
  /\ returning \in Seq(Nat)
  /\ freshRoom \in BOOLEAN
  /\ slot \in [Keys -> SlotStates]
  /\ refs \in [Keys -> Nat]
  /\ onDisk \subseteq Keys
  /\ fetching \subseteq Keys
  /\ poolError \in BOOLEAN

Total(s) == SumOn(s, DOMAIN s)
InHand == IF driver \in {"claim", "parked"} THEN 1 ELSE 0
References == SumOn(refs, Keys)

(* No permit is lost or made: every one is free, in the driver's hand,     *)
(* spent on a reference, or on its way back (scheduler.py, unpin_block:    *)
(* "the two counts cannot drift").                                         *)
PermitsBalance ==
  ~plan.reread /\ driver # "starved" /\ consumer \notin {"closing", "done"} =>
    permits + InHand + References + Total(returning) = plan.bound

(* The batch about to be gathered finds every chunk its rows read in the   *)
(* pool and published, and a pass that shares the pool holds them too, so  *)
(* that nobody can evict them under its feet (source.py, produce).         *)
GatherIsSafe ==
  producer = "gather" =>
    \A i \in start + 1 .. StopRow : \A k \in plan.reads[i] :
      slot[k] = "ready" /\ (plan.reread \/ refs[k] > 0)

(* A pass that ends by itself has released all it waited for; what is left *)
(* to release_owner was claimed and never read (source.py, release).       *)
LeftoverIsUnread ==
  outcome = "finished" /\ ~plan.reread =>
    \A b \in 1 .. NBlocksOf : \A k \in plan.blocks[b].keys : refs[k] = 0

(* However a pass ends, it leaves no reference, no task and no unfinished  *)
(* or failed slot for the next one (source.py, the outer finally).         *)
NothingHeld ==
  consumer = "done" =>
    /\ producer = "dead"
    /\ driver \notin {"permit", "claim", "parked"}
    /\ fetching = {}
    /\ \A k \in Keys : refs[k] = 0 /\ slot[k] \in {"absent", "ready"}

(* The driver never gives up on its permits or on the budget.              *)
NeverStarved == driver # "starved"

(* What the two limits must leave room for: when the producer waits for    *)
(* block b, it has released the blocks its earlier batches drained, and    *)
(* the driver has to claim everything up to the end of b.                  *)
FirstBatchOf(b) == (plan.blocks[b].start \div plan.batchSize) * plan.batchSize
FreedFor(b) == {c \in 1 .. NBlocksOf : plan.blocks[c].stop <= FirstBatchOf(b)}
ReleasesOf(k, b) == Cardinality({c \in FreedFor(b) : k \in plan.release[c]})
ClaimsOf(k, b) == Cardinality({i \in 1 .. plan.claimedBy[b] : plan.admissions[i] = k})
HeldFor(b) == {k \in Keys : ClaimsOf(k, b) > ReleasesOf(k, b)}

HandedOver(blocks) == SumOn([c \in blocks |-> Cardinality(plan.release[c])], blocks)

PermitsSuffice ==
  \A b \in 1 .. NBlocksOf :
    plan.claimedBy[b] - HandedOver(FreedFor(b)) <= plan.bound
BudgetSuffices == \A b \in 1 .. NBlocksOf : Weight(HeldFor(b)) <= plan.budget

(* A verdict of starvation is only ever given on a plan whose limits are   *)
(* too small for it, never because of the order things happened in         *)
(* (scheduler.py, _starvation and _ahead_starvation: "provably").          *)
StarvedForCause == driver = "starved" => ~PermitsSuffice \/ ~BudgetSuffices

(* The caller is never left waiting: for the next batch or the end of the  *)
(* loop, or for the teardown (source.py, _iterate).                        *)
NoHang == consumer \in {"getting", "draining", "closing"} ~> consumer \in {"yielded", "done"}

(* Refinement: what the caller is given is the epoch, in order, whole or   *)
(* visibly cut short.                                                      *)
Stream == INSTANCE InOrderStream
            WITH total <- NRows, size <- plan.batchSize, stream <- received

ImplementsInOrderStream == Stream!StreamSpec
=============================================================================
