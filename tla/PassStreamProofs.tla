-------------------------- MODULE PassStreamProofs --------------------------
(***************************************************************************)
(* What a pass guarantees for every coherent plan: of any size, with any   *)
(* block order, read-ahead bound, byte budget and queue depth, whichever   *)
(* tiles and batches fail and whenever the caller leaves.                  *)
(*                                                                         *)
(* The last part is why a pass does not starve: the read-ahead permits are *)
(* a ledger of its claims, a plan that reads nothing twice references a    *)
(* chunk from its one claim to its one release, and the producer releases  *)
(* as early as it can.                                                     *)
(***************************************************************************)
EXTENDS PassStream, ReadPlanProofs

(* The plans of the model are checked to be so where they are made         *)
(* (EpochProperties, DriverPlansAwaited).                                  *)
CoherentPlans == \A p \in Plans : Coherent(p)

-----------------------------------------------------------------------------
(* The steps, and what they leave alone.                                   *)

(* The steps of one actor that leave the pool's slots and references alone. *)
ConsumerStep == Begin \/ Get \/ Resume \/ Leave \/ Drain
ThreadStep ==
  \/ StartDriver \/ NextBatch \/ BlockReady \/ BlockFails \/ BatchReady \/ Gather
  \/ TransformBatch \/ PutBatch \/ PutError \/ PutSentinel
LoopStep == TakePermit \/ Starve \/ DriverEnds \/ ReturnPermits
ClaimStep == PinReady \/ Revive \/ JoinResident \/ AdmitFresh

LEMMA StepCases ==
  ASSUME [Next]_vars
  PROVE  \/ UNCHANGED vars
         \/ ConsumerStep \/ ThreadStep \/ LoopStep \/ ClaimStep \/ Park
         \/ ReleaseBlock \/ CloseScheduler \/ ReleaseOwner
         \/ \E k \in Keys : TileArrives(k) \/ TileFails(k) \/ OtherPassEvicts(k)
BY DEF Next, ProducerStep, DriverStep, TileStep, TeardownStep,
   ConsumerStep, ThreadStep, LoopStep, ClaimStep

LEMMA PlanKept ==
  ASSUME [Next]_vars
  PROVE  plan' = plan
<1>1. CASE UNCHANGED vars
  BY <1>1 DEF vars
<1>2. CASE ConsumerStep
  BY <1>2 DEF ConsumerStep, Begin, Get, Resume, Leave, Drain
<1>3. CASE ThreadStep
  BY <1>3 DEF ThreadStep, StartDriver, NextBatch, BlockReady, BlockFails, BatchReady, Gather,
     TransformBatch, PutBatch, PutError, PutSentinel
<1>4. CASE LoopStep
  BY <1>4 DEF LoopStep, TakePermit, Starve, DriverEnds, ReturnPermits
<1>5. CASE ClaimStep
  BY <1>5 DEF ClaimStep, PinReady, Revive, JoinResident, AdmitFresh, Claimed
<1>6. CASE Park \/ ReleaseBlock \/ CloseScheduler \/ ReleaseOwner
  BY <1>6 DEF Park, ReleaseBlock, CloseScheduler, ReleaseOwner
<1>7. CASE \E k \in Keys : TileArrives(k) \/ TileFails(k) \/ OtherPassEvicts(k)
  BY <1>7 DEF TileArrives, TileFails, OtherPassEvicts
<1> QED
  BY <1>1, <1>2, <1>3, <1>4, <1>5, <1>6, <1>7, StepCases

(* Steps that leave the pool alone, but for its error.                     *)
LEMMA PoolLeftAlone ==
  ASSUME UNCHANGED vars \/ ConsumerStep \/ ThreadStep \/ LoopStep
  PROVE  UNCHANGED <<slot, refs, onDisk, fetching>>
<1> USE DEF pool
<1>1. CASE UNCHANGED vars
  BY <1>1 DEF vars
<1>2. CASE ConsumerStep
  BY <1>2 DEF ConsumerStep, Begin, Get, Resume, Leave, Drain
<1>3. CASE ThreadStep
  BY <1>3 DEF ThreadStep, StartDriver, NextBatch, BlockReady, BlockFails, BatchReady, Gather,
     TransformBatch, PutBatch, PutError, PutSentinel
<1>4. CASE LoopStep
  BY <1>4 DEF LoopStep, TakePermit, Starve, DriverEnds, ReturnPermits
<1> QED
  BY <1>1, <1>2, <1>3, <1>4

-----------------------------------------------------------------------------
(* Types.                                                                  *)

Callers ==
  /\ consumer \in ConsumerPlaces
  /\ outcome \in Outcomes
  /\ received \in Seq(Nat \X Nat)
  /\ stop \in BOOLEAN
  /\ outq \in Seq(Items)
  /\ Len(outq) <= plan.depth

Threads ==
  /\ producer \in ProducerPlaces
  /\ start \in Nat
  /\ ready \in 0 .. NBlocksOf
  /\ freed \in 0 .. NBlocksOf

Driving ==
  /\ driver \in DriverPlaces
  /\ driver \in {"claim", "parked"} => Unclaimed
  /\ claims \in 0 .. Len(plan.admissions)
  /\ permits \in Nat
  /\ returning \in Seq(Nat)
  /\ freshRoom \in BOOLEAN

Pooled ==
  /\ slot \in [Keys -> SlotStates]
  /\ refs \in [Keys -> Nat]
  /\ onDisk \subseteq Keys
  /\ fetching \subseteq Keys
  /\ poolError \in BOOLEAN

KnownPlan == plan \in Plans /\ Coherent(plan)
Typed == KnownPlan /\ Callers /\ Threads /\ Driving /\ Pooled

LEMMA Sizes ==
  ASSUME KnownPlan
  PROVE  /\ plan.batchSize \in Nat \ {0} /\ plan.depth \in Nat \ {0} /\ plan.bound \in Nat
         /\ NRows \in Nat /\ NBlocksOf \in Nat /\ Len(plan.admissions) \in Nat
BY DEF KnownPlan, Coherent, Sized, NRows, NBlocksOf

LEMMA StopRowIsNat ==
  ASSUME KnownPlan, start \in Nat
  PROVE  /\ StopRow \in Nat /\ StopRow <= NRows
         /\ StopRow <= start + plan.batchSize /\ start + plan.batchSize \in Nat
         /\ start < NRows => start < StopRow
         /\ StopRow = start + plan.batchSize \/ StopRow = NRows
BY Sizes DEF StopRow, Lesser

LEMMA InitTyped == ASSUME CoherentPlans, Init PROVE Typed
<1>1. KnownPlan
  BY DEF Init, KnownPlan, CoherentPlans
<1>2. Callers
  <2>1. Len(outq) = 0 /\ plan.depth \in Nat
    BY <1>1, Sizes DEF Init
  <2>2. received = <<>> /\ outq = <<>>
    BY DEF Init
  <2>4. received \in Seq(Nat \X Nat)
    BY <2>2
  <2>5. outq \in Seq(Items)
    BY <2>2
  <2>3. consumer \in ConsumerPlaces /\ outcome \in Outcomes /\ stop \in BOOLEAN
    BY DEF Init, ConsumerPlaces, Outcomes
  <2> QED
    BY <2>1, <2>3, <2>4, <2>5 DEF Callers
<1>3. Threads
  BY <1>1, Sizes DEF Init, Threads, ProducerPlaces
<1>4. Driving
  <2>1. claims \in 0 .. Len(plan.admissions) /\ permits \in Nat
    BY <1>1, Sizes DEF Init
  <2>2. driver \in DriverPlaces /\ freshRoom \in BOOLEAN /\ driver \notin {"claim", "parked"}
    BY DEF Init, DriverPlaces
  <2>3. returning \in Seq(Nat)
    BY DEF Init
  <2> QED
    BY <2>1, <2>2, <2>3 DEF Driving
<1>5. plan.cached \subseteq Keys
  BY <1>1 DEF KnownPlan, Coherent, OnlyKnownKeys, Keys
<1>6. Pooled
  BY <1>5 DEF Init, Pooled, SlotStates
<1> QED
  BY <1>1, <1>2, <1>3, <1>4, <1>6 DEF Typed

LEMMA ItemTypes ==
  ASSUME KnownPlan, start \in Nat
  PROVE  BatchItem \in Items /\ ErrorItem \in Items /\ Sentinel \in Items
<1>1. <<start, StopRow>> \in Nat \X Nat /\ <<0, 0>> \in Nat \X Nat
  BY StopRowIsNat
<1> QED
  BY <1>1 DEF BatchItem, ErrorItem, Sentinel, Items

LEMMA CallersStep ==
  ASSUME Typed, [Next]_vars
  PROVE  Callers'
<1> USE DEF Callers, caller, queue, ConsumerPlaces, Outcomes
<1>0. plan' = plan /\ KnownPlan /\ Callers /\ start \in Nat
  BY PlanKept DEF Typed, Threads
<1>1. CASE UNCHANGED <<caller, queue>>
  BY <1>0, <1>1
<1>2. CASE Begin \/ Resume \/ Leave
  BY <1>0, <1>2 DEF Begin, Resume, Leave, EndLoop
<1>3. CASE Get
  <2>1. outq # <<>> /\ outq \in Seq(Items)
    BY <1>0, <1>3 DEF Get
  <2>2. Head(outq) \in Items /\ Tail(outq) \in Seq(Items) /\ Len(Tail(outq)) = Len(outq) - 1
    BY <2>1
  <2>3. Head(outq).rows \in Nat \X Nat
    BY <2>2 DEF Items
  <2>4. Append(received, Head(outq).rows) \in Seq(Nat \X Nat)
    BY <1>0, <2>3
  <2>5. outq' = Tail(outq) /\ Len(outq) \in Nat /\ plan.depth \in Nat
    BY <1>0, <1>3, Sizes DEF Get
  <2>6. outq' \in Seq(Items) /\ Len(outq') <= plan'.depth
    BY <1>0, <2>2, <2>5
  <2>7. /\ consumer' \in {"yielded", "draining"}
        /\ outcome' \in Outcomes /\ stop' \in BOOLEAN
    BY <1>0, <1>3, <2>2 DEF Get, EndLoop, Items
  <2>8. received' \in Seq(Nat \X Nat)
    BY <1>0, <1>3, <2>2, <2>4 DEF Get, Items
  <2> QED
    BY <2>6, <2>7, <2>8
<1>4. CASE Drain
  <2>1. outq' = Tail(outq) /\ outq # <<>> /\ Len(outq) \in Nat /\ plan.depth \in Nat
    BY <1>0, <1>4, Sizes DEF Drain
  <2>2. Tail(outq) \in Seq(Items) /\ Len(Tail(outq)) = Len(outq) - 1
    BY <1>0, <2>1
  <2>3. UNCHANGED <<consumer, outcome, received, stop>>
    BY <1>4 DEF Drain
  <2> QED
    BY <1>0, <2>1, <2>2, <2>3
<1>5. CASE PutBatch \/ PutError \/ PutSentinel
  <2>1. PICK item \in Items : outq' = Append(outq, item)
    BY <1>0, <1>5, ItemTypes DEF PutBatch, PutError, PutSentinel
  <2>2. Len(outq) < plan.depth /\ Len(outq) \in Nat /\ plan.depth \in Nat
    BY <1>0, <1>5, Sizes DEF PutBatch, PutError, PutSentinel, QueueHasRoom
  <2>3. UNCHANGED <<consumer, outcome, received, stop>>
    BY <1>5 DEF PutBatch, PutError, PutSentinel
  <2> QED
    BY <1>0, <2>1, <2>2, <2>3
<1>6. CASE CloseScheduler \/ ReleaseOwner
  BY <1>0, <1>6 DEF CloseScheduler, ReleaseOwner
<1>7. CASE ThreadStep /\ ~(PutBatch \/ PutError \/ PutSentinel)
  BY <1>1, <1>7 DEF ThreadStep, StartDriver, NextBatch, BlockReady, BlockFails, BatchReady, Gather,
     TransformBatch
<1>8. CASE LoopStep
  BY <1>1, <1>8 DEF LoopStep, TakePermit, Starve, DriverEnds, ReturnPermits
<1>9. CASE ClaimStep \/ Park \/ ReleaseBlock
  BY <1>1, <1>9 DEF ClaimStep, PinReady, Revive, JoinResident, AdmitFresh, Claimed, Park, ReleaseBlock
<1>10. CASE \E k \in Keys : TileArrives(k) \/ TileFails(k) \/ OtherPassEvicts(k)
  BY <1>1, <1>10 DEF TileArrives, TileFails, OtherPassEvicts
<1>11. CASE UNCHANGED vars
  BY <1>1, <1>11 DEF vars
<1>12. ConsumerStep => Begin \/ Get \/ Resume \/ Leave \/ Drain
  BY DEF ConsumerStep
<1> QED
  BY <1>2, <1>3, <1>4, <1>5, <1>6, <1>7, <1>8, <1>9, <1>10, <1>11, <1>12, StepCases

LEMMA ThreadsStep ==
  ASSUME Typed, [Next]_vars
  PROVE  Threads'
<1> USE DEF Threads, thread, ProducerPlaces, NBlocksOf
<1>0. plan' = plan /\ KnownPlan /\ Threads /\ NBlocksOf \in Nat /\ start + plan.batchSize \in Nat
  BY PlanKept, Sizes, StopRowIsNat DEF Typed
<1>1. CASE UNCHANGED thread
  BY <1>0, <1>1
<1>2. CASE ThreadStep
  BY <1>0, <1>2 DEF ThreadStep, StartDriver, NextBatch, BlockReady, BlockFails, BatchReady, Gather,
     TransformBatch, PutBatch, PutError, PutSentinel, NeedsBlock
<1>3. CASE ReleaseBlock
  BY <1>0, <1>3 DEF ReleaseBlock, Drained
<1>4. CASE Begin
  BY <1>0, <1>4 DEF Begin
<1>5. CASE ConsumerStep /\ ~Begin
  BY <1>1, <1>5 DEF ConsumerStep, Get, Resume, Leave, Drain
<1>6. CASE LoopStep
  BY <1>1, <1>6 DEF LoopStep, TakePermit, Starve, DriverEnds, ReturnPermits
<1>7. CASE ClaimStep \/ Park
  BY <1>1, <1>7 DEF ClaimStep, PinReady, Revive, JoinResident, AdmitFresh, Claimed, Park
<1>8. CASE CloseScheduler \/ ReleaseOwner
  BY <1>1, <1>8 DEF CloseScheduler, ReleaseOwner
<1>9. CASE \E k \in Keys : TileArrives(k) \/ TileFails(k) \/ OtherPassEvicts(k)
  BY <1>1, <1>9 DEF TileArrives, TileFails, OtherPassEvicts
<1>10. CASE UNCHANGED vars
  BY <1>1, <1>10 DEF vars
<1> QED
  BY <1>2, <1>3, <1>4, <1>5, <1>6, <1>7, <1>8, <1>9, <1>10, StepCases

LEMMA GetEffect ==
  ASSUME Typed, Get
  PROVE  /\ consumer = "getting" /\ outq # <<>> /\ outq' = Tail(outq) /\ Head(outq) \in Items
         /\ \/ /\ Head(outq).kind = "batch"
               /\ consumer' = "yielded" /\ received' = Append(received, Head(outq).rows)
               /\ UNCHANGED <<outcome, stop>>
            \/ /\ Head(outq).kind = "error" /\ EndLoop("raised") /\ UNCHANGED received
            \/ /\ Head(outq).kind = "sentinel" /\ EndLoop("finished") /\ UNCHANGED received
<1>1. Head(outq) \in Items
  BY DEF Get, Typed, Callers
<1>2. Head(outq).kind \in {"batch", "error", "sentinel"}
  BY <1>1 DEF Items
<1> QED
  BY <1>1, <1>2 DEF Get

LEMMA ReleasedKeys ==
  ASSUME Typed, NEW c \in 1 .. NBlocksOf
  PROVE  /\ IsFiniteSet(plan.release[c]) /\ Cardinality(plan.release[c]) \in Nat
         /\ plan.release[c] \subseteq plan.blocks[c].keys
         /\ plan.blocks[c].keys \subseteq Keys
BY FS_CardinalityType DEF Typed, KnownPlan, Coherent, HandedBack, Keys, NBlocksOf

LEMMA DrivingStep ==
  ASSUME Typed, [Next]_vars
  PROVE  Driving'
<1> USE DEF Driving, drive, permit, DriverPlaces, Unclaimed
<1>0. plan' = plan /\ KnownPlan /\ Driving /\ Len(plan.admissions) \in Nat
  BY PlanKept, Sizes DEF Typed
<1>1. CASE UNCHANGED <<drive, permit, freshRoom>>
  BY <1>0, <1>1
<1>2. CASE LoopStep
  <2>1. CASE TakePermit \/ Starve \/ DriverEnds
    BY <1>0, <2>1 DEF TakePermit, Starve, DriverEnds
  <2>2. CASE ReturnPermits
    <3>1. returning # <<>> /\ returning \in Seq(Nat)
      BY <1>0, <2>2 DEF ReturnPermits
    <3>2. Head(returning) \in Nat /\ Tail(returning) \in Seq(Nat)
      BY <3>1
    <3> QED
      BY <1>0, <2>2, <3>2 DEF ReturnPermits
  <2> QED
    BY <1>2, <2>1, <2>2 DEF LoopStep
<1>3. CASE ClaimStep
  <2>1. claims < Len(plan.admissions) => claims + 1 \in 0 .. Len(plan.admissions)
    BY <1>0
  <2>2. claims' = claims + 1 /\ driver' = "permit" /\ UNCHANGED <<permit, freshRoom>>
    BY <1>3 DEF ClaimStep, PinReady, Revive, JoinResident, AdmitFresh, Claimed
  <2>3. driver \in {"claim", "parked"}
    BY <1>3 DEF ClaimStep, PinReady, Revive, JoinResident, AdmitFresh, Missed
  <2> QED
    BY <1>0, <2>1, <2>2, <2>3
<1>4. CASE Park \/ CloseScheduler
  BY <1>0, <1>4 DEF Park, CloseScheduler, Missed
<1>5. CASE ReleaseBlock
  <2>1. freed + 1 \in 1 .. NBlocksOf
    BY <1>5, Sizes DEF Typed, Threads, ReleaseBlock, Drained
  <2>2. Append(returning, Cardinality(plan.release[freed + 1])) \in Seq(Nat)
    BY <1>0, <2>1, ReleasedKeys
  <2> QED
    BY <1>0, <1>5, <2>2 DEF ReleaseBlock
<1>6. CASE ThreadStep
  BY <1>0, <1>6 DEF ThreadStep, StartDriver, NextBatch, BlockReady, BlockFails, BatchReady, Gather,
     TransformBatch, PutBatch, PutError, PutSentinel
<1>7. CASE ConsumerStep \/ ReleaseOwner
  BY <1>1, <1>7 DEF ConsumerStep, Begin, Get, Resume, Leave, Drain, ReleaseOwner
<1>8. CASE \E k \in Keys : TileArrives(k) \/ TileFails(k) \/ OtherPassEvicts(k)
  BY <1>1, <1>8 DEF TileArrives, TileFails, OtherPassEvicts
<1>9. CASE UNCHANGED vars
  BY <1>1, <1>9 DEF vars
<1> QED
  BY <1>2, <1>3, <1>4, <1>5, <1>6, <1>7, <1>8, <1>9, StepCases

LEMMA KeyIsKey ==
  ASSUME Typed, driver \in {"claim", "parked"}
  PROVE  Key \in Keys
<1>1. claims + 1 \in 1 .. Len(plan.admissions)
  BY DEF Typed, Driving, Unclaimed, KnownPlan, Coherent, Sized
<1> QED
  BY <1>1 DEF Typed, KnownPlan, Coherent, OnlyKnownKeys, Key, Keys

(* A claim adds a reference to one key and leaves the others be, but for   *)
(* evictions; the other steps on slots touch one key, or take some away.   *)
ClaimOf(k, V) ==
  /\ V \subseteq Evictable
  /\ refs' = [refs EXCEPT ![k] = @ + 1]
  /\ \/ slot' = slot /\ slot[k] = "ready" /\ fetching' = fetching
     \/ slot' = slot /\ Present(k) /\ (driver = "claim" => slot[k] # "ready") /\ fetching' = fetching \cup {k}
     \/ ~Present(k) /\ slot' = [Evicted(V) EXCEPT ![k] = "ready"] /\ fetching' = fetching
     \/ ~Present(k) /\ slot' = [Evicted(V) EXCEPT ![k] = "filling"] /\ fetching' = fetching \cup {k}

LEMMA ClaimEffect ==
  ASSUME Typed, ClaimStep
  PROVE  /\ driver \in {"claim", "parked"} /\ Key \in Keys /\ driver' = "permit"
         /\ onDisk' = onDisk /\ poolError' = poolError
         /\ \E V : ClaimOf(Key, V)
<1>1. driver \in {"claim", "parked"}
  BY DEF ClaimStep, PinReady, Revive, JoinResident, AdmitFresh, Missed
<1>2. onDisk' = onDisk /\ poolError' = poolError /\ driver' = "permit"
  BY DEF ClaimStep, PinReady, Revive, JoinResident, AdmitFresh, Claimed
<1>3. CASE PinReady
  <2>1. ClaimOf(Key, {})
    BY <1>3 DEF PinReady, Reference, ClaimOf
  <2> QED
    BY <1>1, <1>2, <2>1, KeyIsKey
<1>4. CASE JoinResident
  <2>1. ClaimOf(Key, {})
    BY <1>4 DEF JoinResident, Missed, Fetch, Reference, ClaimOf
  <2> QED
    BY <1>1, <1>2, <2>1, KeyIsKey
<1>5. CASE Revive
  <2>1. PICK V \in Victims(Key) : slot' = [Evicted(V) EXCEPT ![Key] = "ready"]
    BY <1>5 DEF Revive
  <2>2. V \subseteq Evictable
    BY <2>1 DEF Victims
  <2> QED
    BY <1>1, <1>2, <1>5, <2>1, <2>2, KeyIsKey DEF Revive, Reference, ClaimOf
<1>6. CASE AdmitFresh
  <2>1. PICK V \in Victims(Key) : slot' = [Evicted(V) EXCEPT ![Key] = "filling"]
    BY <1>6 DEF AdmitFresh
  <2>2. V \subseteq Evictable
    BY <2>1 DEF Victims
  <2> QED
    BY <1>1, <1>2, <1>6, <2>1, <2>2, KeyIsKey DEF AdmitFresh, Fetch, Reference, ClaimOf
<1> QED
  BY <1>3, <1>4, <1>5, <1>6 DEF ClaimStep

LEMMA EvictedIsTyped ==
  ASSUME Typed, NEW V
  PROVE  Evicted(V) \in [Keys -> SlotStates]
BY DEF Typed, Pooled, Evicted, SlotStates

LEMMA PooledStep ==
  ASSUME Typed, [Next]_vars
  PROVE  Pooled'
<1> USE DEF Pooled, pool
<1>0. plan' = plan /\ Keys' = Keys /\ Pooled
  BY PlanKept DEF Typed, Keys
<1>1. CASE UNCHANGED vars \/ ConsumerStep \/ ThreadStep \/ LoopStep
  <2>1. poolError' \in BOOLEAN
    BY <1>0, <1>1 DEF vars, ConsumerStep, Begin, Get, Resume, Leave, Drain, ThreadStep, StartDriver,
       NextBatch, BlockReady, BlockFails, BatchReady, Gather, TransformBatch, PutBatch, PutError,
       PutSentinel, LoopStep, TakePermit, Starve, DriverEnds, ReturnPermits
  <2>2. UNCHANGED <<slot, refs, onDisk, fetching>>
    BY <1>1, PoolLeftAlone
  <2> QED
    BY <1>0, <2>1, <2>2
<1>2. CASE ClaimStep
  <2>1. PICK V : ClaimOf(Key, V)
    BY <1>2, ClaimEffect
  <2>2. Key \in Keys /\ onDisk' = onDisk /\ poolError' = poolError
    BY <1>2, ClaimEffect
  <2>3. slot' \in [Keys -> SlotStates]
    BY <1>0, <2>1, <2>2, EvictedIsTyped DEF ClaimOf, SlotStates
  <2>4. refs' \in [Keys -> Nat] /\ fetching' \subseteq Keys
    BY <1>0, <2>1, <2>2 DEF ClaimOf
  <2> QED
    BY <1>0, <2>2, <2>3, <2>4
<1>3. CASE Park
  BY <1>0, <1>3, EvictedIsTyped DEF Park
<1>4. CASE ReleaseBlock
  <2>1. refs' \in [Keys -> Nat]
    BY <1>0, <1>4 DEF ReleaseBlock, Unpinned
  <2> QED
    BY <1>0, <1>4, <2>1 DEF ReleaseBlock
<1>5. CASE CloseScheduler
  BY <1>0, <1>5 DEF CloseScheduler
<1>6. CASE ReleaseOwner
  BY <1>0, <1>6 DEF ReleaseOwner, SlotStates
<1>7. ASSUME NEW k \in Keys, TileArrives(k)
      PROVE  Pooled'
  BY <1>0, <1>7 DEF TileArrives, SlotStates
<1>8. ASSUME NEW k \in Keys, TileFails(k) \/ OtherPassEvicts(k)
      PROVE  Pooled'
  BY <1>0, <1>8 DEF TileFails, OtherPassEvicts, SlotStates
<1> QED
  BY <1>1, <1>2, <1>3, <1>4, <1>5, <1>6, <1>7, <1>8, StepCases

LEMMA TypedStep ==
  ASSUME Typed, [Next]_vars
  PROVE  Typed'
<1>1. KnownPlan'
  BY PlanKept DEF Typed, KnownPlan
<1> QED
  BY <1>1, CallersStep, ThreadsStep, DrivingStep, PooledStep DEF Typed

-----------------------------------------------------------------------------
(* What has ended has let go.                                              *)

Ended ==
  /\ consumer = "new" => producer = "none"
  /\ consumer \in {"closing", "done"} =>
       producer = "dead" /\ driver \notin {"permit", "claim", "parked"} /\ fetching = {}
  /\ consumer = "done" =>
       \A k \in Keys : refs[k] = 0 /\ slot[k] \in {"absent", "ready"}

LEMMA EndedStep ==
  ASSUME Typed, Ended, [Next]_vars
  PROVE  Ended'
<1>0. Keys' = Keys
  BY PlanKept DEF Keys
<1>1. CASE UNCHANGED vars
  BY <1>1 DEF vars, caller, thread, drive, pool, Ended, Keys
<1>2. CASE ConsumerStep
  <2>1. consumer' \notin {"new", "closing", "done"} \/ UNCHANGED <<consumer, producer, driver>>
    BY <1>2, GetEffect DEF ConsumerStep, Begin, EndLoop, Resume, Leave, Drain, caller, thread, drive
  <2>2. UNCHANGED <<slot, refs, fetching>>
    BY <1>2, PoolLeftAlone
  <2> QED
    BY <1>0, <2>1, <2>2 DEF Ended
<1>3. CASE ThreadStep \/ ReleaseBlock
  <2>1. consumer' = consumer /\ producer \notin {"dead", "none"}
    BY <1>3 DEF ThreadStep, StartDriver, NextBatch, BlockReady, BlockFails, BatchReady, Gather,
       TransformBatch, PutBatch, PutError, PutSentinel, ReleaseBlock, caller
  <2> QED
    BY <2>1 DEF Ended
<1>4. CASE LoopStep
  <2>1. UNCHANGED <<slot, refs, fetching>>
    BY <1>4, PoolLeftAlone
  <2>2. /\ UNCHANGED <<consumer, producer>>
        /\ driver' = driver \/ driver \in {"permit", "parked"}
    BY <1>4 DEF LoopStep, TakePermit, Starve, DriverEnds, ReturnPermits, caller, thread, drive
  <2> QED
    BY <1>0, <2>1, <2>2 DEF Ended
<1>5. CASE ClaimStep \/ Park
  <2>1. UNCHANGED <<consumer, producer>> /\ driver \in {"claim", "parked"}
    BY <1>5 DEF ClaimStep, PinReady, Revive, JoinResident, AdmitFresh, Claimed, Missed, Park, caller, thread
  <2> QED
    BY <2>1 DEF Ended
<1>6. CASE CloseScheduler
  BY <1>6 DEF CloseScheduler, thread, Ended
<1>7. CASE ReleaseOwner
  <2>1. /\ UNCHANGED <<producer, driver, fetching>> /\ consumer = "closing" /\ consumer' = "done"
        /\ \A k \in Keys : refs'[k] = 0 /\ slot'[k] \in {"absent", "ready"}
    BY <1>7 DEF ReleaseOwner, thread, drive, SurvivesPass
  <2> QED
    BY <1>0, <2>1 DEF Ended
<1>8. ASSUME NEW k \in Keys, TileArrives(k) \/ TileFails(k)
      PROVE  Ended'
  <2>1. UNCHANGED <<consumer, producer>> /\ fetching # {}
    BY <1>8 DEF TileArrives, TileFails, caller, thread
  <2> QED
    BY <2>1 DEF Ended
<1>9. ASSUME NEW k \in Keys, OtherPassEvicts(k)
      PROVE  Ended'
  <2>1. UNCHANGED <<consumer, producer, driver, refs, fetching>>
    BY <1>9 DEF OtherPassEvicts, caller, thread, drive
  <2>2. slot' = [slot EXCEPT ![k] = "absent"] /\ slot \in [Keys -> SlotStates]
    BY <1>9 DEF OtherPassEvicts, Typed, Pooled
  <2> QED
    BY <1>0, <2>1, <2>2 DEF Ended
<1> QED
  BY <1>1, <1>2, <1>3, <1>4, <1>5, <1>6, <1>7, <1>8, <1>9, StepCases

-----------------------------------------------------------------------------
(* What the producer holds.                                                *)

(* A tile task's slot is not published, but for a slot that failed it is   *)
(* the one the claim made; a parked claim's slot is not there.             *)
InFlight ==
  /\ \A k \in fetching : slot[k] \in {"filling", "failed"}
  /\ driver = "parked" => ~Present(Key)

Behind(k) == \E c \in 1 .. freed : k \in plan.release[c]

(* What was waited for and not yet released stays.                         *)
Retained ==
  producer # "dead" =>
    \A b \in 1 .. ready : \A k \in plan.blocks[b].keys :
      Behind(k) \/ (slot[k] = "ready" /\ refs[k] > 0)

(* Blocks are released behind the batch, and waited for up to its end.     *)
Frontiers ==
  /\ producer \in {"none", "start", "batch", "wait", "gather"} =>
       \A c \in 1 .. freed : plan.blocks[c].stop <= start
  /\ producer \in {"release", "put"} =>
       \A c \in 1 .. freed : plan.blocks[c].stop <= StopRow
  /\ producer \in {"gather", "release"} => ~NeedsBlock
  /\ producer \in {"wait", "gather", "release", "put", "raise"} => start < NRows
  /\ freed <= ready

LEMMA InFlightStep ==
  ASSUME Typed, Ended, InFlight, [Next]_vars
  PROVE  InFlight'
<1>0. Pooled /\ plan' = plan
  BY PlanKept DEF Typed
<1>a. Key' = Key \/ claims' # claims
  BY <1>0 DEF Key
<1>1. ASSUME UNCHANGED <<slot, fetching, claims>>, driver' = driver \/ driver' # "parked"
      PROVE  InFlight'
  BY <1>1, <1>a DEF InFlight, Present
<1>2. CASE UNCHANGED vars \/ ConsumerStep \/ ThreadStep \/ LoopStep
  <2>1. UNCHANGED <<slot, fetching>>
    BY <1>2, PoolLeftAlone
  <2>2. claims' = claims /\ (driver' = driver \/ driver' # "parked")
    BY <1>2 DEF vars, drive, ConsumerStep, Begin, Get, Resume, Leave, Drain, ThreadStep, StartDriver,
       NextBatch, BlockReady, BlockFails, BatchReady, Gather, TransformBatch, PutBatch, PutError,
       PutSentinel, LoopStep, TakePermit, Starve, DriverEnds, ReturnPermits
  <2> QED
    BY <1>1, <2>1, <2>2
<1>3. CASE ClaimStep
  <2>1. PICK V : ClaimOf(Key, V)
    BY <1>3, ClaimEffect
  <2>2. driver \in {"claim", "parked"} /\ Key \in Keys /\ driver' = "permit"
    BY <1>3, ClaimEffect
  <2>3. \A k \in fetching : k \in Keys /\ k \notin V /\ Present(k)
    BY <1>0, <2>1 DEF ClaimOf, Evictable, Pooled, InFlight, Present
  <2>4. \A k \in fetching' : slot'[k] \in {"filling", "failed"}
    BY <1>0, <2>1, <2>2, <2>3 DEF ClaimOf, Evicted, Pooled, InFlight, Present, SlotStates
  <2> QED
    BY <2>2, <2>4 DEF InFlight
<1>4. CASE Park
  <2>1. slot' = Evicted(Evictable) /\ fetching' = fetching /\ claims' = claims /\ ~Present(Key)
    BY <1>4 DEF Park, thread
  <2>2. \A k \in fetching : slot'[k] = slot[k]
    BY <1>0, <2>1 DEF Evicted, Evictable, Pooled, InFlight
  <2>3. Key \in Keys
    BY <1>4, KeyIsKey DEF Park, Missed
  <2>4. slot'[Key] = "absent"
    BY <2>1, <2>3 DEF Evicted, Present
  <2> QED
    BY <1>a, <2>1, <2>2, <2>4 DEF InFlight, Present
<1>5. CASE ReleaseBlock
  BY <1>1, <1>5 DEF ReleaseBlock, drive
<1>6. CASE CloseScheduler
  BY <1>6 DEF CloseScheduler, InFlight
<1>7. CASE ReleaseOwner
  <2>1. fetching = {} /\ driver # "parked"
    BY <1>7 DEF ReleaseOwner, Ended
  <2> QED
    BY <1>7, <2>1 DEF ReleaseOwner, InFlight, drive
<1>8. ASSUME NEW k \in Keys, TileArrives(k) \/ TileFails(k) \/ OtherPassEvicts(k)
      PROVE  InFlight'
  <2>1. UNCHANGED <<driver, claims>>
    BY <1>8 DEF TileArrives, TileFails, OtherPassEvicts, drive
  <2>2. \A j \in fetching' : j \in fetching /\ (slot'[j] = slot[j] \/ slot'[j] = "failed")
    BY <1>0, <1>8 DEF TileArrives, TileFails, OtherPassEvicts, Evictable, InFlight, Pooled
  <2>3. driver = "parked" => slot'[Key] = "absent"
    BY <1>0, <1>8, KeyIsKey DEF TileArrives, TileFails, OtherPassEvicts, InFlight, Pooled, Present
  <2> QED
    BY <1>a, <2>1, <2>2, <2>3 DEF InFlight, Present
<1> QED
  BY <1>2, <1>3, <1>4, <1>5, <1>6, <1>7, <1>8, StepCases

LEMMA RetainedStep ==
  ASSUME Typed, Ended, InFlight, Frontiers, Retained, [Next]_vars
  PROVE  Retained'
<1>a. /\ Pooled /\ plan' = plan /\ NBlocksOf \in Nat /\ ready \in 0 .. NBlocksOf
      /\ freed \in 0 .. NBlocksOf
  BY PlanKept, Sizes DEF Typed, Threads
<1>b. \A b \in 1 .. ready : b \in 1 .. NBlocksOf
  BY <1>a
<1>0. /\ Pooled /\ plan' = plan /\ NBlocksOf \in Nat /\ ready \in 0 .. NBlocksOf /\ freed \in Nat
      /\ \A b \in 1 .. ready : plan.blocks[b].keys \subseteq Keys
  BY <1>a, <1>b, ReleasedKeys
<1>1. ASSUME UNCHANGED <<ready, freed>>, producer' = "dead" \/ producer # "dead",
             \A k \in Keys : slot[k] = "ready" /\ refs[k] > 0 => slot'[k] = "ready" /\ refs'[k] > 0
      PROVE  Retained'
  BY <1>0, <1>1 DEF Retained, Behind
<1>2. CASE UNCHANGED vars \/ ConsumerStep \/ LoopStep \/ (ThreadStep /\ ~BlockReady)
  <2>1. UNCHANGED <<slot, refs>>
    BY <1>2, PoolLeftAlone
  <2>2. UNCHANGED <<ready, freed>>
    BY <1>2 DEF vars, thread, ConsumerStep, Begin, Get, Resume, Leave, Drain, LoopStep, TakePermit,
       Starve, DriverEnds, ReturnPermits, ThreadStep, StartDriver, NextBatch, BlockFails, BatchReady,
       Gather, TransformBatch, PutBatch, PutError, PutSentinel
  <2>3. CASE producer' = "dead" \/ producer # "dead"
    BY <1>1, <2>1, <2>2, <2>3
  <2>4. CASE producer = "dead" /\ producer' # "dead"
    <3>1. Begin
      BY <1>2, <2>4 DEF vars, thread, ConsumerStep, Get, Resume, Leave, Drain, LoopStep, TakePermit,
         Starve, DriverEnds, ReturnPermits, ThreadStep, StartDriver, NextBatch, BlockFails, BatchReady,
         Gather, TransformBatch, PutBatch, PutError, PutSentinel
    <3> QED
      BY <2>4, <3>1 DEF Begin, Ended
  <2> QED
    BY <2>3, <2>4
<1>3. CASE BlockReady
  <2>1. ready' = ready + 1 /\ freed' = freed /\ UNCHANGED <<slot, refs>>
    BY <1>3 DEF BlockReady, pool
  <2>2. \A k \in plan.blocks[ready + 1].keys : slot[k] = "ready" /\ refs[k] > 0
    BY <1>3 DEF BlockReady, Awaited
  <2>3. producer # "dead"
    BY <1>3 DEF BlockReady
  <2>4. \A b \in 1 .. ready' : b \in 1 .. ready \/ b = ready + 1
    BY <1>0, <2>1
  <2> QED
    BY <1>0, <2>1, <2>2, <2>3, <2>4 DEF Retained, Behind
<1>4. CASE ClaimStep
  <2>1. PICK V : ClaimOf(Key, V)
    BY <1>4, ClaimEffect
  <2>2. Key \in Keys /\ UNCHANGED <<ready, freed, producer>>
    BY <1>4, ClaimEffect DEF ClaimStep, PinReady, Revive, JoinResident, AdmitFresh, Claimed, thread
  <2>3. ASSUME NEW k \in Keys, slot[k] = "ready", refs[k] > 0
        PROVE  slot'[k] = "ready" /\ refs'[k] > 0
    <3>1. k \notin V
      BY <2>1, <2>3 DEF ClaimOf, Evictable
    <3>2. slot'[k] = "ready"
      BY <1>0, <2>1, <2>2, <2>3, <3>1 DEF ClaimOf, Evicted, Pooled, Present
    <3>3. refs'[k] > 0
      BY <1>0, <2>1, <2>2, <2>3 DEF ClaimOf, Pooled
    <3> QED
      BY <3>2, <3>3
  <2> QED
    BY <1>1, <2>2, <2>3
<1>5. CASE Park
  <2>1. slot' = Evicted(Evictable) /\ UNCHANGED <<refs, ready, freed, producer>>
    BY <1>5 DEF Park, thread
  <2>2. \A k \in Keys : slot[k] = "ready" /\ refs[k] > 0 => slot'[k] = "ready"
    BY <1>0, <2>1 DEF Evicted, Evictable, Pooled
  <2> QED
    BY <1>1, <2>1, <2>2
<1>6. CASE ReleaseBlock
  <2>1. /\ slot' = slot /\ ready' = ready /\ freed' = freed + 1 /\ producer # "dead"
        /\ refs' = Unpinned(plan.release[freed + 1])
    BY <1>6 DEF ReleaseBlock
  <2>2. \A k \in Keys : k \in plan.release[freed + 1] \/ refs'[k] = refs[k]
    BY <1>0, <2>1 DEF Unpinned, Pooled
  <2>3. \A k : Behind(k) \/ k \in plan.release[freed + 1] => Behind(k)'
    BY <1>0, <2>1 DEF Behind
  <2> QED
    BY <1>0, <2>1, <2>2, <2>3 DEF Retained
<1>7. CASE CloseScheduler \/ ReleaseOwner
  <2>1. producer = "dead" /\ producer' = "dead"
    BY <1>7 DEF CloseScheduler, ReleaseOwner, Ended, thread
  <2> QED
    BY <2>1 DEF Retained
<1>8. ASSUME NEW j \in Keys, TileArrives(j) \/ TileFails(j) \/ OtherPassEvicts(j)
      PROVE  Retained'
  <2>1. UNCHANGED <<refs, ready, freed, producer>>
    BY <1>8 DEF TileArrives, TileFails, OtherPassEvicts, thread
  <2>2. \A k \in Keys : slot[k] = "ready" /\ refs[k] > 0 => slot'[k] = "ready"
    BY <1>0, <1>8 DEF TileArrives, TileFails, OtherPassEvicts, Evictable, InFlight, Pooled
  <2> QED
    BY <1>1, <2>1, <2>2
<1> QED
  BY <1>2, <1>3, <1>4, <1>5, <1>6, <1>7, <1>8, StepCases

LEMMA FrontiersStep ==
  ASSUME Typed, Ended, Frontiers, [Next]_vars
  PROVE  Frontiers'
<1>0. /\ plan' = plan /\ NBlocksOf \in Nat /\ ready \in 0 .. NBlocksOf /\ freed \in 0 .. NBlocksOf
      /\ start \in Nat /\ InOrder(plan)
  BY PlanKept, Sizes DEF Typed, Threads, KnownPlan, Coherent
<1>1. UNCHANGED <<start, ready>> => StopRow' = StopRow /\ NeedsBlock' = NeedsBlock
  BY <1>0 DEF StopRow, NeedsBlock, NRows, NBlocksOf
<1>2. CASE UNCHANGED thread
  <2>1. UNCHANGED <<producer, start, ready, freed>>
    BY <1>2 DEF thread
  <2> QED
    BY <1>0, <1>1, <2>1 DEF Frontiers, NRows
<1> DEFINE Moves(from, to) == producer = from /\ producer' = to /\ UNCHANGED <<start, ready, freed>>
<1>3. \/ Moves("start", "batch") \/ Moves("batch", "end") \/ Moves("wait", "raise")
      \/ Moves("release", "put") \/ Moves("release", "raise") \/ Moves("raise", "end")
      \/ Moves("end", "dead") \/ Moves("none", "start")
      \/ (Moves("batch", "wait") /\ start < NRows)
      \/ (Moves("wait", "gather") /\ ~NeedsBlock)
      => Frontiers'
  BY <1>0, <1>1 DEF Frontiers, NRows
<1>a. CASE NextBatch
  <2>1. start < NRows \/ start >= NRows
    BY <1>0, Sizes DEF Typed
  <2>2. /\ producer = "batch" /\ UNCHANGED <<start, ready, freed>>
        /\ (producer' = "end" \/ (producer' = "wait" /\ ~(start >= NRows)))
    BY <1>a DEF NextBatch
  <2> QED
    BY <1>3, <2>1, <2>2
<1>4. CASE StartDriver \/ BlockFails \/ BatchReady \/ TransformBatch \/ PutError \/ PutSentinel
  <2>1. \/ Moves("start", "batch") \/ Moves("wait", "raise")
        \/ Moves("release", "put") \/ Moves("release", "raise") \/ Moves("raise", "end")
        \/ Moves("end", "dead") \/ (Moves("wait", "gather") /\ ~NeedsBlock)
    <3>1. CASE StartDriver \/ BlockFails \/ BatchReady
      BY <3>1 DEF StartDriver, BlockFails, BatchReady
    <3>2. CASE PutError \/ PutSentinel
      BY <3>2 DEF PutError, PutSentinel
    <3>3. CASE TransformBatch
      BY <3>3 DEF TransformBatch
    <3> QED
      BY <1>4, <3>1, <3>2, <3>3
  <2> QED
    BY <1>3, <2>1
<1>5. CASE Begin
  <2>1. Moves("none", "start")
    BY <1>5 DEF Begin, Ended
  <2> QED
    BY <1>3, <2>1
<1>6. CASE BlockReady
  <2>1. producer = "wait" /\ UNCHANGED <<producer, start, freed>> /\ ready' = ready + 1
    BY <1>6 DEF BlockReady
  <2> QED
    BY <1>0, <2>1 DEF Frontiers, NRows
<1>7. CASE Gather
  <2>1. /\ producer = "gather" /\ producer' = "release" /\ UNCHANGED <<start, ready, freed>>
    BY <1>7 DEF Gather
  <2>2. /\ \A c \in 1 .. freed : plan.blocks[c].stop <= start
        /\ ~NeedsBlock /\ freed <= ready /\ start < NRows
    BY <2>1 DEF Frontiers
  <2>3. start < StopRow /\ StopRow \in Nat
    BY <1>0, <2>2, StopRowIsNat DEF Typed
  <2>4. \A c \in 1 .. freed : plan.blocks[c].stop \in Nat
    BY <1>0 DEF InOrder, NBlocksOf
  <2>5. \A c \in 1 .. freed : plan.blocks[c].stop <= StopRow
    BY <1>0, <2>2, <2>3, <2>4
  <2> QED
    BY <1>0, <1>1, <2>1, <2>2, <2>5 DEF Frontiers, NRows
<1>8. CASE ReleaseBlock
  <2>1. /\ producer = "release" /\ UNCHANGED <<producer, start, ready>> /\ freed' = freed + 1
        /\ freed < NBlocksOf /\ plan.blocks[freed + 1].stop <= StopRow
    BY <1>8 DEF ReleaseBlock, Drained
  <2>2. freed + 1 <= ready
    <3>1. plan.blocks[freed + 1].start < plan.blocks[freed + 1].stop
          /\ plan.blocks[freed + 1].start \in Nat /\ plan.blocks[freed + 1].stop \in Nat
      BY <1>0, <2>1 DEF InOrder, NBlocksOf
    <3>2. StopRow \in Nat
      BY StopRowIsNat DEF Typed, Threads
    <3>3. ~NeedsBlock /\ freed <= ready
      BY <2>1 DEF Frontiers
    <3>4. ready = freed => NeedsBlock
      BY <2>1, <3>1, <3>2 DEF NeedsBlock
    <3> QED
      BY <1>0, <3>3, <3>4
  <2>3. \A c \in 1 .. freed' : c \in 1 .. freed \/ c = freed + 1
    BY <1>0, <2>1
  <2> QED
    BY <1>0, <1>1, <2>1, <2>2, <2>3 DEF Frontiers, NRows
<1>9. CASE PutBatch
  <2>1. /\ producer = "put" /\ producer' = "batch" /\ start' = start + plan.batchSize
        /\ UNCHANGED <<ready, freed>>
    BY <1>9 DEF PutBatch
  <2>2. StopRow <= start' /\ StopRow \in Nat /\ start' \in Nat
    BY <1>0, <2>1, StopRowIsNat DEF Typed
  <2>3. \A c \in 1 .. freed : plan.blocks[c].stop \in Nat
    BY <1>0 DEF InOrder, NBlocksOf
  <2> QED
    BY <1>0, <2>1, <2>2, <2>3 DEF Frontiers
<1>10. CASE ConsumerStep /\ ~Begin
  BY <1>2, <1>10 DEF ConsumerStep, Get, Resume, Leave, Drain
<1>11. CASE UNCHANGED vars \/ LoopStep
  BY <1>2, <1>11 DEF vars, LoopStep, TakePermit, Starve, DriverEnds, ReturnPermits
<1>12. CASE ClaimStep \/ Park \/ CloseScheduler \/ ReleaseOwner
  BY <1>2, <1>12 DEF ClaimStep, PinReady, Revive, JoinResident, AdmitFresh, Claimed, Park, CloseScheduler,
     ReleaseOwner
<1>13. CASE \E k \in Keys : TileArrives(k) \/ TileFails(k) \/ OtherPassEvicts(k)
  BY <1>2, <1>13 DEF TileArrives, TileFails, OtherPassEvicts
<1>14. ThreadStep => StartDriver \/ NextBatch \/ BlockReady \/ BlockFails \/ BatchReady \/ Gather
                     \/ TransformBatch \/ PutBatch \/ PutError \/ PutSentinel
  BY DEF ThreadStep
<1> QED
  BY <1>a, <1>4, <1>5, <1>6, <1>7, <1>8, <1>9, <1>10, <1>11, <1>12, <1>13, <1>14, StepCases

-----------------------------------------------------------------------------
(* The theorems on the pool.                                               *)

Held == Typed /\ Ended /\ InFlight /\ Frontiers /\ Retained

LEMMA HeldInit == ASSUME CoherentPlans, Init PROVE Held
<1>1. Typed
  BY InitTyped
<1>2. Ended
  BY DEF Init, Ended
<1>3. InFlight
  BY DEF Init, InFlight
<1>4. ready = 0 /\ freed = 0 /\ producer = "none"
  BY DEF Init
<1>5. Frontiers /\ Retained
  BY <1>4 DEF Frontiers, Retained
<1> QED
  BY <1>1, <1>2, <1>3, <1>5 DEF Held

LEMMA HeldStep == ASSUME Held, [Next]_vars PROVE Held'
BY TypedStep, EndedStep, InFlightStep, FrontiersStep, RetainedStep DEF Held

LEMMA HeldAlways == ASSUME CoherentPlans PROVE Spec => []Held
<1>1. Init => Held
  BY HeldInit
<1>2. Held /\ [Next]_vars => Held'
  BY HeldStep
<1> QED
  BY <1>1, <1>2, PTL DEF Spec

(* Every variable keeps its type; the queue keeps to its depth and the     *)
(* producer releases no block it has not waited for.                       *)
THEOREM TypeCorrect == ASSUME CoherentPlans PROVE Spec => []TypeOK
<1>1. Held => TypeOK
  BY DEF Held, Typed, Callers, Threads, Driving, Pooled, Frontiers, TypeOK
<1> QED
  BY <1>1, HeldAlways, PTL

(* However a pass ends, by itself, by an exception or because the caller   *)
(* left it, it leaves nothing behind (_iterate's finally clauses, close    *)
(* and release_owner).                                                     *)
THEOREM PassesLetGo == ASSUME CoherentPlans PROVE Spec => []NothingHeld
<1>1. Held => NothingHeld
  BY DEF Held, Ended, NothingHeld
<1> QED
  BY <1>1, HeldAlways, PTL

(* Where plans reread nothing, every row that is gathered finds the chunks *)
(* it reads published and referenced, so that neither this pass's own      *)
(* admissions nor another pass can take them away.                         *)
THEOREM GatherFindsItsRows ==
  ASSUME CoherentPlans, \A p \in Plans : ~p.reread
  PROVE  Spec => []GatherIsSafe
<1>1. ASSUME Held
      PROVE  GatherIsSafe
  <2> SUFFICES ASSUME producer = "gather", NEW i \in start + 1 .. StopRow, NEW k \in plan.reads[i]
               PROVE  slot[k] = "ready" /\ refs[k] > 0
    BY DEF GatherIsSafe
  <2>0. /\ KnownPlan /\ ~plan.reread /\ NBlocksOf \in Nat /\ start \in Nat
        /\ StopRow \in Nat /\ StopRow <= NRows /\ NRows \in Nat
        /\ ready \in 0 .. NBlocksOf /\ freed \in 0 .. NBlocksOf
    BY <1>1, Sizes, StopRowIsNat DEF Held, Typed, Threads, KnownPlan
  <2>1. i \in 1 .. Len(plan.reads) /\ start < i /\ i <= StopRow
    BY <2>0 DEF NRows
  <2>2. PICK b \in 1 .. NBlocksOf :
          /\ plan.blocks[b].start < i /\ i <= plan.blocks[b].stop
          /\ plan.reads[i] \subseteq plan.blocks[b].keys
    BY <2>0, <2>1 DEF KnownPlan, Coherent, RowsAwaited, NBlocksOf
  <2>3. \A c \in 1 .. NBlocksOf : /\ plan.blocks[c].start \in Nat /\ plan.blocks[c].stop \in Nat
                                  /\ \A d \in 1 .. c : /\ plan.blocks[d].start <= plan.blocks[c].start
                                                       /\ plan.blocks[d].stop <= plan.blocks[c].stop
    BY <2>0 DEF KnownPlan, Coherent, InOrder, NBlocksOf
  <2>4. b <= ready
    <3>1. SUFFICES ASSUME b > ready PROVE FALSE
      BY <2>0
    <3>2. ready + 1 \in 1 .. b
      BY <2>0, <3>1
    <3>3. plan.blocks[ready + 1].start <= plan.blocks[b].start
      BY <2>3, <3>2
    <3>4. ready + 1 \in 1 .. NBlocksOf
      BY <2>0, <3>2
    <3>5. plan.blocks[ready + 1].start < StopRow
      BY <2>0, <2>1, <2>2, <2>3, <3>3, <3>4
    <3>6. NeedsBlock
      BY <2>0, <3>4, <3>5 DEF NeedsBlock
    <3> QED
      BY <1>1, <3>6 DEF Held, Frontiers
  <2>5. ~Behind(k)
    <3>1. SUFFICES ASSUME NEW c \in 1 .. freed, k \in plan.release[c] PROVE FALSE
      BY DEF Behind
    <3>2. c \in 1 .. NBlocksOf
      BY <2>0
    <3>3. b <= c
      BY <2>0, <2>2, <3>1, <3>2 DEF KnownPlan, Coherent, HandedBack, NBlocksOf
    <3>4. plan.blocks[b].stop <= plan.blocks[c].stop
      BY <2>3, <3>2, <3>3
    <3>5. plan.blocks[c].stop <= start
      BY <1>1 DEF Held, Frontiers
    <3> QED
      BY <2>0, <2>1, <2>2, <2>3, <3>2, <3>4, <3>5
  <2>6. b \in 1 .. ready /\ k \in plan.blocks[b].keys
    BY <2>0, <2>2, <2>4
  <2> QED
    BY <1>1, <2>5, <2>6 DEF Held, Retained
<1> QED
  BY <1>1, HeldAlways, PTL

-----------------------------------------------------------------------------
(* What is in the queue continues what the caller was given.               *)

Given == Stream!Reached
Newest == outq[Len(outq)]
Follows(i) == IF i = 1 THEN Given ELSE outq[i - 1].rows[2]
Promised == IF outq = <<>> THEN Given ELSE Newest.rows[2]
OnlyBatches == outq = <<>> \/ Newest.kind = "batch"

BatchFits(i) ==
  /\ Follows(i) < NRows
  /\ outq[i].rows = <<Follows(i), Lesser(Follows(i) + plan.batchSize, NRows)>>
SentinelFits(i) ==
  IF i = 1 THEN Given = NRows ELSE outq[i - 1].kind = "error" \/ outq[i - 1].rows[2] = NRows

QueueFits ==
  \A i \in 1 .. Len(outq) :
    /\ outq[i].kind = "batch" => BatchFits(i)
    /\ outq[i].kind = "sentinel" => SentinelFits(i)

ProducerFits ==
  /\ producer \in {"none", "start", "batch", "wait", "gather", "release", "put"} =>
       OnlyBatches /\ Promised = Lesser(start, NRows)
  /\ producer = "end" => (outq # <<>> /\ Newest.kind = "error") \/ Promised = NRows

Ongoing == consumer \in {"new", "getting", "yielded"}

Continued ==
  /\ Ongoing <=> outcome = "open"
  /\ Ongoing => stop = FALSE /\ QueueFits /\ ProducerFits

LEMMA ContinuedInit == ASSUME Typed, Init PROVE Continued
<1>1. outq = <<>> /\ received = <<>> /\ Len(outq) = 0
  BY DEF Init
<1>2. QueueFits
  BY <1>1 DEF QueueFits
<1>3. Given = 0 /\ Lesser(0, NRows) = 0
  BY <1>1, Sizes DEF Given, Stream!Reached, Lesser, Typed
<1>4. ProducerFits
  BY <1>1, <1>3 DEF Init, ProducerFits, OnlyBatches, Promised
<1> QED
  BY <1>2, <1>4 DEF Init, Continued, Ongoing

(* Steps that touch neither the queue nor what was given.                  *)
LEMMA QueueKept ==
  ASSUME Typed, UNCHANGED <<plan, received, outq, start>>
  PROVE  /\ QueueFits => QueueFits'
         /\ Promised' = Promised /\ OnlyBatches' = OnlyBatches
         /\ Lesser(start, NRows)' = Lesser(start, NRows)
         /\ Newest' = Newest /\ NRows' = NRows
BY DEF QueueFits, BatchFits, SentinelFits, Follows, Given, Stream!Reached, Promised, Newest,
   OnlyBatches, Lesser, NRows

(* Something is appended: what stood there fits as before.                 *)
LEMMA QueueGrows ==
  ASSUME Typed, NEW item \in Items, outq' = Append(outq, item), UNCHANGED <<plan, received>>,
         NEW n, n = Len(outq)
  PROVE  /\ Len(outq') = n + 1 /\ n \in Nat
         /\ Newest' = item /\ Promised' = item.rows[2] /\ outq' # <<>>
         /\ outq'[n + 1] = item /\ Follows(n + 1)' = Promised
         /\ n = 0 => Given' = Promised
         /\ n > 0 => outq'[n] = Newest /\ outq # <<>>
         /\ QueueFits => \A i \in 1 .. n :
                           /\ outq'[i].kind = "batch" => BatchFits(i)'
                           /\ outq'[i].kind = "sentinel" => SentinelFits(i)'
<1>1. /\ outq \in Seq(Items) /\ Len(outq) \in Nat /\ outq' \in Seq(Items)
      /\ Len(outq') = Len(outq) + 1 /\ outq'[Len(outq) + 1] = item
      /\ \A i \in 1 .. Len(outq) : outq'[i] = outq[i]
  BY DEF Typed, Callers
<1>2. outq = <<>> <=> Len(outq) = 0
  BY <1>1
<1>3. outq' # <<>>
  BY <1>1
<1>4. Given' = Given /\ NRows' = NRows /\ plan' = plan
  BY DEF Given, Stream!Reached, NRows
<1>5. \A i \in 1 .. Len(outq) : Follows(i)' = Follows(i)
  BY <1>1, <1>4 DEF Follows
<1>6. Newest' = item /\ Promised' = item.rows[2]
  BY <1>1, <1>3 DEF Newest, Promised
<1>7. Follows(n + 1)' = Promised
  BY <1>1, <1>2, <1>4 DEF Follows, Promised, Newest
<1>8. ASSUME QueueFits, NEW i \in 1 .. Len(outq)
      PROVE  /\ outq'[i].kind = "batch" => BatchFits(i)'
             /\ outq'[i].kind = "sentinel" => SentinelFits(i)'
  <2>1. outq'[i] = outq[i] /\ Follows(i)' = Follows(i)
    BY <1>1, <1>5, <1>8
  <2>2. i = 1 \/ (i - 1 \in 1 .. Len(outq) /\ outq'[i - 1] = outq[i - 1])
    BY <1>1, <1>8
  <2>3. outq[i].kind = "batch" => BatchFits(i)'
    BY <1>4, <1>8, <2>1 DEF QueueFits, BatchFits, Lesser
  <2>4. outq[i].kind = "sentinel" => SentinelFits(i)'
    BY <1>4, <1>8, <2>2 DEF QueueFits, SentinelFits
  <2> QED
    BY <2>1, <2>3, <2>4
<1> QED
  BY <1>1, <1>2, <1>3, <1>4, <1>6, <1>7, <1>8 DEF Promised, Newest

(* A batch is taken off: what stood behind it moves up.                    *)
LEMMA QueueShrinks ==
  ASSUME Typed, QueueFits, outq # <<>>, Head(outq).kind = "batch",
         outq' = Tail(outq), received' = Append(received, Head(outq).rows), plan' = plan
  PROVE  /\ QueueFits' /\ Promised' = Promised
         /\ outq' # <<>> => Newest' = Newest
         /\ outq' = <<>> => Newest.kind = "batch"
         /\ Given < NRows
         /\ Head(outq).rows = <<Given, Lesser(Given + plan.batchSize, NRows)>>
<1>1. /\ outq \in Seq(Items) /\ Len(outq) \in Nat /\ Len(outq) > 0 /\ Head(outq) = outq[1]
      /\ outq' \in Seq(Items) /\ Len(outq') = Len(outq) - 1
      /\ \A i \in 1 .. Len(outq') : outq'[i] = outq[i + 1]
  BY DEF Typed, Callers
<1>2. outq' = <<>> <=> Len(outq) = 1
  BY <1>1
<1>a. outq[1] \in Items
  BY <1>1
<1>3. outq[1].rows \in Nat \X Nat
  BY <1>a DEF Items
<1>4. Given' = outq[1].rows[2]
  <2>1. received' = Append(received, outq[1].rows) /\ received \in Seq(Nat \X Nat)
    BY <1>1 DEF Typed, Callers
  <2>2. received' # <<>> /\ Len(received') = Len(received) + 1 /\ received'[Len(received) + 1] = outq[1].rows
    BY <1>3, <2>1
  <2> QED
    BY <2>2 DEF Given, Stream!Reached
<1>5. NRows' = NRows
  BY DEF NRows
<1>6. \A i \in 1 .. Len(outq') : Follows(i)' = Follows(i + 1)
  <2>1. SUFFICES ASSUME NEW i \in 1 .. Len(outq') PROVE Follows(i)' = Follows(i + 1)
    OBVIOUS
  <2>2. CASE i = 1
    BY <1>1, <1>4, <2>2 DEF Follows
  <2>3. CASE i # 1
    <3>1. i - 1 \in 1 .. Len(outq') /\ i + 1 # 1 /\ (i - 1) + 1 = i /\ (i + 1) - 1 = i
      BY <1>1, <2>3
    <3>2. outq'[i - 1] = outq[i]
      BY <1>1, <3>1
    <3> QED
      BY <2>3, <3>1, <3>2 DEF Follows
  <2> QED
    BY <2>2, <2>3
<1>7. BatchFits(1)
  BY <1>1 DEF QueueFits
<1>8. ASSUME NEW i \in 1 .. Len(outq')
      PROVE  /\ outq'[i].kind = "batch" => BatchFits(i)'
             /\ outq'[i].kind = "sentinel" => SentinelFits(i)'
  <2>1. /\ i + 1 \in 1 .. Len(outq) /\ outq'[i] = outq[i + 1] /\ Follows(i)' = Follows(i + 1)
        /\ i + 1 # 1 /\ (i + 1) - 1 = i
    BY <1>1, <1>6
  <2>2. outq'[i].kind = "batch" => BatchFits(i)'
    BY <1>5, <2>1 DEF QueueFits, BatchFits, Lesser
  <2>3. outq[i + 1].kind = "sentinel" => outq[i].kind = "error" \/ outq[i].rows[2] = NRows
    BY <2>1 DEF QueueFits, SentinelFits
  <2>4. CASE i = 1
    BY <1>1, <1>4, <1>5, <2>1, <2>2, <2>3, <2>4 DEF SentinelFits
  <2>5. CASE i # 1
    <3>1. i - 1 \in 1 .. Len(outq') /\ (i - 1) + 1 = i
      BY <1>1, <2>5
    <3>2. outq'[i - 1] = outq[i]
      BY <1>1, <3>1
    <3> QED
      BY <1>5, <2>1, <2>2, <2>3, <2>5, <3>2 DEF SentinelFits
  <2> QED
    BY <2>2, <2>4, <2>5
<1>9. QueueFits'
  BY <1>8 DEF QueueFits
<1>10. Len(outq) > 1 => Newest' = Newest
  <2>1. SUFFICES ASSUME Len(outq) > 1 PROVE Newest' = Newest
    OBVIOUS
  <2>2. Len(outq') \in 1 .. Len(outq') /\ Len(outq') + 1 = Len(outq)
    BY <1>1, <2>1
  <2> QED
    BY <1>1, <2>2 DEF Newest
<1>11. Promised' = Promised
  BY <1>1, <1>2, <1>4, <1>10 DEF Promised, Newest
<1>12. outq' = <<>> => Newest.kind = "batch"
  BY <1>1, <1>2 DEF Newest
<1> QED
  BY <1>1, <1>2, <1>7, <1>9, <1>10, <1>11, <1>12 DEF BatchFits, Follows

LEMMA ContinuedStep ==
  ASSUME Typed, Ended, Frontiers, Continued, [Next]_vars
  PROVE  Continued'
<1> USE DEF Ongoing
<1>0. plan' = plan /\ KnownPlan /\ start \in Nat /\ NRows \in Nat /\ NRows' = NRows
  BY PlanKept, Sizes DEF Typed, Threads, NRows
<1>a. /\ Lesser(start, NRows) = NRows <=> start >= NRows
      /\ start < NRows => Lesser(start, NRows) = start
  BY <1>0 DEF Lesser
<1>b. ASSUME UNCHANGED <<received, outq, start>>, ProducerFits,
             \/ producer' = producer
             \/ /\ producer' \in {"none", "start", "batch", "wait", "gather", "release", "put"}
                /\ producer \in {"none", "start", "batch", "wait", "gather", "release", "put"}
             \/ producer' \in {"raise", "dead"}
             \/ producer = "batch" /\ producer' = "end" /\ start >= NRows
      PROVE  ProducerFits'
  <2>1. Promised' = Promised /\ OnlyBatches' = OnlyBatches
        /\ Lesser(start, NRows)' = Lesser(start, NRows) /\ Newest' = Newest /\ outq' = outq
    BY <1>0, <1>b, QueueKept DEF Typed
  <2> QED
    BY <1>0, <1>a, <1>b, <2>1 DEF ProducerFits
<1>2. ASSUME ~Ongoing', outcome' # "open"
      PROVE  Continued'
  BY <1>2 DEF Continued
<1>3. CASE Get
  <2>1. CASE Head(outq).kind = "batch"
    <3>1. /\ outq' = Tail(outq) /\ received' = Append(received, Head(outq).rows)
          /\ outq # <<>> /\ consumer = "getting" /\ consumer' = "yielded"
          /\ UNCHANGED <<outcome, stop, producer, start>>
      BY <1>3, <2>1, GetEffect DEF Get, thread
    <3>2. QueueFits' /\ Promised' = Promised /\ (outq' # <<>> => Newest' = Newest)
          /\ (outq' = <<>> => Newest.kind = "batch")
      BY <1>0, <2>1, <3>1, QueueShrinks DEF Continued
    <3>3. NRows' = NRows /\ Lesser(start, NRows)' = Lesser(start, NRows)
      BY <1>0, <3>1 DEF NRows, Lesser
    <3>4. ProducerFits'
      BY <3>1, <3>2, <3>3 DEF Continued, ProducerFits, OnlyBatches
    <3> QED
      BY <3>1, <3>2, <3>4 DEF Continued
  <2>2. CASE Head(outq).kind # "batch"
    BY <1>2, <1>3, <2>2, GetEffect DEF EndLoop
  <2> QED
    BY <2>1, <2>2
<1>4. CASE Leave
  BY <1>2, <1>4 DEF Leave, EndLoop
<1>5. CASE Begin \/ Resume
  <2>1. /\ UNCHANGED <<outcome, stop, received, outq, start>>
        /\ consumer' = "getting" /\ consumer \in {"new", "yielded"}
        /\ (producer' = producer \/ (producer' = "start" /\ producer = "none"))
    BY <1>5 DEF Begin, Resume, queue, thread, Ended
  <2>2. ProducerFits'
    BY <1>b, <2>1 DEF Continued
  <2>3. QueueFits'
    BY <1>0, <2>1, QueueKept DEF Continued
  <2> QED
    BY <2>1, <2>2, <2>3 DEF Continued
<1>6. CASE Drain \/ CloseScheduler \/ ReleaseOwner
  <2>1. consumer \in {"draining", "closing"} /\ consumer' \in {"draining", "closing", "done"}
        /\ outcome' = outcome
    BY <1>6 DEF Drain, CloseScheduler, ReleaseOwner, caller
  <2> QED
    BY <1>2, <2>1 DEF Continued
<1>7. CASE ~Ongoing /\ ~(Drain \/ CloseScheduler \/ ReleaseOwner)
  <2>1. ~Begin /\ ~Get /\ ~Resume /\ ~Leave
    BY <1>7 DEF Begin, Get, Resume, Leave
  <2>2. UNCHANGED <<consumer, outcome>>
    <3>1. CASE UNCHANGED vars \/ LoopStep
      BY <3>1 DEF vars, caller, LoopStep, TakePermit, Starve, DriverEnds, ReturnPermits
    <3>2. CASE ThreadStep \/ ReleaseBlock
      BY <3>2 DEF caller, ThreadStep, StartDriver, NextBatch, BlockReady, BlockFails, BatchReady, Gather,
         TransformBatch, PutBatch, PutError, PutSentinel, ReleaseBlock
    <3>3. CASE ClaimStep \/ Park
      BY <3>3 DEF caller, ClaimStep, PinReady, Revive, JoinResident, AdmitFresh, Claimed, Park
    <3>4. CASE \E k \in Keys : TileArrives(k) \/ TileFails(k) \/ OtherPassEvicts(k)
      BY <3>4 DEF caller, TileArrives, TileFails, OtherPassEvicts
    <3> QED
      BY <1>7, <2>1, <3>1, <3>2, <3>3, <3>4, StepCases DEF ConsumerStep
  <2> QED
    BY <1>2, <1>7, <2>2 DEF Continued
<1>8. ASSUME Ongoing, UNCHANGED <<caller, queue, start>>, ProducerFits'
      PROVE  Continued'
  <2>1. UNCHANGED <<consumer, outcome, received, stop, outq, start>>
    BY <1>8 DEF caller, queue
  <2>2. QueueFits'
    BY <1>0, <1>8, <2>1, QueueKept DEF Continued
  <2> QED
    BY <1>8, <2>1, <2>2 DEF Continued
<1>9. ASSUME Ongoing, UNCHANGED <<caller, queue, thread>>
      PROVE  Continued'
  <2>1. UNCHANGED <<received, outq, start, producer>>
    BY <1>9 DEF caller, queue, thread
  <2> QED
    BY <1>8, <1>9, <1>b, <2>1 DEF Continued
<1>10. CASE Ongoing /\ (StartDriver \/ NextBatch \/ BlockReady \/ BlockFails \/ BatchReady \/ Gather
                        \/ ReleaseBlock \/ TransformBatch)
  <2>1. UNCHANGED <<caller, queue, start>>
    BY <1>10 DEF StartDriver, NextBatch, BlockReady, BlockFails, BatchReady, Gather, ReleaseBlock, TransformBatch
  <2>2. CASE NextBatch
    <3>1. stop = FALSE
      BY <1>10 DEF Continued
    <3>2. producer = "batch" /\ ((producer' = "end" /\ start >= NRows) \/ producer' = "wait")
      BY <2>2, <3>1 DEF NextBatch
    <3>3. ProducerFits'
      BY <1>10, <1>b, <2>1, <3>2 DEF Continued, caller, queue
    <3> QED
      BY <1>8, <1>10, <2>1, <3>3
  <2>3. CASE ~NextBatch
    <3>1. \/ producer' = producer
          \/ /\ producer' \in {"none", "start", "batch", "wait", "gather", "release", "put"}
             /\ producer \in {"none", "start", "batch", "wait", "gather", "release", "put"}
          \/ producer' \in {"raise", "dead"}
      <4>1. CASE TransformBatch
        BY <4>1 DEF TransformBatch
      <4>2. CASE StartDriver \/ BlockReady \/ BlockFails
        BY <4>2 DEF StartDriver, BlockReady, BlockFails
      <4>3. CASE BatchReady \/ Gather \/ ReleaseBlock
        BY <4>3 DEF BatchReady, Gather, ReleaseBlock
      <4> QED
        BY <1>10, <2>3, <4>1, <4>2, <4>3
    <3>2. ProducerFits'
      BY <1>10, <1>b, <2>1, <3>1 DEF Continued, caller, queue
    <3> QED
      BY <1>8, <1>10, <2>1, <3>2
  <2> QED
    BY <2>2, <2>3
<1>11. CASE Ongoing /\ PutBatch
  <2>0. /\ producer = "put" /\ start < NRows /\ start \in Nat
        /\ StopRow \in Nat /\ start' = start + plan.batchSize
        /\ outq' = Append(outq, BatchItem) /\ producer' = "batch"
        /\ UNCHANGED <<consumer, outcome, received, stop>>
    BY <1>0, <1>11, StopRowIsNat DEF PutBatch, Frontiers, caller
  <2>1. BatchItem \in Items /\ BatchItem.kind = "batch" /\ BatchItem.rows = <<start, StopRow>>
        /\ BatchItem.rows[2] = StopRow
    BY <2>0 DEF BatchItem, Items
  <2>n. PICK n : n = Len(outq)
    OBVIOUS
  <2>2. /\ Len(outq') = n + 1 /\ n \in Nat /\ Newest' = BatchItem /\ Promised' = StopRow
        /\ outq' # <<>> /\ outq'[n + 1] = BatchItem /\ Follows(n + 1)' = Promised
        /\ \A i \in 1 .. n : /\ outq'[i].kind = "batch" => BatchFits(i)'
                             /\ outq'[i].kind = "sentinel" => SentinelFits(i)'
    BY <2>n, <1>0, <1>11, <2>0, <2>1, QueueGrows DEF Continued
  <2>3. Promised = start
    BY <1>11, <1>a, <2>0 DEF Continued, ProducerFits
  <2>4. NRows' = NRows /\ plan' = plan /\ StopRow = Lesser(start + plan.batchSize, NRows)
    BY <1>0 DEF StopRow
  <2>5. QueueFits'
    <3>1. ASSUME NEW i \in 1 .. Len(outq')
          PROVE  /\ outq'[i].kind = "batch" => BatchFits(i)'
                 /\ outq'[i].kind = "sentinel" => SentinelFits(i)'
      <4>1. CASE i \in 1 .. n
        BY <2>2, <4>1
      <4>2. CASE i = n + 1
        <5>1. outq'[i] = BatchItem /\ Follows(i)' = start
          BY <2>2, <2>3, <4>2
        <5> QED
          BY <2>0, <2>1, <2>4, <5>1 DEF BatchFits, Lesser
      <4> QED
        BY <2>2, <4>1, <4>2
    <3> QED
      BY <3>1 DEF QueueFits
  <2>6. ProducerFits'
    BY <2>0, <2>1, <2>2, <2>4 DEF ProducerFits, OnlyBatches, Lesser
  <2> QED
    BY <1>11, <2>0, <2>5, <2>6 DEF Continued
<1>12. CASE Ongoing /\ PutError
  <2>0. /\ outq' = Append(outq, ErrorItem) /\ producer' = "end"
        /\ UNCHANGED <<consumer, outcome, received, stop, start>>
    BY <1>12 DEF PutError, caller
  <2>1. ErrorItem \in Items /\ ErrorItem.kind = "error"
    BY DEF ErrorItem, Items
  <2>n. PICK n : n = Len(outq)
    OBVIOUS
  <2>2. /\ Len(outq') = n + 1 /\ n \in Nat /\ Newest' = ErrorItem
        /\ outq' # <<>> /\ outq'[n + 1] = ErrorItem
        /\ \A i \in 1 .. n : /\ outq'[i].kind = "batch" => BatchFits(i)'
                             /\ outq'[i].kind = "sentinel" => SentinelFits(i)'
    BY <2>n, <1>0, <1>12, <2>0, <2>1, QueueGrows DEF Continued
  <2>3. QueueFits'
    <3>1. \A i \in 1 .. Len(outq') : i \in 1 .. n \/ i = n + 1
      BY <2>2
    <3> QED
      BY <2>1, <2>2, <3>1 DEF QueueFits
  <2>4. ProducerFits'
    BY <2>0, <2>1, <2>2 DEF ProducerFits
  <2> QED
    BY <1>12, <2>0, <2>3, <2>4 DEF Continued
<1>13. CASE Ongoing /\ PutSentinel
  <2>0. /\ outq' = Append(outq, Sentinel) /\ producer = "end" /\ producer' = "dead"
        /\ UNCHANGED <<consumer, outcome, received, stop, start>>
    BY <1>13 DEF PutSentinel, caller
  <2>1. Sentinel \in Items /\ Sentinel.kind = "sentinel"
    BY DEF Sentinel, Items
  <2>n. PICK n : n = Len(outq)
    OBVIOUS
  <2>2. /\ Len(outq') = n + 1 /\ n \in Nat /\ outq' # <<>> /\ outq'[n + 1] = Sentinel
        /\ n = 0 => Given' = Promised
        /\ n > 0 => outq'[n] = Newest /\ outq # <<>>
        /\ \A i \in 1 .. n : /\ outq'[i].kind = "batch" => BatchFits(i)'
                             /\ outq'[i].kind = "sentinel" => SentinelFits(i)'
    BY <2>n, <1>0, <1>13, <2>0, <2>1, QueueGrows DEF Continued
  <2>3. (outq # <<>> /\ Newest.kind = "error") \/ Promised = NRows
    BY <1>13, <2>0 DEF Continued, ProducerFits
  <2>4. SentinelFits(n + 1)'
    <3>1. CASE n = 0
      <4>1. outq = <<>>
        <5>1. outq \in Seq(Items) /\ n = Len(outq)
          BY <2>n DEF Typed, Callers
        <5> QED
          BY <3>1, <5>1
      <4>2. Given' = NRows'
        BY <1>0, <2>2, <2>3, <3>1, <4>1
      <4> QED
        BY <3>1, <4>2 DEF SentinelFits
    <3>2. CASE n > 0
      <4>1. outq'[n] = Newest /\ outq # <<>> /\ n + 1 # 1 /\ (n + 1) - 1 = n
        BY <2>2, <3>2
      <4>2. outq'[n].kind = "error" \/ outq'[n].rows[2] = NRows'
        BY <1>0, <2>3, <4>1 DEF Promised
      <4> QED
        BY <4>1, <4>2 DEF SentinelFits
    <3> QED
      BY <2>2, <3>1, <3>2
  <2>5. QueueFits'
    <3>1. \A i \in 1 .. Len(outq') : i \in 1 .. n \/ i = n + 1
      BY <2>2
    <3> QED
      BY <2>1, <2>2, <2>4, <3>1 DEF QueueFits
  <2>6. ProducerFits'
    BY <2>0 DEF ProducerFits
  <2> QED
    BY <1>13, <2>0, <2>5, <2>6 DEF Continued
<1>14. CASE Ongoing /\ (UNCHANGED vars \/ LoopStep \/ ClaimStep \/ Park
                        \/ \E k \in Keys : TileArrives(k) \/ TileFails(k) \/ OtherPassEvicts(k))
  <2>1. UNCHANGED <<caller, queue, thread>>
    <3>1. CASE UNCHANGED vars \/ LoopStep
      BY <3>1 DEF vars, LoopStep, TakePermit, Starve, DriverEnds, ReturnPermits
    <3>2. CASE ClaimStep \/ Park
      BY <3>2 DEF ClaimStep, PinReady, Revive, JoinResident, AdmitFresh, Claimed, Park
    <3>3. CASE \E k \in Keys : TileArrives(k) \/ TileFails(k) \/ OtherPassEvicts(k)
      BY <3>3 DEF TileArrives, TileFails, OtherPassEvicts
    <3> QED
      BY <1>14, <3>1, <3>2, <3>3
  <2> QED
    BY <1>9, <1>14, <2>1
<1> QED
  BY <1>3, <1>4, <1>5, <1>6, <1>7, <1>10, <1>11, <1>12, <1>13, <1>14, StepCases DEF ConsumerStep, ThreadStep

(* Every step gives the caller the next batch, ends its loop, or is unseen. *)
LEMMA StreamStep ==
  ASSUME Typed, Continued, [Next]_vars
  PROVE  [Stream!StreamNext]_Stream!streamVars
<1>0. plan' = plan /\ KnownPlan /\ NRows' = NRows /\ plan.batchSize' = plan.batchSize
  BY PlanKept DEF Typed, NRows
<1>1. ASSUME UNCHANGED <<received, outcome>>
      PROVE  UNCHANGED Stream!streamVars
  BY <1>0, <1>1 DEF Stream!streamVars
<1>2. CASE Get
  <2>0. /\ consumer = "getting" /\ outcome = "open" /\ QueueFits /\ outq # <<>> /\ outq' = Tail(outq)
    BY <1>2, GetEffect DEF Continued, Ongoing
  <2>1. CASE Head(outq).kind = "batch"
    <3>1. received' = Append(received, Head(outq).rows) /\ outcome' = outcome
      BY <1>2, <2>1, GetEffect
    <3>2. Given < NRows /\ Head(outq).rows = <<Given, Lesser(Given + plan.batchSize, NRows)>>
      BY <1>0, <2>0, <2>1, <3>1, QueueShrinks
    <3>3. Stream!Yield
      BY <1>0, <2>0, <3>1, <3>2 DEF Stream!Yield, Given, Stream!Smaller, Lesser
    <3> QED
      BY <3>3 DEF Stream!StreamNext
  <2>2. CASE Head(outq).kind = "error"
    <3>1. Stream!Fail
      BY <1>0, <1>2, <2>0, <2>2, GetEffect DEF EndLoop, Stream!Fail
    <3> QED
      BY <3>1 DEF Stream!StreamNext
  <2>3. CASE Head(outq).kind = "sentinel"
    <3>1. Head(outq) = outq[1] /\ 1 \in 1 .. Len(outq)
      BY <2>0 DEF Typed, Callers
    <3>2. Given = NRows
      BY <2>0, <2>3, <3>1 DEF QueueFits, SentinelFits
    <3>3. Stream!Finish
      BY <1>0, <1>2, <2>0, <2>3, <3>2, GetEffect DEF EndLoop, Stream!Finish, Given
    <3> QED
      BY <3>3 DEF Stream!StreamNext
  <2> QED
    BY <1>2, <2>1, <2>2, <2>3, GetEffect
<1>3. CASE Leave
  <2>1. Stream!Leave
    BY <1>0, <1>3 DEF Leave, EndLoop, Continued, Ongoing, Stream!Leave
  <2> QED
    BY <2>1 DEF Stream!StreamNext
<1>4. CASE UNCHANGED vars \/ Begin \/ Resume \/ Drain
  BY <1>1, <1>4 DEF vars, caller, Begin, Resume, Drain
<1>5. CASE ThreadStep \/ ReleaseBlock
  BY <1>1, <1>5 DEF caller, ThreadStep, StartDriver, NextBatch, BlockReady, BlockFails, BatchReady, Gather,
     TransformBatch, PutBatch, PutError, PutSentinel, ReleaseBlock
<1>6. CASE LoopStep \/ CloseScheduler \/ ReleaseOwner
  BY <1>1, <1>6 DEF caller, LoopStep, TakePermit, Starve, DriverEnds, ReturnPermits, CloseScheduler, ReleaseOwner
<1>7. CASE ClaimStep \/ Park
  BY <1>1, <1>7 DEF caller, ClaimStep, PinReady, Revive, JoinResident, AdmitFresh, Claimed, Park
<1>8. CASE \E k \in Keys : TileArrives(k) \/ TileFails(k) \/ OtherPassEvicts(k)
  BY <1>1, <1>8 DEF caller, TileArrives, TileFails, OtherPassEvicts
<1> QED
  BY <1>2, <1>3, <1>4, <1>5, <1>6, <1>7, <1>8, StepCases DEF ConsumerStep

(* The caller's loop is an InOrderStream: it yields the epoch's rows in    *)
(* draw order, none skipped and none twice, it ends by itself only after   *)
(* the last one, and a failed read or transform ends it with an exception. *)
THEOREM LoopsAreInOrder == ASSUME CoherentPlans PROVE Spec => ImplementsInOrderStream
<1>1. Init => Held /\ Continued
  <2>1. ASSUME Init PROVE Held /\ Continued
    BY <2>1, HeldInit, ContinuedInit DEF Held
  <2> QED
    BY <2>1
<1>2. Init => Stream!StreamInit
  <2>1. ASSUME Init PROVE Stream!StreamInit
    <3>1. KnownPlan
      BY <2>1, HeldInit DEF Held, Typed
    <3> QED
      BY <2>1, <3>1, Sizes DEF Init, Stream!StreamInit
  <2> QED
    BY <2>1
<1>3. Held /\ Continued /\ [Next]_vars => Held' /\ Continued'
  BY HeldStep, ContinuedStep DEF Held
<1>4. Held /\ Continued /\ [Next]_vars => [Stream!StreamNext]_Stream!streamVars
  BY StreamStep DEF Held
<1> QED
  BY <1>1, <1>2, <1>3, <1>4, PTL DEF Spec, Stream!StreamSpec, ImplementsInOrderStream

-----------------------------------------------------------------------------
(* The sum of a sequence.                                                  *)

LEMMA SequenceCounts ==
  ASSUME NEW s \in Seq(Nat)
  PROVE  DOMAIN s = 1 .. Len(s) /\ Counts(s, DOMAIN s) /\ Total(s) \in Nat
<1>1. DOMAIN s = 1 .. Len(s) /\ Len(s) \in Nat /\ \A i \in 1 .. Len(s) : s[i] \in Nat
  OBVIOUS
<1>2. IsFiniteSet(DOMAIN s)
  BY <1>1, FS_Interval
<1> QED
  BY <1>1, <1>2, NumberedIsFinite DEF Counts, Total

LEMMA TotalOfNone == Total(<<>>) = 0
<1>1. DOMAIN <<>> = {}
  OBVIOUS
<1> QED
  BY <1>1, SumOfNone DEF Total

LEMMA TotalWithLast ==
  ASSUME NEW s \in Seq(Nat), NEW n \in Nat
  PROVE  Total(Append(s, n)) = Total(s) + n
<1> DEFINE t == Append(s, n)
           m == Len(s) + 1
<1>1. /\ Len(s) \in Nat /\ DOMAIN s = 1 .. Len(s) /\ DOMAIN t = DOMAIN s \cup {m}
      /\ m \notin DOMAIN s /\ t[m] = n /\ \A i \in DOMAIN s : t[i] = s[i]
  OBVIOUS
<1> HIDE DEF t, m
<1>2. Counts(s, DOMAIN s)
  BY SequenceCounts
<1>3. Counts(t, DOMAIN s)
  BY <1>1, <1>2 DEF Counts
<1>4. SumOn(t, DOMAIN s) = SumOn(s, DOMAIN s)
  BY <1>1, SumOfSame
<1>5. SumOn(t, DOMAIN s \cup {m}) = SumOn(t, DOMAIN s) + t[m]
  BY <1>1, <1>3, SumWithOneMore
<1>6. Total(t) = Total(s) + n
  BY <1>1, <1>4, <1>5 DEF Total
<1> QED
  BY <1>6 DEF t

LEMMA TotalOfTail ==
  ASSUME NEW s \in Seq(Nat), s # <<>>
  PROVE  Total(Tail(s)) = Total(s) - Head(s) /\ Head(s) \in Nat /\ Tail(s) \in Seq(Nat)
<1> DEFINE t == Tail(s)
           Rest == 2 .. Len(s)
<1>1. /\ Len(s) \in Nat /\ Len(s) > 0 /\ t \in Seq(Nat) /\ Len(t) = Len(s) - 1
      /\ \A i \in 1 .. Len(t) : t[i] = s[i + 1]
      /\ Head(s) = s[1] /\ s[1] \in Nat
  OBVIOUS
<1>2. DOMAIN s = 1 .. Len(s) /\ DOMAIN t = 1 .. Len(t) /\ Counts(s, DOMAIN s) /\ Counts(t, DOMAIN t)
  BY <1>1, SequenceCounts
<1>3. DOMAIN s = Rest \cup {1} /\ 1 \notin Rest
  BY <1>1, <1>2
<1>4. Counts(s, Rest) /\ SumOn(s, Rest) \in Nat
  BY <1>2, <1>3, SumOfLess
<1>5. SumOn(s, DOMAIN s) = SumOn(s, Rest) + s[1]
  BY <1>1, <1>3, <1>4, SumWithOneMore
<1>6. SumOn(s, Rest) = SumOn(t, DOMAIN t)
  <2> DEFINE A == Numbered(s, Rest)
             B == Numbered(t, DOMAIN t)
             move == [p \in A |-> <<p[1] - 1, p[2]>>]
  <2>1. A = {p \in Rest \X (Nat \ {0}) : p[2] <= s[p[1]]}
    <3>1. \A i \in Rest : s[i] \in Nat
      BY <1>4 DEF Counts
    <3>2. \A i \in Rest : {i} \X (1 .. s[i]) = {p \in {i} \X (Nat \ {0}) : p[2] <= s[i]}
      BY <3>1
    <3> QED
      BY <3>2 DEF Numbered
  <2>2. B = {p \in (DOMAIN t) \X (Nat \ {0}) : p[2] <= t[p[1]]}
    <3>1. \A i \in DOMAIN t : t[i] \in Nat
      BY <1>2 DEF Counts
    <3>2. \A i \in DOMAIN t : {i} \X (1 .. t[i]) = {p \in {i} \X (Nat \ {0}) : p[2] <= t[i]}
      BY <3>1
    <3> QED
      BY <3>2 DEF Numbered
  <2>3. \A i \in Rest : i - 1 \in DOMAIN t /\ t[i - 1] = s[i]
    BY <1>1, <1>2
  <2>4. \A i \in DOMAIN t : i + 1 \in Rest /\ t[i] = s[i + 1] /\ (i + 1) - 1 = i
    BY <1>1, <1>2
  <2>5. move \in [A -> B]
    <3>1. ASSUME NEW p \in A
          PROVE  <<p[1] - 1, p[2]>> \in B
      BY <2>1, <2>2, <2>3
    <3> QED
      BY <3>1
  <2>6. \A q \in B : <<q[1] + 1, q[2]>> \in A /\ move[<<q[1] + 1, q[2]>>] = q
    <3> SUFFICES ASSUME NEW q \in B
                 PROVE  <<q[1] + 1, q[2]>> \in A /\ move[<<q[1] + 1, q[2]>>] = q
      OBVIOUS
    <3>1. q[1] \in DOMAIN t /\ q[2] \in Nat \ {0} /\ q[2] <= t[q[1]] /\ q = <<q[1], q[2]>>
      BY <2>2
    <3>2. <<q[1] + 1, q[2]>> \in A
      BY <2>1, <2>4, <3>1
    <3>3. (q[1] + 1) - 1 = q[1]
      BY <2>4, <3>1
    <3> QED
      BY <3>1, <3>2, <3>3
  <2>7. \A p, q \in A : move[p] = move[q] => p = q
    <3>1. \A i, j \in Rest : i - 1 = j - 1 => i = j
      OBVIOUS
    <3>2. \A p \in A : p[1] \in Rest /\ p = <<p[1], p[2]>>
      BY <2>1
    <3> QED
      BY <3>1, <3>2
  <2>8. move \in Surjection(A, B) /\ move \in Injection(A, B)
    BY <2>5, <2>6, <2>7 DEF Surjection, Injection, IsInjective
  <2>9. IsFiniteSet(A)
    BY <1>4, NumberedIsFinite
  <2> QED
    BY <2>8, <2>9, FS_Surjection DEF SumOn
<1>7. Total(t) = SumOn(t, DOMAIN t) /\ Total(s) = SumOn(s, DOMAIN s)
  BY DEF Total
<1> HIDE DEF t
<1>8. Total(t) = Total(s) - s[1]
  BY <1>1, <1>4, <1>5, <1>6, <1>7
<1> QED
  BY <1>1, <1>8 DEF t

-----------------------------------------------------------------------------
(* The inductive invariant, beside Held.                                   *)

(* The pass has not torn its scheduler down.                               *)
Running == consumer \notin {"closing", "done"}

HasClaimed(k) == \E i \in 1 .. claims : plan.admissions[i] = k

(* There is no driver before the producer makes one.                       *)
Unstarted == producer \in {"none", "start"} => driver = "none"

(* Every permit the driver ever took stands for a claim, and is free again *)
(* or on its way once the block that the claim was for is released.        *)
Ledger ==
  Running /\ driver # "starved" =>
    permits + InHand + claims + Total(returning) = plan.bound + HandedOver(1 .. freed)

(* Where nothing is read twice, a key is referenced from its claim until   *)
(* the one release that hands it back.                                     *)
ReferencedOnce ==
  ~plan.reread /\ consumer # "done" =>
    \A k \in Keys : /\ refs[k] = IF HasClaimed(k) /\ ~Behind(k) THEN 1 ELSE 0
                    /\ Behind(k) => HasClaimed(k)

(* The producer releases a block with the batch that drains it, and waits  *)
(* for no block before the batch that needs it.                            *)
Prompt ==
  /\ \E m \in 0 .. start : start = m * plan.batchSize
  /\ \A c \in 1 .. NBlocksOf : plan.blocks[c].stop <= start => c <= freed
  /\ producer = "put" =>
       \A c \in 1 .. NBlocksOf : plan.blocks[c].stop <= StopRow => c <= freed
  /\ \A b \in ready + 1 .. NBlocksOf : plan.blocks[b].start >= start
  /\ producer \in {"gather", "release", "put"} =>
       \A b \in ready + 1 .. NBlocksOf : plan.blocks[b].start >= StopRow

(* A referenced chunk is resident; a slot is unfinished only while its     *)
(* tile is on the way; an unfinished or failed slot is one the pass claimed.*)
Slotted ==
  ~plan.reread /\ Running =>
    \A k \in Keys : /\ refs[k] > 0 => Present(k)
                    /\ slot[k] = "filling" => k \in fetching
                    /\ slot[k] \in {"filling", "failed"} => refs[k] > 0

(* A claim that the budget refused is still too big for it, unless a block *)
(* was released since.                                                     *)
Referenced == {k \in Keys : refs[k] > 0}
ParkedFull ==
  ~plan.reread /\ driver = "parked" /\ ~freshRoom =>
    Weight(Referenced) + plan.weight[Key] > plan.budget

(* No row is given or queued that the producer has not put.                *)
NoneAhead ==
  /\ Given <= start /\ \A i \in 1 .. Len(outq) : outq[i].rows[2] <= start
  /\ outcome = "finished" => start >= NRows

-----------------------------------------------------------------------------
(* The steps, by what they do to counters and references.                  *)

LEMMA Ground ==
  ASSUME Held
  PROVE  /\ Typed /\ KnownPlan /\ Callers /\ Threads /\ Driving /\ Pooled
         /\ start \in Nat /\ NRows \in Nat /\ NBlocksOf \in Nat /\ plan.batchSize \in Nat \ {0}
         /\ ready \in 0 .. NBlocksOf /\ freed \in 0 .. NBlocksOf /\ freed <= ready
         /\ StopRow \in Nat /\ StopRow <= NRows
         /\ \A b \in 1 .. NBlocksOf :
              /\ plan.blocks[b].start \in Nat /\ plan.blocks[b].stop \in Nat
              /\ plan.blocks[b].start < plan.blocks[b].stop /\ plan.blocks[b].stop <= NRows
              /\ \A c \in 1 .. b : /\ plan.blocks[c].start <= plan.blocks[b].start
                                   /\ plan.blocks[c].stop <= plan.blocks[b].stop
<1>1. /\ Typed /\ KnownPlan /\ Callers /\ Threads /\ Driving /\ Pooled /\ freed <= ready
  BY DEF Held, Typed, Frontiers
<1>2. InOrder(plan)
  BY <1>1 DEF KnownPlan, Coherent
<1> QED
  BY <1>1, <1>2, Sizes, StopRowIsNat DEF Threads, InOrder, NBlocksOf, NRows

(* What has ended stays so.                                                *)
LEMMA EndsStay ==
  ASSUME Held, [Next]_vars
  PROVE  /\ consumer = "done" => consumer' = "done"
         /\ ~Running => ~Running'
<1> USE DEF Running, caller
<1>1. CASE UNCHANGED vars \/ ConsumerStep
  BY <1>1 DEF vars, ConsumerStep, Begin, Get, Resume, Leave, Drain, EndLoop
<1>2. CASE ThreadStep
  BY <1>2 DEF ThreadStep, StartDriver, NextBatch, BlockReady, BlockFails, BatchReady, Gather,
     TransformBatch, PutBatch, PutError, PutSentinel
<1>3. CASE LoopStep \/ ReleaseBlock
  BY <1>3 DEF LoopStep, TakePermit, Starve, DriverEnds, ReturnPermits, ReleaseBlock
<1>4. CASE ClaimStep \/ Park
  BY <1>4 DEF ClaimStep, PinReady, Revive, JoinResident, AdmitFresh, Claimed, Park
<1>5. CASE CloseScheduler \/ ReleaseOwner
  BY <1>5 DEF CloseScheduler, ReleaseOwner
<1>6. CASE \E k \in Keys : TileArrives(k) \/ TileFails(k) \/ OtherPassEvicts(k)
  BY <1>6 DEF TileArrives, TileFails, OtherPassEvicts
<1> QED
  BY <1>1, <1>2, <1>3, <1>4, <1>5, <1>6, StepCases

LEMMA UnstartedStep ==
  ASSUME Held, Unstarted, [Next]_vars
  PROVE  Unstarted'
<1> USE DEF Unstarted, thread, drive
<1>1. CASE UNCHANGED vars \/ (ConsumerStep /\ ~Begin)
  BY <1>1 DEF vars, ConsumerStep, Get, Resume, Leave, Drain
<1>2. CASE Begin
  BY <1>2 DEF Begin, Held, Ended
<1>3. CASE ThreadStep
  BY <1>3 DEF ThreadStep, StartDriver, NextBatch, BlockReady, BlockFails, BatchReady, Gather,
     TransformBatch, PutBatch, PutError, PutSentinel
<1>4. CASE LoopStep \/ ReleaseBlock
  BY <1>4 DEF LoopStep, TakePermit, Starve, DriverEnds, ReturnPermits, ReleaseBlock
<1>5. CASE ClaimStep \/ Park
  BY <1>5 DEF ClaimStep, PinReady, Revive, JoinResident, AdmitFresh, Claimed, Missed, Park
<1>6. CASE CloseScheduler \/ ReleaseOwner
  BY <1>6 DEF CloseScheduler, ReleaseOwner
<1>7. CASE \E k \in Keys : TileArrives(k) \/ TileFails(k) \/ OtherPassEvicts(k)
  BY <1>7 DEF TileArrives, TileFails, OtherPassEvicts
<1> QED
  BY <1>1, <1>2, <1>3, <1>4, <1>5, <1>6, <1>7, StepCases

(* Four kinds of steps touch the permits; the others leave the ledger be.  *)
LEMMA LedgerCases ==
  ASSUME Held, Unstarted, [Next]_vars, Running', driver' # "starved"
  PROVE  /\ Running /\ driver # "starved" /\ plan' = plan
         /\ \/ UNCHANGED <<permits, returning, claims, freed, refs>> /\ InHand' = InHand
            \/ TakePermit \/ ClaimStep \/ ReleaseBlock \/ ReturnPermits
<1> DEFINE Spared == /\ driver # "starved"
                   /\ UNCHANGED <<permits, returning, claims, freed, refs>> /\ InHand' = InHand
<1> USE DEF permit, drive, thread, pool, InHand
<1>0. Running /\ plan' = plan
  BY EndsStay, PlanKept
<1>1. CASE UNCHANGED vars
  <2>1. Spared
    BY <1>1 DEF vars
  <2> QED
    BY <1>0, <2>1
<1>2. CASE ConsumerStep
  <2>1. Spared
    BY <1>2 DEF ConsumerStep, Begin, Get, Resume, Leave, Drain
  <2> QED
    BY <1>0, <2>1
<1>3. CASE ThreadStep
  <2>1. Spared
    <3>1. CASE StartDriver
      BY <3>1 DEF StartDriver, Unstarted
    <3>2. CASE ~StartDriver
      BY <1>3, <3>2 DEF ThreadStep, NextBatch, BlockReady, BlockFails, BatchReady, Gather,
         TransformBatch, PutBatch, PutError, PutSentinel
    <3> QED
      BY <3>1, <3>2
  <2> QED
    BY <1>0, <2>1
<1>4. CASE Starve \/ DriverEnds
  <2>1. Spared
    BY <1>4 DEF Starve, DriverEnds
  <2> QED
    BY <1>0, <2>1
<1>5. CASE Park
  <2>1. Spared
    BY <1>5 DEF Park, Missed
  <2> QED
    BY <1>0, <2>1
<1>6. CASE CloseScheduler \/ ReleaseOwner
  BY <1>6 DEF CloseScheduler, ReleaseOwner, Running
<1>7. CASE \E k \in Keys : TileArrives(k) \/ TileFails(k) \/ OtherPassEvicts(k)
  <2>1. Spared
    BY <1>7 DEF TileArrives, TileFails, OtherPassEvicts
  <2> QED
    BY <1>0, <2>1
<1>8. CASE TakePermit \/ ClaimStep \/ ReleaseBlock \/ ReturnPermits
  <2>1. driver # "starved"
    BY <1>8 DEF TakePermit, ClaimStep, PinReady, Revive, JoinResident, AdmitFresh, Missed,
       ReleaseBlock, ReturnPermits
  <2> QED
    BY <1>0, <1>8, <2>1
<1> QED
  BY <1>1, <1>2, <1>3, <1>4, <1>5, <1>6, <1>7, <1>8, StepCases DEF LoopStep

(* References change with claims, with the release of a block, and at the  *)
(* end of the pass.                                                        *)
LEMMA ReferenceCases ==
  ASSUME Held, [Next]_vars
  PROVE  \/ UNCHANGED <<refs, claims, freed>>
         \/ ClaimStep \/ ReleaseBlock \/ ReleaseOwner
<1> USE DEF drive, thread, pool
<1>1. CASE UNCHANGED vars \/ ConsumerStep
  BY <1>1 DEF vars, ConsumerStep, Begin, Get, Resume, Leave, Drain
<1>2. CASE ThreadStep
  BY <1>2 DEF ThreadStep, StartDriver, NextBatch, BlockReady, BlockFails, BatchReady, Gather,
     TransformBatch, PutBatch, PutError, PutSentinel
<1>3. CASE LoopStep \/ Park \/ CloseScheduler
  BY <1>3 DEF LoopStep, TakePermit, Starve, DriverEnds, ReturnPermits, Park, CloseScheduler
<1>4. CASE \E k \in Keys : TileArrives(k) \/ TileFails(k) \/ OtherPassEvicts(k)
  BY <1>4 DEF TileArrives, TileFails, OtherPassEvicts
<1> QED
  BY <1>1, <1>2, <1>3, <1>4, StepCases

-----------------------------------------------------------------------------
(* The producer's frontiers.                                               *)

LEMMA PromptStep ==
  ASSUME Held, Prompt, [Next]_vars
  PROVE  Prompt'
<1>0. /\ plan' = plan /\ start \in Nat /\ NRows \in Nat /\ NBlocksOf \in Nat
      /\ plan.batchSize \in Nat \ {0} /\ ready \in 0 .. NBlocksOf /\ freed \in 0 .. NBlocksOf
      /\ StopRow \in Nat
      /\ \A b \in 1 .. NBlocksOf :
           /\ plan.blocks[b].start \in Nat /\ plan.blocks[b].stop \in Nat
           /\ plan.blocks[b].start < plan.blocks[b].stop /\ plan.blocks[b].stop <= NRows
           /\ \A c \in 1 .. b : /\ plan.blocks[c].start <= plan.blocks[b].start
                                /\ plan.blocks[c].stop <= plan.blocks[b].stop
  BY PlanKept, Ground
<1>a. NBlocksOf' = NBlocksOf /\ NRows' = NRows
  BY <1>0 DEF NBlocksOf, NRows
<1>b. start' = start => StopRow' = StopRow
  BY <1>0, <1>a DEF StopRow
<1>1. ASSUME UNCHANGED <<start, ready>>, freed' \in {freed, freed + 1},
             \/ producer' = producer /\ producer # "put"
             \/ producer' = producer /\ freed' = freed
             \/ producer' \notin {"gather", "release", "put"}
      PROVE  Prompt'
  <2>1. \E m \in 0 .. start' : start' = m * plan'.batchSize
    BY <1>0, <1>1 DEF Prompt
  <2>2. \A c \in 1 .. NBlocksOf' : plan'.blocks[c].stop <= start' => c <= freed'
    BY <1>0, <1>a, <1>1 DEF Prompt
  <2>3. producer' = "put" =>
          \A c \in 1 .. NBlocksOf' : plan'.blocks[c].stop <= StopRow' => c <= freed'
    BY <1>0, <1>a, <1>b, <1>1 DEF Prompt
  <2>4. /\ \A c \in ready' + 1 .. NBlocksOf' : plan'.blocks[c].start >= start'
        /\ producer' \in {"gather", "release", "put"} =>
             \A c \in ready' + 1 .. NBlocksOf' : plan'.blocks[c].start >= StopRow'
    BY <1>0, <1>a, <1>b, <1>1 DEF Prompt
  <2> QED
    BY <2>1, <2>2, <2>3, <2>4 DEF Prompt
<1>2. CASE UNCHANGED thread
  BY <1>1, <1>2 DEF thread
<1>3. CASE StartDriver \/ NextBatch \/ BlockFails \/ PutError \/ PutSentinel
  <2>1. UNCHANGED <<start, ready, freed>> /\ producer' \notin {"gather", "release", "put"}
    BY <1>3 DEF StartDriver, NextBatch, BlockFails, PutError, PutSentinel
  <2> QED
    BY <1>1, <2>1
<1>4. CASE Begin \/ ReleaseBlock
  <2>1. CASE Begin
    <3>1. UNCHANGED <<start, ready, freed>> /\ producer' \notin {"gather", "release", "put"}
      BY <2>1 DEF Begin
    <3> QED
      BY <1>1, <3>1
  <2>2. CASE ReleaseBlock
    <3>1. UNCHANGED <<start, ready, producer>> /\ producer # "put" /\ freed' = freed + 1
      BY <2>2 DEF ReleaseBlock
    <3> QED
      BY <1>1, <3>1
  <2> QED
    BY <1>4, <2>1, <2>2
<1>5. CASE BlockReady
  <2>1. producer = "wait" /\ UNCHANGED <<producer, start, freed>> /\ ready' = ready + 1
    BY <1>5 DEF BlockReady
  <2>2. \A c \in ready' + 1 .. NBlocksOf' : c \in ready + 1 .. NBlocksOf
    BY <1>0, <1>a, <2>1
  <2> QED
    BY <1>0, <1>a, <2>1, <2>2 DEF Prompt
<1>6. CASE BatchReady
  <2>1. ~NeedsBlock /\ producer' = "gather" /\ UNCHANGED <<start, ready, freed>>
    BY <1>6 DEF BatchReady
  <2>2. ASSUME NEW b \in ready + 1 .. NBlocksOf
        PROVE  plan.blocks[b].start >= StopRow
    <3>1. ready + 1 \in 1 .. b /\ b \in 1 .. NBlocksOf /\ ready + 1 \in 1 .. NBlocksOf
      BY <1>0
    <3>2. plan.blocks[ready + 1].start >= StopRow
      BY <1>0, <2>1, <3>1 DEF NeedsBlock
    <3> QED
      BY <1>0, <3>1, <3>2
  <2> QED
    BY <1>0, <1>a, <1>b, <2>1, <2>2 DEF Prompt
<1>7. CASE Gather
  <2>1. producer = "gather" /\ producer' = "release" /\ UNCHANGED <<start, ready, freed>>
    BY <1>7 DEF Gather
  <2> QED
    BY <1>0, <1>a, <1>b, <2>1 DEF Prompt
<1>8. CASE TransformBatch
  <2>1. /\ producer = "release" /\ producer' \in {"put", "raise"} /\ ~Drained
        /\ UNCHANGED <<start, ready, freed>>
    BY <1>8 DEF TransformBatch
  <2>2. ASSUME NEW c \in 1 .. NBlocksOf, plan.blocks[c].stop <= StopRow
        PROVE  c <= freed
    <3>1. SUFFICES ASSUME c > freed PROVE FALSE
      BY <1>0
    <3>2. freed + 1 \in 1 .. c /\ freed + 1 \in 1 .. NBlocksOf /\ freed < NBlocksOf
      BY <1>0, <3>1
    <3>3. plan.blocks[freed + 1].stop <= StopRow
      BY <1>0, <2>2, <3>2
    <3> QED
      BY <2>1, <3>2, <3>3 DEF Drained
  <2> QED
    BY <1>0, <1>a, <1>b, <2>1, <2>2 DEF Prompt
<1>9. CASE PutBatch
  <2>1. /\ producer = "put" /\ producer' = "batch" /\ start' = start + plan.batchSize
        /\ UNCHANGED <<ready, freed>>
    BY <1>9 DEF PutBatch
  <2>2. start' \in Nat /\ (StopRow = start' \/ StopRow = NRows) /\ StopRow <= start'
    BY <1>0, <2>1 DEF StopRow, Lesser
  <2>3. PICK m \in 0 .. start : start = m * plan.batchSize
    BY DEF Prompt
  <2>4. m + 1 \in 0 .. start' /\ start' = (m + 1) * plan.batchSize
    BY <1>0, <2>1, <2>3
  <2>5. ASSUME NEW c \in 1 .. NBlocksOf, plan.blocks[c].stop <= start'
        PROVE  c <= freed
    <3>1. plan.blocks[c].stop <= StopRow
      BY <1>0, <2>2, <2>5
    <3> QED
      BY <2>1, <3>1 DEF Prompt
  <2>6. ASSUME NEW b \in ready + 1 .. NBlocksOf
        PROVE  plan.blocks[b].start >= start'
    <3>1. b \in 1 .. NBlocksOf
      BY <1>0
    <3>2. plan.blocks[b].start >= StopRow /\ plan.blocks[b].start < NRows
      BY <1>0, <2>1, <3>1 DEF Prompt
    <3> QED
      BY <1>0, <2>2, <3>1, <3>2
  <2> QED
    BY <1>0, <1>a, <2>1, <2>4, <2>5, <2>6 DEF Prompt
<1>10. CASE ConsumerStep /\ ~Begin
  BY <1>2, <1>10 DEF ConsumerStep, Get, Resume, Leave, Drain
<1>11. CASE UNCHANGED vars \/ LoopStep
  BY <1>2, <1>11 DEF vars, LoopStep, TakePermit, Starve, DriverEnds, ReturnPermits
<1>12. CASE ClaimStep \/ Park \/ CloseScheduler \/ ReleaseOwner
  BY <1>2, <1>12 DEF ClaimStep, PinReady, Revive, JoinResident, AdmitFresh, Claimed, Park, CloseScheduler,
     ReleaseOwner
<1>13. CASE \E k \in Keys : TileArrives(k) \/ TileFails(k) \/ OtherPassEvicts(k)
  BY <1>2, <1>13 DEF TileArrives, TileFails, OtherPassEvicts
<1>14. ThreadStep => StartDriver \/ NextBatch \/ BlockReady \/ BlockFails \/ BatchReady \/ Gather
                     \/ TransformBatch \/ PutBatch \/ PutError \/ PutSentinel
  BY DEF ThreadStep
<1> QED
  BY <1>3, <1>4, <1>5, <1>6, <1>7, <1>8, <1>9, <1>10, <1>11, <1>12, <1>13, <1>14, StepCases
-----------------------------------------------------------------------------
(* The ledger of the permits.                                              *)

LEMMA HandedOverCounts ==
  ASSUME Held, NEW n \in 0 .. NBlocksOf
  PROVE  Counts([c \in 1 .. n |-> Cardinality(plan.release[c])], 1 .. n) /\ HandedOver(1 .. n) \in Nat
<1>1. IsFiniteSet(1 .. n)
  BY Ground, FS_Interval
<1>2. \A c \in 1 .. n : c \in 1 .. NBlocksOf
  BY Ground
<1>3. \A c \in 1 .. n : Cardinality(plan.release[c]) \in Nat
  BY <1>2, Ground, ReleasedKeys
<1> QED
  BY <1>1, <1>3, NumberedIsFinite DEF Counts, HandedOver

LEMMA HandedOverNext ==
  ASSUME Held, NEW n \in 0 .. NBlocksOf, n < NBlocksOf
  PROVE  HandedOver(1 .. n + 1) = HandedOver(1 .. n) + Cardinality(plan.release[n + 1])
<1> DEFINE f == [c \in 1 .. n |-> Cardinality(plan.release[c])]
           g == [c \in 1 .. n + 1 |-> Cardinality(plan.release[c])]
<1>1. n \in Nat /\ n + 1 \in 0 .. NBlocksOf /\ 1 .. n + 1 = (1 .. n) \cup {n + 1} /\ n + 1 \notin 1 .. n
  BY Ground
<1>2. Counts(g, 1 .. n + 1)
  BY <1>1, HandedOverCounts
<1>4. \A c \in 1 .. n : f[c] = g[c]
  BY <1>1
<1>5. g[n + 1] = Cardinality(plan.release[n + 1])
  BY <1>1
<1>6. HandedOver(1 .. n + 1) = SumOn(g, 1 .. n + 1) /\ HandedOver(1 .. n) = SumOn(f, 1 .. n)
  BY DEF HandedOver
<1> HIDE DEF f, g
<1>3. Counts(g, 1 .. n) /\ g[n + 1] \in Nat
  <2>1. (1 .. n) \in SUBSET (1 .. n + 1) /\ n + 1 \in 1 .. n + 1
    BY <1>1
  <2>2. g[n + 1] \in Nat
    BY <1>2, <2>1 DEF Counts
  <2>3. Counts(g, 1 .. n)
    BY <1>2, <2>1, SumOfLess
  <2> QED
    BY <2>2, <2>3
<1>7. SumOn(f, 1 .. n) = SumOn(g, 1 .. n)
  BY <1>4, SumOfSame
<1>8. SumOn(g, (1 .. n) \cup {n + 1}) = SumOn(g, 1 .. n) + g[n + 1]
  BY <1>1, <1>3, SumWithOneMore
<1> QED
  BY <1>1, <1>5, <1>6, <1>7, <1>8

LEMMA ClaimCounts ==
  ASSUME Held, ClaimStep
  PROVE  /\ claims' = claims + 1 /\ InHand = 1 /\ InHand' = 0 /\ Unclaimed
         /\ UNCHANGED <<permits, returning, freed, consumer>>
         /\ Key \in Keys /\ refs' = [refs EXCEPT ![Key] = @ + 1]
<1>1. /\ claims' = claims + 1 /\ driver' = "permit"
      /\ UNCHANGED <<permits, returning, freed, consumer>>
  BY DEF ClaimStep, PinReady, Revive, JoinResident, AdmitFresh, Claimed, permit, thread, caller
<1>2. driver \in {"claim", "parked"} /\ Key \in Keys /\ \E V : ClaimOf(Key, V)
  BY Ground, ClaimEffect
<1> QED
  BY <1>1, <1>2, Ground DEF InHand, ClaimOf, Driving

(* What a step does to the sum of the returns under way.                   *)
LEMMA ReturnCounts ==
  ASSUME Held, ReturnPermits
  PROVE  /\ permits' + Total(returning') = permits + Total(returning)
         /\ UNCHANGED <<claims, freed, refs, driver>> /\ permits' \in Nat /\ Total(returning') \in Nat
         /\ Total(returning) \in Nat
<1>1. /\ returning \in Seq(Nat) /\ returning # <<>> /\ permits \in Nat
      /\ permits' = permits + Head(returning) /\ returning' = Tail(returning)
      /\ UNCHANGED <<claims, freed, refs, driver>>
  BY Ground DEF ReturnPermits, Driving, thread, drive, pool
<1>2. /\ Total(Tail(returning)) = Total(returning) - Head(returning) /\ Head(returning) \in Nat
      /\ Tail(returning) \in Seq(Nat)
  BY <1>1, TotalOfTail
<1>3. Total(returning) \in Nat /\ Total(Tail(returning)) \in Nat
  BY <1>1, <1>2, SequenceCounts
<1> QED
  BY <1>1, <1>2, <1>3

LEMMA ReleaseCounts ==
  ASSUME Held, ReleaseBlock
  PROVE  /\ freed' = freed + 1 /\ freed + 1 \in 1 .. NBlocksOf /\ freed + 1 <= ready
         /\ Total(returning') = Total(returning) + Cardinality(plan.release[freed + 1])
         /\ Total(returning) \in Nat /\ Cardinality(plan.release[freed + 1]) \in Nat
         /\ plan.release[freed + 1] \subseteq plan.blocks[freed + 1].keys
         /\ plan.blocks[freed + 1].keys \subseteq Keys
         /\ refs' = Unpinned(plan.release[freed + 1])
         /\ UNCHANGED <<permits, claims, driver, consumer, slot, fetching, plan, ready>>
         /\ freshRoom' = TRUE /\ producer # "dead"
<1>1. /\ freed' = freed + 1 /\ freed < NBlocksOf
      /\ returning' = Append(returning, Cardinality(plan.release[freed + 1]))
      /\ refs' = Unpinned(plan.release[freed + 1])
      /\ UNCHANGED <<permits, claims, driver, consumer, slot, fetching, plan, ready>>
      /\ freshRoom' = TRUE /\ producer # "dead"
  BY DEF ReleaseBlock, Drained, drive, caller
<1>2. freed + 1 \in 1 .. NBlocksOf /\ returning \in Seq(Nat)
  BY <1>1, Ground DEF Driving
<1>3. /\ Cardinality(plan.release[freed + 1]) \in Nat
      /\ plan.release[freed + 1] \subseteq plan.blocks[freed + 1].keys
      /\ plan.blocks[freed + 1].keys \subseteq Keys
  BY <1>2, Ground, ReleasedKeys
<1>4. /\ Total(returning') = Total(returning) + Cardinality(plan.release[freed + 1])
      /\ Total(returning) \in Nat
  BY <1>1, <1>2, <1>3, TotalWithLast, SequenceCounts
<1>5. freed' <= ready'
  <2>1. [Next]_vars
    BY DEF Next, ProducerStep
  <2> QED
    BY <2>1, HeldStep DEF Held, Frontiers
<1> QED
  BY <1>1, <1>2, <1>3, <1>4, <1>5

(* What moves from one account to another changes no total.                *)
LEMMA Exchanged ==
  ASSUME NEW a \in Nat, NEW b \in Nat, NEW x \in Nat, NEW y \in Nat, NEW c \in Nat, NEW d \in Nat,
         x + y = a + b
  PROVE  x + c + d + y = a + c + d + b
OBVIOUS

LEMMA LedgerStep ==
  ASSUME Held, Unstarted, Ledger, [Next]_vars
  PROVE  Ledger'
<1> SUFFICES ASSUME Running', driver' # "starved"
             PROVE  (permits + InHand + claims + Total(returning))' = (plan.bound + HandedOver(1 .. freed))'
  BY DEF Ledger
<1>0. /\ Running /\ driver # "starved" /\ plan' = plan
      /\ permits \in Nat /\ claims \in Nat /\ returning \in Seq(Nat) /\ plan.bound \in Nat
      /\ freed \in 0 .. NBlocksOf /\ NBlocksOf \in Nat
  BY LedgerCases, Ground, Sizes DEF Driving
<1>1. Total(returning) \in Nat /\ HandedOver(1 .. freed) \in Nat
  BY <1>0, SequenceCounts, HandedOverCounts
<1>2. permits + InHand + claims + Total(returning) = plan.bound + HandedOver(1 .. freed)
  BY <1>0 DEF Ledger
<1>a. freed' = freed => HandedOver(1 .. freed)' = HandedOver(1 .. freed)
  BY <1>0 DEF HandedOver
<1>3. CASE UNCHANGED <<permits, returning, claims, freed, refs>> /\ InHand' = InHand
  BY <1>0, <1>2, <1>3, <1>a DEF Total
<1>4. CASE TakePermit
  <2>1. /\ permits' = permits - 1 /\ InHand = 0 /\ InHand' = 1
        /\ UNCHANGED <<returning, claims, freed>>
    BY <1>4 DEF TakePermit, InHand, thread
  <2>2. Total(returning)' = Total(returning)
    BY <2>1 DEF Total
  <2> QED
    BY <1>0, <1>1, <1>2, <1>a, <2>1, <2>2
<1>5. CASE ClaimStep
  <2>1. claims' = claims + 1 /\ InHand = 1 /\ InHand' = 0 /\ UNCHANGED <<permits, returning, freed>>
    BY <1>5, ClaimCounts
  <2>2. Total(returning)' = Total(returning)
    BY <2>1 DEF Total
  <2> QED
    BY <1>0, <1>1, <1>2, <1>a, <2>1, <2>2
<1>6. CASE ReleaseBlock
  <2>1. /\ freed' = freed + 1 /\ freed + 1 \in 1 .. NBlocksOf
        /\ Total(returning') = Total(returning) + Cardinality(plan.release[freed + 1])
        /\ Cardinality(plan.release[freed + 1]) \in Nat
        /\ UNCHANGED <<permits, claims, driver>>
    BY <1>6, ReleaseCounts
  <2>2. HandedOver(1 .. freed + 1) = HandedOver(1 .. freed) + Cardinality(plan.release[freed + 1])
    BY <1>0, <2>1, HandedOverNext
  <2>3. HandedOver(1 .. freed)' = HandedOver(1 .. freed + 1)
    BY <1>0, <2>1 DEF HandedOver
  <2>4. InHand' = InHand /\ InHand \in Nat
    BY <2>1 DEF InHand
  <2> QED
    BY <1>0, <1>1, <1>2, <2>1, <2>2, <2>3, <2>4
<1>7. CASE ReturnPermits
  <2>1. /\ permits' + Total(returning') = permits + Total(returning)
        /\ UNCHANGED <<claims, freed, driver>> /\ permits' \in Nat /\ Total(returning') \in Nat
    BY <1>7, ReturnCounts
  <2>2. InHand' = InHand /\ InHand \in Nat
    BY <2>1 DEF InHand
  <2>3. claims' = claims /\ HandedOver(1 .. freed)' = HandedOver(1 .. freed)
    BY <1>a, <2>1
  <2>4. permits' + InHand + claims + Total(returning') = permits + InHand + claims + Total(returning)
    <3>1. permits \in Nat /\ claims \in Nat /\ Total(returning) \in Nat /\ InHand \in Nat
      BY <1>0, <1>1, <2>2
    <3> QED
      BY <2>1, <3>1, Exchanged
  <2>5. (permits + InHand + claims + Total(returning))' = permits + InHand + claims + Total(returning)
    BY <2>2, <2>3, <2>4
  <2>6. (plan.bound + HandedOver(1 .. freed))' = plan.bound + HandedOver(1 .. freed)
    BY <1>0, <2>3
  <2> QED
    BY <1>2, <2>5, <2>6
<1> QED
  BY <1>3, <1>4, <1>5, <1>6, <1>7, LedgerCases

-----------------------------------------------------------------------------
(* References, where nothing is read twice.                                *)

(* No block that is handed back needs a key of a later one.                *)
LEMMA HandedBackLast ==
  ASSUME Held, ~plan.reread, NEW b \in 1 .. NBlocksOf, b > freed, NEW k \in plan.blocks[b].keys
  PROVE  ~Behind(k)
<1>1. SUFFICES ASSUME NEW c \in 1 .. freed, k \in plan.release[c] PROVE FALSE
  BY DEF Behind
<1>2. c \in 1 .. NBlocksOf
  BY Ground
<1>3. b <= c
  BY <1>1, <1>2, Ground DEF KnownPlan, Coherent, HandedBack, NBlocksOf
<1> QED
  BY <1>2, <1>3, Ground

LEMMA ReleaseFacts ==
  ASSUME Held, ~plan.reread, ReleaseBlock, NEW k \in plan.release[freed + 1]
  PROVE  k \in Keys /\ ~Behind(k) /\ slot[k] = "ready" /\ refs[k] > 0
<1>1. /\ freed + 1 \in 1 .. NBlocksOf /\ freed + 1 <= ready /\ producer # "dead"
      /\ k \in plan.blocks[freed + 1].keys /\ k \in Keys
  BY ReleaseCounts
<1>2. ~Behind(k)
  BY <1>1, HandedBackLast, Ground
<1>3. freed + 1 \in 1 .. ready
  BY <1>1, Ground
<1> QED
  BY <1>1, <1>2, <1>3 DEF Held, Retained

LEMMA UnpinnedRefs ==
  ASSUME Held, ~plan.reread, ReleaseBlock
  PROVE  \A k \in Keys : refs'[k] = IF k \in plan.release[freed + 1] THEN refs[k] - 1 ELSE refs[k]
<1>1. refs' = Unpinned(plan.release[freed + 1])
  BY ReleaseCounts
<1> QED
  BY <1>1, ReleaseFacts DEF Unpinned

LEMMA ReferencesCount ==
  ASSUME Held
  PROVE  Counts(refs, Keys)
<1>1. refs \in [Keys -> Nat] /\ IsFiniteSet(Keys)
  BY Ground DEF Pooled, KnownPlan, Coherent, Sized, Keys
<1> QED
  BY <1>1 DEF Counts

(* The permits balance.                                                    *)
LEMMA BalanceStep ==
  ASSUME Held, Unstarted, PermitsBalance, [Next]_vars
  PROVE  PermitsBalance'
<1> SUFFICES ASSUME ~plan'.reread, Running', driver' # "starved"
             PROVE  (permits + InHand + References + Total(returning))' = plan'.bound
  BY DEF PermitsBalance, Running
<1>0. /\ Running /\ driver # "starved" /\ plan' = plan /\ ~plan.reread
      /\ permits \in Nat /\ returning \in Seq(Nat) /\ plan.bound \in Nat
  BY LedgerCases, Ground, Sizes DEF Driving
<1>1. /\ Total(returning) \in Nat /\ Counts(refs, Keys) /\ refs \in [Keys -> Nat]
      /\ References \in Nat /\ Keys' = Keys
  BY <1>0, SequenceCounts, ReferencesCount, NumberedIsFinite, Ground DEF References, Pooled, Keys
<1>2. permits + InHand + References + Total(returning) = plan.bound
  BY <1>0 DEF PermitsBalance, Running
<1>a. refs' = refs => References' = References
  BY <1>1 DEF References
<1>3. CASE UNCHANGED <<permits, returning, claims, freed, refs>> /\ InHand' = InHand
  BY <1>0, <1>2, <1>3, <1>a DEF Total
<1>4. CASE TakePermit
  <2>1. permits' = permits - 1 /\ InHand = 0 /\ InHand' = 1 /\ UNCHANGED <<returning, refs>>
    BY <1>4 DEF TakePermit, InHand, pool
  <2>2. Total(returning)' = Total(returning)
    BY <2>1 DEF Total
  <2> QED
    BY <1>0, <1>1, <1>2, <1>a, <2>1, <2>2
<1>5. CASE ClaimStep
  <2>1. /\ InHand = 1 /\ InHand' = 0 /\ UNCHANGED <<permits, returning>>
        /\ Key \in Keys /\ refs' = [refs EXCEPT ![Key] = @ + 1]
    BY <1>5, ClaimCounts
  <2>2. Total(returning)' = Total(returning)
    BY <2>1 DEF Total
  <2>3. \A k \in Keys \ {Key} : refs'[k] = refs[k]
    BY <1>1, <2>1
  <2>4. refs'[Key] = refs[Key] + 1 /\ refs[Key] \in Nat
    BY <1>1, <2>1
  <2>5. SumOn(refs', Keys) = SumOn(refs, Keys) - refs[Key] + refs'[Key]
    <3>1. PICK k \in Keys : k = Key
      BY <2>1
    <3>2. refs'[k] \in Nat /\ \A y \in Keys \ {k} : refs'[y] = refs[y]
      BY <2>3, <2>4, <3>1
    <3>3. SumOn(refs', Keys) = SumOn(refs, Keys) - refs[k] + refs'[k]
      BY <1>1, <3>2, SumWithOneOther
    <3> QED
      BY <3>1, <3>3
  <2>6. References' = References + 1
    BY <1>1, <2>4, <2>5 DEF References
  <2> QED
    BY <1>0, <1>1, <1>2, <2>1, <2>2, <2>6
<1>6. CASE ReleaseBlock
  <2> DEFINE R == plan.release[freed + 1]
  <2>1. /\ Total(returning') = Total(returning) + Cardinality(R)
        /\ Cardinality(R) \in Nat /\ R \subseteq Keys
        /\ UNCHANGED <<permits, driver>>
    BY <1>6, ReleaseCounts
  <2>2. /\ \A k \in R : refs[k] > 0 /\ refs'[k] = refs[k] - 1
        /\ \A k \in Keys \ R : refs'[k] = refs[k]
    BY <1>0, <1>6, <2>1, ReleaseFacts, UnpinnedRefs
  <2> HIDE DEF R
  <2>3. SumOn(refs', Keys) = SumOn(refs, Keys) - Cardinality(R)
    BY <1>1, <2>1, <2>2, SumWithOneLess
  <2>4. References' = References - Cardinality(R)
    BY <1>1, <2>3 DEF References
  <2>5. InHand' = InHand /\ InHand \in Nat
    BY <2>1 DEF InHand
  <2> QED
    BY <1>0, <1>1, <1>2, <2>1, <2>4, <2>5
<1>7. CASE ReturnPermits
  <2>1. /\ permits' + Total(returning') = permits + Total(returning)
        /\ UNCHANGED <<refs, driver>> /\ permits' \in Nat /\ Total(returning') \in Nat
    BY <1>7, ReturnCounts
  <2>2. InHand' = InHand /\ InHand \in Nat
    BY <2>1 DEF InHand
  <2>3. References' = References
    BY <1>a, <2>1
  <2>4. permits' + InHand + References + Total(returning') = permits + InHand + References + Total(returning)
    <3>1. permits \in Nat /\ References \in Nat /\ Total(returning) \in Nat /\ InHand \in Nat
      BY <1>0, <1>1, <2>2
    <3> QED
      BY <2>1, <3>1, Exchanged
  <2>5. (permits + InHand + References + Total(returning))' = permits + InHand + References + Total(returning)
    BY <2>2, <2>3, <2>4
  <2> QED
    BY <1>0, <1>2, <2>5
<1> QED
  BY <1>3, <1>4, <1>5, <1>6, <1>7, LedgerCases

(* A claim is the first of its key.                                        *)
LEMMA FirstClaim ==
  ASSUME Held, ~plan.reread, ClaimStep
  PROVE  /\ ~HasClaimed(Key)
         /\ \A k : HasClaimed(k)' <=> HasClaimed(k) \/ k = Key
<1>1. /\ claims' = claims + 1 /\ claims \in Nat /\ claims + 1 \in 1 .. Len(plan.admissions)
      /\ Len(plan.admissions) \in Nat /\ plan' = plan
  <2>1. [Next]_vars
    BY DEF ClaimStep, Next, DriverStep
  <2> QED
    BY <2>1, ClaimCounts, PlanKept, Sizes, Ground DEF Driving, Unclaimed
<1>2. \A i, j \in 1 .. Len(plan.admissions) : plan.admissions[i] = plan.admissions[j] => i = j
  BY Ground DEF KnownPlan, Coherent, ClaimedAhead
<1>3. ~HasClaimed(Key)
  BY <1>1, <1>2 DEF HasClaimed, Key
<1>4. 1 .. claims + 1 = (1 .. claims) \cup {claims + 1}
  BY <1>1
<1>5. \A k : HasClaimed(k)' <=> HasClaimed(k) \/ k = Key
  BY <1>1, <1>4 DEF HasClaimed, Key
<1> QED
  BY <1>3, <1>5

LEMMA ReferencedOnceStep ==
  ASSUME Held, ReferencedOnce, [Next]_vars
  PROVE  ReferencedOnce'
<1> SUFFICES ASSUME ~plan'.reread, consumer' # "done", NEW k \in Keys'
             PROVE  /\ refs'[k] = IF HasClaimed(k)' /\ ~Behind(k)' THEN 1 ELSE 0
                    /\ Behind(k)' => HasClaimed(k)'
  BY DEF ReferencedOnce
<1>0. /\ plan' = plan /\ ~plan.reread /\ consumer # "done" /\ k \in Keys /\ refs \in [Keys -> Nat]
      /\ freed \in 0 .. NBlocksOf /\ NBlocksOf \in Nat
  BY PlanKept, EndsStay, Ground DEF Keys, Pooled
<1>1. /\ refs[k] = IF HasClaimed(k) /\ ~Behind(k) THEN 1 ELSE 0
      /\ Behind(k) => HasClaimed(k)
  BY <1>0 DEF ReferencedOnce
<1>2. CASE UNCHANGED <<refs, claims, freed>>
  BY <1>0, <1>1, <1>2 DEF HasClaimed, Behind
<1>3. CASE ClaimStep
  <2>1. /\ freed' = freed /\ Key \in Keys /\ refs' = [refs EXCEPT ![Key] = @ + 1]
        /\ ~HasClaimed(Key) /\ (HasClaimed(k)' <=> HasClaimed(k) \/ k = Key)
    BY <1>0, <1>3, ClaimCounts, FirstClaim
  <2>2. Behind(k)' <=> Behind(k)
    BY <1>0, <2>1 DEF Behind
  <2>3. refs'[k] = IF k = Key THEN refs[k] + 1 ELSE refs[k]
    BY <1>0, <2>1
  <2>4. CASE k = Key
    BY <1>1, <2>1, <2>2, <2>3, <2>4
  <2>5. CASE k # Key
    BY <1>1, <2>1, <2>2, <2>3, <2>5
  <2> QED
    BY <2>4, <2>5
<1>4. CASE ReleaseBlock
  <2>1. freed' = freed + 1 /\ claims' = claims
    BY <1>4, ReleaseCounts
  <2>2. HasClaimed(k)' <=> HasClaimed(k)
    BY <1>0, <2>1 DEF HasClaimed
  <2>3. 1 .. freed + 1 = (1 .. freed) \cup {freed + 1}
    BY <1>0
  <2>4. Behind(k)' <=> Behind(k) \/ k \in plan.release[freed + 1]
    BY <1>0, <2>1, <2>3 DEF Behind
  <2>5. refs'[k] = IF k \in plan.release[freed + 1] THEN refs[k] - 1 ELSE refs[k]
    BY <1>0, <1>4, UnpinnedRefs
  <2>6. k \in plan.release[freed + 1] => refs[k] > 0
    BY <1>0, <1>4, ReleaseFacts
  <2> QED
    BY <1>1, <2>2, <2>4, <2>5, <2>6
<1>5. CASE ReleaseOwner
  BY <1>5 DEF ReleaseOwner
<1> QED
  BY <1>2, <1>3, <1>4, <1>5, ReferenceCases

LEMMA SlottedStep ==
  ASSUME Held, Slotted, [Next]_vars
  PROVE  Slotted'
<1> SUFFICES ASSUME ~plan'.reread, Running', NEW k \in Keys'
             PROVE  /\ refs'[k] > 0 => slot'[k] # "absent"
                    /\ slot'[k] = "filling" => k \in fetching'
                    /\ slot'[k] \in {"filling", "failed"} => refs'[k] > 0
  BY DEF Slotted, Present
<1>0. /\ plan' = plan /\ ~plan.reread /\ Running /\ k \in Keys /\ Pooled /\ Typed
  BY PlanKept, EndsStay, Ground DEF Keys
<1>1. /\ refs[k] > 0 => slot[k] # "absent"
      /\ slot[k] = "filling" => k \in fetching
      /\ slot[k] \in {"filling", "failed"} => refs[k] > 0
      /\ refs[k] \in Nat /\ slot[k] \in SlotStates
  BY <1>0 DEF Slotted, Present, Pooled
<1>2. CASE UNCHANGED vars \/ ConsumerStep \/ ThreadStep \/ LoopStep
  BY <1>1, <1>2, PoolLeftAlone
<1>3. CASE ClaimStep
  <2>1. PICK V : ClaimOf(Key, V)
    BY <1>0, <1>3, ClaimEffect
  <2>2. Key \in Keys
    BY <1>0, <1>3, ClaimEffect
  <2>3. refs'[k] = IF k = Key THEN refs[k] + 1 ELSE refs[k]
    BY <1>0, <2>1 DEF ClaimOf, Pooled
  <2>4. CASE k = Key
    <3>1. refs'[k] > 0
      BY <1>1, <2>3, <2>4
    <3>2. slot'[k] # "absent" /\ (slot'[k] = "filling" => k \in fetching')
      BY <1>0, <1>1, <2>1, <2>2, <2>4 DEF ClaimOf, Present, Evicted, Pooled
    <3> QED
      BY <3>1, <3>2
  <2>5. CASE k # Key
    <3>1. slot'[k] = slot[k] \/ (slot'[k] = "absent" /\ k \in V)
      BY <1>0, <2>1, <2>2, <2>5 DEF ClaimOf, Evicted, Pooled
    <3>2. k \in V => refs[k] = 0
      BY <1>0, <2>1 DEF ClaimOf, Evictable
    <3>3. fetching \subseteq fetching'
      BY <2>1 DEF ClaimOf
    <3> QED
      BY <1>1, <2>3, <2>5, <3>1, <3>2, <3>3
  <2> QED
    BY <2>4, <2>5
<1>4. CASE Park
  <2>1. slot' = Evicted(Evictable) /\ UNCHANGED <<refs, fetching>>
    BY <1>4 DEF Park
  <2>2. slot'[k] = slot[k] \/ (slot'[k] = "absent" /\ refs[k] = 0)
    BY <1>0, <2>1 DEF Evicted, Evictable
  <2> QED
    BY <1>1, <2>1, <2>2
<1>5. CASE ReleaseBlock
  <2>1. UNCHANGED <<slot, fetching>>
    BY <1>5, ReleaseCounts
  <2>2. refs'[k] = IF k \in plan.release[freed + 1] THEN refs[k] - 1 ELSE refs[k]
    BY <1>0, <1>5, UnpinnedRefs
  <2>3. k \in plan.release[freed + 1] => slot[k] = "ready"
    BY <1>0, <1>5, ReleaseFacts
  <2> QED
    BY <1>1, <2>1, <2>2, <2>3
<1>6. CASE CloseScheduler \/ ReleaseOwner
  BY <1>6 DEF CloseScheduler, ReleaseOwner, Running
<1>7. ASSUME NEW j \in Keys, TileArrives(j) \/ TileFails(j) \/ OtherPassEvicts(j)
      PROVE  /\ refs'[k] > 0 => slot'[k] # "absent"
             /\ slot'[k] = "filling" => k \in fetching'
             /\ slot'[k] \in {"filling", "failed"} => refs'[k] > 0
  <2>1. refs' = refs
    BY <1>7 DEF TileArrives, TileFails, OtherPassEvicts
  <2>2. CASE TileArrives(j)
    <3>1. fetching' = fetching \ {j}
      BY <2>2 DEF TileArrives
    <3>2. slot'[k] = IF k = j /\ slot[k] = "filling" THEN "ready" ELSE slot[k]
      BY <1>0, <2>2 DEF TileArrives, Pooled
    <3> QED
      BY <1>1, <2>1, <3>1, <3>2
  <2>3. CASE TileFails(j)
    <3>1. fetching' = fetching \ {j} /\ j \in fetching
      BY <2>3 DEF TileFails
    <3>2. slot'[k] = IF k = j THEN "failed" ELSE slot[k]
      BY <1>0, <2>3 DEF TileFails, Pooled
    <3>3. slot[j] \in {"filling", "failed"}
      BY <3>1 DEF Held, InFlight
    <3> QED
      BY <1>1, <2>1, <3>1, <3>2, <3>3
  <2>4. CASE OtherPassEvicts(j)
    <3>1. fetching' = fetching /\ refs[j] = 0
      BY <2>4 DEF OtherPassEvicts, Evictable
    <3>2. slot'[k] = IF k = j THEN "absent" ELSE slot[k]
      BY <1>0, <2>4 DEF OtherPassEvicts, Pooled
    <3> QED
      BY <1>1, <2>1, <3>1, <3>2
  <2> QED
    BY <1>7, <2>2, <2>3, <2>4
<1> QED
  BY <1>2, <1>3, <1>4, <1>5, <1>6, <1>7, StepCases

-----------------------------------------------------------------------------
(* A parked claim.                                                         *)

LEMMA WeightsCount ==
  ASSUME Held
  PROVE  Counts(plan.weight, Keys) /\ \A S \in SUBSET Keys : Weight(S) \in Nat
<1>1. Counts(plan.weight, Keys)
  BY Ground DEF KnownPlan, Coherent, Sized, Keys, Counts
<1> QED
  BY <1>1, SumOfLess DEF Weight

LEMMA ParkedFullStep ==
  ASSUME Held, Slotted, ParkedFull, [Next]_vars
  PROVE  ParkedFull'
<1> SUFFICES ASSUME ~plan'.reread, driver' = "parked", ~freshRoom'
             PROVE  (Weight(Referenced) + plan.weight[Key])' > plan'.budget
  BY DEF ParkedFull
<1>0. plan' = plan /\ ~plan.reread /\ Pooled /\ Typed /\ Keys' = Keys
  BY PlanKept, Ground DEF Keys
<1>1. ASSUME UNCHANGED <<refs, claims>>, driver = "parked", ~freshRoom
      PROVE  (Weight(Referenced) + plan.weight[Key])' > plan'.budget
  <2>1. Weight(Referenced) + plan.weight[Key] > plan.budget
    BY <1>0, <1>1 DEF ParkedFull
  <2> QED
    BY <1>0, <1>1, <2>1 DEF Weight, Referenced, Key, Numbered, SumOn
<1>2. CASE Park
  <2>1. /\ slot' = Evicted(Evictable) /\ UNCHANGED <<refs, claims>>
        /\ driver \in {"claim", "parked"} /\ ~FitsWithout(Evictable, Key)
    BY <1>2 DEF Park, Missed
  <2>2. Running
    BY <2>1 DEF Held, Ended, Running
  <2>3. ASSUME NEW k \in Keys
        PROVE  (Present(k) /\ k \notin Evictable) <=> refs[k] > 0
    <3>1. /\ refs[k] > 0 => Present(k)
          /\ slot[k] \in {"filling", "failed"} => refs[k] > 0
          /\ refs[k] \in Nat /\ slot[k] \in SlotStates
      BY <1>0, <2>2 DEF Slotted, Pooled
    <3> QED
      BY <3>1 DEF Evictable, Present, SlotStates
  <2>4. Resident \ Evictable = Referenced
    BY <2>3 DEF Resident, Referenced
  <2>5. Key \in Keys
    BY <1>0, <2>1, KeyIsKey
  <2>6. Weight(Referenced) \in Nat /\ plan.weight[Key] \in Nat /\ plan.budget \in Nat
    BY <2>5, WeightsCount, Ground DEF Referenced, Counts, KnownPlan, Coherent, Sized
  <2>7. Weight(Referenced) + plan.weight[Key] > plan.budget
    <3>1. ~(Weight(Resident \ Evictable) + plan.weight[Key] <= plan.budget)
      BY <2>1 DEF FitsWithout
    <3>2. ~(Weight(Referenced) + plan.weight[Key] <= plan.budget)
      BY <2>4, <3>1
    <3> QED
      BY <2>6, <3>2
  <2> QED
    BY <1>0, <2>1, <2>7 DEF Weight, Referenced, Key, Numbered, SumOn
<1>3. CASE UNCHANGED vars \/ ConsumerStep
  <2>1. UNCHANGED <<refs, claims, driver, freshRoom>>
    BY <1>3 DEF vars, drive, pool, ConsumerStep, Begin, Get, Resume, Leave, Drain
  <2> QED
    BY <1>1, <2>1
<1>4. CASE ThreadStep
  <2>1. UNCHANGED <<refs, claims, freshRoom>> /\ driver' \in {driver, "permit"}
    BY <1>4 DEF drive, pool, ThreadStep, StartDriver, NextBatch, BlockReady, BlockFails, BatchReady,
       Gather, TransformBatch, PutBatch, PutError, PutSentinel
  <2> QED
    BY <1>1, <2>1
<1>5. CASE LoopStep
  <2>1. UNCHANGED <<refs, claims, freshRoom>> /\ (driver' = driver \/ driver' # "parked")
    BY <1>5 DEF drive, pool, LoopStep, TakePermit, Starve, DriverEnds, ReturnPermits
  <2> QED
    BY <1>1, <2>1
<1>6. CASE ClaimStep
  BY <1>0, <1>6, ClaimEffect
<1>7. CASE ReleaseBlock
  BY <1>7 DEF ReleaseBlock
<1>8. CASE CloseScheduler
  BY <1>8 DEF CloseScheduler
<1>9. CASE ReleaseOwner
  BY <1>9 DEF ReleaseOwner, drive, Held, Ended
<1>10. CASE \E k \in Keys : TileArrives(k) \/ TileFails(k) \/ OtherPassEvicts(k)
  <2>1. UNCHANGED <<refs, claims, driver, freshRoom>>
    BY <1>10 DEF TileArrives, TileFails, OtherPassEvicts, drive
  <2> QED
    BY <1>1, <2>1
<1> QED
  BY <1>2, <1>3, <1>4, <1>5, <1>6, <1>7, <1>8, <1>9, <1>10, StepCases
-----------------------------------------------------------------------------
(* The caller is behind the producer.                                      *)

LEMMA NoneAheadStep ==
  ASSUME Held, Continued, NoneAhead, [Next]_vars
  PROVE  NoneAhead'
<1>0. /\ plan' = plan /\ NRows' = NRows /\ NRows \in Nat /\ start \in Nat /\ Typed /\ outq \in Seq(Items)
      /\ StopRow \in Nat /\ StopRow <= start + plan.batchSize /\ start + plan.batchSize \in Nat
      /\ start <= start + plan.batchSize /\ received \in Seq(Nat \X Nat)
  BY PlanKept, Ground, StopRowIsNat DEF NRows, Callers
<1>1. ASSUME UNCHANGED <<received, outcome, outq>>, start' = start
      PROVE  NoneAhead'
  BY <1>0, <1>1 DEF NoneAhead, Given, Stream!Reached
<1>2. ASSUME UNCHANGED <<received, outcome>>, start' = start, outq # <<>>, outq' = Tail(outq)
      PROVE  NoneAhead'
  <2>1. \A i \in 1 .. Len(outq') : i + 1 \in 1 .. Len(outq) /\ outq'[i] = outq[i + 1]
    BY <1>0, <1>2
  <2> QED
    BY <1>0, <1>2, <2>1 DEF NoneAhead, Given, Stream!Reached
<1>3. ASSUME UNCHANGED <<received, outcome>>, NEW item \in Items, outq' = Append(outq, item),
             start' \in {start, start + plan.batchSize}, item.rows[2] <= start'
      PROVE  NoneAhead'
  <2>1. /\ Len(outq') = Len(outq) + 1 /\ Len(outq) \in Nat /\ outq'[Len(outq) + 1] = item
        /\ \A i \in 1 .. Len(outq) : outq'[i] = outq[i] /\ outq[i] \in Items
    BY <1>0, <1>3
  <2>2. start <= start' /\ start' \in Nat
    BY <1>0, <1>3
  <2>3. \A i \in 1 .. Len(outq) : outq[i].rows[2] \in Nat
    BY <2>1 DEF Items
  <2>4. Given \in Nat
    BY <1>0 DEF Given, Stream!Reached
  <2>5. Given' = Given
    BY <1>3 DEF Given, Stream!Reached
  <2>6. \A i \in 1 .. Len(outq') : outq'[i].rows[2] <= start'
    <3>1. SUFFICES ASSUME NEW i \in 1 .. Len(outq') PROVE outq'[i].rows[2] <= start'
      OBVIOUS
    <3>2. CASE i = Len(outq) + 1
      BY <1>3, <2>1, <3>2
    <3>3. CASE i # Len(outq) + 1
      <4>1. i \in 1 .. Len(outq) /\ outq'[i] = outq[i]
        BY <2>1, <3>3
      <4>2. outq[i].rows[2] <= start /\ outq[i].rows[2] \in Nat
        BY <2>3, <4>1 DEF NoneAhead
      <4> QED
        BY <1>0, <2>2, <4>1, <4>2
    <3> QED
      BY <3>2, <3>3
  <2>7. Given <= start'
    BY <1>0, <2>2, <2>4 DEF NoneAhead
  <2>8. outcome' = "finished" => start' >= NRows'
    BY <1>0, <1>3, <2>2 DEF NoneAhead
  <2> QED
    BY <2>5, <2>6, <2>7, <2>8 DEF NoneAhead
<1>4. CASE Get
  <2>0. /\ outcome = "open" /\ QueueFits /\ outq # <<>> /\ outq' = Tail(outq)
        /\ start' = start /\ Head(outq) = outq[1] /\ outq[1] \in Items /\ 1 \in 1 .. Len(outq)
    BY <1>0, <1>4, GetEffect DEF Continued, Ongoing, Get, thread
  <2>1. \A i \in 1 .. Len(outq') : outq'[i].rows[2] <= start'
    <3>1. \A i \in 1 .. Len(outq') : i + 1 \in 1 .. Len(outq) /\ outq'[i] = outq[i + 1]
      BY <1>0, <2>0
    <3> QED
      BY <2>0, <3>1 DEF NoneAhead
  <2>2. CASE Head(outq).kind = "batch"
    <3>1. received' = Append(received, outq[1].rows) /\ outcome' = "open"
      BY <1>0, <1>4, <2>0, <2>2, GetEffect
    <3>2. Given' = outq[1].rows[2]
      <4>1. outq[1].rows \in Nat \X Nat
        BY <2>0 DEF Items
      <4>2. received' = Append(received, outq[1].rows) /\ received \in Seq(Nat \X Nat)
        BY <1>0, <3>1
      <4>3. received' # <<>> /\ Len(received') = Len(received) + 1 /\ received'[Len(received) + 1] = outq[1].rows
        BY <4>1, <4>2
      <4> QED
        BY <4>3 DEF Given, Stream!Reached
    <3> QED
      BY <2>0, <2>1, <3>1, <3>2 DEF NoneAhead
  <2>3. CASE Head(outq).kind = "error"
    <3>1. received' = received /\ outcome' = "raised"
      BY <1>0, <1>4, <2>3, GetEffect DEF EndLoop
    <3> QED
      BY <2>0, <2>1, <3>1 DEF NoneAhead, Given, Stream!Reached
  <2>4. CASE Head(outq).kind = "sentinel"
    <3>1. received' = received
      BY <1>0, <1>4, <2>4, GetEffect
    <3>2. Given = NRows
      BY <2>0, <2>4 DEF QueueFits, SentinelFits
    <3>3. start' >= NRows'
      BY <1>0, <2>0, <3>2 DEF NoneAhead
    <3> QED
      BY <2>0, <2>1, <3>1, <3>3 DEF NoneAhead, Given, Stream!Reached
  <2> QED
    BY <1>0, <1>4, <2>2, <2>3, <2>4, GetEffect
<1>5. CASE PutBatch
  <2>1. BatchItem \in Items /\ BatchItem.rows[2] = StopRow
    BY <1>0, ItemTypes DEF Typed, BatchItem
  <2> QED
    BY <1>0, <1>3, <1>5, <2>1 DEF PutBatch, caller
<1>6. CASE PutError \/ PutSentinel
  <2>1. ErrorItem \in Items /\ Sentinel \in Items /\ ErrorItem.rows[2] = 0 /\ Sentinel.rows[2] = 0
    BY <1>0, ItemTypes DEF Typed, ErrorItem, Sentinel
  <2>2. \E item \in Items : outq' = Append(outq, item) /\ item.rows[2] = 0
    BY <1>6, <2>1 DEF PutError, PutSentinel
  <2>3. UNCHANGED <<received, outcome, start>>
    BY <1>6 DEF PutError, PutSentinel, caller
  <2> QED
    BY <1>0, <1>3, <2>2, <2>3
<1>7. CASE Drain
  BY <1>2, <1>7 DEF Drain, caller, thread
<1>8. CASE Leave
  <2>1. UNCHANGED <<received, outq, start>> /\ outcome' = "left"
    BY <1>8 DEF Leave, EndLoop, thread
  <2> QED
    BY <1>0, <2>1 DEF NoneAhead, Given, Stream!Reached
<1>9. CASE UNCHANGED vars \/ Begin \/ Resume
  BY <1>1, <1>9 DEF vars, caller, queue, thread, Begin, Resume
<1>10. CASE ThreadStep /\ ~(PutBatch \/ PutError \/ PutSentinel)
  BY <1>1, <1>10 DEF caller, queue, ThreadStep, StartDriver, NextBatch, BlockReady, BlockFails, BatchReady,
     Gather, TransformBatch
<1>11. CASE LoopStep \/ ReleaseBlock
  BY <1>1, <1>11 DEF caller, queue, thread, LoopStep, TakePermit, Starve, DriverEnds, ReturnPermits, ReleaseBlock
<1>12. CASE ClaimStep \/ Park
  BY <1>1, <1>12 DEF caller, queue, thread, ClaimStep, PinReady, Revive, JoinResident, AdmitFresh, Claimed, Park
<1>13. CASE CloseScheduler \/ ReleaseOwner
  BY <1>1, <1>13 DEF caller, queue, thread, CloseScheduler, ReleaseOwner
<1>14. CASE \E k \in Keys : TileArrives(k) \/ TileFails(k) \/ OtherPassEvicts(k)
  BY <1>1, <1>14 DEF caller, queue, thread, TileArrives, TileFails, OtherPassEvicts
<1> QED
  BY <1>4, <1>5, <1>6, <1>7, <1>8, <1>9, <1>10, <1>11, <1>12, <1>13, <1>14, StepCases DEF ConsumerStep

-----------------------------------------------------------------------------
(* The whole invariant.                                                    *)

Balanced ==
  /\ Held /\ Continued /\ Unstarted /\ Ledger /\ PermitsBalance /\ ReferencedOnce
  /\ Prompt /\ Slotted /\ ParkedFull /\ NoneAhead

LEMMA BalancedInit == ASSUME CoherentPlans, Init PROVE Balanced
<1>0. Held /\ Continued
  BY HeldInit, ContinuedInit DEF Held
<1>1. /\ producer = "none" /\ driver = "none" /\ consumer = "new" /\ outcome = "open"
      /\ start = 0 /\ ready = 0 /\ freed = 0 /\ claims = 0
      /\ permits = plan.bound /\ returning = <<>> /\ outq = <<>> /\ received = <<>>
      /\ refs = [k \in Keys |-> 0]
      /\ slot = [k \in Keys |-> IF k \in plan.warm THEN "ready" ELSE "absent"]
  BY DEF Init
<1>2. plan.bound \in Nat /\ 1 .. freed = {} /\ 1 .. claims = {}
  BY <1>0, <1>1, Sizes, Ground
<1>3. Total(returning) = 0 /\ InHand = 0
  BY <1>1, TotalOfNone DEF InHand
<1>4. HandedOver(1 .. freed) = 0
  BY <1>2, SumOfNone DEF HandedOver
<1>5. References = 0
  <2>1. \A k \in Keys : {k} \X (1 .. refs[k]) = {}
    BY <1>1
  <2>2. Numbered(refs, Keys) = {}
    BY <2>1 DEF Numbered
  <2> QED
    BY <2>2, FS_EmptySet DEF References, SumOn
<1>6. Ledger /\ PermitsBalance
  BY <1>1, <1>2, <1>3, <1>4, <1>5 DEF Ledger, PermitsBalance
<1>7. ReferencedOnce
  BY <1>1, <1>2 DEF ReferencedOnce, HasClaimed, Behind
<1>8. Prompt
  <2>1. 0 \in 0 .. start /\ start = 0 * plan.batchSize
    BY <1>0, <1>1, Ground
  <2>2. \A c \in 1 .. NBlocksOf : ~(plan.blocks[c].stop <= start) /\ plan.blocks[c].start >= start
    BY <1>0, <1>1, Ground
  <2>3. \A b \in ready + 1 .. NBlocksOf : b \in 1 .. NBlocksOf
    BY <1>0, <1>1, Ground
  <2> QED
    BY <1>1, <2>1, <2>2, <2>3 DEF Prompt
<1>9. Slotted /\ ParkedFull /\ Unstarted
  BY <1>1 DEF Slotted, Present, ParkedFull, Unstarted
<1>10. NoneAhead
  BY <1>1 DEF NoneAhead, Given, Stream!Reached
<1> QED
  BY <1>0, <1>6, <1>7, <1>8, <1>9, <1>10 DEF Balanced

LEMMA BalancedStep == ASSUME Balanced, [Next]_vars PROVE Balanced'
BY HeldStep, ContinuedStep, UnstartedStep, LedgerStep, BalanceStep, ReferencedOnceStep, PromptStep,
   SlottedStep, ParkedFullStep, NoneAheadStep DEF Balanced, Held

LEMMA BalancedAlways == ASSUME CoherentPlans PROVE Spec => []Balanced
<1>1. Init => Balanced
  BY BalancedInit
<1>2. Balanced /\ [Next]_vars => Balanced'
  BY BalancedStep
<1> QED
  BY <1>1, <1>2, PTL DEF Spec

(* No permit is lost and none is made: what the driver took is in its      *)
(* hand, behind a reference it may still wait on, or on its way back       *)
(* (unpin_block, _release_ahead).                                          *)
THEOREM PermitsAreKept == ASSUME CoherentPlans PROVE Spec => []PermitsBalance
<1>1. Balanced => PermitsBalance
  BY DEF Balanced
<1> QED
  BY <1>1, BalancedAlways, PTL

(* A pass whose loop ended by itself has read what it awaited and handed   *)
(* it back, with the batch that drained it (source.py, release).           *)
THEOREM LeftoversAreUnread == ASSUME CoherentPlans PROVE Spec => []LeftoverIsUnread
<1>1. ASSUME Balanced PROVE LeftoverIsUnread
  <2> SUFFICES ASSUME outcome = "finished", ~plan.reread,
                      NEW b \in 1 .. NBlocksOf, NEW k \in plan.blocks[b].keys
               PROVE  refs[k] = 0
    BY DEF LeftoverIsUnread
  <2>0. Held
    BY <1>1 DEF Balanced
  <2>1. k \in Keys
    BY <2>0, Ground, ReleasedKeys
  <2>2. PICK d \in 1 .. NBlocksOf : k \in plan.release[d]
    BY <2>0, Ground DEF KnownPlan, Coherent, HandedBack, NBlocksOf
  <2>3. plan.blocks[d].stop <= start
    BY <1>1, <2>0, <2>2, Ground DEF Balanced, NoneAhead
  <2>4. d \in 1 .. freed
    BY <1>1, <2>0, <2>2, <2>3, Ground DEF Balanced, Prompt
  <2>5. Behind(k)
    BY <2>2, <2>4 DEF Behind
  <2>6. consumer = "done" => refs[k] = 0
    BY <2>0, <2>1 DEF Held, Ended
  <2>7. consumer # "done" => refs[k] = 0
    BY <1>1, <2>1, <2>5 DEF Balanced, ReferencedOnce
  <2> QED
    BY <2>6, <2>7
<1> QED
  BY <1>1, BalancedAlways, PTL

-----------------------------------------------------------------------------
(* Starvation.                                                             *)

LEMMA WholeBatches ==
  ASSUME NEW size \in Nat \ {0}, NEW m \in Nat, NEW x \in Nat, m * size <= x, x < m * size + size
  PROVE  x \div size = m
OBVIOUS

(* A producer that waits for a block has released all that drained before  *)
(* the batch the block is the first to be needed for.                      *)
LEMMA FreedWhileWaiting ==
  ASSUME Balanced, producer = "wait", NeedsBlock
  PROVE  /\ ready + 1 \in 1 .. NBlocksOf /\ ready + 1 > freed
         /\ FreedFor(ready + 1) = 1 .. freed
<1> DEFINE b == ready + 1
<1>0. /\ Held /\ Prompt /\ Frontiers
      /\ plan.batchSize \in Nat \ {0} /\ start \in Nat /\ NBlocksOf \in Nat
      /\ freed \in 0 .. NBlocksOf /\ freed <= ready /\ ready \in 0 .. NBlocksOf
      /\ StopRow \in Nat /\ StopRow <= start + plan.batchSize
      /\ \A c \in 1 .. NBlocksOf : plan.blocks[c].start \in Nat /\ plan.blocks[c].stop \in Nat
  BY Ground, StopRowIsNat DEF Balanced, Held
<1>1. b \in 1 .. NBlocksOf /\ b > freed /\ plan.blocks[b].start < StopRow
  BY <1>0 DEF NeedsBlock
<1>2. plan.blocks[b].start \in Nat /\ start <= plan.blocks[b].start
  <2>1. b \in ready + 1 .. NBlocksOf
    BY <1>0, <1>1
  <2> QED
    BY <1>0, <1>1, <2>1 DEF Prompt
<1>3. PICK m \in 0 .. start : start = m * plan.batchSize
  BY <1>0 DEF Prompt
<1>4. plan.blocks[b].start < m * plan.batchSize + plan.batchSize /\ m * plan.batchSize <= plan.blocks[b].start
  BY <1>0, <1>1, <1>2, <1>3
<1>5. plan.blocks[b].start \div plan.batchSize = m
  <2>1. PICK size \in Nat \ {0}, x \in Nat : size = plan.batchSize /\ x = plan.blocks[b].start
    BY <1>0, <1>2
  <2>2. m \in Nat /\ m * size <= x /\ x < m * size + size
    BY <1>0, <1>4, <2>1
  <2>3. x \div size = m
    BY <2>2, WholeBatches
  <2> QED
    BY <2>1, <2>3
<1>6. FirstBatchOf(b) = start
  BY <1>3, <1>5 DEF FirstBatchOf
<1>7. \A c \in 1 .. NBlocksOf : plan.blocks[c].stop <= start <=> c \in 1 .. freed
  BY <1>0 DEF Prompt, Frontiers
<1>8. FreedFor(b) = {c \in 1 .. NBlocksOf : c \in 1 .. freed}
  BY <1>6, <1>7 DEF FreedFor
<1>9. FreedFor(b) = 1 .. freed
  <2>1. freed \in Nat /\ NBlocksOf \in Nat /\ freed <= NBlocksOf
    BY <1>0
  <2>2. {c \in 1 .. NBlocksOf : c \in 1 .. freed} = 1 .. freed
    BY <2>1
  <2> QED
    BY <1>8, <2>2
<1> QED
  BY <1>1, <1>9

(* What blocks it, when no tile is on its way, has not been claimed.       *)
LEMMA BlockedOnUnclaimed ==
  ASSUME Balanced, ~plan.reread, Running, fetching = {}, ProducerBlocked
  PROVE  claims < plan.claimedBy[ready + 1]
<1> DEFINE b == ready + 1
<1>0. /\ Held /\ producer = "wait" /\ NeedsBlock /\ b \in 1 .. NBlocksOf /\ b > freed
  BY FreedWhileWaiting DEF Balanced, ProducerBlocked
<1>1. PICK k \in plan.blocks[b].keys : ~Awaited(k) /\ ~WaitRaises(k)
  BY DEF ProducerBlocked
<1>2. k \in Keys /\ ~Behind(k)
  BY <1>0, <1>1, Ground, ReleasedKeys, HandedBackLast
<1>3. ~HasClaimed(k)
  <2>1. SUFFICES ASSUME HasClaimed(k) PROVE FALSE
    OBVIOUS
  <2>2. refs[k] = 1
    BY <1>2, <2>1 DEF Balanced, ReferencedOnce, Running
  <2>3. slot[k] # "absent" /\ slot[k] # "filling" /\ slot[k] \in SlotStates
    BY <1>0, <1>2, <2>2, Ground DEF Balanced, Slotted, Present, Pooled
  <2> QED
    BY <1>1, <2>2, <2>3 DEF Awaited, WaitRaises, SlotStates
<1>4. /\ plan.claimedBy[b] \in 0 .. Len(plan.admissions) /\ Len(plan.admissions) \in Nat
      /\ \E i \in 1 .. plan.claimedBy[b] : plan.admissions[i] = k
      /\ claims \in 0 .. Len(plan.admissions)
  BY <1>0, <1>1, Ground, Sizes DEF KnownPlan, Coherent, ClaimedAhead, NBlocksOf, Driving
<1>5. PICK i \in 1 .. plan.claimedBy[b] : plan.admissions[i] = k
  BY <1>4
<1>6. i \notin 1 .. claims
  BY <1>3, <1>5 DEF HasClaimed
<1> QED
  BY <1>4, <1>5, <1>6

(* The limits then suffice: the pass is not out of permits ...             *)
LEMMA PermitsAreLeft ==
  ASSUME Balanced, ~plan.reread, PermitsSuffice, driver = "permit", returning = <<>>,
         fetching = {}, ProducerBlocked
  PROVE  permits > 0
<1> DEFINE b == ready + 1
<1>0. /\ Held /\ Running /\ b \in 1 .. NBlocksOf /\ FreedFor(b) = 1 .. freed
  BY FreedWhileWaiting DEF Balanced, ProducerBlocked, Held, Ended, Running
<1>1. claims < plan.claimedBy[b]
  BY <1>0, BlockedOnUnclaimed
<1>2. plan.claimedBy[b] - HandedOver(1 .. freed) <= plan.bound
  BY <1>0 DEF PermitsSuffice
<1>3. Total(returning) = 0 /\ InHand = 0
  BY TotalOfNone DEF InHand
<1>4. permits + InHand + claims + Total(returning) = plan.bound + HandedOver(1 .. freed)
  BY <1>0 DEF Balanced, Ledger
<1>5. /\ permits \in Nat /\ claims \in Nat /\ plan.bound \in Nat /\ HandedOver(1 .. freed) \in Nat
      /\ plan.claimedBy[b] \in Nat
  <2>1. permits \in Nat /\ claims \in Nat /\ plan.bound \in Nat
    BY <1>0, Ground, Sizes DEF Driving
  <2>2. HandedOver(1 .. freed) \in Nat
    BY <1>0, Ground, HandedOverCounts
  <2>3. plan.claimedBy[b] \in Nat
    BY <1>0, Ground DEF KnownPlan, Coherent, ClaimedAhead, NBlocksOf
  <2> QED
    BY <2>1, <2>2, <2>3
<1>6. ASSUME NEW x \in Nat, NEW y \in Nat, NEW bound \in Nat, NEW handed \in Nat, NEW by \in Nat,
             y < by, by - handed <= bound, x + 0 + y + 0 = bound + handed
      PROVE  x > 0
  BY <1>6
<1> QED
  BY <1>1, <1>2, <1>3, <1>4, <1>5, <1>6

(* ... and the chunk it claims fits beside those it holds.                 *)
LEMMA BudgetIsLeft ==
  ASSUME Balanced, ~plan.reread, BudgetSuffices, driver = "parked", ~freshRoom,
         fetching = {}, ProducerBlocked
  PROVE  FALSE
<1> DEFINE b == ready + 1
<1>0. /\ Held /\ Running /\ b \in 1 .. NBlocksOf /\ FreedFor(b) = 1 .. freed
      /\ plan.claimedBy[b] \in Nat /\ claims < plan.claimedBy[b]
  BY FreedWhileWaiting, BlockedOnUnclaimed, Ground
     DEF Balanced, ProducerBlocked, Held, Ended, Running, KnownPlan, Coherent, ClaimedAhead, NBlocksOf
<1>1. Key \in Keys /\ claims + 1 \in 1 .. Len(plan.admissions) /\ claims \in Nat
  <2>1. Key \in Keys
    BY <1>0, Ground, KeyIsKey DEF Driving, Unclaimed
  <2>2. claims \in 0 .. Len(plan.admissions) /\ claims < Len(plan.admissions) /\ Len(plan.admissions) \in Nat
    BY <1>0, Ground, Sizes DEF Driving, Unclaimed
  <2> QED
    BY <2>1, <2>2
<1>2. ~HasClaimed(Key)
  <2>1. \A i, j \in 1 .. Len(plan.admissions) : plan.admissions[i] = plan.admissions[j] => i = j
    BY <1>0, Ground DEF KnownPlan, Coherent, ClaimedAhead
  <2>2. \A i \in 1 .. claims : i \in 1 .. Len(plan.admissions) /\ i # claims + 1
    BY <1>0, <1>1, Ground, Sizes
  <2> QED
    BY <1>1, <2>1, <2>2 DEF HasClaimed, Key
<1>3. Key \notin Referenced
  BY <1>0, <1>1 DEF Balanced, Held, InFlight, Slotted, Referenced
<1>4. ASSUME NEW j \in Referenced \cup {Key}
      PROVE  j \in HeldFor(b)
  <2>1. j \in Keys /\ ~Behind(j)
    BY <1>0, <1>1, <1>2, <1>4 DEF Balanced, ReferencedOnce, Running, Referenced
  <2>2. \E i \in 1 .. plan.claimedBy[b] : plan.admissions[i] = j
    <3>1. claims + 1 \in 1 .. plan.claimedBy[b] /\ \A i \in 1 .. claims : i \in 1 .. plan.claimedBy[b]
      BY <1>0, <1>1
    <3>2. CASE j = Key
      BY <3>1, <3>2 DEF Key
    <3>3. CASE j \in Referenced
      <4>1. HasClaimed(j)
        BY <1>0, <3>3 DEF Balanced, ReferencedOnce, Running, Referenced
      <4> QED
        BY <3>1, <4>1 DEF HasClaimed
    <3> QED
      BY <1>4, <3>2, <3>3
  <2>3. ClaimsOf(j, b) > 0
    <3> DEFINE C == {i \in 1 .. plan.claimedBy[b] : plan.admissions[i] = j}
    <3>1. C # {} /\ C \in SUBSET (1 .. plan.claimedBy[b])
      BY <2>2
    <3>2. IsFiniteSet(C)
      <4>1. IsFiniteSet(1 .. plan.claimedBy[b])
        BY <1>0, FS_Interval
      <4> QED
        BY <3>1, <4>1, FS_Subset
    <3>3. Cardinality(C) \in Nat /\ Cardinality(C) # 0
      BY <3>1, <3>2, FS_CardinalityType, FS_EmptySet
    <3> QED
      BY <3>3 DEF ClaimsOf
  <2>4. ReleasesOf(j, b) = 0
    <3>1. {c \in FreedFor(b) : j \in plan.release[c]} = {}
      BY <1>0, <2>1 DEF Behind
    <3> QED
      BY <3>1, FS_EmptySet DEF ReleasesOf
  <2> QED
    BY <2>1, <2>3, <2>4 DEF HeldFor
<1>5. Counts(plan.weight, Keys) /\ HeldFor(b) \in SUBSET Keys
  BY <1>0, WeightsCount DEF HeldFor
<1>6. Counts(plan.weight, HeldFor(b))
  BY <1>5, SumOfLess
<1>7. /\ Weight(Referenced \cup {Key}) <= Weight(HeldFor(b))
      /\ Weight(Referenced \cup {Key}) \in Nat /\ Weight(HeldFor(b)) \in Nat
  <2>1. Referenced \cup {Key} \in SUBSET HeldFor(b)
    BY <1>4
  <2> QED
    BY <1>6, <2>1, SumOfLess DEF Weight
<1>8. Weight(Referenced \cup {Key}) = Weight(Referenced) + plan.weight[Key]
  <2>1. Counts(plan.weight, Referenced) /\ plan.weight[Key] \in Nat
    <3>1. Referenced \in SUBSET Keys
      BY DEF Referenced
    <3>2. Counts(plan.weight, Referenced)
      BY <1>5, <3>1, SumOfLess
    <3> QED
      BY <1>1, <1>5, <3>2 DEF Counts
  <2>2. PICK k \in Keys : k = Key
    BY <1>1
  <2>3. SumOn(plan.weight, Referenced \cup {k}) = SumOn(plan.weight, Referenced) + plan.weight[k]
    BY <1>3, <2>1, <2>2, SumWithOneMore
  <2> QED
    BY <2>2, <2>3 DEF Weight
<1>9. Weight(HeldFor(b)) <= plan.budget /\ plan.budget \in Nat
  BY <1>0, Ground DEF BudgetSuffices, KnownPlan, Coherent, Sized
<1>10. Weight(Referenced) + plan.weight[Key] > plan.budget
  BY DEF Balanced, ParkedFull
<1> QED
  BY <1>7, <1>8, <1>9, <1>10

LEMMA StarvedStep ==
  ASSUME PromptLoop, Balanced, ~plan.reread, Starve
  PROVE  ~PermitsSuffice \/ ~BudgetSuffices
<1>1. /\ returning = <<>> /\ ~freshRoom /\ fetching = {} /\ ProducerBlocked
      /\ (driver = "permit" /\ permits = 0) \/ driver = "parked"
  BY DEF Starve, Stalled
<1> QED
  BY <1>1, PermitsAreLeft, BudgetIsLeft

(* A driver that gives up was right to: its plan has a block for which the *)
(* read-ahead bound or the byte budget leaves no room, whatever the order  *)
(* in which tiles arrived, batches were taken and blocks were released     *)
(* (_starvation and _ahead_starvation, and the floors that the epoch's     *)
(* summary computes).  Of plans that read a chunk twice this says nothing: *)
(* there a wait may be satisfied by the reference an earlier block took.   *)
THEOREM StarvationHasCause ==
  ASSUME CoherentPlans, PromptLoop
  PROVE  Spec => [](~plan.reread => StarvedForCause)
<1>1. Init => (~plan.reread => StarvedForCause)
  BY DEF Init, StarvedForCause
<1>2. ASSUME Balanced, ~plan.reread => StarvedForCause, [Next]_vars
      PROVE  (~plan.reread => StarvedForCause)'
  <2> SUFFICES ASSUME ~plan'.reread PROVE StarvedForCause'
    OBVIOUS
  <2>1. plan' = plan /\ ~plan.reread
    BY <1>2, PlanKept
  <2>2. (PermitsSuffice' <=> PermitsSuffice) /\ (BudgetSuffices' <=> BudgetSuffices)
    BY <2>1 DEF PermitsSuffice, BudgetSuffices, HeldFor, ClaimsOf, ReleasesOf, FreedFor, FirstBatchOf,
       HandedOver, Weight, SumOn, Numbered, NBlocksOf, Keys
  <2>3. driver' = "starved" => driver = "starved" \/ Starve
    <3> USE DEF drive
    <3>1. CASE UNCHANGED vars \/ ConsumerStep
      BY <3>1 DEF vars, ConsumerStep, Begin, Get, Resume, Leave, Drain
    <3>2. CASE ThreadStep \/ ReleaseBlock
      BY <3>2 DEF ThreadStep, StartDriver, NextBatch, BlockReady, BlockFails, BatchReady, Gather,
         TransformBatch, PutBatch, PutError, PutSentinel, ReleaseBlock
    <3>3. CASE LoopStep
      BY <3>3 DEF LoopStep, TakePermit, DriverEnds, ReturnPermits
    <3>4. CASE ClaimStep \/ Park
      BY <3>4 DEF ClaimStep, PinReady, Revive, JoinResident, AdmitFresh, Claimed, Park
    <3>5. CASE CloseScheduler \/ ReleaseOwner
      BY <3>5 DEF CloseScheduler, ReleaseOwner
    <3>6. CASE \E k \in Keys : TileArrives(k) \/ TileFails(k) \/ OtherPassEvicts(k)
      BY <3>6 DEF TileArrives, TileFails, OtherPassEvicts
    <3> QED
      BY <1>2, <3>1, <3>2, <3>3, <3>4, <3>5, <3>6, StepCases
  <2> QED
    BY <1>2, <2>1, <2>2, <2>3, StarvedStep DEF StarvedForCause
<1> QED
  BY <1>1, <1>2, BalancedAlways, PTL DEF Spec
=============================================================================
