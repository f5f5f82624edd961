----------------------------- MODULE ChunkPool -----------------------------
(***************************************************************************)
(* The chunk pool (insitubatch/pool.py) and the three kinds of actor that  *)
(* call it: the driver of each pass and its tile tasks, which run on one   *)
(* shared event loop (insitubatch/scheduler.py); the decode threads, which *)
(* deliver tiles when the pool assembles whole chunks; and the producer    *)
(* thread of each pass, which waits, gathers and releases (source.py).     *)
(*                                                                         *)
(* A step is one critical section of the pool's lock, together with the    *)
(* code around it that no other actor can observe.  The modelled pool has  *)
(* no cache directory and its passes hold a chunk from admission to its    *)
(* last use, so a pass references a chunk at most once and a reference     *)
(* count is a set of passes.                                               *)
(***************************************************************************)
EXTENDS Integers, FiniteSets

CONSTANTS
  Pass,           \* owner tokens: the iterations that may share the pool
  Chunk,          \* slot keys, (array, chunk_index)
  Tile,           \* inner coordinates of the stored chunks that make up a slot
  Weight,         \* bytes charged to the budget for a set of chunks
  Budget,         \* cache_budget_bytes
  IterationBytes, \* one pass's working set, 0 if unknown
  MaxOwners,      \* bound: how many passes are ever started
  MaxInflight,    \* tiles one pass may have in flight
  Assembles,      \* does publishing a chunk need the whole array (transforms)?
  BadTile,        \* tiles whose fetch or decode may fail (on_bad_chunk = "raise")
  BadTransform    \* chunks on which a chunk_transform may raise

ASSUME WeightAssumption ==
  /\ Weight \in [SUBSET Chunk -> Nat]
  /\ \A S, T \in SUBSET Chunk :
       S \cap T = {} => Weight[S \cup T] = Weight[S] + Weight[T]

ASSUME PoolAssumption ==
  /\ IsFiniteSet(Pass)
  /\ IsFiniteSet(Tile)
  /\ Budget \in Nat
  /\ IterationBytes \in Nat
  /\ MaxOwners \in Nat
  /\ MaxInflight \in Nat \ {0}
  /\ Assembles \in BOOLEAN
  /\ BadTile \subseteq Chunk \X Tile
  /\ BadTransform \subseteq Chunk

VARIABLES
  slot,       \* slot[c]: the entry of _slots for c, Absent if there is none
  older,      \* the order of _slots: <<c, d>> when d was touched after c
  bytes,      \* _bytes
  refs,       \* refs[c]: the passes that hold a reference (_pinned)
  poolError,  \* has set_error been called?
  minted,     \* _owner_seq: how many owner tokens were handed out
  status,     \* status[p]: where pass p is in its life
  claimed,    \* claimed[p]: the chunks p's driver has pinned or admitted
  parked,     \* parked[p]: the chunk p's driver waits to admit, if any
  task,       \* task[j]: where tile task j is, see Phase
  late,       \* decode threads still delivering for a task that was cancelled
  loop,       \* the task the event loop is in the middle of, if any
  using,      \* using[p]: chunks p's producer has waited for and not released
  waiting,    \* waiting[p]: the chunk p's producer is in wait_ready on, if any
  asleep      \* the passes whose producer sleeps on the condition variable

table == <<slot, older, bytes, refs>>
passes == <<minted, status, claimed, parked>>
tasks == <<task, late, loop>>
producers == <<using, waiting>>
vars == <<table, poolError, passes, tasks, producers, asleep>>

Job == Pass \X Chunk \X Tile

SlotState == {"absent", "filling", "assembled", "ready", "failed"}
Status == {"idle", "live", "starved", "closing"}

(***************************************************************************)
(* A tile task is created queued, runs inside tile_write while it fetches  *)
(* and decodes, is handed to a decode thread if the pool assembles, and    *)
(* then lands its tile, releases its write and advances the slot; the one  *)
(* that completes the chunk publishes it.  "orphan": its slot was dropped  *)
(* while it was publishing.                                                *)
(***************************************************************************)
Phase == {"none", "queued", "running", "delivering",
          "landed", "released", "publishing", "orphan"}

Absent == [state |-> "absent", writers |-> 0, pending |-> 0,
           tiles |-> {}, error |-> FALSE]
Fresh == [state |-> "filling", writers |-> 0, pending |-> Cardinality(Tile),
          tiles |-> {}, error |-> FALSE]

Present(c) == slot[c].state # "absent"
Resident == {c \in Chunk : Present(c)}
Live == {p \in Pass : status[p] # "idle"}
TasksOf(p) == {j \in Job : j[1] = p}
JobsOf(p, c) == {j \in Job : j[1] = p /\ j[2] = c}

ProducerRuns(p) == status[p] \in {"live", "starved"}

LoopFree == loop = {}
Notify == asleep' = {}

Init ==
  /\ slot = [c \in Chunk |-> Absent]
  /\ older = {}
  /\ bytes = 0
  /\ refs = [c \in Chunk |-> {}]
  /\ poolError = FALSE
  /\ minted = 0
  /\ status = [p \in Pass |-> "idle"]
  /\ claimed = [p \in Pass |-> {}]
  /\ parked = [p \in Pass |-> {}]
  /\ task = [j \in Job |-> "none"]
  /\ late = {}
  /\ loop = {}
  /\ using = [p \in Pass |-> {}]
  /\ waiting = [p \in Pass |-> {}]
  /\ asleep = {}

-----------------------------------------------------------------------------
(* Eviction.                                                               *)

(* Mutant: eviction forgets the references.                                *)
EvictableIfPinned(c) == slot[c].writers = 0 /\ slot[c].state = "ready"

Evictable(c) ==
  /\ slot[c].writers = 0
  /\ refs[c] = {}
  /\ slot[c].state = "ready"

EvictableSet == {c \in Chunk : Evictable(c)}

(* _make_room evicts in LRU order and stops as soon as the need fits: a    *)
(* chunk goes exactly when taking every older candidate was not enough.    *)
Victims(need) ==
  {c \in EvictableSet :
     bytes - Weight[{d \in EvictableSet : <<d, c>> \in older}] + need > Budget}

(* Mutant: the budget is tested without the slot being admitted.           *)
HasRoomUncharged(need) == bytes - Weight[Victims(need)] <= Budget

HasRoom(need) == bytes - Weight[Victims(need)] + need <= Budget

(* Mutant: a dropped slot keeps its place in the LRU order.                *)
WithoutNone(V) == older

Without(V) == {e \in older : e[1] \notin V /\ e[2] \notin V}
MoveToEnd(order, c, R) == {e \in order : e[1] # c} \cup ((R \ {c}) \X {c})
Emptied(V) == [c \in Chunk |-> IF c \in V THEN Absent ELSE slot[c]]

-----------------------------------------------------------------------------
(* Passes: minting an owner, and the driver's claim of each chunk.         *)

BudgetHolds(n) == n < 2 \/ IterationBytes = 0 \/ n * IterationBytes <= Budget

(* A token is never reused: p stands for one whose threads have all ended. *)
NewOwner(p) ==
  /\ status[p] = "idle"
  /\ minted < MaxOwners
  /\ \A j \in TasksOf(p) : task[j] = "none" /\ j \notin late
  /\ BudgetHolds(Cardinality(Live) + 1)
  /\ minted' = minted + 1
  /\ status' = [status EXCEPT ![p] = "live"]
  /\ UNCHANGED <<table, poolError, claimed, parked, tasks, producers, asleep>>

Pin(p, c) ==
  /\ refs' = [refs EXCEPT ![c] = @ \cup {p}]
  /\ claimed' = [claimed EXCEPT ![p] = @ \cup {c}]

DriverAt(p, c) ==
  /\ LoopFree
  /\ status[p] = "live"
  /\ c \notin claimed[p]
  /\ parked[p] \subseteq {c}

StartTiles(p, c) ==
  /\ task' = [j \in Job |-> IF j \in JobsOf(p, c) THEN "queued" ELSE task[j]]
  /\ UNCHANGED <<late, loop>>

(* pin_if_ready: a resident chunk that is ready is a hit, nothing is       *)
(* fetched.  A parked driver is past this test and only retries try_admit. *)
PinIfReady(p, c) ==
  /\ DriverAt(p, c)
  /\ parked[p] = {}
  /\ slot[c].state = "ready"
  /\ Pin(p, c)
  /\ older' = MoveToEnd(older, c, Resident)
  /\ Notify
  /\ UNCHANGED <<slot, bytes, poolError, minted, status, parked, tasks, producers>>

(* Mutant: the driver asks try_admit at once.                              *)
MissOrRetryAlways(p, c) == TRUE

MissOrRetry(p, c) == parked[p] = {c} \/ slot[c].state # "ready"

(* try_admit on a resident slot in any state takes a reference; the driver *)
(* then fetches every tile itself, whoever else is fetching them.          *)
JoinResident(p, c) ==
  /\ DriverAt(p, c)
  /\ MissOrRetry(p, c)
  /\ Present(c)
  /\ Pin(p, c)
  /\ older' = MoveToEnd(older, c, Resident)
  /\ parked' = [parked EXCEPT ![p] = {}]
  /\ StartTiles(p, c)
  /\ Notify
  /\ UNCHANGED <<slot, bytes, poolError, minted, status, producers>>

AdmitFresh(p, c) ==
  LET need == Weight[{c}]
      V == Victims(need)
  IN
  /\ DriverAt(p, c)
  /\ ~Present(c)
  /\ HasRoom(need)
  /\ slot' = [Emptied(V) EXCEPT ![c] = Fresh]
  /\ bytes' = bytes - Weight[V] + need
  /\ older' = MoveToEnd(Without(V), c, Resident \ V)
  /\ Pin(p, c)
  /\ parked' = [parked EXCEPT ![p] = {}]
  /\ StartTiles(p, c)
  /\ UNCHANGED <<poolError, minted, status, producers, asleep>>

(* No room: what could be evicted is gone all the same, and the driver     *)
(* parks until a release or the poll timeout makes it try again.           *)
AdmitFull(p, c) ==
  LET V == Victims(Weight[{c}])
  IN
  /\ DriverAt(p, c)
  /\ ~Present(c)
  /\ ~HasRoom(Weight[{c}])
  /\ slot' = Emptied(V)
  /\ bytes' = bytes - Weight[V]
  /\ older' = Without(V)
  /\ parked' = [parked EXCEPT ![p] = {c}]
  /\ UNCHANGED <<refs, poolError, minted, status, claimed, tasks, producers, asleep>>

(* Mutant: READY is enough, whoever holds the reference.                   *)
WaitSatisfiedByAnyRef(p, c) ==
  \/ poolError
  \/ Present(c) /\ (slot[c].error \/ slot[c].state = "ready")

(* _wait_satisfied: would wait_ready return, or raise, right now?          *)
WaitSatisfied(p, c) ==
  \/ poolError
  \/ /\ Present(c)
     /\ \/ slot[c].error
        \/ slot[c].state = "ready" /\ p \in refs[c]

BlockedWaiters ==
  {p \in Pass : \E c \in waiting[p] : ~WaitSatisfied(p, c)}

(* Mutant: a chunk this pass holds counts as on its way.                   *)
DeliveryPendingWhileHeld(p) == \E c \in Chunk : p \in refs[c]

DeliveryPending(p) == \E j \in TasksOf(p) : task[j] # "none"

(* A parked driver whose poll timed out: no tile of its own is on its way  *)
(* and some producer is blocked, so it raises, and set_error poisons the   *)
(* pool.  Whether try_admit would succeed by now is not asked again.       *)
Starve(p) ==
  /\ LoopFree
  /\ status[p] = "live"
  /\ parked[p] # {}
  /\ ~DeliveryPending(p)
  /\ BlockedWaiters # {}
  /\ poolError' = TRUE
  /\ status' = [status EXCEPT ![p] = "starved"]
  /\ parked' = [parked EXCEPT ![p] = {}]
  /\ Notify
  /\ UNCHANGED <<table, minted, claimed, tasks, producers>>

-----------------------------------------------------------------------------
(* Tile tasks: tile_write, _deliver, release and _advance.                 *)

GoTo(j, phase) == task' = [task EXCEPT ![j] = phase]

(* The coroutine of j runs its next stretch on the loop.  Once its pass    *)
(* closes, every coroutine has been cancelled and can only unwind.         *)
OnLoop(j, phase) ==
  /\ LoopFree
  /\ status[j[1]] # "closing"
  /\ task[j] = phase

SetSlot(c, s) == slot' = [slot EXCEPT ![c] = s]

InFlight(p) == {j \in TasksOf(p) : task[j] \notin {"none", "queued"}}

(* Mutant: a busy flag instead of a count.                                 *)
EnteredAsFlag(s) == [s EXCEPT !.writers = 1]

Entered(s) == [s EXCEPT !.writers = @ + 1]

TileWrite(j) ==
  LET c == j[2]
  IN
  /\ OnLoop(j, "queued")
  /\ Cardinality(InFlight(j[1])) < MaxInflight
  /\ GoTo(j, "running")
  /\ IF Present(c) THEN SetSlot(c, Entered(slot[c])) ELSE UNCHANGED slot
  /\ UNCHANGED <<older, bytes, refs, poolError, passes, late, loop, producers, asleep>>

(* The delivery runs where it may: on the loop itself, or on a decode      *)
(* thread when publishing does real work.                                  *)
HandToThread(j) ==
  /\ Assembles
  /\ OnLoop(j, "running")
  /\ GoTo(j, "delivering")
  /\ UNCHANGED <<table, poolError, passes, late, loop, producers, asleep>>

MayDeliver(j) ==
  IF Assembles THEN task[j] = "delivering" ELSE OnLoop(j, "running")

HoldLoopUnless(onThread, j) == loop' = IF onThread THEN loop ELSE {j}

(* The decoded tile replaces what the slot holds for t, if anything; every *)
(* delivery counts, the first of a tile or not.                            *)
Landed(s, t) == [s EXCEPT !.tiles = @ \cup {t}, !.pending = @ - 1]

Deliver(j) ==
  LET c == j[2]
  IN
  /\ MayDeliver(j)
  /\ Present(c)
  /\ SetSlot(c, Landed(slot[c], j[3]))
  /\ GoTo(j, "landed")
  /\ HoldLoopUnless(Assembles, j)
  /\ UNCHANGED <<older, bytes, refs, poolError, passes, late, producers, asleep>>

(* Mutant: the error is recorded and nobody is told.                       *)
PoisonSlotQuietly(c) ==
  /\ IF Present(c) THEN SetSlot(c, [slot[c] EXCEPT !.state = "failed", !.error = TRUE])
                   ELSE UNCHANGED slot
  /\ UNCHANGED asleep

(* fail on an absent slot returns at once.                                 *)
PoisonSlot(c) ==
  IF Present(c)
  THEN /\ SetSlot(c, [slot[c] EXCEPT !.state = "failed", !.error = TRUE])
       /\ Notify
  ELSE UNCHANGED <<slot, asleep>>

(* _deliver finds no slot: the KeyError comes back to the loop, where fail *)
(* finds no slot either.                                                   *)
DeliverToNothing(j) ==
  /\ OnLoop(j, IF Assembles THEN "delivering" ELSE "running")
  /\ ~Present(j[2])
  /\ GoTo(j, "landed")
  /\ loop' = {j}
  /\ UNCHANGED <<table, poolError, passes, late, producers, asleep>>

FetchFails(j) ==
  /\ OnLoop(j, "running")
  /\ <<j[2], j[3]>> \in BadTile
  /\ PoisonSlot(j[2])
  /\ GoTo(j, "landed")
  /\ loop' = {j}
  /\ UNCHANGED <<older, bytes, refs, poolError, passes, late, producers>>

Release(j) ==
  LET c == j[2]
  IN
  /\ task[j] = "landed"
  /\ GoTo(j, "released")
  /\ IF Present(c) THEN SetSlot(c, [slot[c] EXCEPT !.writers = @ - 1])
                   ELSE UNCHANGED slot
  /\ UNCHANGED <<older, bytes, refs, poolError, passes, late, loop, producers, asleep>>

Quiescent(c) == Present(c) /\ slot[c].writers = 0

(* Mutant: a slot that is past FILLING is assembled again.                 *)
CanAssembleAgain(c) == Quiescent(c) /\ slot[c].pending <= 0

(* Mutant: a quiescent slot is taken for a complete one.                   *)
CanAssembleOnceQuiet(c) == Quiescent(c) /\ slot[c].state = "filling"

CanAssemble(c) ==
  /\ Quiescent(c)
  /\ slot[c].pending <= 0
  /\ slot[c].state = "filling"

(* The critical section that opens _advance, for the task that completes   *)
(* its slot and for one that does not.                                     *)
AdvanceAssembles(j) ==
  LET c == j[2]
  IN
  /\ task[j] = "released"
  /\ CanAssemble(c)
  /\ SetSlot(c, [slot[c] EXCEPT !.state = "assembled"])
  /\ GoTo(j, "publishing")
  /\ UNCHANGED <<older, bytes, refs, poolError, passes, late, loop, producers, asleep>>

AdvanceReturns(j) ==
  LET c == j[2]
  IN
  /\ task[j] = "released"
  /\ ~CanAssemble(c)
  /\ GoTo(j, "none")
  /\ loop' = loop \ {j}
  /\ IF Quiescent(c) /\ slot[c].state = "failed" THEN Notify ELSE UNCHANGED asleep
  /\ UNCHANGED <<table, poolError, passes, late, producers>>

(* The section that closes _advance sets READY whatever happened to the    *)
(* slot meanwhile; an orphan is no longer in the table.                    *)
Publish(j) ==
  LET c == j[2]
  IN
  /\ task[j] \in {"publishing", "orphan"}
  /\ GoTo(j, "none")
  /\ loop' = loop \ {j}
  /\ IF task[j] = "publishing" THEN SetSlot(c, [slot[c] EXCEPT !.state = "ready"])
                               ELSE UNCHANGED slot
  /\ Notify
  /\ UNCHANGED <<older, bytes, refs, poolError, passes, late, producers>>

(* A transform raises inside _advance, and the coroutine poisons the slot; *)
(* one that was cancelled is not there to receive the exception.           *)
TransformFails(j) ==
  /\ Assembles
  /\ task[j] \in {"publishing", "orphan"}
  /\ j[2] \in BadTransform
  /\ IF ProducerRuns(j[1]) THEN LoopFree /\ PoisonSlot(j[2])
                           ELSE UNCHANGED <<slot, asleep>>
  /\ GoTo(j, "none")
  /\ loop' = loop \ {j}
  /\ UNCHANGED <<older, bytes, refs, poolError, passes, late, producers>>

-----------------------------------------------------------------------------
(* The producer thread: wait_ready, gather, unpin_block.                   *)

Unread(p, c) == c \notin using[p] /\ (c \in claimed[p] => p \in refs[c])

(* The wait returns, or raises; the raise and the close it leads to are    *)
(* one step, since nothing but that pass can tell them apart.              *)
WaitReturns(p, c) ==
  LET fails == poolError \/ slot[c].error
  IN
  /\ fails => LoopFree
  /\ using' = IF fails THEN using ELSE [using EXCEPT ![p] = @ \cup {c}]
  /\ status' = IF fails THEN [status EXCEPT ![p] = "closing"] ELSE status
  /\ waiting' = [waiting EXCEPT ![p] = {}]

WaitReady(p, c) ==
  /\ ProducerRuns(p)
  /\ waiting[p] = {}
  /\ Unread(p, c)
  /\ IF WaitSatisfied(p, c)
     THEN WaitReturns(p, c) /\ UNCHANGED asleep
     ELSE /\ waiting' = [waiting EXCEPT ![p] = {c}]
          /\ asleep' = asleep \cup {p}
          /\ UNCHANGED <<using, status>>
  /\ UNCHANGED <<table, poolError, minted, claimed, parked, tasks>>

(* A notified waiter re-evaluates its condition.                           *)
Wake(p) ==
  /\ p \notin asleep
  /\ \E c \in Chunk :
       /\ waiting[p] = {c}
       /\ IF WaitSatisfied(p, c)
          THEN WaitReturns(p, c) /\ UNCHANGED asleep
          ELSE asleep' = asleep \cup {p} /\ UNCHANGED <<using, status, waiting>>
  /\ UNCHANGED <<table, poolError, minted, claimed, parked, tasks>>

(* The last block that reads c is drained: gather has copied what it needs *)
(* and unpin_keys drops the reference.                                     *)
UnpinBlock(p, c) ==
  /\ ProducerRuns(p)
  /\ waiting[p] = {}
  /\ c \in using[p]
  /\ refs' = [refs EXCEPT ![c] = @ \ {p}]
  /\ using' = [using EXCEPT ![p] = @ \ {c}]
  /\ Notify
  /\ UNCHANGED <<slot, older, bytes, poolError, passes, tasks, waiting>>

-----------------------------------------------------------------------------
(* Teardown: the pass ends or is abandoned, its tasks are cancelled, and   *)
(* once they have unwound release_owner takes back what it held.           *)

Close(p) ==
  /\ ProducerRuns(p)
  /\ waiting[p] = {}
  /\ LoopFree
  /\ status' = [status EXCEPT ![p] = "closing"]
  /\ UNCHANGED <<table, poolError, minted, claimed, parked, tasks, producers, asleep>>

CancelQueued(j) ==
  /\ LoopFree
  /\ status[j[1]] = "closing"
  /\ task[j] = "queued"
  /\ GoTo(j, "none")
  /\ UNCHANGED <<table, poolError, passes, late, loop, producers, asleep>>

(* The coroutine unwinds through tile_write, which releases its write; a   *)
(* decode thread that already runs the delivery goes on by itself.         *)
CancelRunning(j) ==
  /\ LoopFree
  /\ status[j[1]] = "closing"
  /\ task[j] \in {"running", "delivering"}
  /\ \/ UNCHANGED late
     \/ task[j] = "delivering" /\ late' = late \cup {j}
  /\ GoTo(j, "landed")
  /\ loop' = {j}
  /\ UNCHANGED <<table, poolError, passes, producers, asleep>>

(* It finds its write released already, so it advances nothing.            *)
LateDeliver(j) ==
  LET c == j[2]
  IN
  /\ j \in late
  /\ late' = late \ {j}
  /\ IF Present(c) THEN SetSlot(c, Landed(slot[c], j[3])) ELSE UNCHANGED slot
  /\ UNCHANGED <<older, bytes, refs, poolError, passes, task, loop, producers, asleep>>

(* Every coroutine has ended, its write released by itself or by its       *)
(* thread; a thread may still be in _advance.  The consumer's thread goes  *)
(* on by itself, whatever the loop is doing for other passes.              *)
Unwound(p) ==
  \A j \in TasksOf(p) : task[j] \notin {"queued", "running", "delivering", "landed"}

(* Mutants: a failed slot survives the pass; a partial one goes although   *)
(* another pass holds it.                                                  *)
AbandonedPartials(held) ==
  {c \in Resident : slot[c].state = "filling" /\ slot[c].writers = 0 /\ held[c] = {}}
AbandonedByOne(held) == {c \in Resident : slot[c].state # "ready" /\ slot[c].writers = 0}

Abandoned(held) ==
  {c \in Resident : slot[c].state # "ready" /\ slot[c].writers = 0 /\ held[c] = {}}

ReleaseOwner(p) ==
  LET held == [c \in Chunk |-> refs[c] \ {p}]
      V == Abandoned(held)
  IN
  /\ status[p] = "closing"
  /\ Unwound(p)
  /\ TasksOf(p) \cap loop = {}
  /\ refs' = held
  /\ slot' = Emptied(V)
  /\ bytes' = bytes - Weight[V]
  /\ older' = Without(V)
  /\ task' = [j \in Job |-> IF task[j] = "publishing" /\ j[2] \in V
                            THEN "orphan" ELSE task[j]]
  /\ status' = [status EXCEPT ![p] = "idle"]
  /\ claimed' = [claimed EXCEPT ![p] = {}]
  /\ parked' = [parked EXCEPT ![p] = {}]
  /\ using' = [using EXCEPT ![p] = {}]
  /\ Notify
  /\ UNCHANGED <<poolError, minted, late, loop, waiting>>

-----------------------------------------------------------------------------
DriverStep(p) ==
  \/ \E c \in Chunk : PinIfReady(p, c) \/ JoinResident(p, c)
                        \/ AdmitFresh(p, c) \/ AdmitFull(p, c)
  \/ Starve(p)

TileStep(j) ==
  \/ TileWrite(j) \/ HandToThread(j) \/ Deliver(j) \/ DeliverToNothing(j)
  \/ FetchFails(j) \/ Release(j) \/ AdvanceAssembles(j) \/ AdvanceReturns(j)
  \/ Publish(j) \/ TransformFails(j) \/ LateDeliver(j)

ProducerStep(p) ==
  \/ \E c \in Chunk : WaitReady(p, c) \/ UnpinBlock(p, c)
  \/ Wake(p)

TeardownStep(p) ==
  \/ Close(p) \/ ReleaseOwner(p)
  \/ \E j \in TasksOf(p) : CancelQueued(j) \/ CancelRunning(j)

Next ==
  \/ \E p \in Pass : NewOwner(p) \/ DriverStep(p) \/ ProducerStep(p) \/ TeardownStep(p)
  \/ \E j \in Job : TileStep(j)

Spec == Init /\ [][Next]_vars

(***************************************************************************)
(* The event loop and the threads run what they are given, a notified      *)
(* thread is scheduled, a parked driver polls, and a cancelled pass is     *)
(* torn down.  Nothing makes a pass start, wait, release or end, and       *)
(* nothing makes a fetch or a transform fail.                              *)
(***************************************************************************)
Fairness ==
  /\ \A p \in Pass :
       /\ WF_vars(DriverStep(p))
       /\ WF_vars(Wake(p))
       /\ WF_vars(\E j \in TasksOf(p) : CancelQueued(j) \/ CancelRunning(j))
       /\ WF_vars(ReleaseOwner(p))
  /\ \A j \in Job : WF_vars(TileStep(j))

FairSpec == Spec /\ Fairness

-----------------------------------------------------------------------------
(* Properties.                                                             *)

SlotRecord ==
  [state : SlotState, writers : Int, pending : Int,
   tiles : SUBSET Tile, error : BOOLEAN]

(* Every variable has the type of the code's field it stands for.          *)
TypeOK ==
  /\ slot \in [Chunk -> SlotRecord]
  /\ older \subseteq Resident \X Resident
  /\ bytes \in Int
  /\ refs \in [Chunk -> SUBSET Pass]
  /\ poolError \in BOOLEAN
  /\ minted \in Nat
  /\ status \in [Pass -> Status]
  /\ claimed \in [Pass -> SUBSET Chunk]
  /\ parked \in [Pass -> SUBSET Chunk]
  /\ task \in [Job -> Phase]
  /\ late \subseteq Job
  /\ loop \subseteq Job
  /\ using \in [Pass -> SUBSET Chunk]
  /\ waiting \in [Pass -> SUBSET Chunk]
  /\ asleep \subseteq Pass

(* The budget is charged exactly what is resident, through admissions,     *)
(* partial evictions, drops of abandoned slots and late deliveries, and    *)
(* what is resident never exceeds it (pool.py, try_admit, _make_room).     *)
WithinBudget ==
  /\ bytes = Weight[Resident]
  /\ bytes <= Budget

(* A referenced chunk is resident: neither eviction nor the teardown of    *)
(* another pass takes it away (pool.py, _evictable, release_owner).        *)
HeldIsResident == \A c \in Chunk : refs[c] # {} => Present(c)

(* From the return of wait_ready to the release of the block, gather finds *)
(* the slot in the table, published, and held by the pass itself.          *)
UsedIsPublished ==
  \A p \in Pass : \A c \in using[p] :
    p \in refs[c] /\ slot[c].state \in {"ready", "failed"}

(* A slot is published by the one task that completed it, once, and until  *)
(* then nobody publishes, evicts or re-admits it behind the task's back    *)
(* (pool.py, _advance: "Sole owner now").                                  *)
SolePublisher ==
  \A j \in Job : task[j] = "publishing" =>
    /\ slot[j[2]].state \in {"assembled", "failed"}
    /\ \A k \in Job : task[k] = "publishing" /\ k[2] = j[2] => k = j

(* A driver claims what it references: once per pass and chunk.            *)
ReferenceIsClaimed == \A p \in Pass, c \in Chunk : p \in refs[c] => c \in claimed[p]

(* A producer asleep in wait_ready has nothing to return with: every step  *)
(* that satisfies a wait notifies (pool.py, wait_ready, _wait_satisfied).  *)
NoLostWakeup ==
  \A p \in asleep : \A c \in waiting[p] : ~WaitSatisfied(p, c)

(* A slot is published only when every one of its tiles has been delivered *)
(* (pool.py, _Slot.pending).                                               *)
ReadyIsComplete == \A c \in Chunk : slot[c].state = "ready" => slot[c].tiles = Tile

(* writers = 0 means no task and no thread can still write to the slot     *)
(* (pool.py, _Slot.writers): that is what makes eviction safe.             *)
QuiescentMeansNoWriter ==
  \A c \in Chunk : Quiescent(c) =>
    \A j \in Job : j[2] = c => task[j] \notin {"running", "delivering", "landed"} /\ j \notin late

(* Between passes the pool holds only finished entries it can evict: a     *)
(* pass that ended, failed or was abandoned leaves neither a reference nor *)
(* a partial slot behind to eat the budget (pool.py, release_owner).       *)
NothingLeftBehind ==
  (Live = {} /\ \A j \in Job : task[j] = "none") => Resident = EvictableSet

(* A starvation verdict is proof that nothing is on its way to a slot      *)
(* (scheduler.py, _starvation).                                            *)
StarvationIsTerminal ==
  [][poolError' # poolError => \A p \in Pass : ~DeliveryPending(p)]_vars

(* Nothing lands in a published chunk, not even a tile it has already: a   *)
(* pass may be gathering it without the lock (pool.py, _deliver).          *)
PublishedIsStable ==
  [][\A c \in Chunk :
       slot[c].state = "ready" /\ Present(c)' =>
         slot'[c].tiles = slot[c].tiles /\ slot'[c].pending = slot[c].pending]_vars

(* Every wait ends, with the chunk or with an error (pool.py, wait_ready). *)
EveryWaitEnds == \A p \in Pass : (waiting[p] # {}) ~> (waiting[p] = {})

(* Refinement: the pool is a cache that keeps what is held and stays in    *)
(* its budget.                                                             *)
Settled == {c \in Chunk : slot[c].state \in {"ready", "failed"}}
Held == [p \in Pass |-> {c \in Chunk : p \in refs[c]}]

Cache == INSTANCE PinnedCache
           WITH resident <- Resident, settled <- Settled, held <- Held

(* Every step of the pool is a step of PinnedCache or leaves it unchanged  *)
(* (pool.py, try_admit, pin_if_ready, unpin_keys, release_owner, _drop).   *)
ImplementsPinnedCache == Cache!Spec
=============================================================================
