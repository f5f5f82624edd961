-------------------------- MODULE ChunkPoolProofs --------------------------
(***************************************************************************)
(* What ChunkPool guarantees for every set of passes, chunks and tiles,    *)
(* every weight and every budget.                                          *)
(***************************************************************************)
EXTENDS ChunkPool, FiniteSetTheorems, TLAPS

-----------------------------------------------------------------------------
(* The weight of a set of chunks.                                          *)

(* What is left after taking V out of S weighs what V did not.             *)
LEMMA WeightOfDifference ==
  ASSUME NEW S \in SUBSET Chunk, NEW V \in SUBSET S
  PROVE  /\ Weight[S] \in Nat /\ Weight[V] \in Nat
         /\ Weight[S \ V] = Weight[S] - Weight[V]
<1>1. /\ S \ V \in SUBSET Chunk
      /\ V \in SUBSET Chunk
      /\ (S \ V) \cap V = {}
      /\ (S \ V) \cup V = S
  OBVIOUS
<1>2. Weight[S] = Weight[S \ V] + Weight[V]
  BY <1>1, WeightAssumption
<1>3. Weight[S] \in Nat /\ Weight[V] \in Nat /\ Weight[S \ V] \in Nat
  BY <1>1, WeightAssumption
<1> QED
  BY <1>2, <1>3

(* A chunk added to a set weighs the same wherever it is added.            *)
LEMMA WeightOfAddition ==
  ASSUME NEW S \in SUBSET Chunk, NEW c \in Chunk \ S
  PROVE  Weight[S \cup {c}] = Weight[S] + Weight[{c}]
<1>1. {c} \in SUBSET Chunk /\ S \cap {c} = {}
  OBVIOUS
<1> QED
  BY <1>1, WeightAssumption

LEMMA NoWeight == Weight[{}] = 0
<1>1. \A w \in Nat : w = w + w => w = 0
  OBVIOUS
<1>2. {} \in SUBSET Chunk /\ {} \cap {} = {} /\ {} \cup {} = {}
  OBVIOUS
<1>3. Weight[{}] \in Nat /\ Weight[{} \cup {}] = Weight[{}] + Weight[{}]
  BY <1>2, WeightAssumption
<1>4. Weight[{}] = Weight[{}] + Weight[{}]
  BY <1>2, <1>3
<1> QED
  BY <1>1, <1>3, <1>4

-----------------------------------------------------------------------------
(* What eviction takes.                                                    *)

LEMMA VictimsAreFree ==
  ASSUME NEW need
  PROVE  /\ Victims(need) \subseteq Resident
         /\ Victims(need) \subseteq Chunk
         /\ \A c \in Victims(need) : slot[c].state = "ready" /\ refs[c] = {}
BY DEF Victims, EvictableSet, Evictable, Resident, Present

LEMMA FreshIsASlot == Fresh \in SlotRecord /\ Absent \in SlotRecord
<1>1. Cardinality(Tile) \in Nat
  BY PoolAssumption, FS_CardinalityType
<1> QED
  BY <1>1 DEF Fresh, Absent, SlotRecord, SlotState

LEMMA JobParts ==
  ASSUME NEW j \in Job
  PROVE  j[1] \in Pass /\ j[2] \in Chunk /\ j[3] \in Tile
BY DEF Job

-----------------------------------------------------------------------------
(* Type correctness.                                                       *)

(* Moving a resident chunk to the end keeps the order on resident chunks.  *)
LEMMA MoveToEndType ==
  ASSUME NEW R, NEW S, NEW c, NEW order,
         order \subseteq R \X R, S \subseteq R
  PROVE  MoveToEnd({e \in order : e[1] \in S /\ e[2] \in S}, c, S)
           \subseteq (S \cup {c}) \X (S \cup {c})
BY DEF MoveToEnd

LEMMA WithoutType ==
  ASSUME NEW V, older \subseteq Resident \X Resident
  PROVE  /\ Without(V) \subseteq (Resident \ V) \X (Resident \ V)
         /\ \A c : MoveToEnd(Without(V), c, Resident \ V)
                    \subseteq ((Resident \ V) \cup {c}) \X ((Resident \ V) \cup {c})
BY DEF MoveToEnd, Without

LEMMA TypeOKInit == Init => TypeOK
<1> SUFFICES ASSUME Init PROVE TypeOK
  OBVIOUS
<1>1. slot \in [Chunk -> SlotRecord] /\ refs \in [Chunk -> SUBSET Pass]
  BY FreshIsASlot DEF Init
<1>2. /\ status \in [Pass -> Status]
      /\ task \in [Job -> Phase]
  BY DEF Init, Status, Phase
<1>3. /\ claimed \in [Pass -> SUBSET Chunk]
      /\ parked \in [Pass -> SUBSET Chunk]
      /\ using \in [Pass -> SUBSET Chunk]
      /\ waiting \in [Pass -> SUBSET Chunk]
  BY DEF Init
<1>4. poolError \in BOOLEAN
  BY DEF Init
<1>5. bytes \in Int /\ minted \in Nat
  BY DEF Init
<1>6. /\ older \subseteq Resident \X Resident
      /\ late \subseteq Job /\ loop \subseteq Job /\ asleep \subseteq Pass
  BY DEF Init
<1> QED
  BY <1>1, <1>2, <1>3, <1>4, <1>5, <1>6 DEF TypeOK

(* What a step on one slot, or on a set of them, does to the table.        *)
SlotsTyped == slot \in [Chunk -> SlotRecord]

LEMMA SlotFields ==
  ASSUME NEW s \in SlotRecord
  PROVE  /\ s.state \in SlotState /\ s.writers \in Int /\ s.pending \in Int
         /\ s.tiles \in SUBSET Tile /\ s.error \in BOOLEAN
BY DEF SlotRecord

LEMMA CountedIsASlot ==
  ASSUME NEW s \in SlotRecord, NEW n \in Int
  PROVE  /\ [s EXCEPT !.writers = n] \in SlotRecord
         /\ [s EXCEPT !.writers = n].state = s.state
         /\ [s EXCEPT !.writers = n].error = s.error
BY DEF SlotRecord

LEMMA LandedIsASlot ==
  ASSUME NEW s \in SlotRecord, NEW t \in Tile
  PROVE  /\ Landed(s, t) \in SlotRecord
         /\ Landed(s, t).state = s.state
         /\ Landed(s, t).error = s.error
<1>1. ASSUME NEW T \in SUBSET Tile, NEW n \in Int
      PROVE  /\ [s EXCEPT !.tiles = T, !.pending = n] \in SlotRecord
             /\ [s EXCEPT !.tiles = T, !.pending = n].state = s.state
             /\ [s EXCEPT !.tiles = T, !.pending = n].error = s.error
  BY DEF SlotRecord
<1>2. s.tiles \cup {t} \in SUBSET Tile /\ s.pending - 1 \in Int
  BY SlotFields
<1> QED
  BY <1>1, <1>2 DEF Landed

LEMMA RestatedIsASlot ==
  ASSUME NEW s \in SlotRecord, NEW x \in SlotState
  PROVE  /\ [s EXCEPT !.state = x] \in SlotRecord
         /\ [s EXCEPT !.state = x].state = x
         /\ [s EXCEPT !.state = x].error = s.error
BY DEF SlotRecord

LEMMA PoisonedIsASlot ==
  ASSUME NEW s \in SlotRecord
  PROVE  /\ [s EXCEPT !.state = "failed", !.error = TRUE] \in SlotRecord
         /\ [s EXCEPT !.state = "failed", !.error = TRUE].state = "failed"
BY DEF SlotRecord, SlotState

(* Entering tile_write, delivering and releasing move counters and tiles:  *)
(* no slot changes state.                                                  *)
SameStates == \A d \in Chunk : slot'[d].state = slot[d].state /\ slot'[d].error = slot[d].error

LEMMA TileStepsKeepStates ==
  ASSUME SlotsTyped, NEW j \in Job,
         TileWrite(j) \/ Deliver(j) \/ Release(j) \/ LateDeliver(j)
  PROVE  SlotsTyped' /\ SameStates
<1> DEFINE c == j[2]
<1>1. c \in Chunk /\ j[3] \in Tile
  BY JobParts
<1>2. slot[c] \in SlotRecord /\ slot[c].writers \in Int
  BY <1>1, SlotFields DEF SlotsTyped
<1>3. ASSUME NEW s \in SlotRecord, SetSlot(c, s),
             s.state = slot[c].state, s.error = slot[c].error
      PROVE  SlotsTyped' /\ SameStates
  BY <1>1, <1>3 DEF SetSlot, SlotsTyped, SameStates
<1>4. ASSUME UNCHANGED slot PROVE SlotsTyped' /\ SameStates
  BY <1>4 DEF SlotsTyped, SameStates
<1>5. /\ slot[c].writers + 1 \in Int
      /\ slot[c].writers - 1 \in Int
  BY <1>2
<1>6. CASE TileWrite(j)
  <2>1. CASE SetSlot(c, [slot[c] EXCEPT !.writers = slot[c].writers + 1])
    BY <1>2, <1>3, <1>5, <2>1, CountedIsASlot
  <2> QED
    BY <1>4, <1>6, <2>1 DEF TileWrite, Entered
<1>7. CASE Release(j)
  <2>1. CASE SetSlot(c, [slot[c] EXCEPT !.writers = slot[c].writers - 1])
    BY <1>2, <1>3, <1>5, <2>1, CountedIsASlot
  <2> QED
    BY <1>4, <1>7, <2>1 DEF Release
<1>8. CASE SetSlot(c, Landed(slot[c], j[3]))
  BY <1>1, <1>2, <1>3, <1>8, LandedIsASlot
<1> QED
  BY <1>4, <1>6, <1>7, <1>8 DEF Deliver, LateDeliver

(* Changing the state of a slot, and poisoning one.                        *)
LEMMA OneSlotRestated ==
  ASSUME SlotsTyped, NEW c \in Chunk, NEW x \in SlotState,
         SetSlot(c, [slot[c] EXCEPT !.state = x])
  PROVE  /\ SlotsTyped'
         /\ slot'[c].state = x /\ slot'[c].error = slot[c].error
         /\ \A d \in Chunk \ {c} : slot'[d] = slot[d]
<1>1. slot[c] \in SlotRecord
  BY DEF SlotsTyped
<1> QED
  BY <1>1, RestatedIsASlot DEF SetSlot, SlotsTyped

LEMMA OneSlotPoisoned ==
  ASSUME SlotsTyped, NEW c \in Chunk, PoisonSlot(c)
  PROVE  /\ SlotsTyped'
         /\ Resident' = Resident
         /\ \A d \in Chunk \ {c} : slot'[d] = slot[d]
         /\ \/ UNCHANGED <<slot, asleep>>
            \/ slot'[c].state = "failed" /\ Present(c) /\ asleep' = {}
<1>1. slot[c] \in SlotRecord
  BY DEF SlotsTyped
<1>2. CASE Present(c)
  <2>1. /\ SlotsTyped'
        /\ slot'[c].state = "failed"
        /\ \A d \in Chunk \ {c} : slot'[d] = slot[d]
    BY <1>1, <1>2, PoisonedIsASlot DEF PoisonSlot, SetSlot, SlotsTyped
  <2>2. Resident' = Resident
    BY <1>2, <2>1 DEF Resident, Present
  <2> QED
    BY <1>2, <2>1, <2>2 DEF PoisonSlot, Notify
<1>3. CASE ~Present(c)
  BY <1>3 DEF PoisonSlot, SlotsTyped, Resident, Present
<1> QED
  BY <1>2, <1>3

(* Dropping a set of slots, and admitting one.                             *)
LEMMA SlotsDropped ==
  ASSUME SlotsTyped, NEW V \in SUBSET Chunk, slot' = Emptied(V)
  PROVE  /\ SlotsTyped'
         /\ Resident' = Resident \ V
         /\ \A d \in V : slot'[d] = Absent
         /\ \A d \in Chunk \ V : slot'[d] = slot[d]
BY FreshIsASlot DEF Emptied, SlotsTyped, Resident, Present, Absent

LEMMA SlotAdmitted ==
  ASSUME SlotsTyped, NEW V \in SUBSET Chunk, NEW c \in Chunk,
         slot' = [Emptied(V) EXCEPT ![c] = Fresh]
  PROVE  /\ SlotsTyped'
         /\ Resident' = (Resident \ V) \cup {c}
         /\ slot'[c].state = "filling" /\ slot'[c].error = FALSE
         /\ \A d \in V \ {c} : slot'[d] = Absent
         /\ \A d \in Chunk \ (V \cup {c}) : slot'[d] = slot[d]
<1>1. /\ SlotsTyped'
      /\ slot'[c] = Fresh
      /\ \A d \in V \ {c} : slot'[d] = Absent
      /\ \A d \in Chunk \ (V \cup {c}) : slot'[d] = slot[d]
  BY FreshIsASlot DEF Emptied, SlotsTyped
<1>2. Fresh.state = "filling" /\ Fresh.error = FALSE /\ Absent.state = "absent"
  BY DEF Fresh, Absent
<1> QED
  BY <1>1, <1>2 DEF Resident, Present

(* The case split on Next that every invariant's proof goes through.       *)
LEMMA NextCases ==
  ASSUME Next
  PROVE  \/ \E p \in Pass : \/ NewOwner(p) \/ Starve(p) \/ Wake(p)
                           \/ Close(p) \/ ReleaseOwner(p)
         \/ \E p \in Pass, c \in Chunk :
              \/ PinIfReady(p, c) \/ JoinResident(p, c) \/ AdmitFresh(p, c)
              \/ AdmitFull(p, c) \/ WaitReady(p, c) \/ UnpinBlock(p, c)
         \/ \E j \in Job :
              \/ CancelQueued(j) \/ CancelRunning(j) \/ TileWrite(j)
              \/ HandToThread(j) \/ Deliver(j) \/ DeliverToNothing(j)
              \/ FetchFails(j) \/ Release(j) \/ AdvanceAssembles(j)
              \/ AdvanceReturns(j) \/ Publish(j) \/ TransformFails(j)
              \/ LateDeliver(j)
BY DEF Next, DriverStep, TileStep, ProducerStep, TeardownStep, TasksOf

LEMMA TypeOKStep == TypeOK /\ [Next]_vars => TypeOK'
<1> SUFFICES ASSUME TypeOK, [Next]_vars PROVE TypeOK'
  OBVIOUS
<1> USE DEF TypeOK, table, passes, tasks, producers, Notify
<1>a. SlotsTyped
  BY DEF SlotsTyped
<1>b. ASSUME NEW j \in Job PROVE j[1] \in Pass /\ j[2] \in Chunk
  BY JobParts
<1>c. ASSUME UNCHANGED slot PROVE Resident' = Resident
  BY <1>c DEF Resident, Present
<1>d. ASSUME SameStates PROVE Resident' = Resident
  BY <1>d DEF SameStates, Resident, Present
<1>1. ASSUME NEW p \in Pass, NewOwner(p) PROVE TypeOK'
  BY <1>c, <1>1 DEF NewOwner, Status
<1>2. ASSUME NEW p \in Pass, Starve(p) PROVE TypeOK'
  BY <1>c, <1>2 DEF Starve, Status
<1>3. ASSUME NEW p \in Pass, Wake(p) PROVE TypeOK'
  BY <1>c, <1>3 DEF Wake, WaitReturns, Status
<1>4. ASSUME NEW p \in Pass, Close(p) PROVE TypeOK'
  BY <1>c, <1>4 DEF Close, Status
<1>5. ASSUME NEW p \in Pass, ReleaseOwner(p) PROVE TypeOK'
  <2> DEFINE V == Abandoned([d \in Chunk |-> refs[d] \ {p}])
  <2>1. V \in SUBSET Chunk /\ Weight[V] \in Int
    BY WeightAssumption DEF Abandoned, Resident
  <2>2. slot' = Emptied(V) /\ older' = Without(V) /\ bytes' = bytes - Weight[V]
    BY <1>5 DEF ReleaseOwner
  <2> HIDE DEF V
  <2>3. slot' \in [Chunk -> SlotRecord] /\ Resident' = Resident \ V
    BY <1>a, <2>1, <2>2, SlotsDropped DEF SlotsTyped
  <2>4. older' \subseteq Resident' \X Resident'
    BY <2>2, <2>3, WithoutType
  <2> QED
    BY <1>5, <2>1, <2>2, <2>3, <2>4 DEF ReleaseOwner, Status, Phase
<1>6. ASSUME NEW p \in Pass, NEW c \in Chunk, PinIfReady(p, c) PROVE TypeOK'
  BY <1>c, <1>6 DEF PinIfReady, Pin, MoveToEnd, Resident, Present
<1>7. ASSUME NEW p \in Pass, NEW c \in Chunk, JoinResident(p, c) PROVE TypeOK'
  BY <1>c, <1>7 DEF JoinResident, Pin, MoveToEnd, StartTiles, Phase, Resident
<1>8. ASSUME NEW p \in Pass, NEW c \in Chunk, AdmitFresh(p, c) PROVE TypeOK'
  <2> DEFINE V == Victims(Weight[{c}])
  <2>1. V \in SUBSET Chunk /\ Weight[V] \in Int /\ Weight[{c}] \in Int
    BY WeightAssumption, VictimsAreFree
  <2>2. /\ slot' = [Emptied(V) EXCEPT ![c] = Fresh]
        /\ bytes' = bytes - Weight[V] + Weight[{c}]
        /\ older' = MoveToEnd(Without(V), c, Resident \ V)
    BY <1>8 DEF AdmitFresh
  <2> HIDE DEF V
  <2>3. slot' \in [Chunk -> SlotRecord] /\ Resident' = (Resident \ V) \cup {c}
    BY <1>a, <2>1, <2>2, SlotAdmitted DEF SlotsTyped
  <2>4. older' \subseteq Resident' \X Resident'
    BY <2>2, <2>3, WithoutType
  <2>5. /\ bytes' \in Int
        /\ refs' \in [Chunk -> SUBSET Pass]
        /\ claimed' \in [Pass -> SUBSET Chunk]
        /\ parked' \in [Pass -> SUBSET Chunk]
    BY <1>8, <2>1, <2>2 DEF AdmitFresh, Pin
  <2>6. task' \in [Job -> Phase]
    BY <1>8 DEF AdmitFresh, StartTiles, Phase
  <2> QED
    BY <1>8, <2>3, <2>4, <2>5, <2>6 DEF AdmitFresh, StartTiles
<1>9. ASSUME NEW p \in Pass, NEW c \in Chunk, AdmitFull(p, c) PROVE TypeOK'
  <2> DEFINE V == Victims(Weight[{c}])
  <2>1. V \in SUBSET Chunk /\ Weight[V] \in Int
    BY WeightAssumption, VictimsAreFree
  <2>2. slot' = Emptied(V) /\ older' = Without(V) /\ bytes' = bytes - Weight[V]
    BY <1>9 DEF AdmitFull
  <2> HIDE DEF V
  <2>3. slot' \in [Chunk -> SlotRecord] /\ Resident' = Resident \ V
    BY <1>a, <2>1, <2>2, SlotsDropped DEF SlotsTyped
  <2>4. older' \subseteq Resident' \X Resident'
    BY <2>2, <2>3, WithoutType
  <2> QED
    BY <1>9, <2>1, <2>2, <2>3, <2>4 DEF AdmitFull
<1>10. ASSUME NEW p \in Pass, NEW c \in Chunk, WaitReady(p, c) PROVE TypeOK'
  BY <1>c, <1>10 DEF WaitReady, WaitReturns, Status
<1>11. ASSUME NEW p \in Pass, NEW c \in Chunk, UnpinBlock(p, c) PROVE TypeOK'
  BY <1>c, <1>11 DEF UnpinBlock
<1>12. ASSUME NEW j \in Job, CancelQueued(j) PROVE TypeOK'
  BY <1>b, <1>c, <1>12 DEF CancelQueued, GoTo, Phase
<1>13. ASSUME NEW j \in Job, CancelRunning(j) PROVE TypeOK'
  BY <1>b, <1>c, <1>13 DEF CancelRunning, GoTo, Phase
<1>14. ASSUME NEW j \in Job, HandToThread(j) PROVE TypeOK'
  BY <1>b, <1>c, <1>14 DEF HandToThread, GoTo, Phase
<1>15. ASSUME NEW j \in Job, DeliverToNothing(j) PROVE TypeOK'
  BY <1>b, <1>c, <1>15 DEF DeliverToNothing, GoTo, Phase
<1>16. ASSUME NEW j \in Job, AdvanceReturns(j) PROVE TypeOK'
  BY <1>b, <1>c, <1>16 DEF AdvanceReturns, GoTo, Phase
<1>17. ASSUME NEW j \in Job, TileWrite(j) PROVE TypeOK'
  <2>1. slot' \in [Chunk -> SlotRecord] /\ Resident' = Resident
    BY <1>a, <1>d, <1>17, TileStepsKeepStates DEF SlotsTyped
  <2> QED
    BY <1>b, <1>17, <2>1 DEF TileWrite, GoTo, Phase, HoldLoopUnless
<1>18. ASSUME NEW j \in Job, Deliver(j) PROVE TypeOK'
  <2>1. slot' \in [Chunk -> SlotRecord] /\ Resident' = Resident
    BY <1>a, <1>d, <1>18, TileStepsKeepStates DEF SlotsTyped
  <2> QED
    BY <1>b, <1>18, <2>1 DEF Deliver, GoTo, Phase, HoldLoopUnless
<1>19. ASSUME NEW j \in Job, Release(j) PROVE TypeOK'
  <2>1. slot' \in [Chunk -> SlotRecord] /\ Resident' = Resident
    BY <1>a, <1>d, <1>19, TileStepsKeepStates DEF SlotsTyped
  <2> QED
    BY <1>b, <1>19, <2>1 DEF Release, GoTo, Phase, HoldLoopUnless
<1>20. ASSUME NEW j \in Job, LateDeliver(j) PROVE TypeOK'
  <2>1. slot' \in [Chunk -> SlotRecord] /\ Resident' = Resident
    BY <1>a, <1>d, <1>20, TileStepsKeepStates DEF SlotsTyped
  <2> QED
    BY <1>b, <1>20, <2>1 DEF LateDeliver, GoTo, Phase, HoldLoopUnless
<1>21. ASSUME NEW j \in Job, FetchFails(j) PROVE TypeOK'
  <2>1. slot' \in [Chunk -> SlotRecord] /\ Resident' = Resident
    BY <1>a, <1>b, <1>21, OneSlotPoisoned DEF FetchFails, SlotsTyped
  <2> QED
    BY <1>21, <2>1 DEF FetchFails, PoisonSlot, GoTo, Phase
<1>22. ASSUME NEW j \in Job, TransformFails(j) PROVE TypeOK'
  <2>1. slot' \in [Chunk -> SlotRecord] /\ Resident' = Resident
    BY <1>a, <1>b, <1>c, <1>22, OneSlotPoisoned DEF TransformFails, SlotsTyped
  <2> QED
    BY <1>22, <2>1 DEF TransformFails, PoisonSlot, GoTo, Phase
<1>23. ASSUME NEW j \in Job, AdvanceAssembles(j) PROVE TypeOK'
  <2>1. SetSlot(j[2], [slot[j[2]] EXCEPT !.state = "assembled"])
    BY <1>23 DEF AdvanceAssembles
  <2>2. /\ slot' \in [Chunk -> SlotRecord]
        /\ slot'[j[2]].state = "assembled"
        /\ \A d \in Chunk \ {j[2]} : slot'[d] = slot[d]
    BY <1>a, <1>b, <2>1, OneSlotRestated DEF SlotsTyped, SlotState
  <2>3. Resident \subseteq Resident'
    BY <2>2 DEF Resident, Present
  <2> QED
    BY <1>23, <2>2, <2>3 DEF AdvanceAssembles, GoTo, Phase
<1>24. ASSUME NEW j \in Job, Publish(j) PROVE TypeOK'
  <2>1. slot' \in [Chunk -> SlotRecord] /\ Resident \subseteq Resident'
    <3>1. CASE SetSlot(j[2], [slot[j[2]] EXCEPT !.state = "ready"])
      BY <1>a, <1>b, <3>1, OneSlotRestated DEF SlotsTyped, SlotState, Resident, Present
    <3> QED
      BY <1>c, <1>24, <3>1 DEF Publish
  <2> QED
    BY <1>24, <2>1 DEF Publish, GoTo, Phase
<1>25. ASSUME UNCHANGED vars PROVE TypeOK'
  BY <1>c, <1>25 DEF vars
<1> HIDE DEF TypeOK
<1> QED
  BY <1>1, <1>2, <1>3, <1>4, <1>5, <1>6, <1>7, <1>8, <1>9, <1>10, <1>11, <1>12, <1>13,
     <1>14, <1>15, <1>16, <1>17, <1>18, <1>19, <1>20, <1>21, <1>22, <1>23, <1>24, <1>25, NextCases

-----------------------------------------------------------------------------
(* The eight things a step can do to the slots, their charge and the       *)
(* references.                                                             *)

StatesKept == SameStates /\ UNCHANGED <<bytes, refs>>

Taken(p, c) ==
  /\ Present(c)
  /\ UNCHANGED <<slot, bytes>>
  /\ refs' = [refs EXCEPT ![c] = @ \cup {p}]
  /\ c \notin claimed[p]

LetGo(p, c) ==
  /\ c \in using[p]
  /\ UNCHANGED <<slot, bytes>>
  /\ refs' = [refs EXCEPT ![c] = @ \ {p}]
  /\ using' = [using EXCEPT ![p] = @ \ {c}]

Restated(c, from, to) ==
  /\ slot[c].state \in from
  /\ slot'[c].state \in to
  /\ \A d \in Chunk \ {c} : slot'[d] = slot[d]
  /\ UNCHANGED <<bytes, refs>>

Settles(c) == Restated(c, SlotState \ {"absent"}, {"ready", "failed"})
Assembled(c) == Restated(c, {"filling"}, {"assembled"}) /\ slot'[c].error = slot[c].error

Evicted(V) ==
  /\ V \subseteq EvictableSet
  /\ slot' = Emptied(V)
  /\ bytes' = bytes - Weight[V]
  /\ UNCHANGED refs

Admitted(p, c, V) ==
  /\ V \subseteq EvictableSet
  /\ c \notin Resident
  /\ c \notin claimed[p]
  /\ bytes - Weight[V] + Weight[{c}] <= Budget
  /\ slot' = [Emptied(V) EXCEPT ![c] = Fresh]
  /\ bytes' = bytes - Weight[V] + Weight[{c}]
  /\ refs' = [refs EXCEPT ![c] = @ \cup {p}]

Ended(p, V) ==
  /\ V \subseteq Resident
  /\ \A c \in V : refs[c] \subseteq {p}
  /\ slot' = Emptied(V)
  /\ bytes' = bytes - Weight[V]
  /\ refs' = [c \in Chunk |-> refs[c] \ {p}]
  /\ using' = [using EXCEPT ![p] = {}]

TableEffect ==
  \/ StatesKept
  \/ \E p \in Pass, c \in Chunk :
       Taken(p, c) \/ LetGo(p, c) \/ \E V \in SUBSET Chunk : Admitted(p, c, V)
  \/ \E c \in Chunk : Settles(c) \/ Assembled(c)
  \/ \E V \in SUBSET Chunk : Evicted(V) \/ \E p \in Pass : Ended(p, V)

LEMMA EveryStepHasAnEffect ==
  TypeOK /\ SolePublisher /\ [Next]_vars => TableEffect
<1> SUFFICES ASSUME TypeOK, SolePublisher, [Next]_vars PROVE TableEffect
  OBVIOUS
<1>a. SlotsTyped
  BY DEF TypeOK, SlotsTyped
<1>b. ASSUME NEW j \in Job PROVE j[1] \in Pass /\ j[2] \in Chunk
  BY JobParts
<1>c. ASSUME UNCHANGED <<slot, bytes, refs>> PROVE TableEffect
  BY <1>c DEF TableEffect, StatesKept, SameStates
<1>d. ASSUME SameStates, UNCHANGED <<bytes, refs>> PROVE TableEffect
  BY <1>d DEF TableEffect, StatesKept
<1>e. ASSUME NEW c \in Chunk, PoisonSlot(c), UNCHANGED <<bytes, refs>> PROVE TableEffect
  <2>1. CASE UNCHANGED slot
    BY <1>c, <1>e, <2>1
  <2>2. CASE slot'[c].state = "failed" /\ Present(c)
    <3>1. slot[c].state \in SlotState \ {"absent"}
      BY <1>a, <2>2, SlotFields DEF Present, SlotsTyped
    <3>2. Settles(c)
      BY <1>a, <1>e, <2>2, <3>1, OneSlotPoisoned DEF Settles, Restated
    <3> QED
      BY <3>2 DEF TableEffect
  <2> QED
    BY <1>a, <1>e, <2>1, <2>2, OneSlotPoisoned
<1>1. ASSUME NEW p \in Pass, NewOwner(p) PROVE TableEffect
  BY <1>c, <1>1 DEF NewOwner, table
<1>2. ASSUME NEW p \in Pass, Starve(p) PROVE TableEffect
  BY <1>c, <1>2 DEF Starve, table
<1>3. ASSUME NEW p \in Pass, Wake(p) PROVE TableEffect
  BY <1>c, <1>3 DEF Wake, table
<1>4. ASSUME NEW p \in Pass, Close(p) PROVE TableEffect
  BY <1>c, <1>4 DEF Close, table
<1>5. ASSUME NEW p \in Pass, ReleaseOwner(p) PROVE TableEffect
  <2> DEFINE held == [d \in Chunk |-> refs[d] \ {p}]
             V == Abandoned(held)
  <2>1. V \in SUBSET Chunk /\ V \subseteq Resident
    BY DEF Abandoned, Resident
  <2>2. \A c \in V : refs[c] \subseteq {p}
    BY DEF Abandoned, Resident, TypeOK
  <2>3. Ended(p, V)
    BY <1>5, <2>1, <2>2 DEF ReleaseOwner, Ended
  <2> QED
    BY <2>1, <2>3 DEF TableEffect
<1>6. ASSUME NEW p \in Pass, NEW c \in Chunk, PinIfReady(p, c) PROVE TableEffect
  <2>1. Taken(p, c)
    BY <1>6 DEF PinIfReady, DriverAt, Pin, Taken, Present
  <2> QED
    BY <2>1 DEF TableEffect
<1>7. ASSUME NEW p \in Pass, NEW c \in Chunk, JoinResident(p, c) PROVE TableEffect
  <2>1. Taken(p, c)
    BY <1>7 DEF JoinResident, DriverAt, Pin, Taken
  <2> QED
    BY <2>1 DEF TableEffect
<1>8. ASSUME NEW p \in Pass, NEW c \in Chunk, AdmitFresh(p, c) PROVE TableEffect
  <2> DEFINE V == Victims(Weight[{c}])
  <2>1. V \subseteq EvictableSet /\ V \in SUBSET Chunk
    BY DEF Victims, EvictableSet
  <2>2. Admitted(p, c, V)
    BY <1>8, <2>1 DEF AdmitFresh, DriverAt, HasRoom, Pin, Admitted, Resident
  <2> QED
    BY <2>1, <2>2 DEF TableEffect
<1>9. ASSUME NEW p \in Pass, NEW c \in Chunk, AdmitFull(p, c) PROVE TableEffect
  <2> DEFINE V == Victims(Weight[{c}])
  <2>1. V \subseteq EvictableSet /\ V \in SUBSET Chunk
    BY DEF Victims, EvictableSet
  <2>2. Evicted(V)
    BY <1>9, <2>1 DEF AdmitFull, Evicted
  <2> QED
    BY <2>1, <2>2 DEF TableEffect
<1>10. ASSUME NEW p \in Pass, NEW c \in Chunk, WaitReady(p, c) PROVE TableEffect
  BY <1>c, <1>10 DEF WaitReady, table
<1>11. ASSUME NEW p \in Pass, NEW c \in Chunk, UnpinBlock(p, c) PROVE TableEffect
  <2>1. LetGo(p, c)
    BY <1>11 DEF UnpinBlock, LetGo
  <2> QED
    BY <2>1 DEF TableEffect
<1>12. ASSUME NEW j \in Job, CancelQueued(j) PROVE TableEffect
  BY <1>c, <1>12 DEF CancelQueued, table
<1>13. ASSUME NEW j \in Job, CancelRunning(j) PROVE TableEffect
  BY <1>c, <1>13 DEF CancelRunning, table
<1>14. ASSUME NEW j \in Job, HandToThread(j) PROVE TableEffect
  BY <1>c, <1>14 DEF HandToThread, table
<1>15. ASSUME NEW j \in Job, DeliverToNothing(j) PROVE TableEffect
  BY <1>c, <1>15 DEF DeliverToNothing, table
<1>16. ASSUME NEW j \in Job, AdvanceReturns(j) PROVE TableEffect
  BY <1>c, <1>16 DEF AdvanceReturns, table
<1>17. ASSUME NEW j \in Job, TileWrite(j) PROVE TableEffect
  BY <1>a, <1>d, <1>17, TileStepsKeepStates DEF TileWrite
<1>18. ASSUME NEW j \in Job, Deliver(j) PROVE TableEffect
  BY <1>a, <1>d, <1>18, TileStepsKeepStates DEF Deliver
<1>19. ASSUME NEW j \in Job, Release(j) PROVE TableEffect
  BY <1>a, <1>d, <1>19, TileStepsKeepStates DEF Release
<1>20. ASSUME NEW j \in Job, LateDeliver(j) PROVE TableEffect
  BY <1>a, <1>d, <1>20, TileStepsKeepStates DEF LateDeliver
<1>21. ASSUME NEW j \in Job, FetchFails(j) PROVE TableEffect
  BY <1>b, <1>e, <1>21 DEF FetchFails
<1>22. ASSUME NEW j \in Job, TransformFails(j) PROVE TableEffect
  BY <1>b, <1>c, <1>e, <1>22 DEF TransformFails
<1>23. ASSUME NEW j \in Job, AdvanceAssembles(j) PROVE TableEffect
  <2>1. /\ SetSlot(j[2], [slot[j[2]] EXCEPT !.state = "assembled"])
        /\ slot[j[2]].state = "filling"
    BY <1>23 DEF AdvanceAssembles, CanAssemble
  <2>2. Assembled(j[2])
    BY <1>a, <1>b, <1>23, <2>1, OneSlotRestated DEF AdvanceAssembles, Assembled, Restated, SlotState
  <2> QED
    BY <1>b, <2>2 DEF TableEffect
<1>24. ASSUME NEW j \in Job, Publish(j) PROVE TableEffect
  <2>1. CASE task[j] = "publishing"
    <3>1. slot[j[2]].state \in SlotState \ {"absent"}
      BY <2>1 DEF SolePublisher, SlotState
    <3>2. SetSlot(j[2], [slot[j[2]] EXCEPT !.state = "ready"])
      BY <1>24, <2>1 DEF Publish
    <3>3. Settles(j[2])
      BY <1>a, <1>b, <1>24, <3>1, <3>2, OneSlotRestated DEF Publish, Settles, Restated, SlotState
    <3> QED
      BY <1>b, <3>3 DEF TableEffect
  <2> QED
    BY <1>c, <1>24, <2>1 DEF Publish
<1>25. ASSUME UNCHANGED vars PROVE TableEffect
  BY <1>c, <1>25 DEF vars, table
<1> QED
  BY <1>1, <1>2, <1>3, <1>4, <1>5, <1>6, <1>7, <1>8, <1>9, <1>10, <1>11, <1>12, <1>13,
     <1>14, <1>15, <1>16, <1>17, <1>18, <1>19, <1>20, <1>21, <1>22, <1>23, <1>24, <1>25, NextCases

-----------------------------------------------------------------------------
(* The budget, the references and the publisher.                           *)

LEMMA WithinBudgetStep ==
  TypeOK /\ WithinBudget /\ TableEffect => WithinBudget'
<1> SUFFICES ASSUME TypeOK, WithinBudget, TableEffect PROVE WithinBudget'
  OBVIOUS
<1>a. SlotsTyped /\ Resident \in SUBSET Chunk /\ Budget \in Nat
  BY PoolAssumption DEF TypeOK, SlotsTyped, Resident
<1>b. bytes = Weight[Resident] /\ bytes <= Budget
  BY DEF WithinBudget
<1>c. ASSUME Resident' = Resident, bytes' = bytes PROVE WithinBudget'
  BY <1>b, <1>c DEF WithinBudget
<1>d. ASSUME NEW V \in SUBSET Resident, slot' = Emptied(V), bytes' = bytes - Weight[V]
      PROVE  WithinBudget'
  <2>1. Resident' = Resident \ V
    BY <1>a, <1>d, SlotsDropped
  <2>2. /\ Weight[Resident] \in Nat /\ Weight[V] \in Nat
        /\ Weight[Resident \ V] = Weight[Resident] - Weight[V]
    BY <1>a, WeightOfDifference
  <2> QED
    BY <1>a, <1>b, <1>d, <2>1, <2>2 DEF WithinBudget
<1>e. EvictableSet \subseteq Resident
  BY DEF EvictableSet, Evictable, Resident, Present
<1>1. CASE StatesKept
  BY <1>1, <1>c DEF StatesKept, SameStates, Resident, Present
<1>2. ASSUME NEW p \in Pass, NEW c \in Chunk, Taken(p, c) \/ LetGo(p, c)
      PROVE  WithinBudget'
  BY <1>2, <1>c DEF Taken, LetGo, Resident, Present
<1>3. ASSUME NEW c \in Chunk, Settles(c) \/ Assembled(c) PROVE WithinBudget'
  BY <1>3, <1>c DEF Settles, Assembled, Restated, Resident, Present
<1>4. ASSUME NEW V \in SUBSET Chunk, Evicted(V) PROVE WithinBudget'
  BY <1>4, <1>d, <1>e DEF Evicted
<1>5. ASSUME NEW V \in SUBSET Chunk, NEW p \in Pass, Ended(p, V) PROVE WithinBudget'
  BY <1>5, <1>d DEF Ended
<1>6. ASSUME NEW p \in Pass, NEW c \in Chunk, NEW V \in SUBSET Chunk, Admitted(p, c, V)
      PROVE  WithinBudget'
  <2>1. V \in SUBSET Resident /\ c \in Chunk \ (Resident \ V)
    BY <1>6, <1>e DEF Admitted
  <2>2. Resident' = (Resident \ V) \cup {c}
    BY <1>6, <1>a, SlotAdmitted DEF Admitted
  <2>3. /\ Resident \ V \in SUBSET Chunk
        /\ Weight[Resident \ V] = Weight[Resident] - Weight[V]
    BY <1>a, <2>1, WeightOfDifference
  <2>4. Weight[Resident'] = Weight[Resident \ V] + Weight[{c}]
    BY <2>1, <2>2, <2>3, WeightOfAddition
  <2> QED
    BY <1>6, <1>b, <2>3, <2>4 DEF Admitted, WithinBudget
<1> QED
  BY <1>1, <1>2, <1>3, <1>4, <1>5, <1>6 DEF TableEffect

LEMMA HeldIsResidentStep ==
  TypeOK /\ HeldIsResident /\ TableEffect => HeldIsResident'
<1> SUFFICES ASSUME TypeOK, HeldIsResident, TableEffect PROVE HeldIsResident'
  OBVIOUS
<1>a. SlotsTyped /\ refs \in [Chunk -> SUBSET Pass]
  BY DEF TypeOK, SlotsTyped
<1>1. CASE StatesKept
  BY <1>1 DEF StatesKept, SameStates, HeldIsResident, Present
<1>2. ASSUME NEW p \in Pass, NEW c \in Chunk, Taken(p, c) \/ LetGo(p, c)
      PROVE  HeldIsResident'
  BY <1>2, <1>a DEF Taken, LetGo, HeldIsResident, Present
<1>3. ASSUME NEW c \in Chunk, Settles(c) \/ Assembled(c) PROVE HeldIsResident'
  BY <1>3 DEF Settles, Assembled, Restated, HeldIsResident, Present
<1>4. ASSUME NEW V \in SUBSET Chunk, Evicted(V) PROVE HeldIsResident'
  <2>1. \A c \in V : refs[c] = {}
    BY <1>4 DEF Evicted, EvictableSet, Evictable
  <2>2. \A c \in Chunk \ V : slot'[c] = slot[c]
    BY <1>4, <1>a, SlotsDropped DEF Evicted
  <2> QED
    BY <1>4, <2>1, <2>2 DEF Evicted, HeldIsResident, Present
<1>5. ASSUME NEW V \in SUBSET Chunk, NEW p \in Pass, Ended(p, V) PROVE HeldIsResident'
  <2>1. \A c \in Chunk \ V : slot'[c] = slot[c]
    BY <1>5, <1>a, SlotsDropped DEF Ended
  <2>2. \A c \in Chunk : refs'[c] = refs[c] \ {p}
    BY <1>5 DEF Ended
  <2>3. \A c \in V : refs'[c] = {}
    BY <1>5, <2>2 DEF Ended
  <2> QED
    BY <2>1, <2>2, <2>3 DEF HeldIsResident, Present
<1>6. ASSUME NEW p \in Pass, NEW c \in Chunk, NEW V \in SUBSET Chunk, Admitted(p, c, V)
      PROVE  HeldIsResident'
  <2>1. \A d \in V : refs[d] = {}
    BY <1>6 DEF Admitted, EvictableSet, Evictable
  <2>2. /\ \A d \in Chunk \ (V \cup {c}) : slot'[d] = slot[d]
        /\ slot'[c].state = "filling"
    BY <1>6, <1>a, SlotAdmitted DEF Admitted
  <2>3. \A d \in Chunk \ {c} : refs'[d] = refs[d]
    BY <1>6, <1>a DEF Admitted
  <2> QED
    BY <2>1, <2>2, <2>3 DEF HeldIsResident, Present
<1> QED
  BY <1>1, <1>2, <1>3, <1>4, <1>5, <1>6 DEF TableEffect

LEMMA SolePublisherStep ==
  TypeOK /\ SolePublisher /\ [Next]_vars => SolePublisher'
<1> SUFFICES ASSUME TypeOK, SolePublisher, [Next]_vars PROVE SolePublisher'
  OBVIOUS
<1> DEFINE Publishing(k) == task[k] = "publishing"
<1>a. SlotsTyped /\ task \in [Job -> Phase]
  BY DEF TypeOK, SlotsTyped
<1>b. ASSUME NEW k \in Job PROVE k[1] \in Pass /\ k[2] \in Chunk
  BY JobParts
<1>c. ASSUME NEW k \in Job, Publishing(k) PROVE slot[k[2]].state \in {"assembled", "failed"}
  BY <1>c DEF SolePublisher
<1>d. ASSUME \A k \in Job : Publishing(k)' =>
               Publishing(k) /\ slot'[k[2]].state \in {"assembled", "failed"}
      PROVE  SolePublisher'
  BY <1>d DEF SolePublisher
<1>e. ASSUME \A k \in Job : Publishing(k)' => Publishing(k),
             \A d \in Chunk : slot'[d].state = slot[d].state
      PROVE  SolePublisher'
  BY <1>b, <1>c, <1>d, <1>e
<1>f. ASSUME NEW j \in Job, NEW x \in Phase \ {"publishing"}, GoTo(j, x)
      PROVE  \A k \in Job : Publishing(k)' => Publishing(k) /\ k # j
  BY <1>a, <1>f DEF GoTo
<1>g. ASSUME \A k \in Job : Publishing(k)' => Publishing(k),
             NEW c \in Chunk, PoisonSlot(c)
      PROVE  SolePublisher'
  <2>1. \A d \in Chunk : slot'[d].state \in {slot[d].state, "failed"}
    BY <1>a, <1>g, OneSlotPoisoned
  <2> QED
    BY <1>b, <1>c, <1>d, <1>g, <2>1
<1>1. ASSUME NEW p \in Pass, NewOwner(p) PROVE SolePublisher'
  BY <1>e, <1>1 DEF NewOwner, table, tasks
<1>2. ASSUME NEW p \in Pass, Starve(p) PROVE SolePublisher'
  BY <1>e, <1>2 DEF Starve, table, tasks
<1>3. ASSUME NEW p \in Pass, Wake(p) PROVE SolePublisher'
  BY <1>e, <1>3 DEF Wake, table, tasks
<1>4. ASSUME NEW p \in Pass, Close(p) PROVE SolePublisher'
  BY <1>e, <1>4 DEF Close, table, tasks
<1>5. ASSUME NEW p \in Pass, ReleaseOwner(p) PROVE SolePublisher'
  <2> DEFINE V == Abandoned([d \in Chunk |-> refs[d] \ {p}])
  <2>1. V \in SUBSET Chunk
    BY DEF Abandoned, Resident
  <2>2. /\ slot' = Emptied(V)
        /\ \A k \in Job : Publishing(k)' => Publishing(k) /\ k[2] \notin V
    BY <1>5 DEF ReleaseOwner
  <2> HIDE DEF V
  <2>3. \A k \in Job : Publishing(k)' => slot'[k[2]] = slot[k[2]]
    BY <1>a, <1>b, <2>1, <2>2, SlotsDropped
  <2> QED
    BY <1>c, <1>d, <2>2, <2>3
<1>6. ASSUME NEW p \in Pass, NEW c \in Chunk, PinIfReady(p, c) PROVE SolePublisher'
  BY <1>e, <1>6 DEF PinIfReady, tasks
<1>7. ASSUME NEW p \in Pass, NEW c \in Chunk, JoinResident(p, c) PROVE SolePublisher'
  BY <1>e, <1>7 DEF JoinResident, StartTiles
<1>8. ASSUME NEW p \in Pass, NEW c \in Chunk, AdmitFresh(p, c) PROVE SolePublisher'
  <2> DEFINE V == Victims(Weight[{c}])
  <2>1. V \in SUBSET Chunk /\ \A d \in V : slot[d].state = "ready"
    BY VictimsAreFree
  <2>2. slot' = [Emptied(V) EXCEPT ![c] = Fresh] /\ slot[c].state = "absent"
    BY <1>8 DEF AdmitFresh, Present
  <2>3. \A k \in Job : Publishing(k)' => Publishing(k)
    BY <1>8 DEF AdmitFresh, StartTiles
  <2> HIDE DEF V
  <2>4. \A d \in Chunk \ (V \cup {c}) : slot'[d] = slot[d]
    BY <1>a, <2>1, <2>2, SlotAdmitted
  <2> QED
    BY <1>b, <1>c, <1>d, <2>1, <2>2, <2>3, <2>4
<1>9. ASSUME NEW p \in Pass, NEW c \in Chunk, AdmitFull(p, c) PROVE SolePublisher'
  <2> DEFINE V == Victims(Weight[{c}])
  <2>1. V \in SUBSET Chunk /\ \A d \in V : slot[d].state = "ready"
    BY VictimsAreFree
  <2>2. slot' = Emptied(V) /\ UNCHANGED task
    BY <1>9 DEF AdmitFull, tasks
  <2> HIDE DEF V
  <2>3. \A d \in Chunk \ V : slot'[d] = slot[d]
    BY <1>a, <2>1, <2>2, SlotsDropped
  <2> QED
    BY <1>b, <1>c, <1>d, <2>1, <2>2, <2>3
<1>10. ASSUME NEW p \in Pass, NEW c \in Chunk, WaitReady(p, c) PROVE SolePublisher'
  BY <1>e, <1>10 DEF WaitReady, table, tasks
<1>11. ASSUME NEW p \in Pass, NEW c \in Chunk, UnpinBlock(p, c) PROVE SolePublisher'
  BY <1>e, <1>11 DEF UnpinBlock, tasks
<1>12. ASSUME NEW j \in Job, CancelQueued(j) PROVE SolePublisher'
  BY <1>e, <1>f, <1>12 DEF CancelQueued, table, Phase
<1>13. ASSUME NEW j \in Job, CancelRunning(j) PROVE SolePublisher'
  BY <1>e, <1>f, <1>13 DEF CancelRunning, table, Phase
<1>14. ASSUME NEW j \in Job, HandToThread(j) PROVE SolePublisher'
  BY <1>e, <1>f, <1>14 DEF HandToThread, table, Phase
<1>15. ASSUME NEW j \in Job, DeliverToNothing(j) PROVE SolePublisher'
  BY <1>e, <1>f, <1>15 DEF DeliverToNothing, table, Phase
<1>16. ASSUME NEW j \in Job, AdvanceReturns(j) PROVE SolePublisher'
  BY <1>e, <1>f, <1>16 DEF AdvanceReturns, table, Phase
<1>17. ASSUME NEW j \in Job, TileWrite(j) PROVE SolePublisher'
  BY <1>a, <1>e, <1>f, <1>17, TileStepsKeepStates DEF TileWrite, SameStates, Phase
<1>18. ASSUME NEW j \in Job, Deliver(j) PROVE SolePublisher'
  BY <1>a, <1>e, <1>f, <1>18, TileStepsKeepStates DEF Deliver, SameStates, Phase
<1>19. ASSUME NEW j \in Job, Release(j) PROVE SolePublisher'
  BY <1>a, <1>e, <1>f, <1>19, TileStepsKeepStates DEF Release, SameStates, Phase
<1>20. ASSUME NEW j \in Job, LateDeliver(j) PROVE SolePublisher'
  BY <1>a, <1>e, <1>20, TileStepsKeepStates DEF LateDeliver, SameStates
<1>21. ASSUME NEW j \in Job, FetchFails(j) PROVE SolePublisher'
  BY <1>b, <1>f, <1>g, <1>21 DEF FetchFails, Phase
<1>22. ASSUME NEW j \in Job, TransformFails(j) PROVE SolePublisher'
  BY <1>b, <1>e, <1>f, <1>g, <1>22 DEF TransformFails, Phase
<1>23. ASSUME NEW j \in Job, AdvanceAssembles(j) PROVE SolePublisher'
  <2>1. /\ SetSlot(j[2], [slot[j[2]] EXCEPT !.state = "assembled"])
        /\ slot[j[2]].state = "filling"
        /\ GoTo(j, "publishing")
    BY <1>23 DEF AdvanceAssembles, CanAssemble
  <2>2. /\ slot'[j[2]].state = "assembled"
        /\ \A d \in Chunk \ {j[2]} : slot'[d] = slot[d]
    BY <1>a, <1>b, <2>1, OneSlotRestated DEF SlotState
  <2>3. \A k \in Job : Publishing(k)' => k = j \/ (Publishing(k) /\ k[2] # j[2])
    <3> SUFFICES ASSUME NEW k \in Job, Publishing(k)', k # j
                 PROVE  Publishing(k) /\ k[2] # j[2]
      OBVIOUS
    <3>1. Publishing(k)
      BY <1>a, <2>1 DEF GoTo
    <3>2. k[2] # j[2]
      BY <1>c, <2>1, <3>1
    <3> QED
      BY <3>1, <3>2
  <2> QED
    BY <1>b, <1>c, <2>2, <2>3 DEF SolePublisher
<1>24. ASSUME NEW j \in Job, Publish(j) PROVE SolePublisher'
  <2>1. \A k \in Job : Publishing(k)' => Publishing(k) /\ k # j
    BY <1>f, <1>24 DEF Publish, Phase
  <2>2. CASE task[j] = "publishing"
    <3>1. SetSlot(j[2], [slot[j[2]] EXCEPT !.state = "ready"])
      BY <1>24, <2>2 DEF Publish
    <3>2. \A d \in Chunk \ {j[2]} : slot'[d] = slot[d]
      BY <1>a, <1>b, <3>1, OneSlotRestated DEF SlotState
    <3>3. \A k \in Job : Publishing(k)' => k[2] # j[2]
      BY <2>1, <2>2 DEF SolePublisher
    <3> QED
      BY <1>b, <1>c, <1>d, <2>1, <3>2, <3>3
  <2> QED
    BY <1>e, <1>24, <2>1, <2>2 DEF Publish
<1>25. ASSUME UNCHANGED vars PROVE SolePublisher'
  BY <1>e, <1>25 DEF vars, table, tasks
<1> QED
  BY <1>1, <1>2, <1>3, <1>4, <1>5, <1>6, <1>7, <1>8, <1>9, <1>10, <1>11, <1>12, <1>13,
     <1>14, <1>15, <1>16, <1>17, <1>18, <1>19, <1>20, <1>21, <1>22, <1>23, <1>24, <1>25, NextCases

-----------------------------------------------------------------------------
(* What a producer reads.                                                  *)

LEMMA ReferenceIsClaimedStep ==
  TypeOK /\ ReferenceIsClaimed /\ [Next]_vars => ReferenceIsClaimed'
<1> SUFFICES ASSUME TypeOK, ReferenceIsClaimed, [Next]_vars PROVE ReferenceIsClaimed'
  OBVIOUS
<1>a. refs \in [Chunk -> SUBSET Pass] /\ claimed \in [Pass -> SUBSET Chunk]
  BY DEF TypeOK
<1>b. ASSUME NEW p \in Pass, NEW c \in Chunk, Pin(p, c) PROVE ReferenceIsClaimed'
  BY <1>a, <1>b DEF Pin, ReferenceIsClaimed
<1>c. ASSUME UNCHANGED <<refs, claimed>> PROVE ReferenceIsClaimed'
  BY <1>c DEF ReferenceIsClaimed
<1>1. ASSUME NEW p \in Pass, ReleaseOwner(p) PROVE ReferenceIsClaimed'
  BY <1>a, <1>1 DEF ReleaseOwner, ReferenceIsClaimed
<1>2. ASSUME NEW p \in Pass, NEW c \in Chunk, UnpinBlock(p, c) PROVE ReferenceIsClaimed'
  BY <1>a, <1>2 DEF UnpinBlock, passes, ReferenceIsClaimed
<1>3. ASSUME NEW p \in Pass, NEW c \in Chunk,
             PinIfReady(p, c) \/ JoinResident(p, c) \/ AdmitFresh(p, c)
      PROVE  ReferenceIsClaimed'
  BY <1>b, <1>3 DEF PinIfReady, JoinResident, AdmitFresh
<1>4. ASSUME NEW p \in Pass, NEW c \in Chunk, AdmitFull(p, c) \/ WaitReady(p, c)
      PROVE  ReferenceIsClaimed'
  BY <1>c, <1>4 DEF AdmitFull, WaitReady, table
<1>5. ASSUME NEW p \in Pass, NewOwner(p) \/ Starve(p) \/ Wake(p) \/ Close(p)
      PROVE  ReferenceIsClaimed'
  BY <1>c, <1>5 DEF NewOwner, Starve, Wake, Close, table
<1>6. ASSUME NEW j \in Job,
             \/ CancelQueued(j) \/ CancelRunning(j) \/ TileWrite(j)
             \/ HandToThread(j) \/ Deliver(j) \/ DeliverToNothing(j)
             \/ FetchFails(j) \/ Release(j) \/ AdvanceAssembles(j)
             \/ AdvanceReturns(j) \/ Publish(j) \/ TransformFails(j)
             \/ LateDeliver(j)
      PROVE  ReferenceIsClaimed'
  BY <1>c, <1>6 DEF CancelQueued, CancelRunning, TileWrite, HandToThread, Deliver,
     DeliverToNothing, FetchFails, Release, AdvanceAssembles, AdvanceReturns, Publish,
     TransformFails, LateDeliver, table, passes
<1>7. ASSUME UNCHANGED vars PROVE ReferenceIsClaimed'
  BY <1>c, <1>7 DEF vars, table, passes
<1> QED
  BY <1>1, <1>2, <1>3, <1>4, <1>5, <1>6, <1>7, NextCases

(* using grows by a chunk whose wait was satisfied, shrinks at a release   *)
(* and at the end of the pass, and is otherwise left alone.                *)
UsingEffect ==
  \/ \A q \in Pass : using'[q] \subseteq using[q]
  \/ \E p \in Pass, c \in Chunk :
       /\ slot[c].state = "ready" /\ p \in refs[c]
       /\ UNCHANGED <<slot, refs>>
       /\ using' = [using EXCEPT ![p] = @ \cup {c}]

LEMMA WaitReturnsUsing ==
  ASSUME TypeOK, NEW p \in Pass, NEW c \in Chunk, WaitSatisfied(p, c),
         WaitReturns(p, c), UNCHANGED <<slot, refs>>
  PROVE  UsingEffect
<1>1. CASE poolError \/ slot[c].error
  BY <1>1 DEF WaitReturns, UsingEffect
<1>2. CASE ~(poolError \/ slot[c].error)
  BY <1>2 DEF WaitReturns, WaitSatisfied, UsingEffect
<1> QED
  BY <1>1, <1>2

LEMMA EveryStepHasAUsingEffect == TypeOK /\ [Next]_vars => UsingEffect
<1> SUFFICES ASSUME TypeOK, [Next]_vars PROVE UsingEffect
  OBVIOUS
<1>a. using \in [Pass -> SUBSET Chunk] /\ waiting \in [Pass -> SUBSET Chunk]
  BY DEF TypeOK
<1>b. ASSUME UNCHANGED using PROVE UsingEffect
  BY <1>b DEF UsingEffect
<1>1. ASSUME NEW p \in Pass, ReleaseOwner(p) PROVE UsingEffect
  BY <1>a, <1>1 DEF ReleaseOwner, UsingEffect
<1>2. ASSUME NEW p \in Pass, NEW c \in Chunk, UnpinBlock(p, c) PROVE UsingEffect
  BY <1>a, <1>2 DEF UnpinBlock, UsingEffect
<1>3. ASSUME NEW p \in Pass, NEW c \in Chunk, WaitReady(p, c) PROVE UsingEffect
  BY <1>b, <1>3, WaitReturnsUsing DEF WaitReady, table
<1>4. ASSUME NEW p \in Pass, Wake(p) PROVE UsingEffect
  <2>1. PICK c \in Chunk :
          IF WaitSatisfied(p, c)
          THEN WaitReturns(p, c)
          ELSE UNCHANGED <<using, status, waiting>>
    BY <1>4 DEF Wake
  <2>2. UNCHANGED <<slot, refs>>
    BY <1>4 DEF Wake, table
  <2> QED
    BY <1>b, <2>1, <2>2, WaitReturnsUsing
<1>5. ASSUME NEW p \in Pass, NEW c \in Chunk,
             \/ PinIfReady(p, c) \/ JoinResident(p, c) \/ AdmitFresh(p, c)
             \/ AdmitFull(p, c)
      PROVE  UsingEffect
  BY <1>b, <1>5 DEF PinIfReady, JoinResident, AdmitFresh, AdmitFull, producers
<1>6. ASSUME NEW p \in Pass, NewOwner(p) \/ Starve(p) \/ Close(p) PROVE UsingEffect
  BY <1>b, <1>6 DEF NewOwner, Starve, Close, producers
<1>7. ASSUME NEW j \in Job,
             \/ CancelQueued(j) \/ CancelRunning(j) \/ TileWrite(j)
             \/ HandToThread(j) \/ Deliver(j) \/ DeliverToNothing(j)
             \/ FetchFails(j) \/ Release(j) \/ AdvanceAssembles(j)
             \/ AdvanceReturns(j) \/ Publish(j) \/ TransformFails(j)
             \/ LateDeliver(j)
      PROVE  UsingEffect
  BY <1>b, <1>7 DEF CancelQueued, CancelRunning, TileWrite, HandToThread, Deliver,
     DeliverToNothing, FetchFails, Release, AdvanceAssembles, AdvanceReturns, Publish,
     TransformFails, LateDeliver, producers
<1>8. ASSUME UNCHANGED vars PROVE UsingEffect
  BY <1>b, <1>8 DEF vars, producers
<1> QED
  BY <1>1, <1>2, <1>3, <1>4, <1>5, <1>6, <1>7, <1>8, NextCases

LEMMA UsedIsPublishedStep ==
  TypeOK /\ UsedIsPublished /\ TableEffect /\ UsingEffect => UsedIsPublished'
<1> SUFFICES ASSUME TypeOK, UsedIsPublished, TableEffect, UsingEffect,
                    NEW q \in Pass, NEW d \in using'[q]
             PROVE  q \in refs'[d] /\ slot'[d].state \in {"ready", "failed"}
  BY DEF UsedIsPublished
<1>a. /\ SlotsTyped
      /\ refs \in [Chunk -> SUBSET Pass]
      /\ using \in [Pass -> SUBSET Chunk]
  BY DEF TypeOK, SlotsTyped
<1>b. ASSUME NEW c \in using[q] PROVE c \in Chunk /\ q \in refs[c] /\ slot[c].state \in {"ready", "failed"}
  BY <1>a, <1>b DEF UsedIsPublished
<1>1. CASE d \notin using[q]
  BY <1>a, <1>1 DEF UsingEffect
<1>2. CASE d \in using[q]
  <2>a. d \in Chunk /\ q \in refs[d] /\ slot[d].state \in {"ready", "failed"}
    BY <1>2, <1>b
  <2>1. CASE StatesKept
    BY <2>a, <2>1 DEF StatesKept, SameStates
  <2>2. ASSUME NEW p \in Pass, NEW c \in Chunk, Taken(p, c) PROVE q \in refs'[d] /\ slot'[d] = slot[d]
    BY <1>a, <2>a, <2>2 DEF Taken
  <2>3. ASSUME NEW p \in Pass, NEW c \in Chunk, LetGo(p, c) PROVE q \in refs'[d] /\ slot'[d] = slot[d]
    BY <1>a, <2>a, <2>3 DEF LetGo
  <2>4. ASSUME NEW c \in Chunk, Settles(c) \/ Assembled(c)
        PROVE  q \in refs'[d] /\ slot'[d].state \in {"ready", "failed"}
    BY <2>a, <2>4 DEF Settles, Assembled, Restated
  <2>5. ASSUME NEW V \in SUBSET Chunk, Evicted(V) PROVE q \in refs'[d] /\ slot'[d] = slot[d]
    <3>1. d \notin V
      BY <2>a, <2>5 DEF Evicted, EvictableSet, Evictable
    <3> QED
      BY <1>a, <2>a, <2>5, <3>1, SlotsDropped DEF Evicted
  <2>6. ASSUME NEW p \in Pass, NEW V \in SUBSET Chunk, Ended(p, V)
        PROVE  q \in refs'[d] /\ slot'[d] = slot[d]
    <3>1. q # p
      BY <1>a, <2>6 DEF Ended
    <3>2. d \notin V
      BY <2>a, <2>6, <3>1 DEF Ended
    <3> QED
      BY <1>a, <2>a, <2>6, <3>1, <3>2, SlotsDropped DEF Ended
  <2>7. ASSUME NEW p \in Pass, NEW c \in Chunk, NEW V \in SUBSET Chunk, Admitted(p, c, V)
        PROVE  q \in refs'[d] /\ slot'[d] = slot[d]
    <3>1. d \notin V /\ d # c
      BY <2>a, <2>7 DEF Admitted, EvictableSet, Evictable, Resident, Present
    <3>2. \A e \in Chunk \ (V \cup {c}) : slot'[e] = slot[e]
      BY <1>a, <2>7, SlotAdmitted, Zenon DEF Admitted
    <3>3. slot'[d] = slot[d]
      BY <2>a, <3>1, <3>2
    <3> QED
      BY <1>a, <2>a, <2>7, <3>1, <3>3 DEF Admitted
  <2> QED
    BY <2>a, <2>1, <2>2, <2>3, <2>4, <2>5, <2>6, <2>7 DEF TableEffect
<1> QED
  BY <1>1, <1>2

-----------------------------------------------------------------------------
(* Sleeping producers.                                                     *)

(* What a step that does not notify leaves alone: nobody can return now    *)
(* who could not before, and only an unsatisfied waiter falls asleep.      *)
Silent ==
  /\ UNCHANGED poolError
  /\ \A c \in Chunk :
       /\ slot'[c].state = "ready" => slot[c].state = "ready" /\ refs'[c] = refs[c]
       /\ slot'[c].state # "absent" /\ slot'[c].error =>
            slot[c].state # "absent" /\ slot[c].error

LEMMA SilentKeepsUnsatisfied ==
  ASSUME Silent, NEW p \in Pass, NEW c \in Chunk, WaitSatisfied(p, c)'
  PROVE  WaitSatisfied(p, c)
BY DEF Silent, WaitSatisfied, Present

LEMMA SilentKeepsSleepers ==
  ASSUME TypeOK, NoLostWakeup, Silent,
         \A p \in asleep' : p \in asleep /\ waiting'[p] \subseteq waiting[p]
  PROVE  NoLostWakeup'
<1> SUFFICES ASSUME NEW p \in asleep', NEW c \in waiting'[p], WaitSatisfied(p, c)'
             PROVE  FALSE
  BY DEF NoLostWakeup
<1>1. p \in Pass /\ p \in asleep /\ c \in waiting[p] /\ c \in Chunk
  BY DEF TypeOK
<1> QED
  BY <1>1, SilentKeepsUnsatisfied DEF NoLostWakeup

LEMMA NoLostWakeupStep ==
  TypeOK /\ NoLostWakeup /\ [Next]_vars => NoLostWakeup'
<1> SUFFICES ASSUME TypeOK, NoLostWakeup, [Next]_vars PROVE NoLostWakeup'
  OBVIOUS
<1>a. SlotsTyped /\ waiting \in [Pass -> SUBSET Chunk] /\ asleep \subseteq Pass
  BY DEF TypeOK, SlotsTyped
<1>b. ASSUME NEW j \in Job PROVE j[1] \in Pass /\ j[2] \in Chunk
  BY JobParts
<1>c. ASSUME asleep' = {} PROVE NoLostWakeup'
  BY <1>c DEF NoLostWakeup
<1>d. ASSUME Silent, UNCHANGED <<waiting, asleep>> PROVE NoLostWakeup'
  BY <1>d, SilentKeepsSleepers
<1>e. ASSUME SameStates, UNCHANGED <<refs, poolError>> PROVE Silent
  BY <1>e DEF SameStates, Silent
<1>f. ASSUME UNCHANGED <<slot, refs, poolError>> PROVE Silent
  BY <1>f DEF Silent
<1>g. ASSUME NEW c \in Chunk, PoisonSlot(c), UNCHANGED <<refs, poolError, waiting>>
      PROVE  NoLostWakeup'
  <2>1. CASE UNCHANGED <<slot, asleep>>
    BY <1>d, <1>f, <1>g, <2>1
  <2> QED
    BY <1>a, <1>c, <1>g, <2>1, OneSlotPoisoned
<1>h. ASSUME NEW p \in Pass, NEW c \in Chunk, UNCHANGED <<slot, refs, poolError>>,
             \/ WaitReturns(p, c) /\ UNCHANGED asleep
             \/ /\ ~WaitSatisfied(p, c)
                /\ asleep' = asleep \cup {p}
                /\ waiting'[p] \subseteq {c}
                /\ \A q \in Pass \ {p} : waiting'[q] = waiting[q]
      PROVE  NoLostWakeup'
  <2>1. Silent
    BY <1>f, <1>h
  <2>2. CASE WaitReturns(p, c) /\ UNCHANGED asleep
    <3>1. \A q \in asleep' : q \in asleep /\ waiting'[q] \subseteq waiting[q]
      BY <1>a, <2>2 DEF WaitReturns
    <3> QED
      BY <2>1, <3>1, SilentKeepsSleepers
  <2>3. CASE ~(WaitReturns(p, c) /\ UNCHANGED asleep)
    <3>1. SUFFICES ASSUME NEW q \in asleep', NEW d \in waiting'[q], WaitSatisfied(q, d)'
                   PROVE  FALSE
      BY DEF NoLostWakeup
    <3>2. CASE q = p
      <4>1. d = c
        BY <1>h, <2>3, <3>1, <3>2
      <4> QED
        BY <1>h, <2>1, <2>3, <3>1, <3>2, <4>1, SilentKeepsUnsatisfied
    <3>3. CASE q # p
      <4>1. q \in Pass /\ q \in asleep /\ d \in waiting[q] /\ d \in Chunk
        BY <1>a, <1>h, <2>3, <3>1, <3>3
      <4> QED
        BY <2>1, <3>1, <4>1, SilentKeepsUnsatisfied DEF NoLostWakeup
    <3> QED
      BY <3>2, <3>3
  <2> QED
    BY <2>2, <2>3
<1>1. ASSUME NEW p \in Pass, NewOwner(p) PROVE NoLostWakeup'
  BY <1>d, <1>f, <1>1 DEF NewOwner, table, producers
<1>2. ASSUME NEW p \in Pass, Close(p) PROVE NoLostWakeup'
  BY <1>d, <1>f, <1>2 DEF Close, table, producers
<1>3. ASSUME NEW p \in Pass, Starve(p) PROVE NoLostWakeup'
  BY <1>c, <1>3 DEF Starve, Notify
<1>4. ASSUME NEW p \in Pass, ReleaseOwner(p) PROVE NoLostWakeup'
  BY <1>c, <1>4 DEF ReleaseOwner, Notify
<1>5. ASSUME NEW p \in Pass, Wake(p) PROVE NoLostWakeup'
  <2>1. PICK c \in Chunk :
          /\ waiting[p] = {c}
          /\ IF WaitSatisfied(p, c)
             THEN WaitReturns(p, c) /\ UNCHANGED asleep
             ELSE asleep' = asleep \cup {p} /\ UNCHANGED <<using, status, waiting>>
    BY <1>5 DEF Wake
  <2>2. UNCHANGED <<slot, refs, poolError>>
    BY <1>5 DEF Wake, table
  <2>3. CASE WaitSatisfied(p, c)
    BY <1>h, <2>1, <2>2, <2>3
  <2>4. CASE ~WaitSatisfied(p, c)
    BY <1>h, <2>1, <2>2, <2>4
  <2> QED
    BY <2>3, <2>4
<1>6. ASSUME NEW p \in Pass, NEW c \in Chunk, PinIfReady(p, c) PROVE NoLostWakeup'
  BY <1>c, <1>6 DEF PinIfReady, Notify
<1>7. ASSUME NEW p \in Pass, NEW c \in Chunk, JoinResident(p, c) PROVE NoLostWakeup'
  BY <1>c, <1>7 DEF JoinResident, Notify
<1>8. ASSUME NEW p \in Pass, NEW c \in Chunk, UnpinBlock(p, c) PROVE NoLostWakeup'
  BY <1>c, <1>8 DEF UnpinBlock, Notify
<1>9. ASSUME NEW p \in Pass, NEW c \in Chunk, AdmitFresh(p, c) PROVE NoLostWakeup'
  <2> DEFINE V == Victims(Weight[{c}])
  <2>1. V \in SUBSET Chunk
    BY VictimsAreFree
  <2>2. /\ slot' = [Emptied(V) EXCEPT ![c] = Fresh]
        /\ refs' = [refs EXCEPT ![c] = @ \cup {p}]
        /\ UNCHANGED <<poolError, waiting, asleep>>
    BY <1>9 DEF AdmitFresh, Pin, producers
  <2> HIDE DEF V
  <2>3. \A d \in Chunk : \/ d = c /\ slot'[d].state = "filling" /\ slot'[d].error = FALSE
                         \/ d # c /\ slot'[d] \in {Absent, slot[d]}
    BY <1>a, <2>1, <2>2, SlotAdmitted
  <2>4. Absent.state = "absent"
    BY DEF Absent
  <2>5. \A d \in Chunk \ {c} : refs'[d] = refs[d]
    BY <2>2 DEF TypeOK
  <2>6. Silent
    BY <2>2, <2>3, <2>4, <2>5 DEF Silent
  <2> QED
    BY <1>d, <2>2, <2>6
<1>10. ASSUME NEW p \in Pass, NEW c \in Chunk, AdmitFull(p, c) PROVE NoLostWakeup'
  <2> DEFINE V == Victims(Weight[{c}])
  <2>1. V \in SUBSET Chunk
    BY VictimsAreFree
  <2>2. slot' = Emptied(V) /\ UNCHANGED <<refs, poolError, waiting, asleep>>
    BY <1>10 DEF AdmitFull, producers
  <2> HIDE DEF V
  <2>3. \A d \in Chunk : slot'[d] \in {Absent, slot[d]}
    BY <1>a, <2>1, <2>2, SlotsDropped
  <2>4. Absent.state = "absent"
    BY DEF Absent
  <2>5. Silent
    BY <2>2, <2>3, <2>4 DEF Silent
  <2> QED
    BY <1>d, <2>2, <2>5
<1>11. ASSUME NEW p \in Pass, NEW c \in Chunk, WaitReady(p, c) PROVE NoLostWakeup'
  <2>1. UNCHANGED <<slot, refs, poolError>>
    BY <1>11 DEF WaitReady, table
  <2>2. CASE WaitSatisfied(p, c)
    BY <1>h, <1>11, <2>1, <2>2 DEF WaitReady
  <2>3. CASE ~WaitSatisfied(p, c)
    BY <1>a, <1>h, <1>11, <2>1, <2>3 DEF WaitReady
  <2> QED
    BY <2>2, <2>3
<1>12. ASSUME NEW j \in Job, CancelQueued(j) PROVE NoLostWakeup'
  BY <1>d, <1>f, <1>12 DEF CancelQueued, table, producers
<1>13. ASSUME NEW j \in Job, CancelRunning(j) PROVE NoLostWakeup'
  BY <1>d, <1>f, <1>13 DEF CancelRunning, table, producers
<1>14. ASSUME NEW j \in Job, HandToThread(j) PROVE NoLostWakeup'
  BY <1>d, <1>f, <1>14 DEF HandToThread, table, producers
<1>15. ASSUME NEW j \in Job, DeliverToNothing(j) PROVE NoLostWakeup'
  BY <1>d, <1>f, <1>15 DEF DeliverToNothing, table, producers
<1>16. ASSUME NEW j \in Job, AdvanceReturns(j) PROVE NoLostWakeup'
  BY <1>c, <1>d, <1>f, <1>16 DEF AdvanceReturns, Notify, table, producers
<1>17. ASSUME NEW j \in Job, TileWrite(j) PROVE NoLostWakeup'
  BY <1>a, <1>d, <1>e, <1>17, TileStepsKeepStates DEF TileWrite, producers
<1>18. ASSUME NEW j \in Job, Deliver(j) PROVE NoLostWakeup'
  BY <1>a, <1>d, <1>e, <1>18, TileStepsKeepStates DEF Deliver, producers
<1>19. ASSUME NEW j \in Job, Release(j) PROVE NoLostWakeup'
  BY <1>a, <1>d, <1>e, <1>19, TileStepsKeepStates DEF Release, producers
<1>20. ASSUME NEW j \in Job, LateDeliver(j) PROVE NoLostWakeup'
  BY <1>a, <1>d, <1>e, <1>20, TileStepsKeepStates DEF LateDeliver, producers
<1>21. ASSUME NEW j \in Job, FetchFails(j) PROVE NoLostWakeup'
  BY <1>b, <1>g, <1>21 DEF FetchFails, producers
<1>22. ASSUME NEW j \in Job, TransformFails(j) PROVE NoLostWakeup'
  BY <1>b, <1>d, <1>f, <1>g, <1>22 DEF TransformFails, producers
<1>23. ASSUME NEW j \in Job, AdvanceAssembles(j) PROVE NoLostWakeup'
  <2>1. /\ SetSlot(j[2], [slot[j[2]] EXCEPT !.state = "assembled"])
        /\ slot[j[2]].state = "filling"
        /\ UNCHANGED <<refs, poolError, waiting, asleep>>
    BY <1>23 DEF AdvanceAssembles, CanAssemble, producers
  <2>2. /\ slot'[j[2]].state = "assembled" /\ slot'[j[2]].error = slot[j[2]].error
        /\ \A d \in Chunk \ {j[2]} : slot'[d] = slot[d]
    BY <1>a, <1>b, <2>1, OneSlotRestated DEF SlotState
  <2>3. Silent
    BY <2>1, <2>2 DEF Silent
  <2> QED
    BY <1>d, <2>1, <2>3
<1>24. ASSUME NEW j \in Job, Publish(j) PROVE NoLostWakeup'
  BY <1>c, <1>24 DEF Publish, Notify
<1>25. ASSUME UNCHANGED vars PROVE NoLostWakeup'
  BY <1>d, <1>f, <1>25 DEF vars, table, producers
<1> QED
  BY <1>1, <1>2, <1>3, <1>4, <1>5, <1>6, <1>7, <1>8, <1>9, <1>10, <1>11, <1>12, <1>13,
     <1>14, <1>15, <1>16, <1>17, <1>18, <1>19, <1>20, <1>21, <1>22, <1>23, <1>24, <1>25, NextCases

-----------------------------------------------------------------------------
(* The invariant, and what follows from it.                                *)

(* Inductive: the budget, the references and what is published lean on the *)
(* publisher, whose READY must fall on a slot that is still in the table.  *)
PoolInv ==
  /\ TypeOK
  /\ WithinBudget
  /\ HeldIsResident
  /\ ReferenceIsClaimed
  /\ SolePublisher
  /\ UsedIsPublished
  /\ NoLostWakeup

LEMMA PoolInvInit == Init => PoolInv
<1> SUFFICES ASSUME Init PROVE PoolInv
  OBVIOUS
<1>1. TypeOK
  BY TypeOKInit
<1>2. WithinBudget
  <2>1. Resident = {}
    BY DEF Init, Resident, Present, Absent
  <2> QED
    BY <2>1, NoWeight, PoolAssumption DEF Init, WithinBudget
<1>3. HeldIsResident /\ ReferenceIsClaimed /\ UsedIsPublished /\ NoLostWakeup
  BY DEF Init, HeldIsResident, ReferenceIsClaimed, UsedIsPublished, NoLostWakeup
<1>4. SolePublisher
  BY DEF Init, SolePublisher
<1> QED
  BY <1>1, <1>2, <1>3, <1>4 DEF PoolInv

LEMMA PoolInvStep == PoolInv /\ [Next]_vars => PoolInv'
<1> SUFFICES ASSUME PoolInv, [Next]_vars PROVE PoolInv'
  OBVIOUS
<1> USE DEF PoolInv
<1>1. TableEffect /\ UsingEffect
  BY EveryStepHasAnEffect, EveryStepHasAUsingEffect
<1>2. TypeOK'
  BY TypeOKStep
<1>3. WithinBudget' /\ HeldIsResident' /\ UsedIsPublished'
  BY <1>1, WithinBudgetStep, HeldIsResidentStep, UsedIsPublishedStep
<1>4. ReferenceIsClaimed' /\ SolePublisher' /\ NoLostWakeup'
  BY ReferenceIsClaimedStep, SolePublisherStep, NoLostWakeupStep
<1> QED
  BY <1>2, <1>3, <1>4

(* In every reachable state of the pool, whoever shares it.                *)
THEOREM PoolInvariant == Spec => []PoolInv
BY PoolInvInit, PoolInvStep, PTL DEF Spec

(* Every variable keeps the type of the field of the code it stands for.   *)
THEOREM TypeCorrect == Spec => []TypeOK
<1>1. PoolInv => TypeOK
  BY DEF PoolInv
<1> QED
  BY <1>1, PoolInvariant, PTL

(* The pool is charged exactly what is resident, and never more than its   *)
(* budget (pool.py, try_admit, _make_room, release_owner).                 *)
THEOREM BudgetKept == Spec => []WithinBudget
<1>1. PoolInv => WithinBudget
  BY DEF PoolInv
<1> QED
  BY <1>1, PoolInvariant, PTL

(* No eviction and no teardown takes a chunk that some pass references     *)
(* (pool.py, _evictable, release_owner).                                   *)
THEOREM ReferencesKeepChunks == Spec => []HeldIsResident
<1>1. PoolInv => HeldIsResident
  BY DEF PoolInv
<1> QED
  BY <1>1, PoolInvariant, PTL

(* Between wait_ready and unpin_block the chunk a producer gathers from is *)
(* in the table and published (pool.py, wait_ready, gather).               *)
THEOREM GatherFindsItsChunks == Spec => []UsedIsPublished
<1>1. PoolInv => UsedIsPublished
  BY DEF PoolInv
<1> QED
  BY <1>1, PoolInvariant, PTL

(* No step satisfies a wait without notifying it (pool.py, wait_ready).    *)
THEOREM WakeupsArriveInTime == Spec => []NoLostWakeup
<1>1. PoolInv => NoLostWakeup
  BY DEF PoolInv
<1> QED
  BY <1>1, PoolInvariant, PTL

(* A slot is published by one task only, and is still there when it is     *)
(* (pool.py, _advance).                                                    *)
THEOREM PublishersAreAlone == Spec => []SolePublisher
<1>1. PoolInv => SolePublisher
  BY DEF PoolInv
<1> QED
  BY <1>1, PoolInvariant, PTL

-----------------------------------------------------------------------------
(* Refinement.                                                             *)

LEMMA CacheInit == Init => Cache!Init
BY DEF Init, Cache!Init, Resident, Settled, Held, Present, Absent

(* What eviction may take, in the terms of PinnedCache.                    *)
LEMMA EvictableIsSettledAndUnheld ==
  EvictableSet \subseteq Settled \cap Cache!Unheld
BY DEF EvictableSet, Evictable, Settled, Held, Cache!Unheld

(* A step that keeps the state of every slot keeps both sets.              *)
LEMMA SameStatesSameSets ==
  ASSUME \A d \in Chunk : slot'[d].state = slot[d].state
  PROVE  Resident' = Resident /\ Settled' = Settled
BY DEF Resident, Present, Settled

LEMMA HeldAfter ==
  ASSUME TypeOK, NEW p \in Pass, NEW c \in Chunk
  PROVE  /\ refs' = [refs EXCEPT ![c] = @ \cup {p}] =>
              Held' = [Held EXCEPT ![p] = @ \cup {c}]
         /\ refs' = [refs EXCEPT ![c] = @ \ {p}] =>
              Held' = [Held EXCEPT ![p] = @ \ {c}]
<1>a. refs \in [Chunk -> SUBSET Pass] /\ Held \in [Pass -> SUBSET Chunk]
  BY DEF TypeOK, Held
<1>b. ASSUME NEW S \in SUBSET Chunk, \A d \in Chunk : p \in refs'[d] <=> d \in S,
             \A d \in Chunk : \A q \in Pass \ {p} : q \in refs'[d] <=> q \in refs[d]
      PROVE  Held' = [Held EXCEPT ![p] = S]
  <2>1. \A q \in Pass : Held'[q] = IF q = p THEN S ELSE Held[q]
    BY <1>b DEF Held
  <2>2. Held' = [q \in Pass |-> Held'[q]]
    BY DEF Held
  <2>3. [Held EXCEPT ![p] = S] = [q \in Pass |-> IF q = p THEN S ELSE Held[q]]
    BY <1>a
  <2> QED
    BY <2>1, <2>2, <2>3
<1>1. ASSUME refs' = [refs EXCEPT ![c] = @ \cup {p}]
      PROVE  Held' = [Held EXCEPT ![p] = @ \cup {c}]
  <2>1. Held[p] \cup {c} \in SUBSET Chunk
    BY <1>a
  <2>2. \A d \in Chunk : p \in refs'[d] <=> d \in Held[p] \cup {c}
    BY <1>1, <1>a DEF Held
  <2>3. \A d \in Chunk : \A q \in Pass \ {p} : q \in refs'[d] <=> q \in refs[d]
    BY <1>1, <1>a
  <2> QED
    BY <1>b, <2>1, <2>2, <2>3
<1>2. ASSUME refs' = [refs EXCEPT ![c] = @ \ {p}]
      PROVE  Held' = [Held EXCEPT ![p] = @ \ {c}]
  <2>1. Held[p] \ {c} \in SUBSET Chunk
    BY <1>a
  <2>2. \A d \in Chunk : p \in refs'[d] <=> d \in Held[p] \ {c}
    BY <1>2, <1>a DEF Held
  <2>3. \A d \in Chunk : \A q \in Pass \ {p} : q \in refs'[d] <=> q \in refs[d]
    BY <1>2, <1>a
  <2> QED
    BY <1>b, <2>1, <2>2, <2>3
<1> QED
  BY <1>1, <1>2

LEMMA CacheStep == PoolInv /\ PoolInv' /\ [Next]_vars => [Cache!Next]_Cache!vars
<1> SUFFICES ASSUME PoolInv, PoolInv', [Next]_vars PROVE [Cache!Next]_Cache!vars
  OBVIOUS
<1>a. /\ TypeOK /\ SlotsTyped /\ TableEffect
      /\ WithinBudget' /\ ReferenceIsClaimed /\ UsedIsPublished
  BY EveryStepHasAnEffect DEF PoolInv, TypeOK, SlotsTyped
<1>b. Weight[Resident'] <= Budget
  BY <1>a DEF WithinBudget
<1>c. ASSUME NEW p \in Pass, NEW c \in Chunk
      PROVE  c \in Held[p] <=> p \in refs[c]
  BY DEF Held
<1>1. CASE StatesKept
  BY <1>1, <1>a, SameStatesSameSets DEF StatesKept, SameStates, Held, Cache!vars
<1>2. ASSUME NEW p \in Pass, NEW c \in Chunk, Taken(p, c) PROVE Cache!Next
  <2>1. c \in Resident /\ c \notin Held[p]
    BY <1>2, <1>a, <1>c DEF Taken, Resident, ReferenceIsClaimed
  <2>2. /\ Resident' = Resident /\ Settled' = Settled
        /\ Held' = [Held EXCEPT ![p] = @ \cup {c}]
    BY <1>2, <1>a, SameStatesSameSets, HeldAfter DEF Taken
  <2>3. /\ {} \in SUBSET (Settled \cap Cache!Unheld)
        /\ c \notin {}
        /\ Resident' = (Resident \ {}) \cup {c}
        /\ Settled' = Settled \ {}
    BY <2>1, <2>2
  <2>4. Cache!Take(p, c)
    BY <1>b, <2>1, <2>2, <2>3 DEF Cache!Take
  <2> QED
    BY <2>4 DEF Cache!Next
<1>3. ASSUME NEW p \in Pass, NEW c \in Chunk, LetGo(p, c) PROVE Cache!Next
  <2>1. c \in Held[p]
    BY <1>3, <1>a, <1>c DEF LetGo, UsedIsPublished
  <2>2. /\ Resident' = Resident /\ Settled' = Settled
        /\ Held' = [Held EXCEPT ![p] = @ \ {c}]
    BY <1>3, <1>a, SameStatesSameSets, HeldAfter DEF LetGo
  <2>3. Cache!LetGo(p, c)
    BY <2>1, <2>2 DEF Cache!LetGo
  <2> QED
    BY <2>3 DEF Cache!Next
<1>4. ASSUME NEW c \in Chunk, Settles(c) PROVE Cache!Next
  <2>1. c \in Resident /\ Resident' = Resident /\ Settled' = Settled \cup {c}
    BY <1>4 DEF Settles, Restated, Resident, Present, Settled
  <2>2. Held' = Held
    BY <1>4 DEF Settles, Restated, Held
  <2>3. Cache!Settle(c)
    BY <2>1, <2>2 DEF Cache!Settle
  <2> QED
    BY <2>3 DEF Cache!Next
<1>5. ASSUME NEW c \in Chunk, Assembled(c) PROVE UNCHANGED Cache!vars
  BY <1>5 DEF Assembled, Restated, Resident, Present, Settled, Held, Cache!vars
<1>6. ASSUME NEW V \in SUBSET Chunk, Evicted(V) PROVE Cache!Next
  <2>1. /\ Resident' = Resident \ V
        /\ \A d \in V : slot'[d] = Absent
        /\ \A d \in Chunk \ V : slot'[d] = slot[d]
    BY <1>6, <1>a, SlotsDropped DEF Evicted
  <2>2. Settled' = Settled \ V
    BY <2>1 DEF Settled, Absent
  <2>3. Held' = Held
    BY <1>6 DEF Evicted, Held
  <2>4. Cache!MakeRoom
    BY <1>6, <2>1, <2>2, <2>3, EvictableIsSettledAndUnheld DEF Evicted, Cache!MakeRoom
  <2> QED
    BY <2>4 DEF Cache!Next
<1>7. ASSUME NEW p \in Pass, NEW c \in Chunk, NEW V \in SUBSET Chunk, Admitted(p, c, V)
      PROVE  Cache!Next
  <2>1. /\ Resident' = (Resident \ V) \cup {c}
        /\ slot'[c].state = "filling"
        /\ \A d \in V \ {c} : slot'[d] = Absent
        /\ \A d \in Chunk \ (V \cup {c}) : slot'[d] = slot[d]
    BY <1>7, <1>a, SlotAdmitted DEF Admitted
  <2>2. c \notin Settled /\ c \notin V /\ c \notin Held[p]
    BY <1>7, <1>a, <1>c
       DEF Admitted, EvictableSet, Evictable, Resident, Present, Settled, ReferenceIsClaimed
  <2>3. Settled' = Settled \ V
    BY <2>1, <2>2 DEF Settled, Absent
  <2>4. Held' = [Held EXCEPT ![p] = @ \cup {c}]
    BY <1>7, <1>a, HeldAfter DEF Admitted
  <2>5. Cache!Take(p, c)
    BY <1>7, <1>b, <2>1, <2>2, <2>3, <2>4, EvictableIsSettledAndUnheld
       DEF Admitted, Cache!Take
  <2> QED
    BY <2>5 DEF Cache!Next
<1>8. ASSUME NEW p \in Pass, NEW V \in SUBSET Chunk, Ended(p, V) PROVE Cache!Next
  <2>1. /\ Resident' = Resident \ V
        /\ \A d \in V : slot'[d] = Absent
        /\ \A d \in Chunk \ V : slot'[d] = slot[d]
    BY <1>8, <1>a, SlotsDropped DEF Ended
  <2>2. Settled' = Settled \ V
    BY <2>1 DEF Settled, Absent
  <2>3. V \cap Cache!HeldByOthers(p) = {}
    BY <1>8, <1>c DEF Ended, Cache!HeldByOthers
  <2>4. Held' = [Held EXCEPT ![p] = {}]
    BY <1>8 DEF Ended, Held
  <2>5. Cache!EndPass(p)
    BY <1>8, <2>1, <2>2, <2>3, <2>4 DEF Ended, Cache!EndPass
  <2> QED
    BY <2>5 DEF Cache!Next
<1> QED
  BY <1>a, <1>1, <1>2, <1>3, <1>4, <1>5, <1>6, <1>7, <1>8 DEF TableEffect

(* The pool is a PinnedCache, whatever its passes, tasks and threads do.   *)
THEOREM PoolIsAPinnedCache == Spec => ImplementsPinnedCache
<1>1. Init => Cache!Init
  BY CacheInit
<1>2. PoolInv /\ PoolInv' /\ [Next]_vars => [Cache!Next]_Cache!vars
  BY CacheStep
<1> QED
  BY <1>1, <1>2, PoolInvariant, PTL DEF Spec, Cache!Spec, ImplementsPinnedCache

-----------------------------------------------------------------------------
(***************************************************************************)
(* What the pool guarantees further when its passes run one at a time: the *)
(* slot counts tell the truth, a published chunk is complete and stays as  *)
(* it is, and a pass leaves nothing behind.                                *)
(***************************************************************************)
(***************************************************************************)
(* The memory budget that BudgetHolds checks leaves no room for a second   *)
(* pass, and a chunk is published as it is read, on the event loop.        *)
(***************************************************************************)
AloneOnTheLoop == IterationBytes # 0 /\ 2 * IterationBytes > Budget /\ ~Assembles

-----------------------------------------------------------------------------
(* The inductive invariant.                                                *)

WritersOf(c) == {j \in Job : j[2] = c /\ task[j] \in {"running", "landed"}}

(* No delivery leaves the loop, and what follows one holds it.             *)
Serial ==
  /\ late = {}
  /\ \A j \in Job :
       /\ task[j] \notin {"delivering", "orphan"}
       /\ task[j] \in {"landed", "released", "publishing"} => loop = {j}

Alone == \A p, q \in Live : p = q

(* The tasks that are there belong to the pass that runs, which claimed    *)
(* their chunk.                                                            *)
TasksAreOwned ==
  \A j \in Job : task[j] # "none" => status[j[1]] # "idle" /\ j[2] \in claimed[j[1]]

IdleHoldsNothing == \A p \in Pass : status[p] = "idle" => claimed[p] = {} /\ parked[p] = {}

ParkedIsAbsent == \A p \in Pass : \A c \in parked[p] : ~Present(c)

(* A slot that is not published yet is claimed by a pass that runs: no     *)
(* driver ever finds one to join.                                          *)
UnfinishedIsClaimed ==
  \A c \in Chunk :
    Present(c) /\ slot[c].state # "ready" => \E p \in Live : c \in claimed[p]

(* A producer that waits has not closed its pass.                          *)
WaiterRuns == \A p \in Pass : waiting[p] # {} => ProducerRuns(p)

(* The counts of a slot are those of the tiles and of the tasks.           *)
CountedAt(c) ==
  Present(c) =>
    /\ slot[c].pending = Cardinality(Tile \ slot[c].tiles)
    /\ slot[c].writers = Cardinality(WritersOf(c))

(* A tile on its way has a slot to go to, and has not been there.          *)
UndeliveredAt(j) ==
  /\ task[j] \in {"queued", "running", "landed"} => Present(j[2])
  /\ task[j] \in {"queued", "running"} => j[3] \notin slot[j[2]].tiles

WholeAt(c) == slot[c].state \in {"assembled", "ready"} => slot[c].tiles = Tile

PublishingAt(j) == task[j] = "publishing" => slot[j[2]].state = "assembled"

AloneInv ==
  /\ PoolInv
  /\ Serial
  /\ Alone
  /\ TasksAreOwned
  /\ IdleHoldsNothing
  /\ ParkedIsAbsent
  /\ UnfinishedIsClaimed
  /\ WaiterRuns
  /\ \A c \in Chunk : CountedAt(c) /\ WholeAt(c)
  /\ \A j \in Job : UndeliveredAt(j) /\ PublishingAt(j)
-----------------------------------------------------------------------------
(* Slots and counts.                                                       *)

LEMMA EnteredFields ==
  ASSUME NEW s \in SlotRecord, NEW n \in Int
  PROVE  LET r == [s EXCEPT !.writers = n]
         IN  /\ r.state = s.state /\ r.tiles = s.tiles
             /\ r.pending = s.pending /\ r.writers = n
BY DEF SlotRecord

LEMMA LandedFields ==
  ASSUME NEW s \in SlotRecord, NEW t \in Tile
  PROVE  /\ Landed(s, t).state = s.state
         /\ Landed(s, t).tiles = s.tiles \cup {t}
         /\ Landed(s, t).pending = s.pending - 1
         /\ Landed(s, t).writers = s.writers
BY DEF SlotRecord, Landed

LEMMA RestatedFields ==
  ASSUME NEW s \in SlotRecord, NEW x
  PROVE  LET r == [s EXCEPT !.state = x]
         IN  /\ r.state = x /\ r.tiles = s.tiles
             /\ r.pending = s.pending /\ r.writers = s.writers
BY DEF SlotRecord

LEMMA PoisonedFields ==
  ASSUME NEW s \in SlotRecord
  PROVE  LET r == [s EXCEPT !.state = "failed", !.error = TRUE]
         IN  /\ r.state = "failed" /\ r.tiles = s.tiles
             /\ r.pending = s.pending /\ r.writers = s.writers
BY DEF SlotRecord

(* One tile fewer is missing once a missing one has landed.                *)
LEMMA MissingTiles ==
  ASSUME NEW T \in SUBSET Tile
  PROVE  /\ Cardinality(Tile \ T) \in Nat
         /\ Cardinality(Tile \ T) <= 0 => T = Tile
         /\ \A t \in Tile \ T :
              Cardinality(Tile \ (T \cup {t})) = Cardinality(Tile \ T) - 1
<1> DEFINE M == Tile \ T
<1>1. IsFiniteSet(M)
  BY PoolAssumption, FS_Difference
<1>2. Cardinality(M) \in Nat
  BY <1>1, FS_CardinalityType
<1>3. ASSUME Cardinality(M) <= 0 PROVE T = Tile
  <2>1. Cardinality(M) = 0
    BY <1>2, <1>3
  <2>2. M = {}
    BY <1>1, <2>1, FS_EmptySet
  <2> QED
    BY <2>2
<1>4. ASSUME NEW t \in M
      PROVE  Cardinality(Tile \ (T \cup {t})) = Cardinality(M) - 1
  <2>1. Tile \ (T \cup {t}) = M \ {t}
    OBVIOUS
  <2>2. Cardinality(M \ {t}) = Cardinality(M) - 1
    BY <1>1, <1>4, FS_RemoveElement
  <2> QED
    BY <2>1, <2>2
<1> QED
  BY <1>2, <1>3, <1>4

(* A chunk has finitely many writers.                                      *)
LEMMA WritersAreFinite ==
  ASSUME NEW c \in Chunk, NEW W \in SUBSET {j \in Job : j[2] = c}
  PROVE  IsFiniteSet(W) /\ Cardinality(W) \in Nat
<1> DEFINE f == [j \in W |-> <<j[1], j[3]>>]
<1>1. IsFiniteSet(Pass \X Tile)
  BY PoolAssumption, FS_Product
<1>2. \A j \in W : f[j] \in Pass \X Tile
  BY JobParts
<1>3. \A j, k \in W : f[j] = f[k] => j = k
  BY DEF Job
<1>4. f \in Injection(W, Pass \X Tile)
  BY <1>2, <1>3 DEF Injection, IsInjective
<1>5. IsFiniteSet(W)
  BY <1>1, <1>4, FS_Injection
<1> QED
  BY <1>5, FS_CardinalityType

LEMMA WriterComes ==
  ASSUME NEW c \in Chunk, NEW j \in Job \ WritersOf(c), j[2] = c
  PROVE  Cardinality(WritersOf(c) \cup {j}) = Cardinality(WritersOf(c)) + 1
BY WritersAreFinite, FS_AddElement DEF WritersOf

LEMMA WriterGoes ==
  ASSUME NEW c \in Chunk, NEW j \in WritersOf(c)
  PROVE  Cardinality(WritersOf(c) \ {j}) = Cardinality(WritersOf(c)) - 1
BY WritersAreFinite, FS_RemoveElement DEF WritersOf

LEMMA NoWriterNoCount ==
  ASSUME NEW c \in Chunk, CountedAt(c), Quiescent(c), NEW j \in Job, j[2] = c
  PROVE  task[j] \notin {"running", "landed"}
<1>1. IsFiniteSet(WritersOf(c)) /\ Cardinality(WritersOf(c)) = 0
  BY WritersAreFinite DEF CountedAt, Quiescent, WritersOf
<1>2. WritersOf(c) = {}
  BY <1>1, FS_EmptySet
<1> QED
  BY <1>2 DEF WritersOf

-----------------------------------------------------------------------------
(* The initial state, and the steps that touch neither a slot nor a task.  *)

LEMMA AloneInit == Init => AloneInv
<1> SUFFICES ASSUME Init PROVE AloneInv
  OBVIOUS
<1>1. PoolInv
  BY PoolInvInit
<1>2. /\ late = {}
      /\ \A j \in Job : task[j] = "none"
      /\ \A p \in Pass : status[p] = "idle" /\ claimed[p] = {} /\ parked[p] = {}
      /\ \A p \in Pass : waiting[p] = {}
      /\ \A c \in Chunk : slot[c] = Absent
  BY JobParts DEF Init
<1>3. Absent.state = "absent"
  BY DEF Absent
<1> QED
  BY <1>1, <1>2, <1>3
     DEF AloneInv, Serial, Alone, Live, TasksAreOwned, IdleHoldsNothing, ParkedIsAbsent,
         UnfinishedIsClaimed, WaiterRuns, CountedAt, WholeAt, UndeliveredAt, PublishingAt, Present

(* A pass starts only when no other one runs.                              *)
LEMMA StartsAlone ==
  ASSUME AloneOnTheLoop, NEW p \in Pass, NewOwner(p)
  PROVE  Live = {}
<1> SUFFICES ASSUME Live # {} PROVE FALSE
  OBVIOUS
<1>1. IsFiniteSet(Live)
  BY PoolAssumption, FS_Subset DEF Live
<1>2. Cardinality(Live) \in Nat /\ Cardinality(Live) # 0
  BY <1>1, FS_CardinalityType, FS_EmptySet
<1> DEFINE n == Cardinality(Live) + 1
<1>3. n \in Nat /\ n >= 2
  BY <1>2
<1>4. n * IterationBytes >= 2 * IterationBytes
  <2>1. \A m, b \in Nat : m >= 2 => m * b >= 2 * b
    OBVIOUS
  <2> HIDE DEF n
  <2> QED
    BY <1>3, <2>1, PoolAssumption
<1>5. n * IterationBytes <= Budget
  BY <1>3 DEF NewOwner, BudgetHolds, AloneOnTheLoop
<1> HIDE DEF n
<1>6. n * IterationBytes \in Nat /\ 2 * IterationBytes \in Nat /\ Budget \in Nat
  <2>1. \A m, b \in Nat : m * b \in Nat
    OBVIOUS
  <2> QED
    BY <1>3, <2>1, PoolAssumption
<1> QED
  BY <1>4, <1>5, <1>6 DEF AloneOnTheLoop

TilesUntouched == UNCHANGED <<slot, task, late, loop>>

LEMMA UntouchedTiles ==
  ASSUME AloneInv, TilesUntouched
  PROVE  /\ Serial'
         /\ \A c \in Chunk : (CountedAt(c) /\ WholeAt(c))'
         /\ \A j \in Job : (UndeliveredAt(j) /\ PublishingAt(j))'
         /\ \A c \in Chunk : Present(c)' <=> Present(c)
BY DEF AloneInv, TilesUntouched, Serial, CountedAt, WholeAt, UndeliveredAt, PublishingAt,
       Present, WritersOf

LEMMA OwnerStep ==
  ASSUME AloneOnTheLoop, AloneInv, PoolInv', NEW p \in Pass, NewOwner(p)
  PROVE  AloneInv'
<1>1. Live = {}
  BY StartsAlone
<1>2. /\ TilesUntouched /\ UNCHANGED <<claimed, parked>>
      /\ status' = [status EXCEPT ![p] = "live"]
      /\ status \in [Pass -> Status]
  BY DEF NewOwner, TilesUntouched, table, tasks, AloneInv, PoolInv, TypeOK
<1>3. Live' = {p}
  BY <1>1, <1>2 DEF Live, Status
<1>4. /\ Alone' /\ TasksAreOwned' /\ IdleHoldsNothing' /\ UnfinishedIsClaimed'
  BY <1>1, <1>2, <1>3, JobParts
     DEF Alone, TasksAreOwned, IdleHoldsNothing, UnfinishedIsClaimed, AloneInv,
         TilesUntouched, Live, Present
<1>5. ParkedIsAbsent /\ parked \in [Pass -> SUBSET Chunk]
  BY DEF AloneInv, PoolInv, TypeOK
<1>6. ParkedIsAbsent'
  BY <1>2, <1>5, UntouchedTiles DEF ParkedIsAbsent
<1>7. WaiterRuns'
  BY <1>2 DEF WaiterRuns, ProducerRuns, AloneInv, NewOwner, producers
<1> QED
  BY <1>2, <1>4, <1>6, <1>7, UntouchedTiles DEF AloneInv

(* The steps of a running pass that leave slots and tiles alone, keep it   *)
(* running, and let it claim more.                                         *)
StaysInPlace ==
  /\ TilesUntouched
  /\ status' \in [Pass -> Status]
  /\ \A p \in Pass : status'[p] = "idle" <=> status[p] = "idle"
  /\ \A p \in Pass : parked'[p] \subseteq parked[p] /\ claimed[p] \subseteq claimed'[p]
  /\ \A p \in Pass : status[p] = "idle" => claimed'[p] = claimed[p]
  /\ \A p \in Pass : waiting'[p] # {} => ProducerRuns(p)'

LEMMA StayingInPlace ==
  ASSUME AloneInv, PoolInv', StaysInPlace
  PROVE  AloneInv'
<1>1. TilesUntouched /\ Live' = Live
  BY DEF StaysInPlace, Live
<1>2. Alone'
  BY <1>1 DEF Alone, AloneInv
<1>3. TasksAreOwned'
  BY <1>1, JobParts DEF TasksAreOwned, AloneInv, StaysInPlace, TilesUntouched
<1>4. IdleHoldsNothing'
  <2>1. \A p \in Pass : status[p] = "idle" => claimed[p] = {} /\ parked[p] = {}
    BY DEF IdleHoldsNothing, AloneInv
  <2>2. \A p \in Pass : status'[p] = "idle" => claimed'[p] = {} /\ parked'[p] \subseteq {}
    BY <2>1 DEF StaysInPlace
  <2> QED
    BY <2>2 DEF IdleHoldsNothing
<1>5. ParkedIsAbsent'
  <2>1. ParkedIsAbsent /\ parked \in [Pass -> SUBSET Chunk]
    BY DEF AloneInv, PoolInv, TypeOK
  <2> QED
    BY <1>1, <2>1, UntouchedTiles DEF ParkedIsAbsent, StaysInPlace
<1>6. UnfinishedIsClaimed'
  BY <1>1 DEF UnfinishedIsClaimed, AloneInv, StaysInPlace, TilesUntouched, Present, Live
<1>7. WaiterRuns'
  BY DEF WaiterRuns, StaysInPlace
<1> QED
  BY <1>1, <1>2, <1>3, <1>4, <1>5, <1>6, <1>7, UntouchedTiles DEF AloneInv

LEMMA PassStepsStayInPlace ==
  ASSUME TypeOK, WaiterRuns, NEW p \in Pass,
         \/ Starve(p) \/ Wake(p) \/ Close(p)
         \/ \E c \in Chunk : PinIfReady(p, c) \/ WaitReady(p, c) \/ UnpinBlock(p, c)
  PROVE  StaysInPlace
<1>1. /\ status \in [Pass -> Status] /\ status[p] \in Status
      /\ claimed \in [Pass -> SUBSET Chunk] /\ parked \in [Pass -> SUBSET Chunk]
      /\ waiting \in [Pass -> SUBSET Chunk]
  BY DEF TypeOK
<1>2. \A q \in Pass : waiting[q] # {} => ProducerRuns(q)
  BY DEF WaiterRuns
<1> USE DEF StaysInPlace, TilesUntouched, ProducerRuns, table, passes, tasks, producers
<1>3. CASE Starve(p)
  BY <1>1, <1>2, <1>3 DEF Starve, Status
<1>4. ASSUME NEW c \in Chunk, WaitReturns(p, c), ProducerRuns(p)
      PROVE  /\ status' \in [Pass -> Status]
             /\ \A q \in Pass : status'[q] = "idle" <=> status[q] = "idle"
             /\ \A q \in Pass : waiting'[q] # {} => ProducerRuns(q)'
  BY <1>1, <1>2, <1>4 DEF WaitReturns, Status
<1>5. ASSUME NEW c \in Chunk, waiting' = [waiting EXCEPT ![p] = {c}], UNCHANGED status,
             ProducerRuns(p)
      PROVE  \A q \in Pass : waiting'[q] # {} => ProducerRuns(q)'
  BY <1>1, <1>2, <1>5
<1>6. CASE Close(p)
  BY <1>1, <1>2, <1>6 DEF Close, Status
<1>7. ASSUME NEW c \in Chunk, PinIfReady(p, c) PROVE StaysInPlace
  BY <1>1, <1>2, <1>7 DEF PinIfReady, Pin, DriverAt, Status
<1>8. ASSUME NEW c \in Chunk, WaitReady(p, c) PROVE StaysInPlace
  <2>1. CASE WaitReturns(p, c)
    BY <1>1, <1>4, <1>8, <2>1 DEF WaitReady
  <2>2. CASE waiting' = [waiting EXCEPT ![p] = {c}] /\ UNCHANGED status
    BY <1>1, <1>5, <1>8, <2>2 DEF WaitReady
  <2> QED
    BY <1>8, <2>1, <2>2 DEF WaitReady
<1>9. ASSUME NEW c \in Chunk, UnpinBlock(p, c) PROVE StaysInPlace
  BY <1>1, <1>2, <1>9 DEF UnpinBlock
<1>10. CASE Wake(p)
  <2>1. ProducerRuns(p)
    BY <1>2, <1>10 DEF Wake
  <2>2. ASSUME NEW c \in Chunk, WaitReturns(p, c) PROVE StaysInPlace
    BY <1>1, <1>4, <1>10, <2>1, <2>2 DEF Wake
  <2>3. CASE UNCHANGED <<status, waiting>>
    BY <1>1, <1>2, <1>10, <2>3 DEF Wake
  <2> QED
    BY <1>10, <2>2, <2>3 DEF Wake
<1> QED
  BY <1>3, <1>6, <1>7, <1>8, <1>9, <1>10

-----------------------------------------------------------------------------
(* The steps of one tile task.                                             *)

(* Two tasks of one chunk are for different tiles: there is one pass.      *)
LEMMA TasksOfAChunk ==
  ASSUME AloneInv, NEW j \in Job, NEW k \in Job,
         task[j] # "none", task[k] # "none", j[2] = k[2], j[3] = k[3]
  PROVE  j = k
<1>1. j[1] \in Live /\ k[1] \in Live
  BY JobParts DEF AloneInv, TasksAreOwned, Live
<1>2. j[1] = k[1]
  BY <1>1 DEF AloneInv, Alone
<1> QED
  BY <1>2 DEF Job

(* Task j goes on, and at most the slot of its chunk changes.              *)
OneTask(j, x) ==
  /\ task[j] # "none"
  /\ UNCHANGED <<passes, waiting, late>>
  /\ task' = [task EXCEPT ![j] = x]
  /\ \A d \in Chunk \ {j[2]} : slot'[d] = slot[d]
  /\ Present(j[2])' <=> Present(j[2])

ChunkHolds(c) ==
  /\ CountedAt(c) /\ WholeAt(c)
  /\ \A k \in Job : k[2] = c => UndeliveredAt(k) /\ PublishingAt(k)

LEMMA OneTaskFrame ==
  ASSUME AloneInv, NEW j \in Job, NEW x, OneTask(j, x), PoolInv', Serial',
         ChunkHolds(j[2])'
  PROVE  AloneInv'
<1> DEFINE c == j[2]
<1>a. /\ task \in [Job -> Phase] /\ c \in Chunk
      /\ \A k \in Job : k[1] \in Pass /\ k[2] \in Chunk
      /\ parked \in [Pass -> SUBSET Chunk]
  BY JobParts DEF AloneInv, PoolInv, TypeOK
<1>b. /\ \A k \in Job \ {j} : task'[k] = task[k]
      /\ \A d \in Chunk \ {c} : slot'[d] = slot[d]
      /\ \A d \in Chunk : Present(d)' <=> Present(d)
      /\ UNCHANGED <<status, claimed, parked, waiting, late>>
  BY <1>a DEF OneTask, Present, passes
<1>1. Alone' /\ IdleHoldsNothing' /\ WaiterRuns'
  BY <1>b DEF AloneInv, Alone, IdleHoldsNothing, WaiterRuns, Live, ProducerRuns
<1>2. TasksAreOwned'
  <2>1. \A k \in Job : task'[k] # "none" => task[k] # "none"
    BY <1>b DEF OneTask
  <2>2. TasksAreOwned
    BY DEF AloneInv
  <2> QED
    BY <1>b, <2>1, <2>2 DEF TasksAreOwned
<1>3. ParkedIsAbsent'
  <2>1. ParkedIsAbsent
    BY DEF AloneInv
  <2> QED
    BY <1>a, <1>b, <2>1 DEF ParkedIsAbsent
<1>4. UnfinishedIsClaimed'
  <2>1. j[1] \in Live /\ c \in claimed[j[1]] /\ Live' = Live
    BY <1>a, <1>b DEF AloneInv, TasksAreOwned, OneTask, Live
  <2>2. UnfinishedIsClaimed
    BY DEF AloneInv
  <2>3. ASSUME NEW d \in Chunk, Present(d)', slot'[d].state # "ready"
        PROVE  \E p \in Live : d \in claimed[p]
    <3>1. CASE d = c
      BY <2>1, <3>1
    <3>2. CASE d # c
      BY <1>b, <2>2, <2>3, <3>2 DEF UnfinishedIsClaimed
    <3> QED
      BY <3>1, <3>2
  <2> QED
    BY <1>b, <2>1, <2>3 DEF UnfinishedIsClaimed
<1>5. ASSUME NEW d \in Chunk PROVE (CountedAt(d) /\ WholeAt(d))'
  <2>1. CASE d # c
    <3>1. WritersOf(d)' = WritersOf(d)
      BY <1>b, <2>1 DEF WritersOf
    <3>2. CountedAt(d) /\ WholeAt(d)
      BY DEF AloneInv
    <3> QED
      BY <1>b, <2>1, <3>1, <3>2 DEF CountedAt, WholeAt
  <2> QED
    BY <2>1 DEF ChunkHolds
<1>6. ASSUME NEW k \in Job PROVE (UndeliveredAt(k) /\ PublishingAt(k))'
  <2>1. CASE k[2] # c
    <3>1. UndeliveredAt(k) /\ PublishingAt(k)
      BY DEF AloneInv
    <3> QED
      BY <1>a, <1>b, <2>1, <3>1 DEF UndeliveredAt, PublishingAt
  <2> QED
    BY <2>1 DEF ChunkHolds
<1> QED
  BY <1>1, <1>2, <1>3, <1>4, <1>5, <1>6 DEF AloneInv

(* While the loop is free no task is past its delivery; while one is, it   *)
(* is the only one.                                                        *)
LEMMA LoopExcludes ==
  ASSUME AloneInv
  PROVE  /\ LoopFree => \A k \in Job : task[k] \in {"none", "queued", "running"}
         /\ \A j \in Job : task[j] \in {"landed", "released", "publishing"} =>
              /\ loop = {j}
              /\ \A k \in Job \ {j} : task[k] \in {"none", "queued", "running"}
<1>1. \A k \in Job : task[k] \in Phase
  BY DEF AloneInv, PoolInv, TypeOK
<1> QED
  BY <1>1 DEF AloneInv, Serial, LoopFree, Phase

LEMMA WriterSteps ==
  ASSUME AloneInv, PoolInv', NEW j \in Job, TileWrite(j) \/ Release(j)
  PROVE  AloneInv'
<1> DEFINE c == j[2]
<1>a. /\ c \in Chunk /\ task \in [Job -> Phase] /\ late = {}
      /\ slot \in [Chunk -> SlotRecord] /\ slot[c] \in SlotRecord /\ slot[c].writers \in Int
  BY JobParts, SlotFields DEF AloneInv, PoolInv, TypeOK, Serial
<1>b. /\ CountedAt(c) /\ WholeAt(c)
      /\ \A k \in Job : UndeliveredAt(k) /\ PublishingAt(k)
  BY <1>a DEF AloneInv
<1> USE DEF GoTo, SetSlot, table, passes, tasks, producers
<1>1. ASSUME NEW n \in Int, NEW x, task[j] # "none", Present(c),
             slot' = [slot EXCEPT ![c] = [slot[c] EXCEPT !.writers = n]],
             task' = [task EXCEPT ![j] = x], UNCHANGED <<passes, waiting, late>>
      PROVE  /\ OneTask(j, x) /\ Present(c)'
             /\ slot'[c].state = slot[c].state /\ slot'[c].tiles = slot[c].tiles
             /\ slot'[c].pending = slot[c].pending /\ slot'[c].writers = n
             /\ task'[j] = x
  <2>1. /\ slot'[c] = [slot[c] EXCEPT !.writers = n]
        /\ \A d \in Chunk \ {c} : slot'[d] = slot[d]
        /\ task'[j] = x
    BY <1>a, <1>1
  <2>2. /\ slot'[c].state = slot[c].state /\ slot'[c].tiles = slot[c].tiles
        /\ slot'[c].pending = slot[c].pending /\ slot'[c].writers = n
    BY <1>a, <2>1, EnteredFields
  <2> QED
    BY <1>1, <2>1, <2>2 DEF OneTask, Present
<1>2. CASE TileWrite(j)
  <2>1. /\ task[j] = "queued" /\ LoopFree /\ UNCHANGED <<passes, waiting, late, loop>>
        /\ task' = [task EXCEPT ![j] = "running"]
    BY <1>2 DEF TileWrite, OnLoop
  <2>2. Present(c) /\ slot[c].writers + 1 \in Int
    BY <1>a, <1>b, <2>1 DEF UndeliveredAt
  <2>3. slot' = [slot EXCEPT ![c] = [slot[c] EXCEPT !.writers = slot[c].writers + 1]]
    BY <1>2, <2>2 DEF TileWrite, Entered
  <2>4. /\ OneTask(j, "running") /\ Present(c)'
        /\ slot'[c].state = slot[c].state /\ slot'[c].tiles = slot[c].tiles
        /\ slot'[c].pending = slot[c].pending /\ slot'[c].writers = slot[c].writers + 1
        /\ task'[j] = "running"
    BY <1>1, <2>1, <2>2, <2>3
  <2>5. \A k \in Job : task[k] \in {"none", "queued", "running"}
    BY <2>1, LoopExcludes
  <2>6. \A k \in Job : task'[k] = (IF k = j THEN "running" ELSE task[k])
    BY <1>a, <2>1
  <2>7. Serial'
    BY <1>a, <2>1, <2>5, <2>6 DEF Serial
  <2>8. WritersOf(c)' = WritersOf(c) \cup {j} /\ j \notin WritersOf(c)
    BY <2>1, <2>5, <2>6 DEF WritersOf
  <2>9. CountedAt(c)'
    BY <1>a, <1>b, <2>2, <2>4, <2>8, WriterComes DEF CountedAt
  <2>10. WholeAt(c)'
    BY <1>b, <2>4 DEF WholeAt
  <2>11. \A k \in Job : k[2] = c => (UndeliveredAt(k) /\ PublishingAt(k))'
    BY <1>b, <2>1, <2>4, <2>5, <2>6 DEF UndeliveredAt, PublishingAt
  <2> QED
    BY <2>4, <2>7, <2>9, <2>10, <2>11, OneTaskFrame DEF ChunkHolds
<1>3. CASE Release(j)
  <2>1. /\ task[j] = "landed" /\ UNCHANGED <<passes, waiting, late, loop>>
        /\ task' = [task EXCEPT ![j] = "released"]
    BY <1>3 DEF Release
  <2>2. Present(c) /\ slot[c].writers - 1 \in Int
    BY <1>a, <1>b, <2>1 DEF UndeliveredAt
  <2>3. slot' = [slot EXCEPT ![c] = [slot[c] EXCEPT !.writers = slot[c].writers - 1]]
    BY <1>3, <2>2 DEF Release
  <2>4. /\ OneTask(j, "released") /\ Present(c)'
        /\ slot'[c].state = slot[c].state /\ slot'[c].tiles = slot[c].tiles
        /\ slot'[c].pending = slot[c].pending /\ slot'[c].writers = slot[c].writers - 1
        /\ task'[j] = "released"
    BY <1>1, <2>1, <2>2, <2>3
  <2>5. loop = {j} /\ \A k \in Job \ {j} : task[k] \in {"none", "queued", "running"}
    BY <2>1, LoopExcludes
  <2>6. \A k \in Job : task'[k] = (IF k = j THEN "released" ELSE task[k])
    BY <1>a, <2>1
  <2>7. Serial'
    BY <1>a, <2>1, <2>5, <2>6 DEF Serial
  <2>8. WritersOf(c)' = WritersOf(c) \ {j} /\ j \in WritersOf(c)
    BY <2>1, <2>5, <2>6 DEF WritersOf
  <2>9. CountedAt(c)'
    BY <1>a, <1>b, <2>2, <2>4, <2>8, WriterGoes DEF CountedAt
  <2>10. WholeAt(c)'
    BY <1>b, <2>4 DEF WholeAt
  <2>11. \A k \in Job : k[2] = c => (UndeliveredAt(k) /\ PublishingAt(k))'
    BY <1>b, <2>1, <2>4, <2>5, <2>6 DEF UndeliveredAt, PublishingAt
  <2> QED
    BY <2>4, <2>7, <2>9, <2>10, <2>11, OneTaskFrame DEF ChunkHolds
<1> QED
  BY <1>2, <1>3

LEMMA DeliveryStep ==
  ASSUME AloneOnTheLoop, AloneInv, PoolInv', NEW j \in Job, Deliver(j)
  PROVE  AloneInv'
<1> DEFINE c == j[2]
           T == slot[c].tiles \cup {j[3]}
<1>a. /\ c \in Chunk /\ j[3] \in Tile /\ task \in [Job -> Phase] /\ late = {}
      /\ slot \in [Chunk -> SlotRecord] /\ slot[c] \in SlotRecord
      /\ slot[c].pending \in Int /\ slot[c].tiles \in SUBSET Tile
  BY JobParts, SlotFields DEF AloneInv, PoolInv, TypeOK, Serial
<1>b. /\ CountedAt(c) /\ WholeAt(c)
      /\ \A k \in Job : UndeliveredAt(k) /\ PublishingAt(k)
  BY <1>a DEF AloneInv
<1>1. /\ task[j] = "running" /\ LoopFree /\ Present(c)
      /\ task' = [task EXCEPT ![j] = "landed"] /\ loop' = {j}
      /\ slot' = [slot EXCEPT ![c] = Landed(slot[c], j[3])]
      /\ UNCHANGED <<passes, waiting, late>>
  BY DEF Deliver, MayDeliver, OnLoop, AloneOnTheLoop, GoTo, SetSlot, HoldLoopUnless, producers
<1>2. /\ slot'[c].state = slot[c].state /\ slot'[c].tiles = T
      /\ slot'[c].pending = slot[c].pending - 1 /\ slot'[c].writers = slot[c].writers
      /\ Present(c)'
      /\ \A d \in Chunk \ {c} : slot'[d] = slot[d]
  <2>1. slot'[c] = Landed(slot[c], j[3])
    BY <1>a, <1>1
  <2> QED
    BY <1>a, <1>1, <2>1, LandedFields DEF Present
<1>3. /\ \A k \in Job : task[k] \in {"none", "queued", "running"}
      /\ \A k \in Job : task'[k] = (IF k = j THEN "landed" ELSE task[k])
  BY <1>a, <1>1, LoopExcludes
<1>4. OneTask(j, "landed")
  BY <1>1, <1>2 DEF OneTask
<1>5. Serial'
  BY <1>a, <1>1, <1>3 DEF Serial
<1>6. j[3] \notin slot[c].tiles /\ slot[c].state \notin {"assembled", "ready"}
  BY <1>a, <1>b, <1>1 DEF UndeliveredAt, WholeAt
<1>7. WritersOf(c)' = WritersOf(c)
  BY <1>1, <1>3 DEF WritersOf
<1>8. CountedAt(c)'
  <2>1. Cardinality(Tile \ T) = Cardinality(Tile \ slot[c].tiles) - 1
    BY <1>a, <1>6, MissingTiles
  <2>2. /\ slot[c].pending = Cardinality(Tile \ slot[c].tiles)
        /\ slot[c].writers = Cardinality(WritersOf(c))
    BY <1>b, <1>1 DEF CountedAt
  <2> QED
    BY <1>2, <1>7, <2>1, <2>2 DEF CountedAt
<1>9. WholeAt(c)'
  BY <1>2, <1>6 DEF WholeAt
<1>10. ASSUME NEW k \in Job, k[2] = c PROVE (UndeliveredAt(k) /\ PublishingAt(k))'
  <2>1. CASE task[k] \in {"queued", "running"} /\ k # j
    <3>1. k[3] # j[3] /\ k[3] \notin slot[c].tiles
      BY <1>b, <1>1, <1>10, <2>1, TasksOfAChunk DEF UndeliveredAt
    <3> QED
      BY <1>2, <1>3, <1>10, <2>1, <3>1 DEF UndeliveredAt, PublishingAt
  <2> QED
    BY <1>2, <1>3, <1>10, <2>1 DEF UndeliveredAt, PublishingAt
<1> QED
  BY <1>4, <1>5, <1>8, <1>9, <1>10, OneTaskFrame DEF ChunkHolds

(* A step that restates or poisons a slot moves no tile and no count.       *)
LEMMA StateStep ==
  ASSUME TypeOK, NEW c \in Chunk, NEW s, Present(c),
         slot' = [slot EXCEPT ![c] = s],
         \/ \E x \in SlotState \ {"absent"} : s = [slot[c] EXCEPT !.state = x]
         \/ s = [slot[c] EXCEPT !.state = "failed", !.error = TRUE]
  PROVE  /\ Present(c)'
         /\ slot'[c].state = s.state /\ slot'[c].tiles = slot[c].tiles
         /\ slot'[c].pending = slot[c].pending /\ slot'[c].writers = slot[c].writers
         /\ \A d \in Chunk \ {c} : slot'[d] = slot[d]
<1>1. slot[c] \in SlotRecord /\ slot'[c] = s
  BY DEF TypeOK
<1>2. ASSUME NEW x \in SlotState \ {"absent"}, s = [slot[c] EXCEPT !.state = x]
      PROVE  /\ s.state # "absent" /\ s.tiles = slot[c].tiles
             /\ s.pending = slot[c].pending /\ s.writers = slot[c].writers
  BY <1>1, <1>2, RestatedFields
<1>3. ASSUME s = [slot[c] EXCEPT !.state = "failed", !.error = TRUE]
      PROVE  /\ s.state # "absent" /\ s.tiles = slot[c].tiles
             /\ s.pending = slot[c].pending /\ s.writers = slot[c].writers
  BY <1>1, <1>3, PoisonedFields
<1> QED
  BY <1>1, <1>2, <1>3 DEF Present, TypeOK

LEMMA FailureStep ==
  ASSUME AloneInv, PoolInv', NEW j \in Job, FetchFails(j)
  PROVE  AloneInv'
<1> DEFINE c == j[2]
           s == [slot[c] EXCEPT !.state = "failed", !.error = TRUE]
<1>a. /\ c \in Chunk /\ task \in [Job -> Phase] /\ late = {} /\ TypeOK
      /\ slot[c] \in SlotRecord
  BY JobParts DEF AloneInv, PoolInv, TypeOK, Serial
<1>b. /\ CountedAt(c) /\ WholeAt(c)
      /\ \A k \in Job : UndeliveredAt(k) /\ PublishingAt(k)
  BY <1>a DEF AloneInv
<1>1. /\ task[j] = "running" /\ LoopFree /\ PoisonSlot(c)
      /\ task' = [task EXCEPT ![j] = "landed"] /\ loop' = {j}
      /\ UNCHANGED <<passes, waiting, late>>
  BY DEF FetchFails, OnLoop, GoTo, producers
<1>2. Present(c)
  BY <1>b, <1>1 DEF UndeliveredAt
<1>3. slot' = [slot EXCEPT ![c] = s] /\ s.state = "failed"
  BY <1>a, <1>1, <1>2, PoisonedFields DEF PoisonSlot, SetSlot
<1> HIDE DEF s
<1>4. /\ Present(c)' /\ slot'[c].state = "failed" /\ slot'[c].tiles = slot[c].tiles
      /\ slot'[c].pending = slot[c].pending /\ slot'[c].writers = slot[c].writers
      /\ \A d \in Chunk \ {c} : slot'[d] = slot[d]
  BY <1>a, <1>2, <1>3, StateStep DEF s
<1>5. /\ \A k \in Job : task[k] \in {"none", "queued", "running"}
      /\ \A k \in Job : task'[k] = (IF k = j THEN "landed" ELSE task[k])
  BY <1>a, <1>1, LoopExcludes
<1>6. OneTask(j, "landed")
  BY <1>1, <1>2, <1>4 DEF OneTask
<1>7. Serial'
  BY <1>a, <1>1, <1>5 DEF Serial
<1>8. WritersOf(c)' = WritersOf(c)
  BY <1>1, <1>5 DEF WritersOf
<1>9. CountedAt(c)' /\ WholeAt(c)'
  BY <1>a, <1>b, <1>2, <1>4, <1>8 DEF CountedAt, WholeAt
<1>10. \A k \in Job : k[2] = c => (UndeliveredAt(k) /\ PublishingAt(k))'
  BY <1>b, <1>4, <1>5 DEF UndeliveredAt, PublishingAt
<1> QED
  BY <1>6, <1>7, <1>9, <1>10, OneTaskFrame DEF ChunkHolds

LEMMA PublishingSteps ==
  ASSUME AloneInv, PoolInv', NEW j \in Job,
         AdvanceAssembles(j) \/ AdvanceReturns(j) \/ Publish(j)
  PROVE  AloneInv'
<1> DEFINE c == j[2]
<1>a. /\ c \in Chunk /\ task \in [Job -> Phase] /\ late = {} /\ TypeOK
      /\ slot[c] \in SlotRecord /\ slot[c].tiles \in SUBSET Tile
      /\ task[j] # "orphan"
  BY JobParts, SlotFields DEF AloneInv, PoolInv, TypeOK, Serial
<1>b. /\ CountedAt(c) /\ WholeAt(c)
      /\ \A k \in Job : UndeliveredAt(k) /\ PublishingAt(k)
  BY <1>a DEF AloneInv
<1>1. /\ task[j] \in {"released", "publishing"}
      /\ UNCHANGED <<passes, waiting, late>>
  BY <1>a DEF AdvanceAssembles, AdvanceReturns, Publish, producers
<1>2. loop = {j} /\ \A k \in Job \ {j} : task[k] \in {"none", "queued", "running"}
  BY <1>1, LoopExcludes
<1>3. ASSUME NEW x \in {"none", "publishing"}, task' = [task EXCEPT ![j] = x],
             x = "none" \/ loop' = loop
      PROVE  /\ Serial' /\ WritersOf(c)' = WritersOf(c)
             /\ \A k \in Job : task'[k] = (IF k = j THEN x ELSE task[k])
  <2>1. \A k \in Job : task'[k] = (IF k = j THEN x ELSE task[k])
    BY <1>a, <1>3
  <2> QED
    BY <1>a, <1>1, <1>2, <1>3, <2>1 DEF Serial, WritersOf
<1>4. CASE AdvanceAssembles(j)
  <2>1. /\ CanAssemble(c) /\ task' = [task EXCEPT ![j] = "publishing"] /\ loop' = loop
        /\ slot' = [slot EXCEPT ![c] = [slot[c] EXCEPT !.state = "assembled"]]
    BY <1>4 DEF AdvanceAssembles, GoTo, SetSlot
  <2>2. Present(c)
    BY <2>1 DEF CanAssemble, Quiescent
  <2>3. [slot[c] EXCEPT !.state = "assembled"].state = "assembled"
    BY <1>a, RestatedFields
  <2>4. /\ Present(c)' /\ slot'[c].state = "assembled" /\ slot'[c].tiles = slot[c].tiles
        /\ slot'[c].pending = slot[c].pending /\ slot'[c].writers = slot[c].writers
        /\ \A d \in Chunk \ {c} : slot'[d] = slot[d]
    BY <1>a, <2>1, <2>2, <2>3, StateStep DEF SlotState
  <2>5. /\ Serial' /\ WritersOf(c)' = WritersOf(c)
        /\ \A k \in Job : task'[k] = (IF k = j THEN "publishing" ELSE task[k])
    BY <1>3, <2>1
  <2>6. OneTask(j, "publishing")
    BY <1>1, <2>1, <2>2, <2>4 DEF OneTask
  <2>7. CountedAt(c)'
    BY <1>b, <2>2, <2>4, <2>5 DEF CountedAt
  <2>8. slot[c].tiles = Tile
    BY <1>a, <1>b, <2>1, <2>2, MissingTiles DEF CountedAt, CanAssemble
  <2>9. WholeAt(c)'
    BY <2>4, <2>8 DEF WholeAt
  <2>10. \A k \in Job : k[2] = c => (UndeliveredAt(k) /\ PublishingAt(k))'
    BY <1>b, <1>2, <2>4, <2>5 DEF UndeliveredAt, PublishingAt
  <2> QED
    BY <2>5, <2>6, <2>7, <2>9, <2>10, OneTaskFrame DEF ChunkHolds
<1>5. CASE AdvanceReturns(j)
  <2>1. task' = [task EXCEPT ![j] = "none"] /\ UNCHANGED slot
    BY <1>5 DEF AdvanceReturns, GoTo, table
  <2>2. /\ Serial' /\ WritersOf(c)' = WritersOf(c)
        /\ \A k \in Job : task'[k] = (IF k = j THEN "none" ELSE task[k])
    BY <1>3, <2>1
  <2>3. OneTask(j, "none")
    BY <1>1, <2>1 DEF OneTask, Present
  <2>4. CountedAt(c)' /\ WholeAt(c)'
    BY <1>b, <2>1, <2>2 DEF CountedAt, WholeAt, Present
  <2>5. \A k \in Job : k[2] = c => (UndeliveredAt(k) /\ PublishingAt(k))'
    BY <1>b, <1>2, <2>1, <2>2 DEF UndeliveredAt, PublishingAt, Present
  <2> QED
    BY <2>2, <2>3, <2>4, <2>5, OneTaskFrame DEF ChunkHolds
<1>6. CASE Publish(j)
  <2>1. /\ task[j] = "publishing" /\ task' = [task EXCEPT ![j] = "none"]
        /\ slot' = [slot EXCEPT ![c] = [slot[c] EXCEPT !.state = "ready"]]
    BY <1>a, <1>6 DEF Publish, GoTo, SetSlot
  <2>2. slot[c].state = "assembled" /\ Present(c)
    BY <1>b, <2>1 DEF PublishingAt, Present
  <2>3. [slot[c] EXCEPT !.state = "ready"].state = "ready"
    BY <1>a, RestatedFields
  <2>4. /\ Present(c)' /\ slot'[c].state = "ready" /\ slot'[c].tiles = slot[c].tiles
        /\ slot'[c].pending = slot[c].pending /\ slot'[c].writers = slot[c].writers
        /\ \A d \in Chunk \ {c} : slot'[d] = slot[d]
    BY <1>a, <2>1, <2>2, <2>3, StateStep DEF SlotState
  <2>5. /\ Serial' /\ WritersOf(c)' = WritersOf(c)
        /\ \A k \in Job : task'[k] = (IF k = j THEN "none" ELSE task[k])
    BY <1>3, <2>1
  <2>6. OneTask(j, "none")
    BY <1>1, <2>1, <2>2, <2>4 DEF OneTask
  <2>7. CountedAt(c)' /\ WholeAt(c)'
    BY <1>b, <2>2, <2>4, <2>5 DEF CountedAt, WholeAt
  <2>8. \A k \in Job : k[2] = c => (UndeliveredAt(k) /\ PublishingAt(k))'
    BY <1>b, <1>2, <2>4, <2>5 DEF UndeliveredAt, PublishingAt
  <2> QED
    BY <2>5, <2>6, <2>7, <2>8, OneTaskFrame DEF ChunkHolds
<1> QED
  BY <1>4, <1>5, <1>6

LEMMA CancelSteps ==
  ASSUME AloneInv, PoolInv', NEW j \in Job, CancelQueued(j) \/ CancelRunning(j)
  PROVE  AloneInv'
<1> DEFINE c == j[2]
<1>a. /\ c \in Chunk /\ task \in [Job -> Phase] /\ late = {} /\ task[j] # "delivering"
  BY JobParts DEF AloneInv, PoolInv, TypeOK, Serial
<1>b. /\ CountedAt(c) /\ WholeAt(c)
      /\ \A k \in Job : UndeliveredAt(k) /\ PublishingAt(k)
  BY <1>a DEF AloneInv
<1>1. LoopFree /\ UNCHANGED <<passes, waiting, late, slot>>
  BY <1>a DEF CancelQueued, CancelRunning, producers, table, tasks
<1>2. \A k \in Job : task[k] \in {"none", "queued", "running"}
  BY <1>1, LoopExcludes
<1>3. PICK x \in {"none", "landed"} :
        /\ task' = [task EXCEPT ![j] = x]
        /\ task[j] = (IF x = "none" THEN "queued" ELSE "running")
        /\ x = "landed" => loop' = {j}
  BY <1>a DEF CancelQueued, CancelRunning, GoTo
<1>4. \A k \in Job : task'[k] = (IF k = j THEN x ELSE task[k])
  BY <1>a, <1>3
<1>5. OneTask(j, x)
  BY <1>1, <1>3 DEF OneTask, Present
<1>6. Serial'
  BY <1>a, <1>1, <1>2, <1>3, <1>4 DEF Serial
<1>7. WritersOf(c)' = WritersOf(c)
  BY <1>3, <1>4 DEF WritersOf
<1>8. CountedAt(c)' /\ WholeAt(c)'
  BY <1>b, <1>1, <1>7 DEF CountedAt, WholeAt, Present
<1>9. \A k \in Job : k[2] = c => (UndeliveredAt(k) /\ PublishingAt(k))'
  BY <1>b, <1>1, <1>2, <1>3, <1>4 DEF UndeliveredAt, PublishingAt, Present
<1> QED
  BY <1>5, <1>6, <1>8, <1>9, OneTaskFrame DEF ChunkHolds

(* What only decode threads and a second pass can do does not happen.      *)
LEMMA StepsThatNeverHappen ==
  ASSUME AloneOnTheLoop, AloneInv, NEW j \in Job
  PROVE  ~(HandToThread(j) \/ DeliverToNothing(j) \/ TransformFails(j) \/ LateDeliver(j))
BY DEF AloneOnTheLoop, AloneInv, Serial, UndeliveredAt, HandToThread, DeliverToNothing,
       OnLoop, TransformFails, LateDeliver

-----------------------------------------------------------------------------
(* Admission, eviction and the end of a pass.                              *)

(* A resident chunk is published, or claimed by the only pass there is.    *)
LEMMA NothingToJoin ==
  ASSUME AloneInv, NEW p \in Pass, NEW c \in Chunk
  PROVE  ~JoinResident(p, c)
<1> SUFFICES ASSUME JoinResident(p, c) PROVE FALSE
  OBVIOUS
<1>1. /\ status[p] = "live" /\ c \notin claimed[p] /\ Present(c)
      /\ parked[p] = {c} \/ slot[c].state # "ready"
  BY DEF JoinResident, DriverAt, MissOrRetry
<1>2. parked[p] # {c}
  BY <1>1 DEF AloneInv, ParkedIsAbsent
<1>3. PICK q \in Live : c \in claimed[q]
  BY <1>1, <1>2 DEF AloneInv, UnfinishedIsClaimed
<1>4. p \in Live
  BY <1>1 DEF Live
<1> QED
  BY <1>1, <1>3, <1>4 DEF AloneInv, Alone

(* A chunk that may be evicted has no task.                                *)
LEMMA PublishedHasNoTask ==
  ASSUME AloneInv, LoopFree, NEW j \in Job, slot[j[2]].state = "ready"
  PROVE  task[j] = "none"
<1>1. j[2] \in Chunk /\ j[3] \in Tile
  BY JobParts
<1>2. slot[j[2]].tiles = Tile
  BY <1>1 DEF AloneInv, WholeAt
<1>3. task[j] \in {"none", "queued", "running"}
  BY LoopExcludes
<1> QED
  BY <1>1, <1>2, <1>3 DEF AloneInv, UndeliveredAt

(* The slots of V are dropped, none of which has a task, and some tasks of *)
(* absent chunks may be queued.                                            *)
Dropped(V, Q) ==
  /\ \A c \in V : slot'[c].state = "absent"
  /\ \A c \in Chunk \ V : c \notin Q => slot'[c] = slot[c]
  /\ \A c \in Q : ~Present(c) /\ c \notin V /\ slot'[c] = Fresh
  /\ \A j \in Job : task'[j] = IF j[2] \in Q THEN task'[j] ELSE task[j]
  /\ \A j \in Job : j[2] \in Q => task'[j] \in {"none", "queued"}
  /\ \A j \in Job : j[2] \in V => task[j] = "none"
  /\ UNCHANGED <<late, loop, waiting>>

NobodyLands == \A k \in Job : task[k] \in {"none", "queued", "running"}

LEMMA DroppedTiles ==
  ASSUME AloneInv, NobodyLands, TypeOK', NEW V \in SUBSET Chunk, NEW Q \in SUBSET Chunk,
         Dropped(V, Q)
  PROVE  /\ Serial'
         /\ \A c \in Chunk : (CountedAt(c) /\ WholeAt(c))'
         /\ \A j \in Job : (UndeliveredAt(j) /\ PublishingAt(j))'
         /\ \A c \in Chunk : Present(c)' <=> c \in Q \/ (Present(c) /\ c \notin V)
<1>a. \A j \in Job : j[2] \in Chunk /\ task[j] \in {"none", "queued", "running"}
  BY JobParts DEF NobodyLands
<1>b. /\ Fresh.state = "filling" /\ Fresh.tiles = {} /\ Fresh.writers = 0
      /\ Fresh.pending = Cardinality(Tile)
  BY DEF Fresh
<1>c. /\ \A c \in V : slot'[c].state = "absent"
      /\ \A c \in Chunk \ (V \cup Q) : slot'[c] = slot[c]
      /\ \A c \in Q : ~Present(c) /\ c \notin V /\ slot'[c] = Fresh
      /\ \A j \in Job : j[2] \notin Q => task'[j] = task[j]
      /\ \A j \in Job : j[2] \in Q => task'[j] \in {"none", "queued"}
      /\ \A j \in Job : j[2] \in V => task[j] = "none"
      /\ UNCHANGED <<late, loop, waiting>>
  BY DEF Dropped
<1>1. Serial'
  <2>1. late = {}
    BY DEF AloneInv, Serial
  <2>2. \A j \in Job : task'[j] \in {"none", "queued", "running"}
    BY <1>a, <1>c
  <2> QED
    BY <1>c, <2>1, <2>2 DEF Serial
<1>2. \A c \in Chunk : Present(c)' <=> c \in Q \/ (Present(c) /\ c \notin V)
  BY <1>b, <1>c DEF Present
<1>3. ASSUME NEW c \in Chunk PROVE (CountedAt(c) /\ WholeAt(c))'
  <2>0. CountedAt(c) /\ WholeAt(c)
    BY DEF AloneInv
  <2>1. CASE c \in V
    BY <1>c, <2>1 DEF CountedAt, WholeAt, Present
  <2>2. CASE c \in Q
    <3>1. WritersOf(c)' = {}
      BY <1>c, <2>2 DEF WritersOf
    <3>2. Tile \ {} = Tile
      OBVIOUS
    <3>3. Cardinality({}) = 0
      BY FS_EmptySet
    <3> QED
      BY <1>b, <1>c, <2>2, <3>1, <3>2, <3>3 DEF CountedAt, WholeAt
  <2>3. CASE c \notin V \cup Q
    <3>1. slot'[c] = slot[c] /\ WritersOf(c)' = WritersOf(c)
      BY <1>c, <2>3 DEF WritersOf
    <3> QED
      BY <2>0, <3>1 DEF CountedAt, WholeAt, Present
  <2> QED
    BY <2>1, <2>2, <2>3
<1>4. ASSUME NEW j \in Job PROVE (UndeliveredAt(j) /\ PublishingAt(j))'
  <2>0. UndeliveredAt(j) /\ PublishingAt(j)
    BY DEF AloneInv
  <2>1. CASE j[2] \in V
    BY <1>a, <1>c, <2>1 DEF UndeliveredAt, PublishingAt
  <2>2. CASE j[2] \in Q
    BY <1>a, <1>b, <1>c, <2>2 DEF UndeliveredAt, PublishingAt, Present
  <2>3. CASE j[2] \notin V \cup Q
    BY <1>a, <1>c, <2>0, <2>3 DEF UndeliveredAt, PublishingAt, Present
  <2> QED
    BY <2>1, <2>2, <2>3
<1> QED
  BY <1>1, <1>2, <1>3, <1>4

LEMMA AdmissionSteps ==
  ASSUME AloneInv, PoolInv', NEW p \in Pass, NEW c \in Chunk,
         AdmitFresh(p, c) \/ AdmitFull(p, c)
  PROVE  AloneInv'
<1> DEFINE V == Victims(Weight[{c}])
<1>a. /\ TypeOK /\ TypeOK' /\ SlotsTyped /\ task \in [Job -> Phase]
      /\ claimed \in [Pass -> SUBSET Chunk] /\ parked \in [Pass -> SUBSET Chunk]
  BY DEF AloneInv, PoolInv, TypeOK, SlotsTyped
<1>b. /\ V \in SUBSET Chunk /\ V \subseteq Resident /\ \A d \in V : slot[d].state = "ready"
  BY VictimsAreFree
<1>c. /\ LoopFree /\ status[p] = "live" /\ ~Present(c) /\ c \notin V /\ parked[p] \subseteq {c}
      /\ UNCHANGED <<status, late, loop, waiting>>
  BY <1>b DEF AdmitFresh, AdmitFull, DriverAt, StartTiles, tasks, producers, Resident
<1>n. NobodyLands
  BY <1>c, LoopExcludes DEF NobodyLands
<1>d. \A j \in Job : j[2] \in V => task[j] = "none"
  BY <1>b, <1>c, PublishedHasNoTask
<1>e. p \in Live /\ Live' = Live /\ \A q \in Live : q = p
  BY <1>c DEF AloneInv, Alone, Live
<1>f. \A j \in Job : j[1] \in Pass /\ j[2] \in Chunk
  BY JobParts
<1>1. Alone' /\ WaiterRuns'
  BY <1>c, <1>e DEF AloneInv, Alone, WaiterRuns, ProducerRuns
<1>2. CASE AdmitFresh(p, c)
  <2>1. /\ slot' = [Emptied(V) EXCEPT ![c] = Fresh]
        /\ claimed' = [claimed EXCEPT ![p] = @ \cup {c}]
        /\ parked' = [parked EXCEPT ![p] = {}]
        /\ task' = [j \in Job |-> IF j \in JobsOf(p, c) THEN "queued" ELSE task[j]]
    BY <1>2 DEF AdmitFresh, Pin, StartTiles
  <2>2. /\ slot'[c] = Fresh
        /\ \A d \in V : slot'[d].state = "absent"
        /\ \A d \in Chunk \ V : d # c => slot'[d] = slot[d]
    <3>1. Emptied(V) \in [Chunk -> SlotRecord]
      BY <1>a, FreshIsASlot DEF Emptied, SlotsTyped
    <3>2. \A d \in Chunk :
            slot'[d] = IF d = c THEN Fresh ELSE IF d \in V THEN Absent ELSE slot[d]
      BY <2>1, <3>1 DEF Emptied
    <3>3. Absent.state = "absent"
      BY DEF Absent
    <3> QED
      BY <1>b, <1>c, <3>2, <3>3
  <2>3. \A j \in Job : task[j] # "none" => j[2] # c
    <3>1. \A j \in Job : task[j] \in {"none", "queued", "running"} /\ UndeliveredAt(j)
      BY <1>c, LoopExcludes DEF AloneInv
    <3> QED
      BY <1>c, <3>1 DEF UndeliveredAt
  <2>4. Dropped(V, {c})
    BY <1>c, <1>d, <2>1, <2>2, <2>3 DEF Dropped, JobsOf
  <2>5. /\ Serial'
        /\ \A d \in Chunk : (CountedAt(d) /\ WholeAt(d))'
        /\ \A j \in Job : (UndeliveredAt(j) /\ PublishingAt(j))'
        /\ \A d \in Chunk : Present(d)' <=> d \in {c} \/ (Present(d) /\ d \notin V)
    <3>1. {c} \in SUBSET Chunk
      OBVIOUS
    <3> QED
      BY <1>a, <1>b, <1>n, <2>4, <3>1, DroppedTiles
  <2>6. /\ \A q \in Pass : claimed[q] \subseteq claimed'[q] /\ parked'[q] \subseteq parked[q]
        /\ c \in claimed'[p]
        /\ \A q \in Pass : q # p => claimed'[q] = claimed[q] /\ parked'[q] = parked[q]
        /\ parked'[p] = {}
    BY <1>a, <2>1
  <2>7. TasksAreOwned'
    <3>1. ASSUME NEW j \in Job, task'[j] # "none"
          PROVE  status'[j[1]] # "idle" /\ j[2] \in claimed'[j[1]]
      <4>1. CASE j \in JobsOf(p, c)
        BY <1>c, <2>6, <4>1 DEF JobsOf
      <4>2. CASE j \notin JobsOf(p, c)
        BY <1>c, <1>f, <2>1, <2>6, <3>1, <4>2 DEF AloneInv, TasksAreOwned
      <4> QED
        BY <4>1, <4>2
    <3> QED
      BY <3>1 DEF TasksAreOwned
  <2>8. IdleHoldsNothing'
    BY <1>c, <2>6 DEF AloneInv, IdleHoldsNothing
  <2>9. ParkedIsAbsent'
    <3>1. ASSUME NEW q \in Pass, NEW d \in parked'[q] PROVE ~Present(d)'
      <4>1. q # p /\ d \in parked[q] /\ d \in Chunk
        BY <1>a, <2>6, <3>1
      <4>2. q \in Live
        BY <4>1 DEF AloneInv, IdleHoldsNothing, Live
      <4> QED
        BY <1>e, <4>1, <4>2
    <3> QED
      BY <3>1 DEF ParkedIsAbsent
  <2>10. UnfinishedIsClaimed'
    <3>1. ASSUME NEW d \in Chunk, Present(d)', slot'[d].state # "ready"
          PROVE  \E q \in Live' : d \in claimed'[q]
      <4>1. CASE d = c
        BY <1>e, <2>6, <4>1
      <4>2. CASE d # c
        <5>1. slot'[d] = slot[d] /\ Present(d)
          BY <2>2, <2>5, <3>1, <4>2
        <5>2. PICK q \in Live : d \in claimed[q]
          BY <3>1, <5>1 DEF AloneInv, UnfinishedIsClaimed
        <5> QED
          BY <1>e, <2>6, <5>2 DEF Live
      <4> QED
        BY <4>1, <4>2
    <3> QED
      BY <3>1 DEF UnfinishedIsClaimed
  <2> QED
    BY <1>1, <2>5, <2>7, <2>8, <2>9, <2>10 DEF AloneInv
<1>3. CASE AdmitFull(p, c)
  <2>1. /\ slot' = Emptied(V) /\ UNCHANGED <<claimed, task>>
        /\ parked' = [parked EXCEPT ![p] = {c}]
    BY <1>3 DEF AdmitFull, tasks
  <2>2. /\ \A d \in V : slot'[d].state = "absent"
        /\ \A d \in Chunk \ V : slot'[d] = slot[d]
    BY <1>b, <2>1 DEF Emptied, Absent
  <2>3. Dropped(V, {})
    BY <1>c, <1>d, <2>1, <2>2 DEF Dropped
  <2>4. /\ Serial'
        /\ \A d \in Chunk : (CountedAt(d) /\ WholeAt(d))'
        /\ \A j \in Job : (UndeliveredAt(j) /\ PublishingAt(j))'
        /\ \A d \in Chunk : Present(d)' <=> d \in {} \/ (Present(d) /\ d \notin V)
    <3>1. {} \in SUBSET Chunk
      OBVIOUS
    <3> QED
      BY <1>a, <1>b, <1>n, <2>3, <3>1, DroppedTiles
  <2>5. TasksAreOwned'
    BY <1>c, <2>1 DEF AloneInv, TasksAreOwned
  <2>6. IdleHoldsNothing'
    BY <1>a, <1>c, <2>1 DEF AloneInv, IdleHoldsNothing
  <2>7. ParkedIsAbsent'
    <3>1. ASSUME NEW q \in Pass, NEW d \in parked'[q] PROVE ~Present(d)'
      <4>1. CASE d = c
        BY <1>c, <2>4, <4>1
      <4>2. CASE d # c
        <5>1. d \in parked[q] /\ d \in Chunk
          BY <1>a, <2>1, <3>1, <4>2
        <5>2. ~Present(d)
          BY <5>1 DEF AloneInv, ParkedIsAbsent
        <5> QED
          BY <2>4, <5>1, <5>2
      <4> QED
        BY <4>1, <4>2
    <3> QED
      BY <3>1 DEF ParkedIsAbsent
  <2>8. UnfinishedIsClaimed'
    <3>1. ASSUME NEW d \in Chunk, Present(d)', slot'[d].state # "ready"
          PROVE  \E q \in Live' : d \in claimed'[q]
      <4>1. slot'[d] = slot[d] /\ Present(d)
        BY <2>2, <2>4, <3>1
      <4> QED
        BY <1>e, <2>1, <3>1, <4>1 DEF AloneInv, UnfinishedIsClaimed
    <3> QED
      BY <3>1 DEF UnfinishedIsClaimed
  <2> QED
    BY <1>1, <2>4, <2>5, <2>6, <2>7, <2>8 DEF AloneInv
<1> QED
  BY <1>2, <1>3

(* What is not published goes with the pass, and only that.                *)
LEMMA LastPassTakesPartials ==
  ASSUME AloneInv, NEW p \in Pass, ReleaseOwner(p)
  PROVE  /\ \A j \in Job : task[j] = "none"
         /\ Abandoned([c \in Chunk |-> refs[c] \ {p}])
              = {c \in Resident : slot[c].state # "ready"}
         /\ \A q \in Pass : status'[q] = "idle"
<1>a. /\ TasksOf(p) \cap loop = {} /\ status[p] = "closing" /\ Unwound(p)
      /\ status' = [status EXCEPT ![p] = "idle"] /\ status \in [Pass -> Status]
      /\ slot \in [Chunk -> SlotRecord] /\ refs \in [Chunk -> SUBSET Pass]
  BY DEF ReleaseOwner, AloneInv, PoolInv, TypeOK
<1>1. \A q \in Pass : status[q] # "idle" => q = p
  <2>1. p \in Live
    BY <1>a DEF Live
  <2> QED
    BY <2>1 DEF AloneInv, Alone, Live
<1>2. ASSUME NEW j \in Job PROVE task[j] = "none"
  <2> SUFFICES ASSUME task[j] # "none" PROVE FALSE
    OBVIOUS
  <2>1. j[1] = p
    BY <1>1, JobParts DEF AloneInv, TasksAreOwned
  <2>2. task[j] \notin {"queued", "running", "delivering", "landed"} /\ j \notin loop
    BY <1>a, <2>1 DEF Unwound, TasksOf
  <2>3. task[j] \notin {"landed", "released", "publishing", "orphan"}
    BY <2>2 DEF AloneInv, Serial
  <2> QED
    BY <2>2, <2>3 DEF AloneInv, PoolInv, TypeOK, Phase
<1>3. ASSUME NEW c \in Resident PROVE slot[c].writers = 0 /\ refs[c] \ {p} = {}
  <2>1. c \in Chunk /\ Present(c)
    BY DEF Resident
  <2>2. WritersOf(c) = {}
    BY <1>2 DEF WritersOf
  <2>3. slot[c].writers = 0
    BY <2>1, <2>2, FS_EmptySet DEF AloneInv, CountedAt
  <2>4. ASSUME NEW q \in refs[c] PROVE q = p
    <3>1. q \in Pass /\ c \in claimed[q]
      BY <1>a, <2>1 DEF AloneInv, PoolInv, ReferenceIsClaimed
    <3> QED
      BY <1>1, <3>1 DEF AloneInv, IdleHoldsNothing
  <2> QED
    BY <2>3, <2>4
<1>4. \A c \in Resident : c \in Chunk
  BY DEF Resident
<1>5. \A c \in Resident : [d \in Chunk |-> refs[d] \ {p}][c] = {}
  BY <1>3, <1>4
<1>6. Abandoned([c \in Chunk |-> refs[c] \ {p}]) = {c \in Resident : slot[c].state # "ready"}
  BY <1>3, <1>5 DEF Abandoned
<1> QED
  BY <1>1, <1>2, <1>6, <1>a

LEMMA EndStep ==
  ASSUME AloneInv, PoolInv', NEW p \in Pass, ReleaseOwner(p)
  PROVE  AloneInv'
<1> DEFINE V == {c \in Resident : slot[c].state # "ready"}
<1>a. /\ TypeOK /\ TypeOK' /\ status[p] = "closing"
      /\ claimed \in [Pass -> SUBSET Chunk] /\ parked \in [Pass -> SUBSET Chunk]
      /\ V \in SUBSET Chunk
  BY DEF AloneInv, PoolInv, TypeOK, ReleaseOwner, Resident
<1>b. NobodyLands /\ \A j \in Job : task[j] = "none"
  BY LastPassTakesPartials DEF NobodyLands
<1>c. /\ slot' = Emptied(V)
      /\ \A j \in Job : task'[j] = "none"
      /\ claimed' = [claimed EXCEPT ![p] = {}]
      /\ parked' = [parked EXCEPT ![p] = {}]
      /\ \A q \in Pass : status'[q] = "idle"
      /\ UNCHANGED <<late, loop, waiting>>
  BY <1>b, LastPassTakesPartials DEF ReleaseOwner
<1>1. /\ \A d \in V : slot'[d].state = "absent"
      /\ \A d \in Chunk \ V : slot'[d] = slot[d]
  BY <1>a, <1>c DEF Emptied, Absent
<1>2. Dropped(V, {})
  BY <1>b, <1>c, <1>1 DEF Dropped
<1>3. /\ Serial'
      /\ \A d \in Chunk : (CountedAt(d) /\ WholeAt(d))'
      /\ \A j \in Job : (UndeliveredAt(j) /\ PublishingAt(j))'
      /\ \A d \in Chunk : Present(d)' <=> d \in {} \/ (Present(d) /\ d \notin V)
  <2>1. {} \in SUBSET Chunk
    OBVIOUS
  <2> QED
    BY <1>a, <1>b, <1>2, <2>1, DroppedTiles
<1>4. \A q \in Pass : claimed'[q] = {} /\ parked'[q] = {}
  <2>1. \A q \in Pass : q # p => status[q] = "idle"
    BY <1>a DEF AloneInv, Alone, Live
  <2> QED
    BY <1>a, <1>c, <2>1 DEF AloneInv, IdleHoldsNothing
<1>5. Alone' /\ IdleHoldsNothing' /\ ParkedIsAbsent' /\ TasksAreOwned'
  BY <1>c, <1>4 DEF Alone, Live, IdleHoldsNothing, ParkedIsAbsent, TasksAreOwned
<1>6. UnfinishedIsClaimed'
  BY <1>a, <1>1, <1>3 DEF UnfinishedIsClaimed, Resident
<1>7. WaiterRuns'
  BY <1>a, <1>c DEF AloneInv, WaiterRuns, ProducerRuns, ReleaseOwner
<1> QED
  BY <1>3, <1>5, <1>6, <1>7 DEF AloneInv

-----------------------------------------------------------------------------
(* The theorems.                                                           *)

LEMMA AloneStep == AloneOnTheLoop /\ AloneInv /\ PoolInv' /\ [Next]_vars => AloneInv'
<1> SUFFICES ASSUME AloneOnTheLoop, AloneInv, PoolInv', [Next]_vars PROVE AloneInv'
  OBVIOUS
<1>a. TypeOK /\ WaiterRuns
  BY DEF AloneInv, PoolInv
<1>1. ASSUME NEW p \in Pass, NewOwner(p) PROVE AloneInv'
  BY <1>1, OwnerStep
<1>2. ASSUME NEW p \in Pass,
             \/ Starve(p) \/ Wake(p) \/ Close(p)
             \/ \E c \in Chunk : PinIfReady(p, c) \/ WaitReady(p, c) \/ UnpinBlock(p, c)
      PROVE  AloneInv'
  BY <1>a, <1>2, PassStepsStayInPlace, StayingInPlace
<1>3. ASSUME NEW p \in Pass, ReleaseOwner(p) PROVE AloneInv'
  BY <1>3, EndStep
<1>4. ASSUME NEW p \in Pass, NEW c \in Chunk, AdmitFresh(p, c) \/ AdmitFull(p, c)
      PROVE  AloneInv'
  BY <1>4, AdmissionSteps
<1>5. ASSUME NEW j \in Job, TileWrite(j) \/ Release(j) PROVE AloneInv'
  BY <1>5, WriterSteps
<1>6. ASSUME NEW j \in Job, Deliver(j) PROVE AloneInv'
  BY <1>6, DeliveryStep
<1>7. ASSUME NEW j \in Job, FetchFails(j) PROVE AloneInv'
  BY <1>7, FailureStep
<1>8. ASSUME NEW j \in Job, AdvanceAssembles(j) \/ AdvanceReturns(j) \/ Publish(j)
      PROVE  AloneInv'
  BY <1>8, PublishingSteps
<1>9. ASSUME NEW j \in Job, CancelQueued(j) \/ CancelRunning(j) PROVE AloneInv'
  BY <1>9, CancelSteps
<1>10. CASE UNCHANGED vars
  <2>1. StaysInPlace
    BY <1>10, <1>a
       DEF vars, table, passes, tasks, producers, StaysInPlace, TilesUntouched, TypeOK,
           WaiterRuns, ProducerRuns
  <2> QED
    BY <2>1, StayingInPlace
<1> QED
  BY <1>1, <1>2, <1>3, <1>4, <1>5, <1>6, <1>7, <1>8, <1>9, <1>10,
     NothingToJoin, StepsThatNeverHappen, NextCases

(* When passes run one at a time, every slot's counters and every task's   *)
(* claim on its slot are what they should be in every reachable state.     *)
THEOREM AloneInvariant == AloneOnTheLoop => (Spec => []AloneInv)
<1> SUFFICES ASSUME AloneOnTheLoop PROVE Spec => []AloneInv
  OBVIOUS
<1>1. Init => AloneInv
  BY AloneInit
<1>2. PoolInv' /\ AloneInv /\ [Next]_vars => AloneInv'
  BY AloneStep
<1> QED
  BY <1>1, <1>2, PoolInvariant, PTL DEF Spec

(* No chunk is published before every tile of it was delivered: the count  *)
(* of pending tiles never runs ahead of the deliveries (pool.py, _advance).*)
(* It does as soon as two passes fetch one chunk.                          *)
THEOREM PublishedIsComplete == AloneOnTheLoop => (Spec => []ReadyIsComplete)
<1> SUFFICES ASSUME AloneOnTheLoop PROVE Spec => []ReadyIsComplete
  OBVIOUS
<1>1. AloneInv => ReadyIsComplete
  BY DEF AloneInv, WholeAt, ReadyIsComplete
<1> QED
  BY <1>1, AloneInvariant, PTL

(* A slot whose writer count is zero has no writer, so evicting it takes   *)
(* nothing from under a task (pool.py, _evictable).  The premise that      *)
(* tiles are delivered on the event loop is needed: a decode thread goes   *)
(* on writing when its coroutine is cancelled, with one pass as with two.  *)
THEOREM QuietSlotsHaveNoWriter == AloneOnTheLoop => (Spec => []QuiescentMeansNoWriter)
<1> SUFFICES ASSUME AloneOnTheLoop PROVE Spec => []QuiescentMeansNoWriter
  OBVIOUS
<1>1. AloneInv => QuiescentMeansNoWriter
  <2> SUFFICES ASSUME AloneInv, NEW c \in Chunk, Quiescent(c), NEW j \in Job, j[2] = c
               PROVE  task[j] \notin {"running", "delivering", "landed"} /\ j \notin late
    BY DEF QuiescentMeansNoWriter
  <2>1. CountedAt(c) /\ task[j] # "delivering" /\ late = {}
    BY DEF AloneInv, Serial
  <2> QED
    BY <2>1, NoWriterNoCount
<1> QED
  BY <1>1, AloneInvariant, PTL

(* Between passes every resident chunk can be evicted: no reference and no *)
(* partial slot outlives its pass (pool.py, release_owner), where passes   *)
(* run one at a time and decode on the event loop.                         *)
THEOREM PassesLeaveNothingBehind == AloneOnTheLoop => (Spec => []NothingLeftBehind)
<1> SUFFICES ASSUME AloneOnTheLoop PROVE Spec => []NothingLeftBehind
  OBVIOUS
<1>1. AloneInv => NothingLeftBehind
  <2> SUFFICES ASSUME AloneInv, Live = {}, \A j \in Job : task[j] = "none",
                      NEW c \in Resident
               PROVE  Evictable(c)
    BY DEF NothingLeftBehind, EvictableSet, Evictable, Resident, Present
  <2>1. c \in Chunk /\ Present(c)
    BY DEF Resident
  <2>2. slot[c].state = "ready"
    BY <2>1 DEF AloneInv, UnfinishedIsClaimed
  <2>3. slot[c].writers = 0
    <3>1. WritersOf(c) = {}
      BY DEF WritersOf
    <3> QED
      BY <2>1, <3>1, FS_EmptySet DEF AloneInv, CountedAt
  <2>4. refs[c] = {}
    <3>1. \A q \in Pass : claimed[q] = {}
      BY DEF Live, AloneInv, IdleHoldsNothing
    <3> QED
      BY <2>1, <3>1 DEF AloneInv, PoolInv, TypeOK, ReferenceIsClaimed
  <2> QED
    BY <2>2, <2>3, <2>4 DEF Evictable
<1> QED
  BY <1>1, AloneInvariant, PTL

(* What has been delivered to a slot.                                      *)
Delivered(s) == <<s.tiles, s.pending>>

(* It changes when a tile lands, and goes with the slot.                   *)
LEMMA NothingLandsInAReadySlot ==
  ASSUME AloneOnTheLoop, AloneInv, [Next]_vars, NEW c \in Chunk, slot[c].state = "ready",
         Present(c)'
  PROVE  Delivered(slot'[c]) = Delivered(slot[c])
<1>a. /\ TypeOK /\ SlotsTyped /\ slot[c] \in SlotRecord
      /\ \A j \in Job : slot[j[2]] \in SlotRecord /\ j[2] \in Chunk /\ slot[j[2]].writers \in Int
  BY JobParts, SlotFields DEF AloneInv, PoolInv, TypeOK, SlotsTyped
<1>1. CASE UNCHANGED slot
  BY <1>1
<1>2. ASSUME NEW V \in SUBSET Chunk, slot' = Emptied(V)
      PROVE  Delivered(slot'[c]) = Delivered(slot[c])
  BY <1>2 DEF Emptied, Absent, Present
<1>3. ASSUME NEW d \in Chunk, NEW s, slot' = [slot EXCEPT ![d] = s],
             Delivered(s) = Delivered(slot[d])
      PROVE  Delivered(slot'[c]) = Delivered(slot[c])
  BY <1>3, <1>a DEF SlotsTyped
<1>4. ASSUME NEW j \in Job, TileWrite(j) PROVE Delivered(slot'[c]) = Delivered(slot[c])
  <2>1. Delivered([slot[j[2]] EXCEPT !.writers = slot[j[2]].writers + 1])
          = Delivered(slot[j[2]])
    BY <1>a, EnteredFields DEF Delivered
  <2> QED
    BY <1>1, <1>3, <1>4, <1>a, <2>1 DEF TileWrite, SetSlot, Entered
<1>5. ASSUME NEW j \in Job, Release(j) PROVE Delivered(slot'[c]) = Delivered(slot[c])
  <2>1. Delivered([slot[j[2]] EXCEPT !.writers = slot[j[2]].writers - 1])
          = Delivered(slot[j[2]])
    BY <1>a, EnteredFields DEF Delivered
  <2> QED
    BY <1>1, <1>3, <1>5, <1>a, <2>1 DEF Release, SetSlot
<1>6. ASSUME NEW j \in Job, AdvanceAssembles(j) \/ Publish(j)
      PROVE  Delivered(slot'[c]) = Delivered(slot[c])
  <2>1. /\ Delivered([slot[j[2]] EXCEPT !.state = "assembled"]) = Delivered(slot[j[2]])
        /\ Delivered([slot[j[2]] EXCEPT !.state = "ready"]) = Delivered(slot[j[2]])
    BY <1>a, RestatedFields DEF Delivered
  <2>2. CASE AdvanceAssembles(j)
    BY <1>3, <1>a, <2>1, <2>2 DEF AdvanceAssembles, SetSlot
  <2>3. CASE Publish(j)
    BY <1>1, <1>3, <1>a, <2>1, <2>3 DEF Publish, SetSlot
  <2> QED
    BY <1>6, <2>2, <2>3
<1>7. ASSUME NEW j \in Job, FetchFails(j) PROVE Delivered(slot'[c]) = Delivered(slot[c])
  <2>1. Delivered([slot[j[2]] EXCEPT !.state = "failed", !.error = TRUE])
          = Delivered(slot[j[2]])
    BY <1>a, PoisonedFields DEF Delivered
  <2> QED
    BY <1>1, <1>3, <1>7, <1>a, <2>1 DEF FetchFails, PoisonSlot, SetSlot
(* A task delivers a tile its slot lacks, and a READY one lacks none.      *)
<1>8. ASSUME NEW j \in Job, Deliver(j) PROVE Delivered(slot'[c]) = Delivered(slot[c])
  <2>1. task[j] = "running" /\ slot' = [slot EXCEPT ![j[2]] = Landed(slot[j[2]], j[3])]
    BY <1>8 DEF Deliver, MayDeliver, OnLoop, AloneOnTheLoop, SetSlot
  <2>2. j[3] \in Tile /\ j[3] \notin slot[j[2]].tiles
    BY <2>1, JobParts DEF AloneInv, UndeliveredAt
  <2>3. slot[c].tiles = Tile
    BY DEF AloneInv, WholeAt
  <2>4. j[2] # c
    BY <2>2, <2>3
  <2>5. slot'[c] = slot[c]
    BY <1>a, <2>1, <2>4 DEF SlotsTyped
  <2> QED
    BY <2>5
<1>9. ASSUME NEW p \in Pass, NEW d \in Chunk, AdmitFresh(p, d) \/ AdmitFull(p, d)
      PROVE  Delivered(slot'[c]) = Delivered(slot[c])
  <2> DEFINE V == Victims(Weight[{d}])
  <2>1. V \in SUBSET Chunk
    BY VictimsAreFree
  <2>2. CASE AdmitFull(p, d)
    BY <1>2, <2>1, <2>2 DEF AdmitFull
  <2>3. CASE AdmitFresh(p, d)
    <3>1. slot' = [Emptied(V) EXCEPT ![d] = Fresh] /\ c # d
      BY <2>3 DEF AdmitFresh, Present
    <3>2. slot'[c] = Emptied(V)[c]
      BY <3>1 DEF Emptied
    <3> QED
      BY <3>2 DEF Emptied, Absent, Present
  <2> QED
    BY <1>9, <2>2, <2>3
<1>10. ASSUME NEW p \in Pass, ReleaseOwner(p) PROVE Delivered(slot'[c]) = Delivered(slot[c])
  <2>1. Abandoned([d \in Chunk |-> refs[d] \ {p}]) \in SUBSET Chunk
    BY DEF Abandoned, Resident
  <2> QED
    BY <1>2, <1>10, <2>1 DEF ReleaseOwner
<1>11. ASSUME NEW j \in Job, AdvanceReturns(j) \/ CancelQueued(j) \/ CancelRunning(j)
       PROVE  UNCHANGED slot
  BY <1>11 DEF AdvanceReturns, CancelQueued, CancelRunning, table
<1>12. ASSUME NEW p \in Pass,
              \/ NewOwner(p) \/ Starve(p) \/ Wake(p) \/ Close(p)
              \/ \E d \in Chunk : PinIfReady(p, d) \/ WaitReady(p, d) \/ UnpinBlock(p, d)
       PROVE  UNCHANGED slot
  BY <1>12 DEF NewOwner, Starve, Wake, Close, PinIfReady, WaitReady, UnpinBlock, table
<1>13. CASE UNCHANGED vars
  BY <1>1, <1>13 DEF vars, table
<1> QED
  BY <1>1, <1>4, <1>5, <1>6, <1>7, <1>8, <1>9, <1>10, <1>11, <1>12, <1>13,
     NothingToJoin, StepsThatNeverHappen, NextCases

(* Nothing lands in a published chunk, not even a tile it has, while a     *)
(* pass may be gathering it without the lock: passes run one at a time,    *)
(* and what they deliver they deliver on the event loop (pool.py,          *)
(* _deliver; source.py, _drain_block).                                     *)
THEOREM PublishedChunksAreNotWritten == AloneOnTheLoop => (Spec => PublishedIsStable)
<1> SUFFICES ASSUME AloneOnTheLoop PROVE Spec => PublishedIsStable
  OBVIOUS
<1> DEFINE Stable ==
      \A c \in Chunk :
        slot[c].state = "ready" /\ Present(c)' =>
          slot'[c].tiles = slot[c].tiles /\ slot'[c].pending = slot[c].pending
<1>1. AloneInv /\ [Next]_vars => [Stable]_vars
  BY NothingLandsInAReadySlot DEF Delivered
<1> QED
  BY <1>1, AloneInvariant, PTL DEF Spec, PublishedIsStable

=============================================================================
