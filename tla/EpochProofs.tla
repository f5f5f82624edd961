---------------------------- MODULE EpochProofs ----------------------------
(***************************************************************************)
(* What is true of every epoch, for every dataset: its plan agrees with    *)
(* itself and with what its rows touch, the read-ahead bound leaves the    *)
(* driver the permits that the consumer waits for, and the verdict on a    *)
(* pass is earned whatever its counters say.                               *)
(***************************************************************************)
EXTENDS EpochProperties, PassStreamProofs

-----------------------------------------------------------------------------
(* First and last readers, and the read-ahead bound.                       *)

(* Blocks that are a sequence, and finitely many keys.                     *)
Legible(blocks) ==
  /\ Len(blocks) \in Nat /\ DOMAIN blocks = 1 .. Len(blocks)
  /\ IsFiniteSet(KeysOf(blocks))

(* A key that some block reads has a first reader and a last.              *)
LEMMA FirstAndLast ==
  ASSUME NEW blocks, Legible(blocks), NEW k \in KeysOf(blocks)
  PROVE  /\ FirstUse(blocks, k) \in DOMAIN blocks /\ k \in blocks[FirstUse(blocks, k)].keys
         /\ LastUse(blocks, k) \in DOMAIN blocks /\ k \in blocks[LastUse(blocks, k)].keys
         /\ \A b \in DOMAIN blocks :
              k \in blocks[b].keys => FirstUse(blocks, k) <= b /\ b <= LastUse(blocks, k)
<1> DEFINE S == ReadersOf(blocks, k)
           n == Len(blocks)
<1>1. n \in Nat /\ S \in SUBSET (0 .. n) /\ S \in SUBSET Nat /\ S # {} /\ \A b \in S : b \in Nat
  BY DEF Legible, ReadersOf, KeysOf
<1>2. S = {b \in DOMAIN blocks : k \in blocks[b].keys}
  BY DEF ReadersOf
<1>3. PICK f \in S : \A c \in S : f <= c
  BY <1>1, SmallestOf
<1>4. PICK l \in S : \A c \in S : c <= l
  <2> HIDE DEF S, n
  <2> QED
    BY <1>1, LargestOf
<1>5. \A c \in S : l >= c
  BY <1>1, <1>4
<1>6. FirstUse(blocks, k) \in S /\ \A c \in S : FirstUse(blocks, k) <= c
  BY <1>3 DEF FirstUse
<1>7. LastUse(blocks, k) \in S /\ \A c \in S : LastUse(blocks, k) >= c
  BY <1>5 DEF LastUse
<1>8. \A c \in S : c <= LastUse(blocks, k)
  BY <1>1, <1>7
<1> HIDE DEF S
<1> QED
  BY <1>2, <1>6, <1>7, <1>8

(* A key is handed back once, by the last block that reads it (source.py,  *)
(* _release_schedule).                                                     *)
LEMMA HandedBackOnce ==
  ASSUME NEW blocks, Legible(blocks), NEW k \in KeysOf(blocks), NEW b \in DOMAIN blocks
  PROVE  k \in Release(blocks, FALSE)[b] <=> b = LastUse(blocks, k)
BY FirstAndLast DEF Release

(* The bound of a pass that reads nothing twice holds, for any block, what *)
(* is live there and what the next one reads (scheduler.py,                *)
(* read_ahead_bound).                                                      *)
LEMMA BoundHolds ==
  ASSUME NEW blocks, Legible(blocks), NEW b \in DOMAIN blocks
  PROVE  /\ ReadAheadBound(blocks) \in Nat
         /\ Cardinality(LiveAt(blocks, b)) \in Nat /\ Cardinality(NextKeys(blocks, b)) \in Nat
         /\ Cardinality(LiveAt(blocks, b)) + Cardinality(NextKeys(blocks, b)) <= ReadAheadBound(blocks)
<1> DEFINE room(c) == Cardinality(LiveAt(blocks, c)) + Cardinality(NextKeys(blocks, c))
           S == {room(c) : c \in DOMAIN blocks}
           all == Cardinality(KeysOf(blocks))
<1>1. ASSUME NEW c \in DOMAIN blocks
      PROVE  /\ Cardinality(LiveAt(blocks, c)) \in Nat /\ Cardinality(LiveAt(blocks, c)) <= all
             /\ Cardinality(NextKeys(blocks, c)) \in Nat /\ Cardinality(NextKeys(blocks, c)) <= all
             /\ all \in Nat
  <2>1. LiveAt(blocks, c) \in SUBSET KeysOf(blocks)
    BY DEF LiveAt
  <2>2. NextKeys(blocks, c) \in SUBSET KeysOf(blocks)
    <3>1. c < Len(blocks) => c + 1 \in DOMAIN blocks
      BY DEF Legible
    <3> QED
      BY <3>1 DEF NextKeys, KeysOf
  <2>3. IsFiniteSet(KeysOf(blocks))
    BY DEF Legible
  <2>4. \A T \in SUBSET KeysOf(blocks) : Cardinality(T) \in Nat /\ Cardinality(T) <= all
    BY <2>3, FS_Subset, FS_CardinalityType
  <2>5. all \in Nat
    BY <2>3, FS_CardinalityType
  <2> QED
    BY <2>1, <2>2, <2>4, <2>5
<1>2. \A c \in DOMAIN blocks : room(c) \in Nat /\ room(c) <= 2 * all
  BY <1>1
<1>3. all \in Nat
  BY <1>1
<1> HIDE DEF room, all
<1>4. S \cup {1} \in SUBSET (0 .. (2 * all + 1)) /\ 2 * all + 1 \in Nat /\ S \cup {1} # {}
  BY <1>2, <1>3
<1>5. PICK m \in S \cup {1} : \A x \in S \cup {1} : x <= m
  BY <1>4, LargestOf
<1>6. \A x \in S \cup {1} : x \in Nat
  BY <1>4
<1>7. \A x \in S \cup {1} : m >= x
  BY <1>5, <1>6
<1>8. S # {} /\ room(b) \in S
  OBVIOUS
<1>9. ReadAheadBound(blocks) = Peak(S)
  BY DEF ReadAheadBound, room
<1>10. Peak(S) \in S \cup {1} /\ \A x \in S \cup {1} : Peak(S) >= x
  BY <1>7, <1>8 DEF Peak
<1>11. Peak(S) \in Nat /\ room(b) <= Peak(S)
  <2>1. Peak(S) \in Nat /\ room(b) \in Nat /\ Peak(S) >= room(b)
    BY <1>6, <1>8, <1>10
  <2> QED
    BY <2>1
<1> QED
  BY <1>1, <1>9, <1>11 DEF room

-----------------------------------------------------------------------------
(* The plan of a pass, as the dataset makes it.                            *)

(* Its views can be read, and its draw order has consecutive blocks.       *)
ReadablePlan(p) == Readable(p.config.views) /\ p.config.refSpc \in Nat \ {0}
Planned(p) == p = PlanOf(p.config) /\ ReadablePlan(p) /\ Laid(OrderOf(p.config))
Made(p) == Coherent(p) /\ Planned(p)

LEMMA MadeOf ==
  ASSUME NEW p, Made(p)
  PROVE  /\ Legible(p.blocks)
         /\ p.blocks = BlocksOf(p.config) /\ p.batchSize = p.config.batchSize
         /\ p.release = Release(p.blocks, p.reread)
         /\ p.bound = AheadOf(p.blocks, p.reread)
         /\ Len(p.reads) = Len(OrderOf(p.config).rows)
         /\ p.batchSize \in Nat \ {0}
<1> DEFINE c == p.config
           order == OrderOf(c)
<1>1. /\ p.blocks = Blocks(order, c.views, c.refSpc) /\ p.batchSize = c.batchSize
      /\ p.reread = RereadSpill(c)
      /\ p.release = Release(Blocks(order, c.views, c.refSpc), RereadSpill(c))
      /\ p.bound = AheadOf(Blocks(order, c.views, c.refSpc), RereadSpill(c))
      /\ p.reads = [i \in DOMAIN order.rows |-> BlockReadKeys(<<order.rows[i]>>, c.views, c.refSpc)]
  BY DEF Made, Planned, PlanOf, SchedulerConfig
<1>2. order.rows \in Seq(Nat \X Nat) /\ order.bounds \in Seq(Nat)
  BY DEF Made, Planned, Laid
<1>3. Len(p.reads) = Len(order.rows)
  <2>1. DOMAIN order.rows = 1 .. Len(order.rows) /\ Len(order.rows) \in Nat
    BY <1>2
  <2>2. DOMAIN p.reads = 1 .. Len(order.rows)
    BY <1>1, <2>1
  <2> QED
    BY <1>1, <2>1, <2>2
<1>4. Len(p.blocks) \in Nat /\ DOMAIN p.blocks = 1 .. Len(p.blocks)
  <2>1. NBlocks(order) \in Nat
    BY <1>2 DEF NBlocks, MaxOf
  <2>2. \E f : p.blocks = [b \in 1 .. NBlocks(order) |-> f[b]]
    <3>1. p.blocks = [b \in 1 .. NBlocks(order) |-> p.blocks[b]]
      BY <1>1 DEF Blocks
    <3> QED
      BY <3>1
  <2> QED
    BY <2>1, <2>2
<1>5. IsFiniteSet(KeysOf(p.blocks))
  <2>1. IsFiniteSet(DOMAIN p.weight)
    BY DEF Made, Coherent, Sized
  <2>2. KeysOf(p.blocks) \in SUBSET (DOMAIN p.weight)
    BY <1>4 DEF Made, Coherent, HandedBack, KeysOf
  <2> QED
    BY <2>1, <2>2, FS_Subset
<1>6. p.batchSize \in Nat \ {0}
  BY DEF Made, Coherent, Sized
<1> QED
  BY <1>1, <1>3, <1>4, <1>5, <1>6 DEF BlocksOf, Legible

LEMMA MultiplesAreWhole ==
  ASSUME NEW m \in Nat, NEW size \in Nat \ {0}
  PROVE  (m * size) % size = 0
OBVIOUS

(* The blocks that must be drained before one is needed: all but the one   *)
(* before it, if a batch spans two.                                        *)
LEMMA DrainedBefore ==
  ASSUME Made(plan), BatchesSpanTwoBlocks, NEW b \in 1 .. NBlocksOf
  PROVE  /\ FreedFor(b) \subseteq 1 .. NBlocksOf
         /\ \A c \in FreedFor(b) : c < b
         /\ \A c \in 1 .. NBlocksOf : c + 1 < b => c \in FreedFor(b)
<1> DEFINE first == FirstBatchOf(b)
           size == plan.batchSize
           from == plan.blocks[b].start
           n == NBlocksOf
           spanned == {c \in DOMAIN Blocked : Blocked[c].start < first + size /\ Blocked[c].stop > first}
<1>1. /\ n \in Nat /\ DOMAIN Blocked = 1 .. n /\ size \in Nat \ {0} /\ Config.batchSize = size
      /\ Len(plan.reads) = Len(RowsDrawn)
  BY MadeOf DEF NBlocksOf, Legible, Blocked, Config, RowsDrawn
<1>2. /\ \A c \in 1 .. n : /\ plan.blocks[c].start \in Nat /\ plan.blocks[c].stop \in Nat
                           /\ plan.blocks[c].start < plan.blocks[c].stop
                           /\ plan.blocks[c].stop <= Len(plan.reads)
      /\ \A c \in 1 .. n : \A d \in 1 .. c :
           plan.blocks[d].start <= plan.blocks[c].start /\ plan.blocks[d].stop <= plan.blocks[c].stop
      /\ Len(plan.reads) \in Nat
  BY DEF Made, Coherent, InOrder, Sized, NBlocksOf
<1>3. PICK q \in Nat : q = from \div size /\ q * size <= from /\ from < (q + 1) * size
  <2>1. from \in Nat
    BY <1>2
  <2> HIDE DEF from, size
  <2> QED
    BY <1>1, <2>1, QuotientOf
<1>4. first = q * size /\ first \in Nat /\ first % size = 0 /\ first <= from /\ from < first + size
  <2>1. first = q * size
    BY <1>3 DEF FirstBatchOf
  <2>2. (q + 1) * size = q * size + size /\ q * size \in Nat
    BY <1>1
  <2> QED
    BY <1>1, <1>3, <2>1, <2>2, MultiplesAreWhole
<1>5. first \in {s \in Span(0, Len(RowsDrawn)) : s % Config.batchSize = 0}
  <2>1. from < plan.blocks[b].stop /\ plan.blocks[b].stop <= Len(plan.reads) /\ from \in Nat
    BY <1>2
  <2>2. first < Len(plan.reads)
    BY <1>2, <1>4, <2>1
  <2> QED
    BY <1>1, <1>2, <1>4, <2>2 DEF Span
<1>6. Cardinality(spanned) <= 2
  BY <1>5, <1>1 DEF BatchesSpanTwoBlocks
<1> HIDE DEF first
<1>7. ASSUME NEW c \in FreedFor(b)
      PROVE  c \in 1 .. n /\ c < b
  <2>1. c \in 1 .. n /\ plan.blocks[c].stop <= first
    BY DEF FreedFor, first
  <2>2. plan.blocks[c].stop < plan.blocks[b].stop
    BY <1>2, <1>4, <2>1
  <2>3. ~(b <= c)
    <3> SUFFICES ASSUME b <= c PROVE FALSE
      OBVIOUS
    <3>1. b \in 1 .. c
      BY <1>1, <2>1
    <3> QED
      BY <1>2, <2>1, <2>2, <3>1
  <2> QED
    BY <1>1, <2>1, <2>3
<1>8. ASSUME NEW c \in 1 .. n, c + 1 < b, c \notin FreedFor(b)
      PROVE  FALSE
  <2>1. plan.blocks[c].stop > first
    BY <1>2, <1>4, <1>8 DEF FreedFor, first
  <2>2. /\ c \in Nat /\ b \in Nat /\ c \in 1 .. b /\ c \in 1 .. c + 1 /\ c + 1 \in 1 .. n /\ c + 1 \in 1 .. b
        /\ c # b /\ c # c + 1 /\ c + 1 # b
    BY <1>1, <1>8
  <2>3. \A d \in {c, c + 1, b} : d \in 1 .. n /\ d \in 1 .. b /\ c \in 1 .. d
    BY <2>2
  <2>4. \A d \in {c, c + 1, b} : plan.blocks[d].start < first + size /\ plan.blocks[d].stop > first
    <3> SUFFICES ASSUME NEW d \in {c, c + 1, b}
                 PROVE  plan.blocks[d].start < first + size /\ plan.blocks[d].stop > first
      OBVIOUS
    <3>1. /\ plan.blocks[d].start <= from /\ plan.blocks[c].stop <= plan.blocks[d].stop
          /\ plan.blocks[d].start \in Nat /\ plan.blocks[d].stop \in Nat /\ plan.blocks[c].stop \in Nat
          /\ from \in Nat
      BY <1>2, <2>3
    <3>2. PICK x, y, z, u \in Nat :
            x = plan.blocks[d].start /\ y = plan.blocks[d].stop /\ z = plan.blocks[c].stop /\ u = from
      BY <3>1
    <3>3. PICK w \in Nat : w = size
      BY <1>1
    <3>4. x < first + w /\ y > first
      BY <1>4, <2>1, <3>1, <3>2, <3>3
    <3> QED
      BY <3>2, <3>3, <3>4
  <2>5. {c, c + 1, b} \subseteq spanned
    BY <1>1, <2>3, <2>4 DEF Blocked
  <2>6. Cardinality({c, c + 1, b}) = 3
    BY <2>2, SmallSets
  <2>7. IsFiniteSet(spanned)
    <3>1. IsFiniteSet(1 .. n)
      BY <1>1, FS_Interval
    <3> QED
      BY <1>1, <3>1, FS_Subset
  <2>8. 3 <= Cardinality(spanned) /\ Cardinality(spanned) \in Nat
    BY <2>5, <2>6, <2>7, FS_Subset, FS_CardinalityType
  <2> QED
    BY <1>6, <2>8
<1> QED
  BY <1>7, <1>8

(* Of two finite sets together.                                            *)
LEMMA CountOfBoth ==
  ASSUME NEW S, NEW T, IsFiniteSet(S), IsFiniteSet(T)
  PROVE  IsFiniteSet(S \cup T) /\ Cardinality(S \cup T) <= Cardinality(S) + Cardinality(T)
<1>1. /\ IsFiniteSet(S \cup T)
      /\ Cardinality(S \cup T) = Cardinality(S) + Cardinality(T) - Cardinality(S \cap T)
  BY FS_Union
<1>2. IsFiniteSet(S \cap T)
  BY FS_Intersection
<1>3. Cardinality(S) \in Nat /\ Cardinality(T) \in Nat /\ Cardinality(S \cap T) \in Nat
  BY <1>2, FS_CardinalityType
<1> QED
  BY <1>1, <1>3

(* The bound of a pass that reads nothing twice: what the driver has       *)
(* claimed and no release has handed back is live in the block before the  *)
(* one awaited, or read by the one awaited.                                *)
LEMMA BoundIsEnoughRetained ==
  ASSUME Made(plan), ~plan.reread, ClaimsNoMore(plan), BatchesSpanTwoBlocks
  PROVE  PermitsSuffice
<1> DEFINE n == NBlocksOf
           blocks == plan.blocks
<1>1. /\ Legible(blocks) /\ n \in Nat /\ DOMAIN blocks = 1 .. n
      /\ plan.release = Release(blocks, FALSE) /\ plan.bound = ReadAheadBound(blocks)
  BY MadeOf DEF NBlocksOf, Legible, AheadOf, Release
<1> SUFFICES ASSUME NEW b \in 1 .. n
             PROVE  plan.claimedBy[b] - HandedOver(FreedFor(b)) <= plan.bound
  BY DEF PermitsSuffice
<1> DEFINE F == FreedFor(b)
           given == UNION {plan.release[c] : c \in F}
           claimed == {plan.admissions[i] : i \in 1 .. plan.claimedBy[b]}
           rest == claimed \ given
<1>2. /\ F \subseteq 1 .. n /\ \A c \in F : c < b
      /\ \A c \in 1 .. n : c + 1 < b => c \in F
  BY DrainedBefore
<1>3. /\ plan.claimedBy[b] \in 0 .. Len(plan.admissions) /\ Len(plan.admissions) \in Nat
      /\ \A i, j \in 1 .. Len(plan.admissions) : plan.admissions[i] = plan.admissions[j] => i = j
  <2>1. ClaimedAhead(plan) /\ Sized(plan)
    BY DEF Made, Coherent
  <2> QED
    BY <2>1 DEF ClaimedAhead, Sized, NBlocksOf
<1>4. IsFiniteSet(claimed) /\ plan.claimedBy[b] = Cardinality(claimed)
  <2> DEFINE m == plan.claimedBy[b]
             claim == [i \in 1 .. m |-> plan.admissions[i]]
  <2>1. m \in Nat /\ \A i \in 1 .. m : i \in 1 .. Len(plan.admissions)
    BY <1>3
  <2>2. IsFiniteSet(1 .. m) /\ Cardinality(1 .. m) = m
    <3> HIDE DEF m
    <3>1. 1 \in Int /\ m \in Int /\ (IF 1 > m THEN 0 ELSE m - 1 + 1) = m
      BY <2>1
    <3> QED
      BY <3>1, FS_Interval
  <2>3. claim \in Surjection(1 .. m, claimed) /\ claim \in Injection(1 .. m, claimed)
    <3>1. claim \in [1 .. m -> claimed] /\ \A k \in claimed : \E i \in 1 .. m : claim[i] = k
      OBVIOUS
    <3>2. \A i, j \in 1 .. m : claim[i] = claim[j] => i = j
      BY <1>3, <2>1
    <3> QED
      BY <3>1, <3>2 DEF Surjection, Injection, IsInjective
  <2> HIDE DEF claim, claimed, m
  <2>4. IsFiniteSet(claimed) /\ Cardinality(claimed) = Cardinality(1 .. m)
    BY <2>2, <2>3, FS_Surjection
  <2> QED
    BY <2>2, <2>4 DEF m
<1>5. IsFiniteSet(given) /\ HandedOver(F) = Cardinality(given)
  <2>1. IsFiniteSet(F)
    <3>1. IsFiniteSet(1 .. n)
      BY <1>1, FS_Interval
    <3> QED
      BY <1>2, <3>1, FS_Subset
  <2>2. \A c \in F : /\ IsFiniteSet(plan.release[c]) /\ c \in DOMAIN blocks
                     /\ plan.release[c] \subseteq KeysOf(blocks)
    <3>1. \A c \in 1 .. n : IsFiniteSet(plan.release[c]) /\ plan.release[c] \subseteq blocks[c].keys
      BY DEF Made, Coherent, HandedBack, NBlocksOf
    <3>2. \A c \in DOMAIN blocks : blocks[c].keys \subseteq KeysOf(blocks)
      BY DEF KeysOf
    <3> HIDE DEF n, blocks, F
    <3> QED
      BY <1>1, <1>2, <3>1, <3>2
  <2>3. \A c, d \in F : plan.release[c] \cap plan.release[d] # {} => c = d
    <3> SUFFICES ASSUME NEW c \in F, NEW d \in F, NEW k \in plan.release[c], k \in plan.release[d]
                 PROVE  c = d
      OBVIOUS
    <3>1. /\ c \in DOMAIN blocks /\ d \in DOMAIN blocks /\ k \in KeysOf(blocks)
          /\ k \in Release(blocks, FALSE)[c] /\ k \in Release(blocks, FALSE)[d]
      BY <1>1, <2>2
    <3> HIDE DEF blocks, n, F
    <3>2. c = LastUse(blocks, k)
      BY <1>1, <3>1, HandedBackOnce
    <3>3. d = LastUse(blocks, k)
      BY <1>1, <3>1, HandedBackOnce
    <3> QED
      BY <3>2, <3>3
  <2>4. Apart(plan.release, F)
    BY <2>1, <2>2, <2>3 DEF Apart
  <2>5. /\ IsFiniteSet(UNION {plan.release[c] : c \in F})
        /\ SumOn([c \in F |-> Cardinality(plan.release[c])], F) = Cardinality(UNION {plan.release[c] : c \in F})
    <3> HIDE DEF F, n, blocks, rest, claimed, given
    <3> QED
      BY <2>4, SumOfDisjoint
  <2> QED
    BY <2>5 DEF HandedOver
<1>6. ASSUME NEW k \in rest
      PROVE  /\ k \in KeysOf(blocks) /\ FirstUse(blocks, k) <= b
             /\ b <= LastUse(blocks, k) + 1
  <2>1. PICK i \in 1 .. plan.claimedBy[b] : k = plan.admissions[i]
    OBVIOUS
  <2>2. PICK c \in 1 .. b : k \in blocks[c].keys
    BY <2>1 DEF ClaimsNoMore, NBlocksOf
  <2>3. c \in DOMAIN blocks /\ c \in Nat /\ b \in Nat /\ c <= b
    BY <1>1, <2>2
  <2>4. k \in KeysOf(blocks)
    BY <2>2, <2>3 DEF KeysOf
  <2> DEFINE f == FirstUse(blocks, k)
             l == LastUse(blocks, k)
  <2>5. f \in DOMAIN blocks /\ l \in DOMAIN blocks /\ f <= c
    BY <1>1, <2>2, <2>3, <2>4, FirstAndLast
  <2>6. k \in plan.release[l]
    BY <1>1, <2>4, <2>5, HandedBackOnce
  <2> HIDE DEF f, l
  <2>7. l \notin F
    BY <2>6
  <2>8. ~(l + 1 < b)
    BY <1>1, <1>2, <2>5, <2>7
  <2> QED
    BY <1>1, <2>3, <2>4, <2>5, <2>8 DEF f, l
<1> HIDE DEF F, given, claimed
<1>7. /\ plan.bound \in Nat
      /\ \E S, T : /\ IsFiniteSet(S) /\ IsFiniteSet(T) /\ rest \subseteq S \cup T
                   /\ Cardinality(S) + Cardinality(T) <= plan.bound
  <2>0. /\ IsFiniteSet(KeysOf(blocks)) /\ b \in Nat /\ b \in DOMAIN blocks /\ (b = 1 \/ b - 1 \in DOMAIN blocks)
        /\ n = Len(blocks)
    BY <1>1 DEF Legible, NBlocksOf
  <2> DEFINE a == IF b = 1 THEN b ELSE b - 1
             S == LiveAt(blocks, a)
             T == NextKeys(blocks, a)
  <2>1. a \in DOMAIN blocks /\ a \in Nat
    BY <2>0
  <2>2. /\ plan.bound \in Nat /\ Cardinality(S) \in Nat /\ Cardinality(T) \in Nat
        /\ Cardinality(S) + Cardinality(T) <= plan.bound
    <3> HIDE DEF a, blocks
    <3> QED
      BY <1>1, <2>1, BoundHolds
  <2>3. IsFiniteSet(S) /\ IsFiniteSet(T)
    <3>1. a < Len(blocks) => a + 1 \in DOMAIN blocks
      BY <1>1, <2>0, <2>1
    <3>2. S \in SUBSET KeysOf(blocks) /\ T \in SUBSET KeysOf(blocks)
      BY <3>1 DEF LiveAt, NextKeys, KeysOf
    <3> HIDE DEF S, T, blocks
    <3> QED
      BY <2>0, <3>2, FS_Subset
  <2>4. ASSUME NEW k \in rest
        PROVE  k \in S \cup T
    <3>1. PICK f, l \in 1 .. n : f = FirstUse(blocks, k) /\ l = LastUse(blocks, k)
      BY <1>1, <1>6, FirstAndLast
    <3>2. k \in KeysOf(blocks) /\ f <= b /\ b <= l + 1
      BY <1>6, <3>1
    <3>3. CASE f <= a
      <4>1. a <= l
        BY <1>1, <2>0, <3>1, <3>2, <3>3
      <4> QED
        BY <3>1, <3>2, <3>3, <4>1 DEF LiveAt
    <3>4. CASE ~(f <= a)
      <4>1. f = b /\ a + 1 = b /\ a < Len(blocks)
        BY <1>1, <2>0, <3>1, <3>2, <3>4
      <4>2. k \in blocks[b].keys
        BY <1>1, <1>6, <3>1, <4>1, FirstAndLast
      <4> QED
        BY <4>1, <4>2 DEF NextKeys
    <3> QED
      BY <3>3, <3>4
  <2> HIDE DEF S, T, rest
  <2> QED
    BY <2>2, <2>3, <2>4
<1>8. PICK S, T : /\ IsFiniteSet(S) /\ IsFiniteSet(T) /\ rest \subseteq S \cup T
                  /\ Cardinality(S) + Cardinality(T) <= plan.bound
  BY <1>7
<1>9. Cardinality(claimed) <= Cardinality(given) + (Cardinality(S) + Cardinality(T))
  <2>1. claimed \subseteq given \cup (S \cup T)
    BY <1>8
  <2>2. IsFiniteSet(S \cup T) /\ Cardinality(S \cup T) <= Cardinality(S) + Cardinality(T)
    BY <1>8, CountOfBoth
  <2>3. /\ IsFiniteSet(given \cup (S \cup T))
        /\ Cardinality(given \cup (S \cup T)) <= Cardinality(given) + Cardinality(S \cup T)
    BY <1>5, <2>2, CountOfBoth
  <2>4. Cardinality(claimed) <= Cardinality(given \cup (S \cup T))
    BY <2>1, <2>3, FS_Subset
  <2>5. /\ Cardinality(claimed) \in Nat /\ Cardinality(given) \in Nat
        /\ Cardinality(S \cup T) \in Nat /\ Cardinality(given \cup (S \cup T)) \in Nat
        /\ Cardinality(S) \in Nat /\ Cardinality(T) \in Nat
    BY <1>4, <1>5, <1>8, <2>2, <2>3, FS_CardinalityType
  <2> QED
    BY <2>2, <2>3, <2>4, <2>5
<1>10. /\ Cardinality(claimed) \in Nat /\ Cardinality(given) \in Nat
       /\ Cardinality(S) \in Nat /\ Cardinality(T) \in Nat
  BY <1>4, <1>5, <1>8, FS_CardinalityType
<1> QED
  BY <1>4, <1>5, <1>7, <1>8, <1>9, <1>10 DEF F

(* What three blocks in a row read is within the bound of a pass that      *)
(* rereads.                                                                *)
SizesOf(blocks) == [c \in DOMAIN blocks |-> Cardinality(blocks[c].keys)]

LEMMA SizesCount ==
  ASSUME NEW blocks, Legible(blocks), NEW S \in SUBSET DOMAIN blocks
  PROVE  Counts(SizesOf(blocks), S)
<1>1. ASSUME NEW c \in S
      PROVE  SizesOf(blocks)[c] \in Nat
  <2>1. blocks[c].keys \in SUBSET KeysOf(blocks) /\ c \in DOMAIN blocks
    BY DEF KeysOf
  <2>2. Cardinality(blocks[c].keys) \in Nat
    BY <2>1, FS_Subset, FS_CardinalityType DEF Legible
  <2> QED
    BY <2>1, <2>2 DEF SizesOf
<1>2. IsFiniteSet(DOMAIN blocks)
  BY FS_Interval DEF Legible
<1>3. IsFiniteSet(S)
  BY <1>2, FS_Subset
<1> QED
  BY <1>1, <1>3 DEF Counts

LEMMA ThreeBlocksHeld ==
  ASSUME NEW blocks, Legible(blocks), NEW b \in 1 .. MaxOf(Len(blocks) - 2, 1)
  PROVE  /\ ThreeBlockBound(blocks) \in Nat
         /\ SumOn(SizesOf(blocks), b .. MinOf(b + 2, Len(blocks))) <= ThreeBlockBound(blocks)
<1> DEFINE n == Len(blocks)
           room(c) == SumOn(SizesOf(blocks), c .. MinOf(c + 2, n))
           S == {room(c) : c \in 1 .. MaxOf(n - 2, 1)}
           all == SumOn(SizesOf(blocks), 1 .. n)
<1>1. n \in Nat /\ DOMAIN blocks = 1 .. n
  BY DEF Legible
<1>2. Counts(SizesOf(blocks), 1 .. n)
  BY <1>1, SizesCount
<1>3. ASSUME NEW c \in 1 .. MaxOf(n - 2, 1)
      PROVE  room(c) \in Nat /\ room(c) <= all /\ all \in Nat
  <2>1. c .. MinOf(c + 2, n) \in SUBSET (1 .. n)
    BY <1>1 DEF MinOf
  <2> QED
    BY <1>2, <2>1, SumOfLess
<1>4. all \in Nat
  BY <1>3
<1> HIDE DEF room, all, n
<1>5. S \cup {1} \in SUBSET (0 .. (all + 1)) /\ all + 1 \in Nat /\ S \cup {1} # {}
  BY <1>3, <1>4
<1>6. PICK m \in S \cup {1} : \A x \in S \cup {1} : x <= m
  BY <1>5, LargestOf
<1>7. \A x \in S \cup {1} : x \in Nat
  BY <1>5
<1>8. \A x \in S \cup {1} : m >= x
  BY <1>6, <1>7
<1>9. S # {} /\ room(b) \in S
  BY DEF n
<1>10. ThreeBlockBound(blocks) = Peak(S)
  BY DEF ThreeBlockBound, SizesOf, room, n
<1>11. Peak(S) \in S \cup {1} /\ \A x \in S \cup {1} : Peak(S) >= x
  BY <1>8, <1>9 DEF Peak
<1>12. Peak(S) \in Nat /\ room(b) <= Peak(S)
  <2>1. Peak(S) \in Nat /\ room(b) \in Nat /\ Peak(S) >= room(b)
    BY <1>7, <1>9, <1>11
  <2> QED
    BY <2>1
<1> QED
  BY <1>10, <1>12 DEF room, n

(* The bound of a pass that rereads: a block hands back all that was       *)
(* claimed for it, so that of the claims only those of the block awaited   *)
(* and of the one before it are outstanding.                               *)
LEMMA BoundIsEnoughReread ==
  ASSUME Made(plan), plan.reread, ClaimsNoMore(plan), BatchesSpanTwoBlocks
  PROVE  PermitsSuffice
<1> DEFINE n == NBlocksOf
           blocks == plan.blocks
           sizes == SizesOf(blocks)
<1>1. /\ Legible(blocks) /\ n \in Nat /\ DOMAIN blocks = 1 .. n /\ n = Len(blocks)
      /\ plan.bound = ThreeBlockBound(blocks)
      /\ plan.release = Release(blocks, TRUE)
  BY MadeOf DEF NBlocksOf, Legible, AheadOf, Release
<1>2. \A c \in 1 .. n : plan.release[c] = blocks[c].keys
  BY <1>1 DEF Release
<1> SUFFICES ASSUME NEW b \in 1 .. n
             PROVE  plan.claimedBy[b] - HandedOver(FreedFor(b)) <= plan.bound
  BY DEF PermitsSuffice
<1> DEFINE F == FreedFor(b)
           rest == (1 .. b) \ F
           a == MaxOf(b - 2, 1)
           window == a .. MinOf(a + 2, n)
<1>3. /\ F \subseteq 1 .. n /\ \A c \in F : c < b
      /\ \A c \in 1 .. n : c + 1 < b => c \in F
  BY DrainedBefore
<1>4. plan.claimedBy[b] \in Nat /\ plan.claimedBy[b] <= SumOn(sizes, 1 .. b)
  <2>1. plan.claimedBy[b] \in Nat
    BY DEF Made, Coherent, ClaimedAhead, Sized, NBlocksOf
  <2> QED
    BY <2>1 DEF ClaimsNoMore, SizesOf, NBlocksOf
<1>5. HandedOver(F) = SumOn(sizes, F)
  <2> DEFINE given == [c \in F |-> Cardinality(plan.release[c])]
  <2>1. \A c \in F : given[c] = sizes[c]
    BY <1>1, <1>2, <1>3 DEF SizesOf
  <2>2. SumOn(given, F) = SumOn(sizes, F)
    <3> HIDE DEF given, F, sizes
    <3> QED
      BY <2>1, SumOfSame
  <2> QED
    BY <2>2 DEF HandedOver
<1>6. a \in 1 .. MaxOf(n - 2, 1) /\ b \in Nat /\ b <= n
  BY <1>1 DEF MaxOf
<1>7. rest \subseteq window /\ F \subseteq 1 .. b /\ rest \subseteq 1 .. b /\ window \subseteq 1 .. n
  <2>1. \A c \in 1 .. b : c \notin F => c \in window
    <3> SUFFICES ASSUME NEW c \in 1 .. b, ~(c + 1 < b)
                 PROVE  c \in window
      BY <1>1, <1>3, <1>6
    <3> QED
      BY <1>1, <1>6 DEF MaxOf, MinOf
  <2>2. \A c \in F : c \in 1 .. b
    BY <1>1, <1>3, <1>6
  <2>3. window \subseteq 1 .. n
    BY <1>1, <1>6 DEF MaxOf, MinOf
  <2> QED
    BY <2>1, <2>2, <2>3
<1> HIDE DEF a, window, F, sizes
<1>8. Counts(sizes, 1 .. b) /\ Counts(sizes, window)
  <2>1. 1 .. b \in SUBSET DOMAIN blocks /\ window \in SUBSET DOMAIN blocks
    BY <1>1, <1>6, <1>7
  <2> QED
    BY <1>1, <2>1, SizesCount DEF sizes
<1>9. SumOn(sizes, 1 .. b) = SumOn(sizes, F) + SumOn(sizes, rest)
  <2>1. F \in SUBSET (1 .. b) /\ rest \in SUBSET (1 .. b) /\ F \cup rest = 1 .. b /\ F \cap rest = {}
    BY <1>7
  <2>2. Counts(sizes, F) /\ Counts(sizes, rest)
    BY <1>8, <2>1, SumOfLess
  <2> QED
    BY <2>1, <2>2, SumOverBoth
<1>10. /\ SumOn(sizes, rest) <= SumOn(sizes, window)
       /\ SumOn(sizes, rest) \in Nat /\ SumOn(sizes, window) \in Nat /\ SumOn(sizes, F) \in Nat
  <2>1. rest \in SUBSET window /\ F \in SUBSET (1 .. b)
    BY <1>7
  <2> QED
    BY <1>8, <2>1, SumOfLess
<1>11. plan.bound \in Nat /\ SumOn(sizes, window) <= plan.bound
  BY <1>1, <1>6, ThreeBlocksHeld DEF sizes, window
<1> QED
  BY <1>4, <1>5, <1>9, <1>10, <1>11 DEF F

(* The bound that the scheduler is given is enough: where a batch spans    *)
(* two blocks at most the driver never needs more permits at once than the *)
(* dataset computed, whether the pass rereads or not (scheduler.py,        *)
(* read_ahead_bound; source.py, _iterate).                                 *)
THEOREM BoundIsEnough ==
  ASSUME Made(plan), ClaimsNoMore(plan), BatchesSpanTwoBlocks
  PROVE  PermitsSuffice
BY BoundIsEnoughRetained, BoundIsEnoughReread

-----------------------------------------------------------------------------
(* What the driver claims, block by block.                                 *)

(* A sample of an array is in one of its chunks.                           *)
LEMMA SampleInChunk ==
  ASSUME NEW view, NSamples(view) \in Nat, SampleChunkSize(view) \in Nat \ {0}, NEW x \in Span(0, NSamples(view))
  PROVE  ChunkOf(view, x) \in Span(0, NChunks(view))
<1> DEFINE n == NSamples(view)
           d == SampleChunkSize(view)
<1>1. x \in Nat /\ x < n /\ n \in Nat /\ d \in Nat \ {0}
  BY DEF Span
<1> HIDE DEF n, d
<1>2. PICK q \in Nat : q = x \div d /\ q * d <= x
  BY <1>1, QuotientOf
<1>3. CeilDiv(n, d) \in Nat /\ (q < CeilDiv(n, d) <=> q * d < n)
  BY <1>1, <1>2, CeilingIs
<1>4. q * d < n
  <2>1. PICK y \in Nat : y = q * d
    BY <1>1, <1>2
  <2> QED
    BY <1>1, <1>2, <2>1
<1>5. q \in 0 .. CeilDiv(n, d) - 1
  BY <1>2, <1>3, <1>4
<1> QED
  BY <1>2, <1>5 DEF ChunkOf, NChunks, Span, n, d

ReadableKeys(views) == UNION {{views[v].path} \X Span(0, NChunks(views[v])) : v \in DOMAIN views}

ChunksRead(reads, view, cid, refSpc) ==
  /\ reads \in Seq(Nat) /\ \A i \in DOMAIN reads : reads[i] \in Span(0, NChunks(view))
  /\ Terms(reads) = {ChunkOf(view, x) : x \in SamplesRead(view, cid, refSpc)}

LEMMA ReadChunksAre ==
  ASSUME NEW view, NSamples(view) \in Nat, SampleChunkSize(view) \in Nat \ {0}, view.offset \in Int,
         NEW refSpc \in Nat \ {0}, NEW cid \in Nat
  PROVE  ChunksRead(ReadChunks(view, cid, refSpc), view, cid, refSpc)
<1> DEFINE n == NSamples(view)
           d == SampleChunkSize(view)
           o == view.offset
           from == cid * refSpc
           lo == MaxOf(0, from + o)
           hi == MinOf(n - 1, MinOf(from + refSpc, n) - 1 + o)
           k == IF lo > hi THEN 0 ELSE hi \div d - lo \div d + 1
           reads == ReadChunks(view, cid, refSpc)
<1>1. reads = [i \in 1 .. k |-> lo \div d + i - 1]
  BY DEF ReadChunks
<1>2. from \in Nat /\ n \in Nat /\ o \in Int /\ d \in Nat \ {0}
  OBVIOUS
<1>3. lo \in Nat /\ hi \in Int /\ (lo <= hi => hi \in Nat)
  BY <1>2 DEF MaxOf, MinOf
<1> HIDE DEF n, d, o, from, lo, hi
<1>4. PICK p \in Nat : p = lo \div d
  BY <1>2, <1>3, QuotientOf
<1>5. k \in Int
  BY <1>2, <1>3, <1>4, QuotientOf
<1> HIDE DEF k, reads
<1>6. reads = [i \in 1 .. k |-> p + i - 1] /\ \A i \in 1 .. k : p + i - 1 \in Nat
  BY <1>1, <1>4, <1>5
<1>7. \E m \in Nat : 1 .. k = 1 .. m
  <2>1. CASE k >= 0
    BY <1>5, <2>1
  <2>2. CASE ~(k >= 0)
    <3>1. 1 .. k = 1 .. 0 /\ 0 \in Nat
      BY <1>5, <2>2
    <3> QED
      BY <3>1
  <2> QED
    BY <2>1, <2>2
<1>8. PICK m \in Nat : 1 .. k = 1 .. m
  BY <1>7
<1>9. reads = [i \in 1 .. m |-> p + i - 1] /\ \A i \in 1 .. m : p + i - 1 \in Nat
  BY <1>6, <1>8
<1>10. reads \in Seq(Nat) /\ DOMAIN reads = 1 .. Len(reads)
  BY <1>9
<1>11. ToSet(reads) = {ChunkOf(view, x) : x \in SamplesRead(view, cid, refSpc)}
  BY DriverReadsWhatAnchorsNeed DEF reads
<1>12. \A x \in SamplesRead(view, cid, refSpc) : ChunkOf(view, x) \in Span(0, NChunks(view))
  <2>1. \A x \in SamplesRead(view, cid, refSpc) : x \in Span(0, NSamples(view))
    BY DEF SamplesRead
  <2> QED
    BY <2>1, SampleInChunk
<1>13. \A i \in DOMAIN reads : reads[i] \in ToSet(reads)
  BY DEF ToSet
<1>14. \A i \in DOMAIN reads : reads[i] \in Span(0, NChunks(view))
  BY <1>11, <1>12, <1>13
<1>15. Terms(reads) = ToSet(reads)
  BY <1>10 DEF Terms, ToSet
<1> QED
  BY <1>10, <1>11, <1>14, <1>15 DEF ChunksRead, reads

(* The keys that the anchors of a chunk read, and those of some chunks.    *)
KeysOfAnchor(cid, views, refSpc) ==
  UNION {{<<views[v].path, ChunkOf(views[v], x)>> : x \in SamplesRead(views[v], cid, refSpc)} : v \in DOMAIN views}

LEMMA ReadsOfAnchorAre ==
  ASSUME NEW views, Readable(views), NEW refSpc \in Nat \ {0}, NEW cid \in Nat
  PROVE  /\ ReadsOfAnchor(cid, views, refSpc) \in Seq(ReadableKeys(views))
         /\ Terms(ReadsOfAnchor(cid, views, refSpc)) = KeysOfAnchor(cid, views, refSpc)
<1> DEFINE chunks(v) == ReadChunks(views[v], cid, refSpc)
           parts == [v \in DOMAIN views |-> [i \in DOMAIN chunks(v) |-> <<views[v].path, chunks(v)[i]>>]]
           E == ReadableKeys(views)
           keys(v) == {<<views[v].path, ChunkOf(views[v], x)>> : x \in SamplesRead(views[v], cid, refSpc)}
<1>1. ReadsOfAnchor(cid, views, refSpc) = FlattenSeq(parts)
  BY DEF ReadsOfAnchor
<1>2. PICK n \in Nat : n = Len(views) /\ DOMAIN views = 1 .. n
  BY Zenon DEF Readable
<1>3. ASSUME NEW v \in 1 .. n
      PROVE  parts[v] \in Seq(E) /\ Terms(parts[v]) = keys(v)
  <2>1. /\ chunks(v) \in Seq(Nat) /\ \A i \in DOMAIN chunks(v) : chunks(v)[i] \in Span(0, NChunks(views[v]))
        /\ Terms(chunks(v)) = {ChunkOf(views[v], x) : x \in SamplesRead(views[v], cid, refSpc)}
    <3>1. NSamples(views[v]) \in Nat /\ SampleChunkSize(views[v]) \in Nat \ {0} /\ views[v].offset \in Int
      BY <1>2 DEF Readable
    <3>2. ChunksRead(ReadChunks(views[v], cid, refSpc), views[v], cid, refSpc)
      BY <3>1, ReadChunksAre
    <3> QED
      BY <3>2 DEF ChunksRead
  <2>2. v \in DOMAIN views /\ parts[v] = [i \in DOMAIN chunks(v) |-> <<views[v].path, chunks(v)[i]>>]
    BY <1>2
  <2> HIDE DEF chunks, parts
  <2>3a. chunks(v) \in Seq(Nat)
    BY <2>1
  <2>3b. \A s \in Seq(Nat) : Len(s) \in Nat /\ DOMAIN s = 1 .. Len(s)
    OBVIOUS
  <2>3. PICK m \in Nat : m = Len(chunks(v)) /\ DOMAIN chunks(v) = 1 .. m
    BY <2>3a, <2>3b
  <2>4a. \A c \in Span(0, NChunks(views[v])) : <<views[v].path, c>> \in E
    <3>1. ASSUME NEW c \in Span(0, NChunks(views[v]))
          PROVE  <<views[v].path, c>> \in {views[v].path} \X Span(0, NChunks(views[v]))
      BY SMT
    <3> QED
      BY <2>2, <3>1 DEF ReadableKeys
  <2>4b. \A i \in 1 .. m : chunks(v)[i] \in Span(0, NChunks(views[v]))
    BY <2>1, <2>3
  <2>4. \A i \in 1 .. m : <<views[v].path, chunks(v)[i]>> \in E
    BY <2>4a, <2>4b
  <2>5. parts[v] = [i \in 1 .. m |-> <<views[v].path, chunks(v)[i]>>]
    BY <2>2, <2>3
  <2> HIDE DEF E, keys
  <2>6. parts[v] \in Seq(E) /\ Len(parts[v]) = m /\ \A i \in 1 .. m : parts[v][i] = <<views[v].path, chunks(v)[i]>>
    BY <2>4, <2>5
  <2>7. Terms(parts[v]) = {<<views[v].path, chunks(v)[i]>> : i \in 1 .. m}
    BY <2>6 DEF Terms
  <2>8. Terms(chunks(v)) = {chunks(v)[i] : i \in 1 .. m}
    BY <2>3 DEF Terms
  <2>9. {<<views[v].path, chunks(v)[i]>> : i \in 1 .. m} = {<<views[v].path, c>> : c \in Terms(chunks(v))}
    BY <2>8
  <2>10. {<<views[v].path, c>> : c \in Terms(chunks(v))} = keys(v)
    BY <2>1 DEF keys
  <2> QED
    BY <2>6, <2>7, <2>9, <2>10
<1>4. Rowed(parts, n, E)
  <2>1. parts = [v \in 1 .. n |-> [i \in DOMAIN chunks(v) |-> <<views[v].path, chunks(v)[i]>>]]
    BY <1>2
  <2>2. DOMAIN parts = 1 .. n /\ Len(parts) = n /\ parts = [v \in 1 .. n |-> parts[v]]
    BY <2>1
  <2>3. \A v \in 1 .. n : parts[v] \in Seq(E)
    BY <1>3
  <2> HIDE DEF parts, E
  <2> QED
    BY <2>2, <2>3 DEF Rowed
<1> HIDE DEF parts, E, keys
<1>5. FlattenSeq(parts) \in Seq(E) /\ Terms(FlattenSeq(parts)) = TermsUpTo(parts, n)
  BY <1>4, Joined
<1>6. TermsUpTo(parts, n) = UNION {keys(v) : v \in 1 .. n}
  BY <1>3 DEF TermsUpTo
<1> QED
  BY <1>1, <1>2, <1>5, <1>6 DEF KeysOfAnchor, keys, E

KeysOfAnchors(C, views, refSpc) == UNION {KeysOfAnchor(cid, views, refSpc) : cid \in C}

(* Some reads are the keys of a set, each where it comes first.            *)
ReadsAre(reads, keys, views) ==
  \E s \in Seq(ReadableKeys(views)) : reads = Unseen(s) /\ Terms(s) = keys

LEMMA ReadsOfBlockAre ==
  ASSUME NEW views, Readable(views), NEW refSpc \in Nat \ {0}, NEW chunks \in Seq(Nat)
  PROVE  ReadsAre(ReadsOfBlock(chunks, views, refSpc), KeysOfAnchors(Terms(chunks), views, refSpc), views)
<1> DEFINE parts == [i \in DOMAIN chunks |-> ReadsOfAnchor(chunks[i], views, refSpc)]
           E == ReadableKeys(views)
<1>0. PICK n \in Nat : n = Len(chunks) /\ DOMAIN chunks = 1 .. n /\ \A i \in 1 .. n : chunks[i] \in Nat
  OBVIOUS
<1>1. \A i \in 1 .. n : parts[i] \in Seq(E) /\ Terms(parts[i]) = KeysOfAnchor(chunks[i], views, refSpc)
  BY <1>0, ReadsOfAnchorAre
<1>2. DOMAIN parts = 1 .. n /\ Len(parts) = n /\ parts = [i \in 1 .. n |-> parts[i]]
  <2>1. parts = [i \in 1 .. n |-> ReadsOfAnchor(chunks[i], views, refSpc)]
    BY <1>0
  <2> QED
    BY <2>1
<1>3. ReadsOfBlock(chunks, views, refSpc) = Unseen(FlattenSeq(parts))
  BY DEF ReadsOfBlock
<1> HIDE DEF parts, E
<1>4. Rowed(parts, n, E)
  BY <1>1, <1>2 DEF Rowed
<1>5. FlattenSeq(parts) \in Seq(E) /\ Terms(FlattenSeq(parts)) = TermsUpTo(parts, n)
  BY <1>4, Joined
<1>6. TermsUpTo(parts, n) = UNION {KeysOfAnchor(chunks[i], views, refSpc) : i \in 1 .. n}
  BY <1>1 DEF TermsUpTo
<1>7. UNION {KeysOfAnchor(chunks[i], views, refSpc) : i \in 1 .. n} = KeysOfAnchors(Terms(chunks), views, refSpc)
  <2>1. Terms(chunks) = {chunks[i] : i \in 1 .. n}
    BY <1>0 DEF Terms
  <2>2. PICK held : held = Terms(chunks)
    OBVIOUS
  <2>3. KeysOfAnchors(held, views, refSpc) = UNION {KeysOfAnchor(cid, views, refSpc) : cid \in held}
    BY DEF KeysOfAnchors
  <2> QED
    BY <2>1, <2>2, <2>3
<1> QED
  BY <1>3, <1>5, <1>6, <1>7 DEF E, ReadsAre

(* The blocks of a plan, and the rows of one.                              *)
LEMMA PlannedBlocks ==
  ASSUME NEW p, Planned(p)
  PROVE  LET order == OrderOf(p.config)
         IN  /\ Len(p.blocks) \in Nat /\ DOMAIN p.blocks = 1 .. Len(p.blocks)
             /\ Len(p.blocks) + 1 = Len(order.bounds)
             /\ p.blocks = Blocks(order, p.config.views, p.config.refSpc)
             /\ DOMAIN p.reads = 1 .. Len(order.rows) /\ Len(p.reads) = Len(order.rows)
             /\ \A b \in 1 .. Len(p.blocks) :
                  /\ order.bounds[b] \in Nat /\ order.bounds[b + 1] \in Nat
                  /\ order.bounds[b] < order.bounds[b + 1] /\ order.bounds[b + 1] <= Len(order.rows)
                  /\ p.blocks[b].start = order.bounds[b] /\ p.blocks[b].stop = order.bounds[b + 1]
                  /\ p.blocks[b].chunks = AnchorChunks(BlockRows(order, b))
                  /\ p.blocks[b].keys = BlockReadKeys(BlockRows(order, b), p.config.views, p.config.refSpc)
<1> DEFINE order == OrderOf(p.config)
           n == Len(order.bounds) - 1
           views == p.config.views
           spc == p.config.refSpc
<1>1. /\ order.rows \in Seq(Nat \X Nat) /\ order.bounds \in Seq(Nat) /\ Len(order.bounds) > 0
      /\ order.bounds[Len(order.bounds)] = Len(order.rows)
      /\ \A a, b \in 1 .. Len(order.bounds) : a < b => order.bounds[a] < order.bounds[b]
  BY DEF Planned, Laid
<1>2. p.blocks = Blocks(order, views, spc) /\ p.reads = [i \in DOMAIN order.rows |-> BlockReadKeys(<<order.rows[i]>>, views, spc)]
  <2>1. p = PlanOf(p.config)
    BY DEF Planned
  <2> HIDE DEF order, views, spc
  <2>2. PlanOf(p.config).blocks = Blocks(order, views, spc)
    BY DEF PlanOf, order, views, spc
  <2>3. PlanOf(p.config).reads = [i \in DOMAIN order.rows |-> BlockReadKeys(<<order.rows[i]>>, views, spc)]
    BY DEF PlanOf, order, views, spc
  <2> QED
    BY <2>1, <2>2, <2>3
<1> HIDE DEF order, views, spc
<1>3. Len(order.bounds) \in Nat /\ n \in Nat /\ NBlocks(order) = n
  BY <1>1 DEF NBlocks, MaxOf
<1>4. /\ DOMAIN p.blocks = 1 .. n /\ Len(p.blocks) = n
      /\ \A b \in 1 .. n :
           /\ p.blocks[b].start = order.bounds[b] /\ p.blocks[b].stop = order.bounds[b + 1]
           /\ p.blocks[b].chunks = AnchorChunks(BlockRows(order, b))
           /\ p.blocks[b].keys = BlockReadKeys(BlockRows(order, b), views, spc)
  BY <1>2, <1>3 DEF Blocks
<1>5. DOMAIN p.reads = 1 .. Len(order.rows) /\ Len(p.reads) = Len(order.rows)
  <2>1. DOMAIN order.rows = 1 .. Len(order.rows) /\ Len(order.rows) \in Nat
    BY <1>1
  <2>2. p.reads = [i \in 1 .. Len(order.rows) |-> BlockReadKeys(<<order.rows[i]>>, views, spc)]
    BY <1>2, <2>1
  <2> QED
    BY <2>1, <2>2
<1>6. ASSUME NEW b \in 1 .. n
      PROVE  /\ order.bounds[b] \in Nat /\ order.bounds[b + 1] \in Nat
             /\ order.bounds[b] < order.bounds[b + 1] /\ order.bounds[b + 1] <= Len(order.rows)
  <2>1. PICK m \in Nat : m = Len(order.bounds) /\ n = m - 1
    BY <1>3
  <2>2. b \in 1 .. m /\ b + 1 \in 1 .. m /\ m \in 1 .. m /\ b < b + 1
    BY <2>1
  <2>3. \A x \in 1 .. m : order.bounds[x] \in Nat
    <3>1. PICK s \in Seq(Nat) : s = order.bounds
      BY <1>1
    <3>2. \A x \in 1 .. Len(s) : s[x] \in Nat
      OBVIOUS
    <3> QED
      BY <2>1, <3>1, <3>2
  <2>4. CASE b + 1 = m
    BY <1>1, <2>1, <2>2, <2>3, <2>4
  <2>5. CASE b + 1 # m
    <3>1. b + 1 < m
      BY <2>2, <2>5
    <3>2. order.bounds[b + 1] < order.bounds[m]
      BY <1>1, <2>1, <2>2, <3>1
    <3>3. order.bounds[m] = Len(order.rows)
      BY <1>1, <2>1
    <3>4. order.bounds[b] < order.bounds[b + 1]
      BY <1>1, <2>1, <2>2
    <3>5. PICK low \in Nat, high \in Nat, last \in Nat :
            low = order.bounds[b] /\ high = order.bounds[b + 1] /\ last = order.bounds[m]
      BY <2>2, <2>3
    <3>6. high <= last
      BY <3>2, <3>5
    <3> QED
      BY <3>3, <3>4, <3>5, <3>6
  <2> QED
    BY <2>4, <2>5
<1> QED
  BY <1>2, <1>3, <1>4, <1>5, <1>6, SMTT(30) DEF order, views, spc

(* What a slice of a sequence holds.                                       *)
Sliced(t, s, lo, hi, E) ==
  /\ t \in Seq(E) /\ DOMAIN t = 1 .. Len(t) /\ Len(t) = hi - lo
  /\ Terms(t) = {s[i] : i \in (lo + 1) .. hi}
  /\ (lo + 1) .. hi \subseteq 1 .. Len(s)

LEMMA SliceIs ==
  ASSUME NEW E, NEW s \in Seq(E), NEW lo \in Nat, NEW hi \in Nat, lo < hi, hi <= Len(s)
  PROVE  Sliced(SubSeq(s, lo + 1, hi), s, lo, hi, E)
<1> DEFINE t == SubSeq(s, lo + 1, hi)
<1>1. PICK r \in Nat : r = Len(s) /\ DOMAIN s = 1 .. r
  OBVIOUS
<1>2. PICK m \in Nat : m = hi - lo
  OBVIOUS
<1>3. t = [j \in 1 .. m |-> s[lo + j]]
  BY <1>1, <1>2
<1> HIDE DEF t
<1>4. \A j \in 1 .. m : lo + j \in 1 .. r /\ lo + j \in (lo + 1) .. hi
  BY <1>1, <1>2
<1>5. \A i \in (lo + 1) .. hi : i - lo \in 1 .. m /\ lo + (i - lo) = i /\ i \in 1 .. r
  BY <1>1, <1>2
<1>6. \A j \in 1 .. m : s[lo + j] \in E
  <2>1. \A i \in 1 .. r : s[i] \in E
    BY <1>1
  <2> QED
    BY <1>4, <2>1
<1>7. t \in Seq(E) /\ Len(t) = m /\ DOMAIN t = 1 .. m /\ \A j \in 1 .. m : t[j] = s[lo + j]
  BY <1>3, <1>6
<1>8. Terms(t) = {s[lo + j] : j \in 1 .. m}
  BY <1>7 DEF Terms
<1>9. {s[lo + j] : j \in 1 .. m} = {s[i] : i \in (lo + 1) .. hi}
  BY <1>4, <1>5
<1> QED
  BY <1>1, <1>2, <1>5, <1>7, <1>8, <1>9 DEF Sliced, t

LEMMA BlockRowsAre ==
  ASSUME NEW p, Planned(p), NEW b \in 1 .. Len(p.blocks)
  PROVE  LET order == OrderOf(p.config)
             rows == BlockRows(order, b)
         IN  /\ rows \in Seq(Nat \X Nat) /\ DOMAIN rows = 1 .. Len(rows)
             /\ Terms(rows) = {order.rows[i] : i \in (p.blocks[b].start + 1) .. p.blocks[b].stop}
             /\ (p.blocks[b].start + 1) .. p.blocks[b].stop \subseteq 1 .. Len(order.rows)
<1> DEFINE order == OrderOf(p.config)
           rows == BlockRows(order, b)
<1>1. /\ p.blocks[b].start \in Nat /\ p.blocks[b].stop \in Nat /\ p.blocks[b].start < p.blocks[b].stop
      /\ p.blocks[b].stop <= Len(order.rows)
      /\ rows = SubSeq(order.rows, p.blocks[b].start + 1, p.blocks[b].stop)
  <2>1. /\ order.bounds[b] \in Nat /\ order.bounds[b + 1] \in Nat
        /\ order.bounds[b] < order.bounds[b + 1] /\ order.bounds[b + 1] <= Len(order.rows)
        /\ p.blocks[b].start = order.bounds[b] /\ p.blocks[b].stop = order.bounds[b + 1]
    BY PlannedBlocks, SMTT(30)
  <2>2. rows = SubSeq(order.rows, order.bounds[b] + 1, order.bounds[b + 1])
    BY DEF BlockRows
  <2> HIDE DEF order, rows
  <2> QED
    BY <2>1, <2>2
<1>2. order.rows \in Seq(Nat \X Nat) /\ Len(order.rows) \in Nat
  BY DEF Planned, Laid
<1>3. PICK lo \in Nat, hi \in Nat : lo = p.blocks[b].start /\ hi = p.blocks[b].stop
  BY <1>1
<1> HIDE DEF order, rows
<1>4. lo < hi /\ hi <= Len(order.rows) /\ rows = SubSeq(order.rows, lo + 1, hi)
  BY <1>1, <1>3
<1>5. Sliced(rows, order.rows, lo, hi, Nat \X Nat)
  BY <1>2, <1>4, SliceIs
<1> QED
  BY <1>3, <1>5 DEF order, rows, Sliced

(* The anchor chunks of a block, in ascending order.                       *)
LEMMA GroupsAre ==
  ASSUME NEW p, Planned(p), NEW b \in 1 .. Len(p.blocks)
  PROVE  GroupsOf(p.blocks)[b] \in Seq(Nat) /\ Terms(GroupsOf(p.blocks)[b]) = p.blocks[b].chunks
<1> DEFINE chunks == p.blocks[b].chunks
           rows == BlockRows(OrderOf(p.config), b)
<1>1. /\ DOMAIN p.blocks = 1 .. Len(p.blocks) /\ chunks = AnchorChunks(rows)
  BY PlannedBlocks
<1>2. rows \in Seq(Nat \X Nat)
  BY BlockRowsAre
<1> HIDE DEF rows, chunks
<1>3. chunks \in SUBSET Nat /\ IsFiniteSet(chunks)
  <2>1. chunks = {rows[i][1] : i \in DOMAIN rows}
    BY <1>1 DEF AnchorChunks
  <2>2. PICK m \in Nat : DOMAIN rows = 1 .. m /\ \A i \in 1 .. m : rows[i] \in Nat \X Nat
    BY <1>2
  <2>3. [i \in 1 .. m |-> rows[i][1]] \in Surjection(1 .. m, chunks)
    <3>1. \A i \in 1 .. m : rows[i][1] \in chunks
      BY <2>1, <2>2
    <3>2. \A c \in chunks : \E i \in 1 .. m : rows[i][1] = c
      BY <2>1, <2>2
    <3> QED
      BY <3>1, <3>2 DEF Surjection
  <2>4. IsFiniteSet(1 .. m)
    BY FS_Interval
  <2>5. IsFiniteSet(chunks)
    BY <2>3, <2>4, FS_Surjection
  <2> QED
    BY <2>1, <2>2, <2>5
<1>4. GroupsOf(p.blocks)[b] = Ascending(chunks)
  BY <1>1 DEF GroupsOf, chunks
<1>5. /\ Cardinality(chunks) \in Nat /\ Ascending(chunks) \in [1 .. Cardinality(chunks) -> chunks]
      /\ \A x \in chunks : RankIn(chunks, x) \in 1 .. Cardinality(chunks) /\ Ascending(chunks)[RankIn(chunks, x)] = x
  BY <1>3, AscendingCounts, RankCounts
<1>6. PICK m \in Nat : m = Cardinality(chunks)
  BY <1>5
<1>7. Ascending(chunks) \in Seq(Nat) /\ Len(Ascending(chunks)) = m
  <2>1. Ascending(chunks) \in [1 .. m -> Nat]
    BY <1>3, <1>5, <1>6
  <2> QED
    BY <1>6, <2>1
<1>8. {Ascending(chunks)[i] : i \in 1 .. m} = chunks
  BY <1>5, <1>6
<1> QED
  BY <1>4, <1>7, <1>8 DEF chunks, Terms

(* The reads of the blocks of a plan, and of its first b blocks.           *)
ReadsOfPlan(p, b) ==
  [c \in 1 .. b |-> ReadsOfBlock(GroupsOf(p.blocks)[c], p.config.views, p.config.refSpc)]

LEMMA ReadsOfPlanAre ==
  ASSUME NEW p, Planned(p)
  PROVE  \A c \in 1 .. Len(p.blocks) :
           ReadsAre(ReadsOfBlock(GroupsOf(p.blocks)[c], p.config.views, p.config.refSpc),
                    KeysOfAnchors(p.blocks[c].chunks, p.config.views, p.config.refSpc), p.config.views)
<1> SUFFICES ASSUME NEW c \in 1 .. Len(p.blocks)
             PROVE  ReadsAre(ReadsOfBlock(GroupsOf(p.blocks)[c], p.config.views, p.config.refSpc),
                             KeysOfAnchors(p.blocks[c].chunks, p.config.views, p.config.refSpc), p.config.views)
  OBVIOUS
<1>1. GroupsOf(p.blocks)[c] \in Seq(Nat) /\ Terms(GroupsOf(p.blocks)[c]) = p.blocks[c].chunks
  BY GroupsAre
<1>2. Readable(p.config.views) /\ p.config.refSpc \in Nat \ {0}
  BY DEF Planned, ReadablePlan
<1> QED
  BY <1>1, <1>2, ReadsOfBlockAre

LEMMA ReadsHold ==
  ASSUME NEW p, Planned(p), NEW c \in 1 .. Len(p.blocks)
  PROVE  LET reads == ReadsOfPlan(p, Len(p.blocks))[c]
         IN  /\ reads \in Seq(ReadableKeys(p.config.views))
             /\ Terms(reads) = KeysOfAnchors(p.blocks[c].chunks, p.config.views, p.config.refSpc)
             /\ Len(reads) = Cardinality(Terms(reads))
<1> DEFINE reads == ReadsOfPlan(p, Len(p.blocks))[c]
           keys == KeysOfAnchors(p.blocks[c].chunks, p.config.views, p.config.refSpc)
           E == ReadableKeys(p.config.views)
<1>1. reads = ReadsOfBlock(GroupsOf(p.blocks)[c], p.config.views, p.config.refSpc)
  BY DEF ReadsOfPlan
<1>2. ReadsAre(reads, keys, p.config.views)
  BY <1>1, ReadsOfPlanAre
<1> HIDE DEF reads, keys, E
<1>3. PICK s \in Seq(E) : reads = Unseen(s) /\ Terms(s) = keys
  BY <1>2 DEF ReadsAre, E
<1>4. reads \in Seq(E) /\ Terms(reads) = Terms(s) /\ Len(reads) = Cardinality(Terms(s))
  BY <1>3, UnseenHolds
<1> QED
  BY <1>3, <1>4 DEF reads, keys, E

(* What the driver has admitted when it is through with block b begins all *)
(* that it admits.                                                         *)
LEMMA ClaimsBegin ==
  ASSUME NEW p, Planned(p), NEW b \in 1 .. Len(p.blocks)
  PROVE  \E flat, all :
           /\ flat = FlattenSeq(ReadsOfPlan(p, b)) /\ all \in Seq(ReadableKeys(p.config.views))
           /\ flat \in Seq(ReadableKeys(p.config.views)) /\ Begins(flat, all)
           /\ Terms(flat) = TermsUpTo(ReadsOfPlan(p, Len(p.blocks)), b)
           /\ p.claimedBy[b] = Len(IF p.reread THEN flat ELSE Unseen(flat))
           /\ p.admissions = (IF p.reread THEN all ELSE Unseen(all))
<1> DEFINE n == Len(p.blocks)
           groups == GroupsOf(p.blocks)
           views == p.config.views
           spc == p.config.refSpc
           E == ReadableKeys(views)
           seqs == ReadsOfPlan(p, n)
           first == ReadsOfPlan(p, b)
           begun == SubSeq(groups, 1, b)
<1>1. /\ n \in Nat /\ b \in 1 .. n /\ DOMAIN p.blocks = 1 .. n
      /\ p.reread = RereadSpill(p.config)
      /\ p.admissions = Admissions(groups, views, spc, p.reread)
      /\ p.claimedBy = ClaimedBy(groups, views, spc, p.reread)
  <2>1. p = PlanOf(p.config) /\ Len(p.blocks) \in Nat /\ DOMAIN p.blocks = 1 .. Len(p.blocks)
    BY PlannedBlocks DEF Planned
  <2>2. p.reread = RereadSpill(p.config)
    BY <2>1 DEF PlanOf
  <2>3. /\ p.admissions = Admissions(GroupsOf(p.blocks), p.config.views, p.config.refSpc, p.reread)
        /\ p.claimedBy = ClaimedBy(GroupsOf(p.blocks), p.config.views, p.config.refSpc, p.reread)
    BY <2>1 DEF PlanOf
  <2> QED
    BY <2>1, <2>2, <2>3
<1>2. \A c \in 1 .. n : seqs[c] \in Seq(E)
  BY ReadsHold
<1>3. /\ Len(seqs) = n /\ Len(first) = b /\ \A c \in 1 .. b : first[c] = seqs[c]
      /\ b \in Nat
  <2>1. b \in Nat /\ \A c \in 1 .. b : c \in 1 .. n
    BY <1>1
  <2>2. Len(seqs) = n /\ Len(first) = b
    BY <1>1, <2>1 DEF ReadsOfPlan
  <2> QED
    BY <2>1, <2>2 DEF ReadsOfPlan
<1>4. DOMAIN groups = 1 .. n
  BY <1>1 DEF GroupsOf
<1>5. /\ DOMAIN begun = 1 .. b /\ \A c \in 1 .. b : begun[c] = groups[c]
  <2>1. groups \in Seq({groups[c] : c \in 1 .. n})
    <3>1. groups = [c \in 1 .. n |-> groups[c]]
      BY <1>1 DEF GroupsOf
    <3> HIDE DEF groups, n
    <3> QED
      BY <1>1, <3>1
  <2> HIDE DEF groups, n
  <2>2. Len(groups) = n
    BY <1>1, <1>4, <2>1
  <2> QED
    BY <1>1, <1>3, <2>1, <2>2
<1>6. seqs = [c \in DOMAIN groups |-> ReadsOfBlock(groups[c], views, spc)]
  BY <1>4 DEF ReadsOfPlan
<1>7. first = [c \in DOMAIN begun |-> ReadsOfBlock(begun[c], views, spc)]
  BY <1>5 DEF ReadsOfPlan
<1>8. /\ p.admissions = (IF p.reread THEN FlattenSeq(seqs) ELSE Unseen(FlattenSeq(seqs)))
      /\ p.claimedBy[b] = Len(IF p.reread THEN FlattenSeq(first) ELSE Unseen(FlattenSeq(first)))
  <2> HIDE DEF seqs, first, begun, groups, views, spc
  <2>1. p.admissions = (IF p.reread THEN FlattenSeq(seqs) ELSE Unseen(FlattenSeq(seqs)))
    BY <1>1, <1>6 DEF Admissions
  <2>2. p.claimedBy[b] = Len(Admissions(begun, views, spc, p.reread))
    BY <1>1, <1>4 DEF ClaimedBy, begun
  <2>3. Admissions(begun, views, spc, p.reread) =
          (IF p.reread THEN FlattenSeq(first) ELSE Unseen(FlattenSeq(first)))
    BY <1>7 DEF Admissions
  <2> QED
    BY <2>1, <2>2, <2>3
<1>9. /\ FlattenSeq(first) \in Seq(E) /\ FlattenSeq(seqs) \in Seq(E)
      /\ Begins(FlattenSeq(first), FlattenSeq(seqs))
      /\ Terms(FlattenSeq(first)) = TermsUpTo(seqs, b)
  <2> HIDE DEF n, seqs, first, E
  <2>1. FirstOf(first, b, seqs, n, E)
    BY <1>1, <1>2, <1>3 DEF FirstOf
  <2> QED
    BY <2>1, FlattenBegins
<1> HIDE DEF seqs, first
<1> QED
  BY <1>8, <1>9 DEF seqs, first

(* Where the driver reads for a block exactly what its rows wait for, it   *)
(* claims no more: that the account of plan.py and the account of          *)
(* source.py agree block by block is enough for what is claimed over all   *)
(* blocks up to one (plan.py, build_stored_chunk_reads).                   *)
THEOREM DeclaredIsClaimed ==
  ASSUME Made(plan), DeclaredIsAwaited
  PROVE  ClaimsNoMore(plan)
<1> DEFINE n == NBlocksOf
           blocks == plan.blocks
           E == ReadableKeys(plan.config.views)
           seqs == ReadsOfPlan(plan, n)
<1>1. n \in Nat /\ DOMAIN blocks = 1 .. n /\ n = Len(blocks)
  BY MadeOf DEF Legible, NBlocksOf
<1>2. ASSUME NEW c \in 1 .. n
      PROVE  /\ seqs[c] \in Seq(E) /\ Terms(seqs[c]) = blocks[c].keys
             /\ Len(seqs[c]) = Cardinality(blocks[c].keys)
  <2>1. seqs[c] = ReadsOfBlock(GroupsOf(plan.blocks)[c], plan.config.views, plan.config.refSpc)
    BY DEF ReadsOfPlan
  <2>2. seqs[c] \in Seq(E) /\ Len(seqs[c]) = Cardinality(Terms(seqs[c]))
    BY <1>1, ReadsHold DEF Made
  <2>3. ToSet(seqs[c]) = blocks[c].keys
    BY <1>1, <2>1 DEF DeclaredIsAwaited, Blocked, Config
  <2> HIDE DEF seqs, E
  <2>4. DOMAIN seqs[c] = 1 .. Len(seqs[c])
    BY <2>2
  <2>5. Terms(seqs[c]) = blocks[c].keys
    BY <2>3, <2>4 DEF ToSet, Terms
  <2> QED
    BY <2>2, <2>5
<1> SUFFICES ASSUME NEW b \in 1 .. n
             PROVE  IF plan.reread
                    THEN plan.claimedBy[b] <= SumOn([c \in DOMAIN blocks |-> Cardinality(blocks[c].keys)], 1 .. b)
                    ELSE \A i \in 1 .. plan.claimedBy[b] : \E c \in 1 .. b : plan.admissions[i] \in blocks[c].keys
  BY <1>1 DEF ClaimsNoMore
<1>3. PICK flat, all :
        /\ flat = FlattenSeq(ReadsOfPlan(plan, b)) /\ all \in Seq(E)
        /\ flat \in Seq(E) /\ Begins(flat, all)
        /\ Terms(flat) = TermsUpTo(seqs, b)
        /\ plan.claimedBy[b] = Len(IF plan.reread THEN flat ELSE Unseen(flat))
        /\ plan.admissions = (IF plan.reread THEN all ELSE Unseen(all))
  BY <1>1, ClaimsBegin DEF Made
<1>4. b \in Nat /\ \A c \in 1 .. b : c \in 1 .. n
  BY <1>1
<1> HIDE DEF seqs, E, blocks, n
<1>5. CASE ~plan.reread
  <2>1. /\ Begins(Unseen(flat), Unseen(all)) /\ Unseen(flat) \in Seq(E)
        /\ Terms(Unseen(flat)) = Terms(flat)
    BY <1>3, UnseenBegins, UnseenHolds
  <2>2. ASSUME NEW i \in 1 .. plan.claimedBy[b]
        PROVE  \E c \in 1 .. b : plan.admissions[i] \in blocks[c].keys
    <3>1. plan.admissions[i] = Unseen(flat)[i] /\ i \in 1 .. Len(Unseen(flat))
      BY <1>3, <1>5, <2>1 DEF Begins
    <3>2. plan.admissions[i] \in TermsUpTo(seqs, b)
      BY <1>3, <2>1, <3>1 DEF Terms
    <3>3. PICK c \in 1 .. b : plan.admissions[i] \in Terms(seqs[c])
      BY <3>2 DEF TermsUpTo
    <3> QED
      BY <1>2, <1>4, <3>3
  <2> QED
    BY <1>5, <2>2
<1>6. CASE plan.reread
  <2> DEFINE lens == [c \in 1 .. n |-> Len(seqs[c])]
             sizes == [c \in DOMAIN blocks |-> Cardinality(blocks[c].keys)]
             first == ReadsOfPlan(plan, b)
  <2>1. plan.claimedBy[b] = SumOn(lens, 1 .. b)
    <3>1. Len(seqs) = n /\ Len(first) = b /\ \A c \in 1 .. b : first[c] = seqs[c]
      BY <1>1, <1>4 DEF ReadsOfPlan, seqs
    <3> HIDE DEF first
    <3>2. FirstOf(first, b, seqs, n, E)
      BY <1>1, <1>2, <3>1 DEF FirstOf
    <3>3. Len(FlattenSeq(first)) = SumOn([c \in 1 .. n |-> Len(seqs[c])], 1 .. b)
      BY <3>2, FlattenLength
    <3> QED
      BY <1>3, <1>6, <3>3 DEF first
  <2>2. ASSUME NEW c \in 1 .. b
        PROVE  lens[c] = sizes[c]
    BY <1>1, <1>2, <1>4
  <2>3. SumOn(lens, 1 .. b) = SumOn(sizes, 1 .. b)
    <3> HIDE DEF lens, sizes
    <3> QED
      BY <2>2, SumOfSame
  <2>4. SumOn(sizes, 1 .. b) \in Nat
    <3>1. Counts(SizesOf(blocks), 1 .. b)
      <4>1. 1 .. b \in SUBSET DOMAIN blocks
        BY <1>1, <1>4
      <4>2. Legible(blocks)
        BY MadeOf DEF blocks
      <4> QED
        BY <4>1, <4>2, SizesCount
    <3>2. SizesOf(blocks) = sizes
      BY DEF SizesOf
    <3> QED
      BY <3>1, <3>2, NumberedIsFinite
  <2> QED
    BY <1>6, <2>1, <2>3, <2>4
<1> QED
  BY <1>5, <1>6

-----------------------------------------------------------------------------
(* The draw order of a dataset that can be made.                           *)

LEMMA ChunksAreNumbers ==
  ASSUME NEW m \in Nat, NEW S \in SUBSET Span(0, m)
  PROVE  S \in SUBSET Nat /\ IsFiniteSet(S) /\ Cardinality(S) \in Nat
<1>1. IsFiniteSet(0 .. m - 1) /\ 0 .. m - 1 \in SUBSET Nat
  BY FS_Interval
<1>2. S \in SUBSET (0 .. m - 1)
  BY DEF Span
<1>3. IsFiniteSet(S)
  BY <1>1, <1>2, FS_Subset
<1> QED
  BY <1>1, <1>2, <1>3, FS_CardinalityType

(* An order of some chunks in which none is missing has none twice.        *)
LEMMA PermutesIsDistinct ==
  ASSUME NEW chunks, NEW perm \in Seq(Nat), Permutes(perm, chunks)
  PROVE  Distinct(perm) /\ ChunkIdsOf(perm) = chunks /\ perm \in Seq(chunks)
<1>1. PICK m \in Nat : m = Len(perm) /\ DOMAIN perm = 1 .. m
  OBVIOUS
<1>2. {perm[i] : i \in 1 .. m} = chunks /\ m = Cardinality(chunks)
  BY <1>1 DEF Permutes, ToSet
<1>3. perm \in Surjection(1 .. m, chunks)
  <2>1. perm \in [1 .. m -> chunks]
    BY <1>1, <1>2
  <2>2. \A x \in chunks : \E i \in 1 .. m : perm[i] = x
    BY <1>2
  <2> QED
    BY <2>1, <2>2 DEF Surjection
<1>4. IsFiniteSet(1 .. m) /\ Cardinality(1 .. m) = m
  BY FS_Interval
<1>5. perm \in Injection(1 .. m, chunks)
  <2>1. PICK D : D = 1 .. m
    OBVIOUS
  <2>2. perm \in Surjection(D, chunks) /\ IsFiniteSet(D) /\ Cardinality(chunks) = Cardinality(D)
    BY <1>2, <1>3, <1>4, <2>1
  <2>3. perm \in Injection(D, chunks)
    BY <2>2, FS_Surjection
  <2> QED
    BY <2>1, <2>3
<1>6. \A i, j \in 1 .. m : perm[i] = perm[j] => i = j
  BY <1>1, <1>5 DEF Injection, IsInjective
<1>7. perm \in Seq(chunks)
  <2>1. perm \in [1 .. m -> chunks]
    BY <1>1, <1>2
  <2> QED
    BY <2>1
<1> QED
  BY <1>1, <1>2, <1>6, <1>7 DEF Distinct, ChunkIdsOf

(* Their ascending order is one.                                           *)
LEMMA AscendingIsDistinct ==
  ASSUME NEW chunks \in SUBSET Nat, IsFiniteSet(chunks)
  PROVE  Distinct(Ascending(chunks)) /\ ChunkIdsOf(Ascending(chunks)) = chunks /\ Ascending(chunks) \in Seq(chunks)
<1> DEFINE s == Ascending(chunks)
<1>1. PICK m \in Nat : m = Cardinality(chunks)
  BY AscendingCounts
<1>2. s \in [1 .. m -> chunks] /\ \A x \in chunks : RankIn(chunks, x) \in 1 .. m /\ s[RankIn(chunks, x)] = x
  BY <1>1, AscendingCounts, RankCounts
<1>3. ASSUME NEW i \in 1 .. m, NEW j \in 1 .. m, s[i] = s[j]
      PROVE  i = j
  <2>1. \A a, b \in 1 .. m : a < b => s[a] \in Nat /\ s[b] \in Nat /\ s[a] < s[b]
    BY <1>1, AscendingRises
  <2> HIDE DEF s
  <2>2. CASE i < j
    BY <1>3, <2>1, <2>2
  <2>3. CASE j < i
    BY <1>3, <2>1, <2>3
  <2> QED
    BY <2>2, <2>3
<1> HIDE DEF s
<1>4. s \in Seq(chunks) /\ Len(s) = m
  BY <1>2
<1>5. {s[i] : i \in 1 .. m} = chunks
  BY <1>2
<1> QED
  BY <1>3, <1>4, <1>5 DEF Distinct, ChunkIdsOf, s

(* What a pass draws from is an order of the chunks of its part.           *)
LEMMA DrawnChunksAre ==
  ASSUME NEW c, Sound(c)
  PROVE  /\ PermOf(DrawnChunks(c), c.refSpc, c.n)
         /\ ChunkIdsOf(DrawnChunks(c)) = ChunkIds(c.manifest, c.part)
<1> DEFINE chunks == ChunkIds(c.manifest, c.part)
           all == Span(0, CeilDiv(c.n, c.refSpc))
<1>1. c.n \in Nat /\ c.refSpc \in Nat \ {0} /\ CeilDiv(c.n, c.refSpc) \in Nat
  BY CeilingIs DEF Sound
<1>2. chunks \in SUBSET all
  <2>1. \A p \in Parts : c.manifest[p] \subseteq all
    BY DEF Sound
  <2>2. CASE c.part = "all"
    BY <2>1, <2>2 DEF ChunkIds
  <2>3. CASE c.part # "all"
    <3>1. c.part \in Parts /\ chunks = c.manifest[c.part]
      BY <2>3 DEF Sound, ChunkIds
    <3> QED
      BY <2>1, <3>1
  <2> QED
    BY <2>2, <2>3
<1> HIDE DEF chunks
<1>3. chunks \in SUBSET Nat /\ IsFiniteSet(chunks)
  BY <1>1, <1>2, ChunksAreNumbers
<1>4. Distinct(DrawnChunks(c)) /\ ChunkIdsOf(DrawnChunks(c)) = chunks /\ DrawnChunks(c) \in Seq(chunks)
  <2>1. CASE Shuffles(c)
    <3>1. DrawnChunks(c) = c.perm /\ chunks = c.manifest.train
      BY <2>1 DEF DrawnChunks, SplitView, Shuffles, ChunkIds, chunks
    <3>2. c.perm \in Seq(Nat) /\ Permutes(c.perm, c.manifest.train)
      BY <2>1 DEF Sound
    <3> QED
      BY <3>1, <3>2, PermutesIsDistinct
  <2>2. CASE ~Shuffles(c)
    <3>1. DrawnChunks(c) = Ascending(chunks)
      BY <2>2 DEF DrawnChunks, SplitView, chunks
    <3> QED
      BY <1>3, <3>1, AscendingIsDistinct
  <2> QED
    BY <2>1, <2>2
<1>5. DrawnChunks(c) \in Seq(all)
  <2> HIDE DEF all
  <2>1. \A S \in SUBSET all : \A s \in Seq(S) : s \in Seq(all)
    OBVIOUS
  <2> QED
    BY <1>2, <1>4, <2>1
<1> QED
  BY <1>4, <1>5 DEF PermOf, chunks

LEMMA OrderIs ==
  ASSUME NEW c, Sound(c)
  PROVE  LET order == OrderOf(c)
         IN  /\ Laid(order) /\ Distinct(order.rows) /\ Unbroken(order)
             /\ Terms(order.rows) = RowsOn(ChunkIds(c.manifest, c.part), c.views, c.refSpc, c.n)
             /\ BlockChunks(c) \in Nat \ {0}
             /\ c.n % c.refSpc = 0 /\ (\A v \in DOMAIN c.views : c.views[v].offset = 0) =>
                  FullTo(order, BlockChunks(c) * c.refSpc)
<1>1. c.n \in Nat /\ c.refSpc \in Nat \ {0} /\ c.requested \in Nat \ {0} /\ c.batchSize \in Nat \ {0} /\ Viewing(c.views)
  BY DEF Sound, Viewing
<1>2. BlockChunks(c) \in Nat \ {0}
  <2>1. PICK x \in Nat, y \in Nat : x = CeilDiv(c.batchSize, c.refSpc) /\ y = CeilDiv(c.n, c.refSpc)
    BY <1>1, CeilingIs
  <2> QED
    BY <1>1, <2>1 DEF BlockChunks, MaxOf, MinOf
<1>3. PICK size \in Nat \ {0} : size = BlockChunks(c)
  BY <1>2
<1>4. PermOf(DrawnChunks(c), c.refSpc, c.n) /\ ChunkIdsOf(DrawnChunks(c)) = ChunkIds(c.manifest, c.part)
  BY DrawnChunksAre
<1>5. OrderOf(c) = Draw(DrawnChunks(c), Shuffles(c), c.mixed, c.views, c.refSpc, c.n, size)
  BY <1>3 DEF OrderOf
<1> QED
  BY <1>1, <1>3, <1>4, <1>5, DrawIs

(* Every plan of the system is planned.                                    *)
LEMMA PlansArePlanned ==
  ASSUME NEW p \in Plans
  PROVE  Planned(p) /\ Sound(p.config)
<1>1. p = PlanOf(p.config) /\ Sound(p.config)
  BY PlansAssumption
<1>2. Laid(OrderOf(p.config))
  BY <1>1, OrderIs
<1> QED
  BY <1>1, <1>2 DEF Planned, ReadablePlan, Sound

-----------------------------------------------------------------------------
(* What a plan relies on, of every plan that a dataset makes.              *)

(* The keys of the views: finitely many, and what a pool has a charge for. *)
LEMMA ChargedAre ==
  ASSUME NEW c, Sound(c)
  PROVE  ChargedKeys(c) = ReadableKeys(c.views) /\ IsFiniteSet(ReadableKeys(c.views))
<1> DEFINE f == [v \in DOMAIN c.views |-> {c.views[v].path} \X Span(0, NChunks(c.views[v]))]
           parts == {f[v] : v \in DOMAIN c.views}
<1>1. PICK m \in Nat : DOMAIN c.views = 1 .. m
  BY DEF Sound, Readable
<1>2. ASSUME NEW v \in DOMAIN c.views
      PROVE  /\ IsFiniteSet(f[v])
             /\ {<<c.views[v].path, cid>> : cid \in Span(0, NChunks(c.views[v]))} = f[v]
  <2>1. NChunks(c.views[v]) \in Nat
    BY CeilingIs DEF Sound, Readable, NChunks
  <2>2. IsFiniteSet(Span(0, NChunks(c.views[v])))
    BY <2>1, ChunksAreNumbers
  <2>3. IsFiniteSet({c.views[v].path})
    BY FS_Singleton
  <2> QED
    BY <2>2, <2>3, FS_Product
<1>3. ChargedKeys(c) = UNION parts /\ ReadableKeys(c.views) = UNION parts
  <2>1. \A v \in DOMAIN c.views : f[v] = {c.views[v].path} \X Span(0, NChunks(c.views[v]))
    OBVIOUS
  <2> HIDE DEF f
  <2>2. \A x : x \in ChargedKeys(c) <=> \E v \in DOMAIN c.views : x \in f[v]
    BY <1>2 DEF ChargedKeys
  <2>3. \A x : x \in ReadableKeys(c.views) <=> \E v \in DOMAIN c.views : x \in f[v]
    BY <2>1 DEF ReadableKeys
  <2> QED
    BY <2>2, <2>3
<1>4. IsFiniteSet(parts)
  <2>1. f \in Surjection(DOMAIN c.views, parts)
    <3>1. f \in [DOMAIN c.views -> parts] /\ \A x \in parts : \E v \in DOMAIN c.views : f[v] = x
      OBVIOUS
    <3> HIDE DEF f, parts
    <3> QED
      BY <3>1 DEF Surjection
  <2>2. IsFiniteSet(DOMAIN c.views)
    BY <1>1, FS_Interval
  <2> HIDE DEF f, parts
  <2> QED
    BY <2>1, <2>2, FS_Surjection
<1>5. \A T \in parts : IsFiniteSet(T)
  BY <1>2
<1> HIDE DEF f, parts
<1> QED
  BY <1>3, <1>4, <1>5, FS_UNION

(* The keys that one row reads.                                            *)
RowKeys(row, views, spc) ==
  {<<views[v].path, ChunkOf(views[v], Anchor(row, spc) + views[v].offset)>> : v \in DOMAIN views}

LEMMA BlockKeysAre ==
  ASSUME NEW rows, DOMAIN rows = 1 .. Len(rows), NEW views, NEW spc
  PROVE  BlockReadKeys(rows, views, spc) = UNION {RowKeys(row, views, spc) : row \in Terms(rows)}
<1> DEFINE key(row, v) == <<views[v].path, ChunkOf(views[v], Anchor(row, spc) + views[v].offset)>>
           all == BlockReadKeys(rows, views, spc)
<1>1. all = {key(rows[i], v) : v \in DOMAIN views, i \in 1 .. Len(rows)}
  BY DEF BlockReadKeys, ChunkOf
<1>2. \A row : RowKeys(row, views, spc) = {key(row, v) : v \in DOMAIN views}
  BY DEF RowKeys
<1> HIDE DEF key, all
<1>3. \A row \in Terms(rows) : \A k \in RowKeys(row, views, spc) : k \in all
  BY <1>1, <1>2 DEF Terms
<1>4. ASSUME NEW k \in all PROVE \E row \in Terms(rows) : k \in RowKeys(row, views, spc)
  <2>1. PICK v \in DOMAIN views, i \in 1 .. Len(rows) : k = key(rows[i], v)
    BY <1>1
  <2>2. rows[i] \in Terms(rows)
    BY DEF Terms
  <2> QED
    BY <1>2, <2>1, <2>2
<1> QED
  BY <1>3, <1>4 DEF all

(* A row reads what the anchors of its chunk read, and only what there is. *)
LEMMA RowKeysAre ==
  ASSUME NEW c, Sound(c), NEW chunks, NEW row \in RowsOn(chunks, c.views, c.refSpc, c.n)
  PROVE  /\ row \in Nat \X Nat /\ row[1] \in chunks
         /\ RowKeys(row, c.views, c.refSpc) \subseteq KeysOfAnchor(row[1], c.views, c.refSpc)
         /\ RowKeys(row, c.views, c.refSpc) \subseteq ReadableKeys(c.views)
<1>1. PICK cid \in Nat, w \in Nat, spc \in Nat \ {0} :
        cid = row[1] /\ w = row[2] /\ spc = c.refSpc /\ w < spc /\ cid \in chunks /\ row \in Nat \X Nat
  BY DEF RowsOn, RowsOf, Sound
<1>2. PICK a \in Nat : a = cid * spc + w
  BY <1>1
<1>3. Anchor(row, c.refSpc) = a /\ a < c.n /\ OnEach(a, c.views, c.n)
  BY <1>1, <1>2 DEF Anchor, RowsOn, RowsOf
<1>4. a \in Span(cid * spc, (cid + 1) * spc)
  <2>1. PICK from \in Nat : from = cid * spc
    BY <1>1
  <2>2. (cid + 1) * spc = from + spc
    BY <1>1, <2>1
  <2> QED
    BY <1>1, <1>2, <2>1, <2>2 DEF Span
<1>5. ASSUME NEW v \in DOMAIN c.views
      PROVE  LET key == <<c.views[v].path, ChunkOf(c.views[v], a + c.views[v].offset)>>
             IN  /\ key \in {<<c.views[v].path, ChunkOf(c.views[v], x)>> : x \in SamplesRead(c.views[v], cid, c.refSpc)}
                 /\ key \in {c.views[v].path} \X Span(0, NChunks(c.views[v]))
  <2>1. /\ NSamples(c.views[v]) = c.n /\ c.n \in Nat /\ SampleChunkSize(c.views[v]) \in Nat \ {0}
        /\ a + c.views[v].offset \in Span(0, c.n)
    BY <1>3 DEF Sound, Readable, Paired, OnEach
  <2>2. a + c.views[v].offset \in SamplesRead(c.views[v], cid, c.refSpc)
    BY <1>1, <1>3, <1>4, <2>1 DEF SamplesRead
  <2>3. ChunkOf(c.views[v], a + c.views[v].offset) \in Span(0, NChunks(c.views[v]))
    BY <2>1, SampleInChunk
  <2> QED
    BY <2>2, <2>3
<1>6. RowKeys(row, c.views, c.refSpc) = {<<c.views[v].path, ChunkOf(c.views[v], a + c.views[v].offset)>> : v \in DOMAIN c.views}
  BY <1>3 DEF RowKeys
<1> QED
  BY <1>1, <1>5, <1>6, SMTT(30) DEF KeysOfAnchor, ReadableKeys

(* What the blocks of a plan read.                                         *)
LEMMA BlockReads ==
  ASSUME NEW p, Planned(p), Sound(p.config), NEW b \in 1 .. Len(p.blocks)
  PROVE  /\ p.blocks[b].keys \subseteq ReadableKeys(p.config.views)
         /\ p.blocks[b].keys \subseteq KeysOfAnchors(p.blocks[b].chunks, p.config.views, p.config.refSpc)
<1> DEFINE c == p.config
           order == OrderOf(c)
           rows == BlockRows(order, b)
           on == RowsOn(ChunkIds(c.manifest, c.part), c.views, c.refSpc, c.n)
<1>1. /\ DOMAIN rows = 1 .. Len(rows)
      /\ \A row \in Terms(rows) : \E i \in 1 .. Len(order.rows) : row = order.rows[i]
  <2> DEFINE range == (p.blocks[b].start + 1) .. p.blocks[b].stop
  <2>1. /\ DOMAIN rows = 1 .. Len(rows) /\ Terms(rows) = {order.rows[i] : i \in range}
        /\ range \subseteq 1 .. Len(order.rows)
    BY BlockRowsAre
  <2> HIDE DEF range, order, rows
  <2> QED
    BY <2>1
<1>2. p.blocks[b].keys = BlockReadKeys(rows, c.views, c.refSpc) /\ p.blocks[b].chunks = AnchorChunks(rows)
  BY PlannedBlocks
<1>3. \A row \in Terms(rows) : row \in on
  <2>1. Terms(order.rows) = on
    BY OrderIs
  <2> HIDE DEF order, rows, on
  <2>2. \A i \in 1 .. Len(order.rows) : order.rows[i] \in on
    BY <2>1 DEF Terms
  <2> QED
    BY <1>1, <2>2
<1>4. \A row \in Terms(rows) : row[1] \in p.blocks[b].chunks
  BY <1>1, <1>2 DEF Terms, AnchorChunks
<1>5. p.blocks[b].keys = UNION {RowKeys(row, c.views, c.refSpc) : row \in Terms(rows)}
  BY <1>1, <1>2, BlockKeysAre
<1> HIDE DEF rows, on
<1>6. \A row \in Terms(rows) :
        /\ RowKeys(row, c.views, c.refSpc) \subseteq KeysOfAnchor(row[1], c.views, c.refSpc)
        /\ RowKeys(row, c.views, c.refSpc) \subseteq ReadableKeys(c.views)
  BY <1>3, RowKeysAre DEF on
<1> QED
  BY <1>4, <1>5, <1>6 DEF KeysOfAnchors

(* All that the driver admits, in order.                                   *)
LEMMA AdmissionsAre ==
  ASSUME NEW p, Planned(p)
  PROVE  /\ p.admissions \in Seq(ReadableKeys(p.config.views))
         /\ ~p.reread => Distinct(p.admissions)
<1> DEFINE n == Len(p.blocks)
           E == ReadableKeys(p.config.views)
           groups == GroupsOf(p.blocks)
           seqs == ReadsOfPlan(p, n)
<1>1. n \in Nat /\ DOMAIN p.blocks = 1 .. n /\ p.admissions = Admissions(groups, p.config.views, p.config.refSpc, p.reread)
  <2>1. p = PlanOf(p.config) /\ n \in Nat /\ DOMAIN p.blocks = 1 .. n
    BY PlannedBlocks DEF Planned
  <2> QED
    BY <2>1 DEF PlanOf
<1>2. \A i \in 1 .. n : seqs[i] \in Seq(E)
  BY ReadsHold
<1>3. seqs = [b \in DOMAIN groups |-> ReadsOfBlock(groups[b], p.config.views, p.config.refSpc)]
  BY <1>1 DEF ReadsOfPlan, GroupsOf
<1>4. DOMAIN seqs = 1 .. n /\ Len(seqs) = n /\ seqs = [i \in 1 .. n |-> seqs[i]]
  BY <1>1 DEF ReadsOfPlan
<1> HIDE DEF n, E, groups, seqs
<1>5. FlattenSeq(seqs) \in Seq(E)
  BY <1>1, <1>2, <1>4, FlattenIs
<1>6. p.admissions = IF p.reread THEN FlattenSeq(seqs) ELSE Unseen(FlattenSeq(seqs))
  BY <1>1, <1>3 DEF Admissions
<1>7. Unseen(FlattenSeq(seqs)) \in Seq(E) /\ Distinct(Unseen(FlattenSeq(seqs)))
  BY <1>5, UnseenHolds DEF Distinct
<1> QED
  BY <1>5, <1>6, <1>7 DEF E

(* The driver claims what a block waits for by the time it is through with *)
(* the block (plan.py, build_stored_chunk_reads).                          *)
LEMMA DriverClaimsAhead ==
  ASSUME NEW p, Planned(p), Sound(p.config)
  PROVE  ClaimedAhead(p)
<1> DEFINE E == ReadableKeys(p.config.views)
           n == Len(p.blocks)
<1>1. p.admissions \in Seq(E) /\ (~p.reread => Distinct(p.admissions))
  BY AdmissionsAre
<1>2. ASSUME NEW b \in 1 .. n
      PROVE  /\ p.claimedBy[b] \in 0 .. Len(p.admissions)
             /\ \A k \in p.blocks[b].keys : \E i \in 1 .. p.claimedBy[b] : p.admissions[i] = k
  <2>1. PICK flat, all :
          /\ all \in Seq(E) /\ flat \in Seq(E) /\ Begins(flat, all)
          /\ Terms(flat) = TermsUpTo(ReadsOfPlan(p, n), b)
          /\ p.claimedBy[b] = Len(IF p.reread THEN flat ELSE Unseen(flat))
          /\ p.admissions = (IF p.reread THEN all ELSE Unseen(all))
    BY ClaimsBegin
  <2>2. n \in Nat /\ b \in 1 .. b
    BY PlannedBlocks
  <2>3. ASSUME NEW k \in p.blocks[b].keys PROVE k \in Terms(flat)
    <3>1. Terms(ReadsOfPlan(p, n)[b]) = KeysOfAnchors(p.blocks[b].chunks, p.config.views, p.config.refSpc)
      BY ReadsHold
    <3>2. k \in Terms(ReadsOfPlan(p, n)[b])
      BY <2>3, <3>1, BlockReads
    <3> QED
      BY <2>1, <2>2, <3>2 DEF TermsUpTo
  <2> HIDE DEF E, n
  <2>4. PICK s \in Seq(E), t \in Seq(E) :
          /\ s = (IF p.reread THEN flat ELSE Unseen(flat)) /\ t = (IF p.reread THEN all ELSE Unseen(all))
          /\ Begins(s, t) /\ Terms(s) = Terms(flat)
    <3>1. Unseen(flat) \in Seq(E) /\ Unseen(all) \in Seq(E) /\ Terms(Unseen(flat)) = Terms(flat)
      BY <2>1, UnseenHolds
    <3>2. Begins(Unseen(flat), Unseen(all))
      BY <2>1, UnseenBegins
    <3> QED
      BY <2>1, <3>1, <3>2
  <2>5. p.claimedBy[b] = Len(s) /\ p.admissions = t /\ Len(s) \in Nat /\ Len(t) \in Nat
    BY <2>1, <2>4
  <2>6. Len(s) <= Len(t) /\ \A i \in 1 .. Len(s) : t[i] = s[i]
    BY <2>4 DEF Begins
  <2>7. \A k \in p.blocks[b].keys : \E i \in 1 .. Len(s) : s[i] = k
    BY <2>3, <2>4 DEF Terms
  <2>8. p.claimedBy[b] \in 0 .. Len(p.admissions)
    BY <2>5, <2>6
  <2>9. ASSUME NEW k \in p.blocks[b].keys PROVE \E i \in 1 .. p.claimedBy[b] : p.admissions[i] = k
    <3>1. PICK i \in 1 .. Len(s) : s[i] = k
      BY <2>7
    <3>2. t[i] = s[i]
      BY <2>6
    <3> QED
      BY <2>5, <3>1, <3>2
  <2> QED
    BY <2>8, <2>9
<1> QED
  BY <1>1, <1>2 DEF ClaimedAhead, Distinct, n

(* A key is charged a number of bytes, and no more than the first chunk of *)
(* any view of its array.                                                  *)
LEMMA KeysAreCharged ==
  ASSUME NEW c, Sound(c), NEW v \in DOMAIN c.views, NEW cid \in Nat
  PROVE  /\ KeyBytes(c, <<c.views[v].path, cid>>) \in Nat /\ BytesPerChunk(Dataset(c), v) \in Nat
         /\ KeyBytes(c, <<c.views[v].path, cid>>) <= BytesPerChunk(Dataset(c), v)
<1> DEFINE out(w) == OutputGeometry(c.views[w], c.pipeline)
           w == CHOOSE w \in DOMAIN c.views : c.views[w].path = c.views[v].path
           bytes(u, n) == SlotChargeBytes(c.views[u], out(u), n, Assembles(c.pipeline))
<1>1. w \in DOMAIN c.views /\ c.views[w].path = c.views[v].path
  OBVIOUS
<1> HIDE DEF w
<1>2. c.views[w] = Shift(c.views[v], c.views[w].offset - c.views[v].offset)
  BY <1>1 DEF Sound
<1>3. Measured(c.views[v]) /\ Measured(out(v))
  BY DEF Sound
<1>4. bytes(w, cid) = bytes(v, cid)
  BY <1>2, <1>3, OffsetsCostNothing
<1>5. bytes(v, cid) \in Nat /\ bytes(v, 0) \in Nat /\ bytes(v, cid) <= bytes(v, 0)
  BY <1>3, SlotsAreCharged
<1>6. KeyBytes(c, <<c.views[v].path, cid>>) = bytes(w, cid)
  BY DEF KeyBytes, w
<1>7. BytesPerChunk(Dataset(c), v) = bytes(v, 0)
  BY DEF BytesPerChunk, Dataset
<1> HIDE DEF bytes
<1> QED
  BY <1>4, <1>5, <1>6, <1>7

(* The terms of the floor: per view, and per array.                        *)
PerView(d) == [v \in DOMAIN d.views |-> ChunksPerAnchor(d.views[v]) * BytesPerChunk(d, v)]
PathsOf(d) == {d.views[v].path : v \in DOMAIN d.views}
BytesOn(d, p) == {BytesPerChunk(d, v) : v \in {w \in DOMAIN d.views : d.views[w].path = p}}
LargestOn(d, p) == CHOOSE m \in BytesOn(d, p) : \A x \in BytesOn(d, p) : m >= x
PerPath(d) == [p \in PathsOf(d) |-> LargestOn(d, p)]

LEMMA ChargesOfPaths ==
  ASSUME NEW c, Sound(c)
  PROVE  LET d == Dataset(c)
         IN  /\ IsFiniteSet(DOMAIN c.views) /\ 1 \in DOMAIN c.views
             /\ IsFiniteSet(PathsOf(d)) /\ BytesPerPath(d) = SumOver(PerPath(d))
             /\ Counts(PerPath(d), PathsOf(d))
             /\ \A v \in DOMAIN c.views : c.views[v].path \in PathsOf(d)
                                            /\ PerPath(d)[c.views[v].path] = BytesPerChunk(d, v)
<1> DEFINE d == Dataset(c)
           V == DOMAIN c.views
<1>1. IsFiniteSet(V) /\ 1 \in V
  <2>1. PICK n \in Nat \ {0} : V = 1 .. n
    BY DEF Sound, Readable
  <2> QED
    BY <2>1, UpToIsFinite
<1>2. d.views = c.views
  BY DEF Dataset
<1>3. IsFiniteSet(PathsOf(d))
  <2> DEFINE at == [v \in V |-> c.views[v].path]
  <2>1. at \in Surjection(V, PathsOf(d))
    BY <1>2 DEF Surjection, PathsOf
  <2> QED
    BY <1>1, <2>1, FS_Surjection
<1>4. BytesPerPath(d) = SumOver(PerPath(d))
  BY DEF BytesPerPath, PerPath, PathsOf, LargestOn, BytesOn
<1>5. \A v \in V : BytesPerChunk(d, v) \in Nat
  BY KeysAreCharged
<1>6. ASSUME NEW v \in V, NEW w \in V, c.views[w].path = c.views[v].path
      PROVE  BytesPerChunk(d, w) = BytesPerChunk(d, v)
  <2> DEFINE bytes(u) == SlotChargeBytes(c.views[u], OutputGeometry(c.views[u], c.pipeline), 0, Assembles(c.pipeline))
  <2>1. c.views[w] = Shift(c.views[v], c.views[w].offset - c.views[v].offset) /\ Measured(c.views[v])
    BY <1>6 DEF Sound
  <2>2. bytes(w) = bytes(v)
    BY <2>1, OffsetsCostNothing
  <2>3. BytesPerChunk(d, w) = bytes(w) /\ BytesPerChunk(d, v) = bytes(v)
    BY DEF BytesPerChunk, Dataset
  <2> HIDE DEF bytes
  <2> QED
    BY <2>2, <2>3
<1> HIDE DEF d
<1>7. ASSUME NEW v \in V
      PROVE  c.views[v].path \in PathsOf(d) /\ PerPath(d)[c.views[v].path] = BytesPerChunk(d, v)
  <2> DEFINE p == c.views[v].path
  <2>1. p \in PathsOf(d) /\ PerPath(d)[p] = LargestOn(d, p)
    BY <1>2 DEF PathsOf, PerPath
  <2>2. BytesOn(d, p) = {BytesPerChunk(d, v)}
    BY <1>2, <1>6 DEF BytesOn
  <2>3. PICK b \in Nat : b = BytesPerChunk(d, v)
    BY <1>5
  <2>4. LargestOn(d, p) = b
    BY <2>2, <2>3 DEF LargestOn
  <2> QED
    BY <2>1, <2>3, <2>4
<1>8. Counts(PerPath(d), PathsOf(d))
  <2> SUFFICES ASSUME NEW p \in PathsOf(d) PROVE PerPath(d)[p] \in Nat
    BY <1>3 DEF Counts
  <2>1. PICK v \in V : p = c.views[v].path
    BY <1>2 DEF PathsOf
  <2> QED
    BY <1>5, <1>7, <2>1
<1> QED
  BY <1>1, <1>3, <1>4, <1>7, <1>8 DEF d

LEMMA ChargesOfViews ==
  ASSUME NEW c, Sound(c)
  PROVE  LET d == Dataset(c)
         IN  /\ Counts(PerView(d), DOMAIN c.views)
             /\ \A v \in DOMAIN c.views :
                  /\ ChunksPerAnchor(c.views[v]) \in {1, 2} /\ BytesPerChunk(d, v) \in Nat
                  /\ PerView(d)[v] = ChunksPerAnchor(c.views[v]) * BytesPerChunk(d, v)
             /\ \A samples \in Nat :
                  /\ Counts([v \in DOMAIN c.views |-> ViewBytes(d, v, samples)], DOMAIN c.views)
                  /\ \A v \in DOMAIN c.views :
                       /\ CeilDiv(samples, SampleChunkSize(c.views[v])) \in Nat
                       /\ ViewBytes(d, v, samples)
                            = (CeilDiv(samples, SampleChunkSize(c.views[v])) + 1) * BytesPerChunk(d, v)
<1> DEFINE d == Dataset(c)
           V == DOMAIN c.views
<1>1. IsFiniteSet(V)
  BY ChargesOfPaths
<1>2. d.views = c.views
  BY DEF Dataset
<1>3. \A v \in V : BytesPerChunk(d, v) \in Nat
  BY KeysAreCharged
<1>4. \A v \in V : ChunksPerAnchor(c.views[v]) \in {1, 2}
  BY DEF ChunksPerAnchor
<1> HIDE DEF d
<1>5. \A v \in V : PerView(d)[v] = ChunksPerAnchor(c.views[v]) * BytesPerChunk(d, v)
  BY <1>2 DEF PerView
<1>6. Counts(PerView(d), V)
  <2>1. \A x \in {1, 2}, y \in Nat : x * y \in Nat
    OBVIOUS
  <2> QED
    BY <1>1, <1>3, <1>4, <1>5, <2>1 DEF Counts
<1>7. ASSUME NEW samples \in Nat
      PROVE  /\ Counts([v \in V |-> ViewBytes(d, v, samples)], V)
             /\ \A v \in V :
                  /\ CeilDiv(samples, SampleChunkSize(c.views[v])) \in Nat
                  /\ ViewBytes(d, v, samples)
                       = (CeilDiv(samples, SampleChunkSize(c.views[v])) + 1) * BytesPerChunk(d, v)
  <2>1. \A v \in V : CeilDiv(samples, SampleChunkSize(c.views[v])) \in Nat
    BY CeilingIs DEF Sound, Readable
  <2>2. \A v \in V : ViewBytes(d, v, samples)
                       = (CeilDiv(samples, SampleChunkSize(c.views[v])) + 1) * BytesPerChunk(d, v)
    BY <1>2 DEF ViewBytes
  <2>3. \A x, y \in Nat : (x + 1) * y \in Nat
    OBVIOUS
  <2>4. \A v \in V : ViewBytes(d, v, samples) \in Nat
    BY <1>3, <2>1, <2>2, <2>3
  <2> QED
    BY <1>1, <2>1, <2>2, <2>4 DEF Counts
<1> QED
  BY <1>3, <1>4, <1>5, <1>6, <1>7 DEF d

(* The floor of every dataset is a number.                                 *)
LEMMA FloorIsNumber ==
  ASSUME NEW c, Sound(c)
  PROVE  WorkingSet(c) \in Nat
<1> DEFINE d == Dataset(c)
           t == Cardinality(c.manifest.train)
           spread == CeilDiv(MaxOffset(c.views) - MinOffset(c.views), SampleChunkSize(c.views[1]))
<1>1. /\ d.views = c.views /\ d.blockChunks = BlockChunks(c) /\ d.refSpc = c.refSpc
      /\ c.refSpc \in Nat /\ BlockChunks(c) \in Nat
  BY OrderIs DEF Dataset, Sound
<1>2. t \in Nat
  <2>1. CeilDiv(c.n, c.refSpc) \in Nat /\ c.manifest.train \subseteq Span(0, CeilDiv(c.n, c.refSpc))
    BY CeilingIs DEF Sound, Parts
  <2>2. IsFiniteSet(Span(0, CeilDiv(c.n, c.refSpc)))
    BY <2>1, FS_Interval DEF Span
  <2> QED
    BY <2>1, <2>2, FS_Subset, FS_CardinalityType
<1>3. spread \in Nat
  <2>1. MaxOffset(c.views) - MinOffset(c.views) \in Nat
    BY OffsetsLie DEF Sound, Viewing
  <2>2. SampleChunkSize(c.views[1]) \in Nat \ {0}
    BY ChargesOfPaths DEF Sound, Readable
  <2> QED
    BY <2>1, <2>2, CeilingIs
<1>4. SumOver(PerView(d)) \in Nat /\ BytesPerPath(d) \in Nat
  <2>1. DOMAIN PerView(d) = DOMAIN c.views /\ DOMAIN PerPath(d) = PathsOf(d)
    BY <1>1 DEF PerView, PerPath
  <2>2. Counts(PerView(d), DOMAIN PerView(d)) /\ Counts(PerPath(d), DOMAIN PerPath(d))
    BY <2>1, ChargesOfViews, ChargesOfPaths
  <2>3. BytesPerPath(d) = SumOver(PerPath(d))
    BY ChargesOfPaths
  <2> QED
    BY <2>2, <2>3, NumberedIsFinite DEF SumOver
<1>5. \A samples \in Nat : SumOver([v \in DOMAIN d.views |-> ViewBytes(d, v, samples)]) \in Nat
  <2> SUFFICES ASSUME NEW samples \in Nat
               PROVE  SumOver([v \in DOMAIN d.views |-> ViewBytes(d, v, samples)]) \in Nat
    OBVIOUS
  <2> DEFINE f == [v \in DOMAIN d.views |-> ViewBytes(d, v, samples)]
  <2>1. DOMAIN f = DOMAIN c.views
    BY <1>1
  <2>2. Counts(f, DOMAIN f)
    BY <1>1, <2>1, ChargesOfViews
  <2> HIDE DEF f
  <2>3. SumOver(f) \in Nat
    BY <2>2, NumberedIsFinite DEF SumOver
  <2> QED
    BY <2>3 DEF f
<1> HIDE DEF spread, t
<1>6. MixedFloor(d, t) \in Nat
  <2>1. 2 * d.blockChunks * d.refSpc \in Nat /\ t * d.refSpc \in Nat
    BY <1>1, <1>2
  <2> HIDE DEF d
  <2> QED
    BY <1>5, <2>1 DEF MixedFloor, MaxOf
<1>7. UniformFloor(d, t, RereadSpill(c)) \in Nat
  <2> DEFINE per == SumOver(PerView(d))
             blocks == (IF RereadSpill(c) THEN 3 ELSE 2) * d.blockChunks * per
             reach == t + spread
  <2>1. per \in Nat /\ d.blockChunks \in Nat /\ BytesPerPath(d) \in Nat
    BY <1>1, <1>4
  <2>2. UniformFloor(d, t, RereadSpill(c))
          = IF Windowed(d) /\ d.shuffle /\ ~RereadSpill(c) THEN MaxOf(blocks, reach * BytesPerPath(d)) ELSE blocks
    BY <1>1 DEF UniformFloor, PerView, spread
  <2> HIDE DEF d, per
  <2>3. blocks \in Nat
    BY <2>1
  <2>4. reach * BytesPerPath(d) \in Nat
    BY <1>2, <1>3, <2>1
  <2> HIDE DEF blocks, reach
  <2> QED
    BY <2>2, <2>3, <2>4 DEF MaxOf
<1> QED
  BY <1>6, <1>7 DEF WorkingSet, WorkingSetBytes, t

(* Its keys have charges (pool.py, budget; source.py, __init__).           *)
LEMMA KeysAreKnown ==
  ASSUME NEW p, Planned(p), Sound(p.config)
  PROVE  /\ OnlyKnownKeys(p) /\ DOMAIN p.weight = ReadableKeys(p.config.views)
         /\ IsFiniteSet(DOMAIN p.weight) /\ \A k \in DOMAIN p.weight : p.weight[k] \in Nat
<1> DEFINE c == p.config
           E == ReadableKeys(c.views)
<1>1. /\ p.weight = [k \in ChargedKeys(c) |-> KeyBytes(c, k)]
      /\ p.cached = {<<c.views[1].path, cid>> : cid \in c.cached}
  BY DEF Planned, PlanOf
<1>2. ChargedKeys(c) = E /\ IsFiniteSet(E)
  BY ChargedAre
<1>3. \A k \in ChargedKeys(c) : KeyBytes(c, k) \in Nat
  <2> SUFFICES ASSUME NEW v \in DOMAIN c.views, NEW cid \in Span(0, NChunks(c.views[v]))
               PROVE  KeyBytes(c, <<c.views[v].path, cid>>) \in Nat
    BY DEF ChargedKeys
  <2>1. cid \in Nat
    BY DEF Span
  <2> QED
    BY <2>1, KeysAreCharged
<1>4. DOMAIN p.weight = E /\ \A k \in E : p.weight[k] \in Nat
  BY <1>1, <1>2, <1>3
<1>5. p.cached \subseteq E
  <2>1. 1 \in DOMAIN c.views /\ c.cached \subseteq Span(0, NChunks(c.views[1]))
    BY DEF Sound, Readable
  <2> QED
    BY <1>1, <2>1 DEF ReadableKeys
<1>6. \A i \in 1 .. Len(p.admissions) : p.admissions[i] \in E
  BY AdmissionsAre
<1> QED
  BY <1>2, <1>4, <1>5, <1>6 DEF OnlyKnownKeys

LEMMA PlanIsLegible ==
  ASSUME NEW p, Planned(p), Sound(p.config)
  PROVE  Legible(p.blocks)
<1>1. Len(p.blocks) \in Nat /\ DOMAIN p.blocks = 1 .. Len(p.blocks)
  BY PlannedBlocks
<1>2. KeysOf(p.blocks) \in SUBSET ReadableKeys(p.config.views) /\ IsFiniteSet(ReadableKeys(p.config.views))
  BY <1>1, BlockReads, ChargedAre DEF KeysOf
<1>3. IsFiniteSet(KeysOf(p.blocks))
  BY <1>2, FS_Subset
<1> QED
  BY <1>1, <1>3 DEF Legible

(* What a block waits for is handed back by the last block that reads it,  *)
(* and no block before needs it more (source.py, _release_schedule).       *)
LEMMA PlanHandsBack ==
  ASSUME NEW p, Planned(p), Sound(p.config)
  PROVE  HandedBack(p)
<1> DEFINE n == Len(p.blocks)
<1>1. Legible(p.blocks) /\ n \in Nat /\ DOMAIN p.blocks = 1 .. n
  BY PlanIsLegible DEF Legible
<1>2. p.release = Release(p.blocks, p.reread)
  <2>1. p = PlanOf(p.config) /\ p.blocks = Blocks(OrderOf(p.config), p.config.views, p.config.refSpc)
    BY PlannedBlocks DEF Planned
  <2> QED
    BY <2>1 DEF PlanOf
<1>3. ASSUME NEW b \in 1 .. n
      PROVE  /\ p.release[b] = {k \in p.blocks[b].keys : p.reread \/ LastUse(p.blocks, k) = b}
             /\ p.blocks[b].keys \in SUBSET KeysOf(p.blocks)
             /\ IsFiniteSet(p.release[b]) /\ p.blocks[b].keys \subseteq DOMAIN p.weight
  <2>1. p.release[b] = {k \in p.blocks[b].keys : p.reread \/ LastUse(p.blocks, k) = b}
    BY <1>1, <1>2 DEF Release
  <2>2. p.blocks[b].keys \in SUBSET KeysOf(p.blocks)
    BY <1>1 DEF KeysOf
  <2>3. p.release[b] \in SUBSET KeysOf(p.blocks) /\ IsFiniteSet(KeysOf(p.blocks))
    BY <1>1, <2>1, <2>2 DEF Legible
  <2>4. IsFiniteSet(p.release[b])
    BY <2>3, FS_Subset
  <2> QED
    BY <2>1, <2>2, <2>4, BlockReads, KeysAreKnown
<1>4. ASSUME NEW b \in 1 .. n, NEW k \in p.blocks[b].keys
      PROVE  LastUse(p.blocks, k) \in 1 .. n /\ k \in p.blocks[LastUse(p.blocks, k)].keys /\ b <= LastUse(p.blocks, k)
  BY <1>1, <1>3, FirstAndLast
<1>5. ASSUME NEW b \in 1 .. n, NEW d \in 1 .. n, ~p.reread, p.blocks[b].keys \cap p.release[d] # {}
      PROVE  b <= d
  BY <1>3, <1>4, <1>5
<1>6. ASSUME NEW b \in 1 .. n, NEW k \in p.blocks[b].keys, ~p.reread
      PROVE  \E d \in 1 .. n : k \in p.release[d]
  BY <1>3, <1>4
<1>7. \A b \in 1 .. n : p.release[b] \subseteq p.blocks[b].keys
  BY <1>3
<1> QED
  BY <1>3, <1>5, <1>6, <1>7 DEF HandedBack, n

LEMMA PlanIsSized ==
  ASSUME NEW p, Planned(p), Sound(p.config)
  PROVE  Sized(p)
<1> DEFINE c == p.config
<1>1. /\ p.batchSize = c.batchSize /\ p.depth = MaxOf(c.depth, 1) /\ p.budget = MaxOf(c.userBudget, WorkingSet(c))
      /\ p.bound = AheadOf(p.blocks, p.reread)
  <2>1. p = PlanOf(c) /\ p.blocks = Blocks(OrderOf(c), c.views, c.refSpc)
    BY PlannedBlocks DEF Planned
  <2> QED
    BY <2>1 DEF PlanOf, SchedulerConfig
<1>2. p.batchSize \in Nat \ {0} /\ p.depth \in Nat \ {0} /\ p.budget \in Nat
  BY <1>1, FloorIsNumber DEF Sound, MaxOf
<1>3. Legible(p.blocks)
  BY PlanIsLegible
<1>4. p.bound \in Nat
  <2>1. ThreeBlockBound(p.blocks) \in Nat
    <3>1. 1 \in 1 .. MaxOf(Len(p.blocks) - 2, 1)
      BY <1>3 DEF Legible, MaxOf
    <3> QED
      BY <1>3, <3>1, ThreeBlocksHeld
  <2>2. ReadAheadBound(p.blocks) \in Nat
    <3>1. CASE DOMAIN p.blocks = {}
      BY <3>1 DEF ReadAheadBound, Peak
    <3>2. CASE DOMAIN p.blocks # {}
      BY <1>3, <3>2, BoundHolds
    <3> QED
      BY <3>1, <3>2
  <2> QED
    BY <1>1, <2>1, <2>2 DEF AheadOf
<1>5. Len(p.reads) \in Nat /\ Len(p.blocks) \in Nat /\ Len(p.admissions) \in Nat
  <2>1. OrderOf(c).rows \in Seq(Nat \X Nat)
    BY DEF Planned, Laid
  <2>2. Len(p.reads) = Len(OrderOf(c).rows) /\ Len(p.blocks) \in Nat
    BY PlannedBlocks
  <2>3. p.admissions \in Seq(ReadableKeys(c.views))
    BY AdmissionsAre
  <2> QED
    BY <2>1, <2>2, <2>3
<1> QED
  BY <1>2, <1>4, <1>5, KeysAreKnown DEF Sized

(* Blocks follow one another (shuffle.py, DrawOrder).                      *)
LEMMA PlanIsInOrder ==
  ASSUME NEW p, Planned(p)
  PROVE  InOrder(p)
<1> DEFINE bounds == OrderOf(p.config).bounds
           n == Len(p.blocks)
<1>1. /\ n \in Nat /\ n + 1 = Len(bounds)
      /\ \A b \in 1 .. n :
           /\ bounds[b] \in Nat /\ bounds[b + 1] \in Nat /\ bounds[b] < bounds[b + 1] /\ bounds[b + 1] <= Len(p.reads)
           /\ p.blocks[b].start = bounds[b] /\ p.blocks[b].stop = bounds[b + 1]
  BY PlannedBlocks
<1>2. \A a, b \in 1 .. n + 1 : a < b => bounds[a] < bounds[b]
  BY <1>1 DEF Planned, Laid
<1> HIDE DEF bounds, n
<1>3. ASSUME NEW b \in 1 .. n, NEW d \in 1 .. b
      PROVE  bounds[d] <= bounds[b] /\ bounds[d + 1] <= bounds[b + 1]
  <2>1. CASE d = b
    <3>1. bounds[b] \in Nat /\ bounds[b + 1] \in Nat
      BY <1>1
    <3> QED
      BY <2>1, <3>1
  <2>2. CASE d # b
    <3>1. d \in 1 .. n + 1 /\ b \in 1 .. n + 1 /\ d + 1 \in 1 .. n + 1 /\ b + 1 \in 1 .. n + 1 /\ d < b /\ d + 1 < b + 1 /\ d \in 1 .. n
      BY <1>1, <2>2
    <3>2. bounds[d] < bounds[b] /\ bounds[d + 1] < bounds[b + 1]
      BY <1>2, <3>1
    <3> QED
      BY <1>1, <3>1, <3>2
  <2> QED
    BY <2>1, <2>2
<1>4. \A b \in 1 .. n : \A d \in 1 .. b : d \in 1 .. n
  BY <1>1
<1> QED
  BY <1>1, <1>3, <1>4 DEF InOrder, n

(* Each row is in a block, which waits for what the row reads.             *)
LEMMA BlockOfRow ==
  ASSUME NEW order, Laid(order), NEW i \in 1 .. Len(order.rows)
  PROVE  \E b \in 1 .. Len(order.bounds) - 1 : order.bounds[b] < i /\ i <= order.bounds[b + 1]
<1> DEFINE m == Len(order.bounds)
           S == {x \in 1 .. m : i <= order.bounds[x]}
<1>1. /\ m \in Nat /\ m > 0 /\ \A x \in 1 .. m : order.bounds[x] \in Nat
      /\ order.bounds[1] = 0 /\ order.bounds[m] = Len(order.rows) /\ i \in Nat /\ i > 0 /\ i <= order.bounds[m]
  <2>1. order.bounds \in Seq(Nat) /\ Len(order.bounds) > 0 /\ order.bounds[1] = 0 /\ order.bounds[m] = Len(order.rows)
    BY DEF Laid
  <2>2. Len(order.rows) \in Nat
    BY DEF Laid
  <2> QED
    BY <2>1, <2>2
<1>2. S \in SUBSET Nat /\ m \in S
  BY <1>1
<1>3. PICK x \in S : \A y \in S : x <= y
  BY <1>2, SmallestOf
<1>4. x \in 1 .. m /\ i <= order.bounds[x] /\ x # 1
  BY <1>1, <1>3
<1>5. x - 1 \in 1 .. m /\ ~(x <= x - 1) /\ x - 1 \in 1 .. m - 1 /\ (x - 1) + 1 = x
  BY <1>1, <1>4
<1>6. ~(i <= order.bounds[x - 1])
  BY <1>3, <1>5
<1> QED
  BY <1>1, <1>4, <1>5, <1>6

LEMMA PlanAwaitsRows ==
  ASSUME NEW p, Planned(p)
  PROVE  RowsAwaited(p)
<1> DEFINE order == OrderOf(p.config)
           views == p.config.views
           spc == p.config.refSpc
<1>1. /\ Len(p.blocks) \in Nat /\ Len(p.blocks) + 1 = Len(order.bounds) /\ Len(p.reads) = Len(order.rows)
      /\ \A b \in 1 .. Len(p.blocks) :
           /\ p.blocks[b].start = order.bounds[b] /\ p.blocks[b].stop = order.bounds[b + 1]
           /\ p.blocks[b].keys = BlockReadKeys(BlockRows(order, b), views, spc)
  BY PlannedBlocks
<1>2. Laid(order) /\ p.reads = [i \in DOMAIN order.rows |-> BlockReadKeys(<<order.rows[i]>>, views, spc)]
      /\ DOMAIN order.rows = 1 .. Len(order.rows)
  BY DEF Planned, PlanOf, Laid
<1> HIDE DEF order, views, spc
<1>3. ASSUME NEW i \in 1 .. Len(order.rows)
      PROVE  \E b \in 1 .. Len(p.blocks) :
               p.blocks[b].start < i /\ i <= p.blocks[b].stop /\ p.reads[i] \subseteq p.blocks[b].keys
  <2>1. PICK b \in 1 .. Len(p.blocks) : order.bounds[b] < i /\ i <= order.bounds[b + 1]
    BY <1>1, <1>2, BlockOfRow
  <2>2. PICK one : one = <<order.rows[i]>>
    OBVIOUS
  <2>3. DOMAIN one = 1 .. Len(one) /\ Terms(one) = {order.rows[i]}
    BY <2>2 DEF Terms
  <2>4. p.reads[i] = RowKeys(order.rows[i], views, spc)
    <3>1. p.reads[i] = BlockReadKeys(one, views, spc)
      BY <1>2, <2>2
    <3>2. BlockReadKeys(one, views, spc) = UNION {RowKeys(row, views, spc) : row \in Terms(one)}
      BY <2>3, BlockKeysAre
    <3> QED
      BY <2>3, <3>1, <3>2
  <2>5. /\ DOMAIN BlockRows(order, b) = 1 .. Len(BlockRows(order, b))
        /\ Terms(BlockRows(order, b)) = {order.rows[j] : j \in (order.bounds[b] + 1) .. order.bounds[b + 1]}
    <3>1. p.blocks[b].start = order.bounds[b] /\ p.blocks[b].stop = order.bounds[b + 1]
      BY PlannedBlocks DEF order
    <3>2. /\ DOMAIN BlockRows(order, b) = 1 .. Len(BlockRows(order, b))
          /\ Terms(BlockRows(order, b)) = {order.rows[j] : j \in (p.blocks[b].start + 1) .. p.blocks[b].stop}
      BY BlockRowsAre DEF order
    <3> QED
      BY <3>1, <3>2
  <2>6. i \in (order.bounds[b] + 1) .. order.bounds[b + 1]
    <3>1. order.bounds[b] \in Nat /\ order.bounds[b + 1] \in Nat
      BY PlannedBlocks DEF order
    <3> QED
      BY <2>1, <3>1
  <2>7. order.rows[i] \in Terms(BlockRows(order, b))
    BY <2>5, <2>6
  <2>8. p.blocks[b].keys = UNION {RowKeys(row, views, spc) : row \in Terms(BlockRows(order, b))}
    <3>1. PICK rows : rows = BlockRows(order, b) /\ DOMAIN rows = 1 .. Len(rows)
      BY <2>5
    <3>2. p.blocks[b].keys = BlockReadKeys(rows, views, spc)
      BY <1>1, <3>1
    <3> QED
      BY <3>1, <3>2, BlockKeysAre
  <2>9. p.reads[i] \subseteq p.blocks[b].keys
    BY <2>4, <2>7, <2>8
  <2>10. p.blocks[b].start = order.bounds[b] /\ p.blocks[b].stop = order.bounds[b + 1]
    BY PlannedBlocks DEF order
  <2> QED
    BY <2>1, <2>9, <2>10
<1> QED
  BY <1>1, <1>3 DEF RowsAwaited

(* Every plan that a dataset makes is one that its pass can rely on: its   *)
(* blocks hold every row, wait for what their rows read, are claimed ahead *)
(* by the driver and hand each key back once (source.py, _blocks,          *)
(* _release_schedule; plan.py, build_stored_chunk_reads).                  *)
THEOREM PlansAreCoherent == CoherentPlans
<1> SUFFICES ASSUME NEW p \in Plans PROVE Coherent(p)
  BY DEF CoherentPlans
<1>1. Planned(p) /\ Sound(p.config)
  BY PlansArePlanned
<1> QED
  BY <1>1, PlanIsSized, PlanIsInOrder, PlanAwaitsRows, PlanHandsBack, DriverClaimsAhead, KeysAreKnown DEF Coherent

LEMMA PlansAreMade == \A p \in Plans : Made(p)
BY PlansAreCoherent, PlansArePlanned DEF CoherentPlans, Made

-----------------------------------------------------------------------------
(* What every pass of every dataset starts with.                           *)

LEMMA PlanStays == Spec => [](plan \in Plans)
<1>1. Held => plan \in Plans
  BY DEF Held, Typed, KnownPlan
<1>2. CoherentPlans
  BY PlansAreCoherent
<1>3. Spec => []Held
  BY <1>2, HeldAlways
<1> QED
  BY <1>1, <1>3, PTL

(* The chunk that holds a sample is the one it is in.                      *)
LEMMA HolderIs ==
  ASSUME Sound(Config), NEW v \in DOMAIN Config.views, NEW x \in Span(0, NSamples(Config.views[v]))
  PROVE  HolderOf(v, x) = ChunkOf(Config.views[v], x)
<1> DEFINE view == Config.views[v]
           n == NSamples(view)
           d == SampleChunkSize(view)
<1>1. n \in Nat /\ d \in Nat \ {0} /\ x \in Nat /\ x < n
  BY DEF Sound, Readable, Span
<1>2. ChunkOf(view, x) \in Span(0, NChunks(view)) /\ NChunks(view) \in Nat
  BY <1>1, SampleInChunk, CeilingIs DEF NChunks
<1>3. ASSUME NEW cid \in Span(0, NChunks(view))
      PROVE  x \in SamplesInChunk(view, cid) <=> cid = ChunkOf(view, x)
  <2>1. cid \in Nat
    BY <1>2 DEF Span
  <2>2. PICK lo \in Nat, hi \in Nat : lo = cid * d /\ hi = (cid + 1) * d
    BY <1>1, <2>1
  <2>3. cid = x \div d <=> lo <= x /\ x < hi
    BY <1>1, <2>1, <2>2, QuotientIs
  <2>4. x \in SamplesInChunk(view, cid) <=> lo <= x /\ x < hi
    BY <1>1, <2>2 DEF SamplesInChunk, Span, MinOf
  <2> QED
    BY <2>3, <2>4 DEF ChunkOf
<1> HIDE DEF view
<1>4. HolderOf(v, x) = CHOOSE cid \in Span(0, NChunks(view)) : x \in SamplesInChunk(view, cid)
  BY DEF HolderOf, view
<1> QED
  BY <1>2, <1>3, <1>4 DEF view

(* The consumer waits for exactly the chunks that hold the samples of its  *)
(* rows, and the driver claims them ahead (plan.py,                        *)
(* build_stored_chunk_reads; source.py, _block_read_keys).                 *)
THEOREM PlansAwaitWhatRowsTouch == Spec => []DriverPlansAwaited
<1>1. plan \in Plans => DriverPlansAwaited
  <2> SUFFICES ASSUME plan \in Plans PROVE DriverPlansAwaited
    OBVIOUS
  <2>1. Planned(plan) /\ Sound(Config) /\ Coherent(plan)
    BY PlansArePlanned, PlansAreCoherent DEF CoherentPlans, Config
  <2>2. ASSUME NEW b \in DOMAIN Blocked
        PROVE  Blocked[b].keys =
                 {<<Config.views[v].path,
                    HolderOf(v, Anchor(RowsDrawn[i], Config.refSpc) + Config.views[v].offset)>> :
                    v \in DOMAIN Config.views, i \in Blocked[b].start + 1 .. Blocked[b].stop}
    <3> DEFINE range == Blocked[b].start + 1 .. Blocked[b].stop
               on == RowsOn(ChunkIds(Config.manifest, Config.part), Config.views, Config.refSpc, Config.n)
               at(i, v) == Anchor(RowsDrawn[i], Config.refSpc) + Config.views[v].offset
    <3>1. b \in 1 .. Len(plan.blocks)
      BY <2>1, PlannedBlocks DEF Blocked
    <3>2. PICK rows : /\ rows = BlockRows(OrderOf(plan.config), b) /\ DOMAIN rows = 1 .. Len(rows)
                      /\ Terms(rows) = {RowsDrawn[i] : i \in range} /\ range \subseteq 1 .. Len(RowsDrawn)
      BY <2>1, <3>1, BlockRowsAre DEF RowsDrawn, Blocked, Config
    <3>3. Blocked[b].keys = BlockReadKeys(rows, Config.views, Config.refSpc)
      BY <2>1, <3>1, <3>2, PlannedBlocks DEF Blocked, Config
    <3>4. Blocked[b].keys = UNION {RowKeys(row, Config.views, Config.refSpc) : row \in Terms(rows)}
      BY <3>2, <3>3, BlockKeysAre
    <3>5. \A i \in range : RowsDrawn[i] \in on
      <4>1. Terms(RowsDrawn) = on
        BY <2>1, OrderIs DEF RowsDrawn
      <4> HIDE DEF range, on
      <4>2. \A i \in 1 .. Len(RowsDrawn) : RowsDrawn[i] \in on
        BY <4>1 DEF Terms
      <4> QED
        BY <3>2, <4>2
    <3> HIDE DEF range, on
    <3>6. ASSUME NEW i \in range, NEW v \in DOMAIN Config.views
          PROVE  HolderOf(v, at(i, v)) = ChunkOf(Config.views[v], at(i, v))
      <4>1. at(i, v) \in Span(0, NSamples(Config.views[v]))
        BY <2>1, <3>5 DEF on, RowsOn, OnEach, Sound, Paired
      <4> HIDE DEF at
      <4> QED
        BY <2>1, <4>1, HolderIs
    <3>7. Blocked[b].keys = {<<Config.views[v].path, ChunkOf(Config.views[v], at(i, v))>> : v \in DOMAIN Config.views, i \in range}
      <4>1. \A i \in range : RowKeys(RowsDrawn[i], Config.views, Config.refSpc) =
                               {<<Config.views[v].path, ChunkOf(Config.views[v], at(i, v))>> : v \in DOMAIN Config.views}
        BY DEF RowKeys
      <4> HIDE DEF at
      <4>2. \A k : k \in Blocked[b].keys <=> \E i \in range : k \in RowKeys(RowsDrawn[i], Config.views, Config.refSpc)
        <5>1. PICK drawn : drawn = RowsDrawn
          OBVIOUS
        <5>2. \A k : k \in Blocked[b].keys <=> \E row \in Terms(rows) : k \in RowKeys(row, Config.views, Config.refSpc)
          BY <3>4
        <5>3. \A row : row \in Terms(rows) <=> \E i \in range : row = drawn[i]
          BY <3>2, <5>1
        <5> QED
          BY <5>1, <5>2, <5>3
      <4>3. \A k : k \in Blocked[b].keys <=> \E i \in range : \E v \in DOMAIN Config.views :
                    k = <<Config.views[v].path, ChunkOf(Config.views[v], at(i, v))>>
        BY <4>1, <4>2
      <4> HIDE DEF Blocked
      <4> QED
        BY <4>3
    <3> HIDE DEF at
    <3>8. {<<Config.views[v].path, ChunkOf(Config.views[v], at(i, v))>> : v \in DOMAIN Config.views, i \in range}
            = {<<Config.views[v].path, HolderOf(v, at(i, v))>> : v \in DOMAIN Config.views, i \in range}
      BY <3>6
    <3> QED
      BY <3>7, <3>8 DEF range, at
  <2> QED
    BY <2>1, <2>2 DEF DriverPlansAwaited
<1> QED
  BY <1>1, PlanStays, PTL

(* No more rows are drawn than there are samples.                          *)
LEMMA RowsAreFew ==
  ASSUME NEW c, Sound(c)
  PROVE  Len(OrderOf(c).rows) \in Nat /\ Len(OrderOf(c).rows) <= c.n
<1> DEFINE rows == OrderOf(c).rows
           f == [i \in 1 .. Len(rows) |-> Anchor(rows[i], c.refSpc)]
<1>1. c.n \in Nat /\ c.refSpc \in Nat \ {0}
  BY DEF Sound
<1>2. /\ rows \in Seq(Nat \X Nat) /\ Distinct(rows)
      /\ Terms(rows) = RowsOn(ChunkIds(c.manifest, c.part), c.views, c.refSpc, c.n)
  BY OrderIs DEF Laid
<1>3. PICK m \in Nat : m = Len(rows)
  BY <1>2
<1> HIDE DEF rows
<1>4. ASSUME NEW i \in 1 .. m
      PROVE  /\ rows[i] \in Nat \X Nat /\ rows[i] = <<rows[i][1], rows[i][2]>> /\ rows[i][2] < c.refSpc
             /\ Anchor(rows[i], c.refSpc) = rows[i][1] * c.refSpc + rows[i][2]
             /\ Anchor(rows[i], c.refSpc) \in 0 .. c.n - 1
  <2>1. rows[i] \in RowsOn(ChunkIds(c.manifest, c.part), c.views, c.refSpc, c.n)
    BY <1>2, <1>3 DEF Terms
  <2>2. rows[i] \in Nat \X Nat /\ rows[i][2] < c.refSpc /\ Anchor(rows[i], c.refSpc) < c.n
    BY <2>1 DEF RowsOn, RowsOf
  <2>3. PICK x \in Nat, y \in Nat : rows[i] = <<x, y>>
    BY <2>2
  <2>4. Anchor(rows[i], c.refSpc) = x * c.refSpc + y /\ x * c.refSpc \in Nat
    BY <1>1, <2>3 DEF Anchor
  <2> QED
    BY <1>1, <2>2, <2>3, <2>4
<1>5. ASSUME NEW i \in 1 .. m, NEW j \in 1 .. m, Anchor(rows[i], c.refSpc) = Anchor(rows[j], c.refSpc)
      PROVE  i = j
  <2>0. \A l \in 1 .. m : /\ rows[l] = <<rows[l][1], rows[l][2]>> /\ rows[l][1] \in Nat /\ rows[l][2] \in 0 .. c.refSpc - 1
                           /\ Anchor(rows[l], c.refSpc) = rows[l][1] * c.refSpc + rows[l][2]
    BY <1>1, <1>4
  <2>1. PICK p \in Nat, x \in 0 .. c.refSpc - 1 : rows[i] = <<p, x>> /\ Anchor(rows[i], c.refSpc) = p * c.refSpc + x
    BY <2>0
  <2>2. PICK q \in Nat, y \in 0 .. c.refSpc - 1 : rows[j] = <<q, y>> /\ Anchor(rows[j], c.refSpc) = q * c.refSpc + y
    BY <2>0
  <2>3. p * c.refSpc + x = q * c.refSpc + y
    BY <1>5, <2>1, <2>2
  <2>4. p = q
    BY <1>1, <2>3, SameMultiple
  <2>5. x = y
    <3>1. PICK z \in Nat : z = p * c.refSpc
      BY <1>1
    <3> QED
      BY <2>3, <2>4, <3>1
  <2>6. rows[i] = rows[j]
    BY <2>1, <2>2, <2>4, <2>5
  <2> QED
    BY <1>2, <1>3, <2>6 DEF Distinct
<1>6. f \in Injection(1 .. m, 0 .. c.n - 1)
  <2>1. f = [i \in 1 .. m |-> Anchor(rows[i], c.refSpc)]
    BY <1>3
  <2>2. f \in [1 .. m -> 0 .. c.n - 1] /\ \A i, j \in 1 .. m : f[i] = f[j] => i = j
    BY <1>4, <1>5, <2>1
  <2> HIDE DEF f
  <2> QED
    BY <2>2 DEF Injection, IsInjective
<1>7. IsFiniteSet(0 .. c.n - 1) /\ Cardinality(1 .. m) = m /\ Cardinality(0 .. c.n - 1) = c.n
  <2>1. PICK e \in Int : e = c.n - 1
    BY <1>1
  <2>2. IsFiniteSet(0 .. e) /\ Cardinality(0 .. e) = c.n
    <3>1. IsFiniteSet(0 .. e) /\ Cardinality(0 .. e) = (IF 0 > e THEN 0 ELSE e - 0 + 1)
      BY FS_Interval
    <3> QED
      BY <1>1, <2>1, <3>1
  <2>3. Cardinality(1 .. m) = m
    BY FS_Interval
  <2> QED
    BY <2>1, <2>2, <2>3
<1> HIDE DEF f
<1>8. Cardinality(1 .. m) <= Cardinality(0 .. c.n - 1)
  BY <1>6, <1>7, FS_Injection
<1> QED
  BY <1>1, <1>3, <1>7, <1>8 DEF rows

(* A block that holds less than a batch holds all there is (source.py,     *)
(* __init__: block_chunks is widened to hold a batch).                     *)
LEMMA WideOrWhole ==
  ASSUME NEW c, Sound(c)
  PROVE  \E full \in Nat \ {0} : full = BlockChunks(c) * c.refSpc /\ (full < c.batchSize => c.n <= full)
<1>1. c.n \in Nat /\ c.refSpc \in Nat \ {0} /\ c.requested \in Nat \ {0} /\ c.batchSize \in Nat \ {0}
  BY DEF Sound
<1>2. PICK x \in Nat, y \in Nat : /\ x = CeilDiv(c.batchSize, c.refSpc) /\ c.batchSize <= x * c.refSpc
                                  /\ y = CeilDiv(c.n, c.refSpc) /\ c.n <= y * c.refSpc
  BY <1>1, CeilingIs
<1>3. PICK b \in Nat \ {0} : b = BlockChunks(c)
  BY OrderIs
<1>4. b >= x \/ b >= y
  BY <1>1, <1>2, <1>3 DEF BlockChunks, MaxOf, MinOf
<1>5. PICK full \in Nat \ {0} : full = b * c.refSpc
  BY <1>1, <1>3
<1>6. b >= x => full >= x * c.refSpc
  BY <1>1, <1>2, <1>3, <1>5
<1>7. b >= y => full >= y * c.refSpc
  BY <1>1, <1>2, <1>3, <1>5
<1>8. x * c.refSpc \in Nat /\ y * c.refSpc \in Nat
  BY <1>1, <1>2
<1>9. full < c.batchSize => c.n <= full
  BY <1>1, <1>2, <1>4, <1>5, <1>6, <1>7, <1>8
<1> QED
  BY <1>3, <1>5, <1>9

(* Consecutive blocks of a batch or more: a batch meets two of them.       *)
LEMMA TwoMeet ==
  ASSUME NEW S \in SUBSET Nat, \A x, z \in S : z <= x + 1
  PROVE  Cardinality(S) <= 2
<1>1. CASE S = {}
  <2>1. Cardinality({}) = 0
    BY FS_EmptySet
  <2> QED
    BY <1>1, <2>1
<1>2. CASE S # {}
  <2>1. PICK m \in S : \A x \in S : m <= x
    BY <1>2, SmallestOf
  <2>2. \A x \in S : x = m \/ x = m + 1
    BY <2>1
  <2>3. S \in SUBSET {m, m + 1}
    BY <2>2
  <2>4. IsFiniteSet({m}) /\ Cardinality({m}) = 1 /\ IsFiniteSet({m + 1}) /\ Cardinality({m + 1}) = 1
    BY FS_Singleton
  <2>5. IsFiniteSet({m} \cup {m + 1}) /\ Cardinality({m} \cup {m + 1}) <= 2
    BY <2>4, CountOfBoth, FS_CardinalityType
  <2>6. S \in SUBSET ({m} \cup {m + 1})
    BY <2>3
  <2>7. Cardinality(S) <= Cardinality({m} \cup {m + 1}) /\ Cardinality(S) \in Nat /\ Cardinality({m} \cup {m + 1}) \in Nat
    BY <2>5, <2>6, FS_Subset, FS_CardinalityType
  <2> QED
    BY <2>5, <2>7
<1> QED
  BY <1>1, <1>2

LEMMA OneMore ==
  ASSUME NEW w \in Nat, NEW d \in Nat
  PROVE  (w + 1) * d = w * d + d
OBVIOUS

LEMMA BatchMeetsTwo ==
  ASSUME Planned(plan), Sound(Config), EvenChunks, Unwindowed
  PROVE  BatchesSpanTwoBlocks
<1> DEFINE order == OrderOf(Config)
           n == Len(Blocked)
           B == Config.batchSize
<1>1. PICK full \in Nat \ {0} : full = BlockChunks(Config) * Config.refSpc /\ (full < B => Config.n <= full)
  BY WideOrWhole
<1>2. /\ n \in Nat /\ DOMAIN Blocked = 1 .. n /\ n + 1 = Len(order.bounds)
      /\ \A b \in 1 .. n :
           /\ order.bounds[b] \in Nat /\ order.bounds[b + 1] \in Nat
           /\ order.bounds[b] < order.bounds[b + 1] /\ order.bounds[b + 1] <= Len(order.rows)
           /\ Blocked[b].start = order.bounds[b] /\ Blocked[b].stop = order.bounds[b + 1]
  BY PlannedBlocks DEF Blocked, Config
<1>3. \A b \in 1 .. n : order.bounds[b] = (b - 1) * full
  <2>1. FullTo(order, BlockChunks(Config) * Config.refSpc)
    BY OrderIs DEF EvenChunks, Unwindowed
  <2> QED
    BY <1>1, <1>2, <2>1 DEF FullTo
<1>4. Len(order.rows) \in Nat /\ Len(order.rows) <= Config.n /\ B \in Nat \ {0} /\ Config.n \in Nat
  BY RowsAreFew DEF Sound
<1> HIDE DEF order, n, B
<1>5. SUFFICES ASSUME NEW i \in Nat
               PROVE  Cardinality({b \in 1 .. n : Blocked[b].start < i + B /\ Blocked[b].stop > i}) <= 2
  <2>1. \A i \in {s \in Span(0, Len(RowsDrawn)) : s % Config.batchSize = 0} : i \in Nat
    BY <1>4 DEF RowsDrawn, Span, order
  <2> QED
    BY <1>2, <2>1 DEF BatchesSpanTwoBlocks, B
<1> DEFINE S == {b \in 1 .. n : Blocked[b].start < i + B /\ Blocked[b].stop > i}
<1>6. ASSUME NEW x \in S, NEW z \in S
      PROVE  z <= x + 1
  <2> SUFFICES ASSUME x + 1 < z PROVE FALSE
    BY <1>2
  <2>1. x \in Nat /\ z \in Nat /\ x \in 1 .. n /\ z \in 1 .. n /\ x + 1 \in 1 .. n /\ x + 1 < z
    BY <1>2
  <2>2. PICK low \in Nat, high \in Nat : low = x * full /\ high = (z - 1) * full
    BY <1>1, <2>1
  <2>3. order.bounds[x + 1] = low /\ order.bounds[z] = high
    <3>1. (x + 1) - 1 = x
      BY <2>1
    <3> QED
      BY <1>3, <2>1, <2>2, <3>1
  <2>4. high < i + B /\ low > i
    BY <1>2, <2>1, <2>3
  <2>5. low + full <= high
    <3>1. PICK d \in Nat : d = z - x - 2
      BY <2>1
    <3>2. PICK rest \in Nat : rest = d * full
      BY <1>1, <3>1
    <3>3. (z - 1) * full = low + full + rest
      <4>1. z - 1 = x + 1 + d
        BY <2>1, <3>1
      <4> QED
        BY <1>1, <2>1, <2>2, <3>1, <3>2, <4>1
    <3> QED
      BY <1>1, <2>2, <3>2, <3>3
  <2>6. full < B
    BY <1>1, <1>4, <2>2, <2>4, <2>5
  <2>7. Config.n <= full /\ full <= low
    <3>1. PICK w \in Nat : x = w + 1
      BY <2>1
    <3>2. PICK rest \in Nat : rest = w * full
      BY <1>1, <3>1
    <3>3. x * full = full + rest
      <4>1. (w + 1) * full = w * full + full
        BY <1>1, <3>1, OneMore
      <4> QED
        BY <1>1, <3>1, <3>2, <4>1
    <3> QED
      BY <1>1, <2>2, <2>6, <3>2, <3>3
  <2>8. order.bounds[x + 1] < Len(order.rows)
    <3>1. order.bounds[x + 1] < order.bounds[x + 2] /\ order.bounds[x + 2] <= Len(order.rows) /\ order.bounds[x + 2] \in Nat
      <4>1. (x + 1) + 1 = x + 2
        BY <2>1
      <4> QED
        BY <1>2, <2>1, <4>1
    <3> QED
      BY <1>4, <2>2, <2>3, <3>1
  <2> QED
    BY <1>1, <1>4, <2>2, <2>3, <2>7, <2>8
<1>7. S \in SUBSET Nat
  BY <1>2
<1> HIDE DEF S
<1>8. Cardinality(S) <= 2
  BY <1>6, <1>7, TwoMeet
<1> QED
  BY <1>8 DEF S

(* Where blocks are widened to hold a batch a batch spans two of them at   *)
(* most; where the driver reads for a block what its rows wait for it      *)
(* claims no more; and then the read-ahead bound is enough (source.py,     *)
(* __init__; scheduler.py, read_ahead_bound).                              *)
THEOREM BoundsSuffice == Spec => []BoundSuffices
<1>1. plan \in Plans => BoundSuffices
  <2> SUFFICES ASSUME plan \in Plans PROVE BoundSuffices
    OBVIOUS
  <2>1. Made(plan) /\ Planned(plan) /\ Sound(Config)
    BY PlansArePlanned, PlansAreMade DEF Config
  <2>2. EvenChunks /\ Unwindowed => BatchesSpanTwoBlocks
    BY <2>1, BatchMeetsTwo
  <2>3. DeclaredIsAwaited => ClaimsNoMore(plan)
    BY <2>1, DeclaredIsClaimed
  <2>4. BatchesSpanTwoBlocks /\ ClaimsNoMore(plan) => PermitsSuffice
    BY <2>1, BoundIsEnough
  <2> QED
    BY <2>2, <2>3, <2>4 DEF BoundSuffices
<1> QED
  BY <1>1, PlanStays, PTL

-----------------------------------------------------------------------------
(* What an epoch draws.                                                    *)

(* The manifest of an epoch is a split of the chunks of its window.        *)
SplitOf(c) ==
  \E order \in Seq(Nat), pct \in Nat \X Nat :
    /\ Distinct(order) /\ ToSet(order) = Selected(c.n, c.refSpc, c.window)
    /\ \A part \in Parts : c.manifest[part] = SplitByChunk(order, pct)[part]

(* A sequence with nothing twice is as long as the set of what it holds.   *)
LEMMA DistinctCounts ==
  ASSUME NEW E, NEW s \in Seq(E), Distinct(s)
  PROVE  Len(s) = Cardinality(ToSet(s)) /\ ToSet(s) = Terms(s)
<1>1. PICK m \in Nat : m = Len(s) /\ DOMAIN s = 1 .. m
  OBVIOUS
<1>2. ToSet(s) = Terms(s) /\ ToSet(s) = {s[i] : i \in 1 .. m}
  BY <1>1 DEF ToSet, Terms
<1>3. PICK D : D = 1 .. m
  OBVIOUS
<1>4. s \in Surjection(D, ToSet(s)) /\ s \in Injection(D, ToSet(s))
  <2>1. s \in [D -> ToSet(s)] /\ \A x \in ToSet(s) : \E i \in D : s[i] = x
    BY <1>1, <1>2, <1>3
  <2>2. \A i, j \in D : s[i] = s[j] => i = j
    BY <1>1, <1>3 DEF Distinct
  <2>3. DOMAIN s = D
    BY <1>1, <1>3
  <2> QED
    BY <2>1, <2>2, <2>3 DEF Surjection, Injection, IsInjective
<1>5. IsFiniteSet(D) /\ Cardinality(D) = m
  BY <1>3, FS_Interval
<1>6. Cardinality(ToSet(s)) = Cardinality(D)
  BY <1>4, <1>5, FS_Surjection
<1> QED
  BY <1>1, <1>2, <1>5, <1>6

(* What a pass draws is every anchor of its part that each view can be     *)
(* read at (source.py, _draw_order).                                       *)
LEMMA DrawnIsDrawable ==
  ASSUME Sound(Config)
  PROVE  /\ ToSet(RowsDrawn) = Drawable(ChunkIds(Config.manifest, Config.part))
         /\ Len(RowsDrawn) = Cardinality(ToSet(RowsDrawn)) /\ ToSet(RowsDrawn) = Terms(RowsDrawn)
<1> DEFINE chunks == ChunkIds(Config.manifest, Config.part)
           spc == Config.refSpc
<1>1. /\ RowsDrawn \in Seq(Nat \X Nat) /\ Distinct(RowsDrawn)
      /\ Terms(RowsDrawn) = RowsOn(chunks, Config.views, spc, Config.n)
  BY OrderIs DEF Laid, RowsDrawn
<1>2. chunks \in SUBSET Nat /\ spc \in Nat \ {0}
  <2>1. PermOf(DrawnChunks(Config), spc, Config.n) /\ ChunkIdsOf(DrawnChunks(Config)) = chunks
    BY DrawnChunksAre
  <2>2. Span(0, CeilDiv(Config.n, spc)) \in SUBSET Nat
    <3>1. CeilDiv(Config.n, spc) \in Nat
      BY CeilingIs DEF Sound
    <3> QED
      BY <3>1 DEF Span
  <2>3. spc \in Nat \ {0}
    BY DEF Sound
  <2> QED
    BY <2>1, <2>2, <2>3 DEF PermOf, ChunkIdsOf
<1>3. \A row : OnEveryView(row) <=> OnEach(Anchor(row, spc), Config.views, Config.n)
  <2>1. \A v \in DOMAIN Config.views : NSamples(Config.views[v]) = Config.n
    BY DEF Sound, Paired
  <2> QED
    BY <2>1 DEF OnEveryView, OnArray, OnEach
<1> HIDE DEF chunks, spc
<1>4. ASSUME NEW row
      PROVE  row \in RowsOn(chunks, Config.views, spc, Config.n) <=> row \in Drawable(chunks)
  <2>1. row \in Nat \X Nat => (row[2] \in Span(0, spc) <=> row[2] < spc)
    BY <1>2 DEF Span
  <2>2. row \in chunks \X Span(0, spc) <=> row \in Nat \X Nat /\ row[1] \in chunks /\ row[2] < spc
    <3>1. Span(0, spc) \in SUBSET Nat
      BY <1>2 DEF Span
    <3>2. row \in chunks \X Span(0, spc) <=> row \in Nat \X Nat /\ row[1] \in chunks /\ row[2] \in Span(0, spc)
      BY <1>2, <3>1
    <3> QED
      BY <2>1, <3>2
  <2> QED
    BY <1>3, <2>2 DEF RowsOn, RowsOf, Drawable, spc
<1>5. RowsOn(chunks, Config.views, spc, Config.n) = Drawable(chunks)
  BY <1>4 DEF RowsOn, RowsOf, Drawable
<1> QED
  BY <1>1, <1>5, DistinctCounts DEF chunks

(* No two blocks draw from the same chunk.                                 *)
LEMMA BlocksShareNoChunk ==
  ASSUME NEW p, Planned(p), Sound(p.config), NEW b \in 1 .. Len(p.blocks), NEW d \in 1 .. Len(p.blocks), b < d
  PROVE  p.blocks[b].chunks \cap p.blocks[d].chunks = {}
<1> DEFINE order == OrderOf(p.config)
           bounds == order.bounds
           Rows(x) == (bounds[x] + 1) .. bounds[x + 1]
<1>1. /\ Len(p.blocks) \in Nat /\ Len(p.blocks) + 1 = Len(bounds)
      /\ \A x \in 1 .. Len(p.blocks) :
           /\ bounds[x] \in Nat /\ bounds[x + 1] \in Nat
           /\ p.blocks[x].start = bounds[x] /\ p.blocks[x].stop = bounds[x + 1]
           /\ p.blocks[x].chunks = AnchorChunks(BlockRows(order, x))
  BY PlannedBlocks
<1>2. ASSUME NEW x \in 1 .. Len(p.blocks), NEW cid \in p.blocks[x].chunks
      PROVE  \E i \in 1 .. Len(order.rows) : order.rows[i][1] = cid /\ bounds[x] < i /\ i <= bounds[x + 1]
  <2>1. PICK rows : /\ rows = BlockRows(order, x) /\ DOMAIN rows = 1 .. Len(rows)
                    /\ Terms(rows) = {order.rows[i] : i \in (p.blocks[x].start + 1) .. p.blocks[x].stop}
                    /\ (p.blocks[x].start + 1) .. p.blocks[x].stop \subseteq 1 .. Len(order.rows)
    BY BlockRowsAre
  <2>2. PICK row \in Terms(rows) : cid = row[1]
    <3>1. cid \in AnchorChunks(rows)
      BY <1>1, <2>1
    <3> QED
      BY <2>1, <3>1 DEF AnchorChunks, Terms
  <2>3. PICK i \in (p.blocks[x].start + 1) .. p.blocks[x].stop : row = order.rows[i]
    BY <2>1, <2>2
  <2>4. i \in 1 .. Len(order.rows) /\ bounds[x] < i /\ i <= bounds[x + 1]
    <3>1. PICK lo \in Nat, hi \in Nat : /\ lo = bounds[x] /\ hi = bounds[x + 1]
                                       /\ lo = p.blocks[x].start /\ hi = p.blocks[x].stop
      BY <1>1
    <3>2. i \in (lo + 1) .. hi
      BY <2>3, <3>1
    <3>3. lo < i /\ i <= hi
      BY <3>1, <3>2
    <3> QED
      BY <2>1, <2>3, <3>1, <3>3
  <2> QED
    BY <2>2, <2>3, <2>4
<1>3. Laid(order) /\ Unbroken(order)
  BY OrderIs
<1> HIDE DEF order
<1>4. SUFFICES ASSUME NEW cid, cid \in p.blocks[b].chunks, cid \in p.blocks[d].chunks PROVE FALSE
  OBVIOUS
<1>5. PICK i \in 1 .. Len(order.rows) : order.rows[i][1] = cid /\ bounds[b] < i /\ i <= bounds[b + 1]
  BY <1>2, <1>4
<1>6. PICK j \in 1 .. Len(order.rows) : order.rows[j][1] = cid /\ bounds[d] < j /\ j <= bounds[d + 1]
  BY <1>2, <1>4
<1>7. b + 1 \in 1 .. Len(bounds) /\ d \in 1 .. Len(bounds) /\ b + 1 \in 1 .. d
  BY <1>1
<1>8. bounds[b + 1] <= bounds[d]
  <2>1. CASE b + 1 = d
    BY <1>1, <2>1
  <2>2. CASE b + 1 # d
    <3>1. b + 1 < d
      BY <1>7, <2>2
    <3>2. bounds[b + 1] < bounds[d]
      BY <1>3, <1>7, <3>1 DEF Laid
    <3>3. PICK low \in Nat, high \in Nat : low = bounds[b + 1] /\ high = bounds[d]
      BY <1>1
    <3>4. low <= high
      BY <3>2, <3>3
    <3> QED
      BY <3>3, <3>4
  <2> QED
    BY <2>1, <2>2
<1>9. j <= bounds[b + 1]
  <2>1. order.rows[i][1] = order.rows[j][1]
    BY <1>5, <1>6
  <2>2. \A x \in 1 .. Len(bounds) : i <= bounds[x] <=> j <= bounds[x]
    BY <1>3, <2>1 DEF Unbroken
  <2>3. PICK x \in 1 .. Len(bounds) : x = b + 1
    BY <1>7
  <2>4. i <= bounds[x]
    BY <1>5, <2>3
  <2>5. j <= bounds[x]
    BY <2>2, <2>4
  <2> QED
    BY <2>3, <2>5
<1>10. bounds[b + 1] \in Nat /\ bounds[d] \in Nat /\ j \in Nat
  <2>1. bounds \in Seq(Nat)
    BY <1>3 DEF Laid
  <2>2. \A x \in 1 .. Len(bounds) : bounds[x] \in Nat
    BY <2>1
  <2> QED
    BY <1>6, <1>7, <2>2
<1>11. PICK low \in Nat, high \in Nat : low = bounds[b + 1] /\ high = bounds[d]
  BY <1>10
<1> QED
  BY <1>6, <1>8, <1>9, <1>10, <1>11

(* What a part draws are its samples (split.py, sample_indices).           *)
LEMMA AnchorsAreSamples ==
  ASSUME Sound(Config), Config.part \in Parts, SampleChunkSize(Config.views[1]) = Config.refSpc,
         NEW row \in Drawable(ChunkIds(Config.manifest, Config.part))
  PROVE  Anchor(row, Config.refSpc) \in SampleIndices(Config.manifest, Config.part, Config.views[1])
<1> DEFINE view == Config.views[1]
<1>1. Config.refSpc \in Nat \ {0} /\ NSamples(view) = Config.n
  BY DEF Sound, Readable, Paired
<1>2. Config.n \in Nat /\ ChunkIds(Config.manifest, Config.part) = Config.manifest[Config.part]
  BY DEF Sound, ChunkIds, Parts
<1>3. Config.manifest[Config.part] \in SUBSET Nat
  <2>1. CeilDiv(Config.n, Config.refSpc) \in Nat
    BY <1>1, <1>2, CeilingIs
  <2>2. Span(0, CeilDiv(Config.n, Config.refSpc)) \in SUBSET Nat
    BY <2>1 DEF Span
  <2> QED
    BY <2>2 DEF Sound
<1>4. PICK cid \in Nat, within \in Nat :
        /\ row[1] = cid /\ row[2] = within /\ within < Config.refSpc
        /\ cid \in Config.manifest[Config.part] /\ Anchor(row, Config.refSpc) < Config.n
  <2>1. Span(0, Config.refSpc) \in SUBSET Nat /\ \A x \in Span(0, Config.refSpc) : x < Config.refSpc
    BY <1>1 DEF Span
  <2>2. row \in Config.manifest[Config.part] \X Span(0, Config.refSpc) /\ Anchor(row, Config.refSpc) < Config.n
    BY <1>2 DEF Drawable
  <2> QED
    BY <1>3, <2>1, <2>2
<1>5. PICK lo \in Nat, hi \in Nat, a \in Nat :
        lo = cid * Config.refSpc /\ hi = (cid + 1) * Config.refSpc /\ a = lo + within
  <2>1. PICK spc \in Nat : spc = Config.refSpc
    BY <1>1
  <2>2. cid * spc \in Nat /\ (cid + 1) * spc \in Nat
    OBVIOUS
  <2>3. cid * spc + within \in Nat
    BY <2>2
  <2> QED
    BY <2>1, <2>2, <2>3
<1>6. hi = lo + Config.refSpc
  BY <1>1, <1>5, OneMore
<1>7. a = Anchor(row, Config.refSpc) /\ a < Config.n /\ lo <= a /\ a < hi
  <2>1. a = Anchor(row, Config.refSpc)
    BY <1>4, <1>5 DEF Anchor
  <2> QED
    BY <1>1, <1>4, <1>5, <1>6, <2>1
<1>8. SamplesInChunk(view, cid) = Span(lo, MinOf(hi, Config.n))
  BY <1>1, <1>5 DEF SamplesInChunk
<1>9. a \in SamplesInChunk(view, cid)
  BY <1>2, <1>7, <1>8 DEF Span, MinOf
<1> QED
  BY <1>4, <1>7, <1>9 DEF SampleIndices

(* The blocks of a plan follow each other and share no chunk.              *)
LEMMA BlocksFollow ==
  ASSUME NEW p, Planned(p), Sound(p.config)
  PROVE  LET blocks == p.blocks
             rows == OrderOf(p.config).rows
         IN  /\ \A b \in DOMAIN blocks :
                  /\ blocks[b].start < blocks[b].stop
                  /\ blocks[b].start = IF b = 1 THEN 0 ELSE blocks[b - 1].stop
                  /\ \A c \in DOMAIN blocks : b # c => blocks[b].chunks \cap blocks[c].chunks = {}
             /\ blocks # <<>> => blocks[Len(blocks)].stop = Len(rows)
<1> DEFINE order == OrderOf(p.config)
           bounds == order.bounds
           m == Len(p.blocks)
<1>1. /\ m \in Nat /\ DOMAIN p.blocks = 1 .. m /\ m + 1 = Len(bounds)
      /\ \A x \in 1 .. m : /\ bounds[x] \in Nat /\ bounds[x + 1] \in Nat /\ bounds[x] < bounds[x + 1]
                           /\ p.blocks[x].start = bounds[x] /\ p.blocks[x].stop = bounds[x + 1]
  BY PlannedBlocks
<1>2. Laid(order)
  BY OrderIs
<1>3. \A b, c \in 1 .. m : b < c => p.blocks[b].chunks \cap p.blocks[c].chunks = {}
  BY BlocksShareNoChunk
<1>4. bounds[1] = 0 /\ bounds[m + 1] = Len(order.rows)
  BY <1>1, <1>2 DEF Laid
<1> HIDE DEF bounds, order
<1>5. ASSUME NEW b \in 1 .. m
      PROVE  /\ p.blocks[b].start < p.blocks[b].stop
             /\ p.blocks[b].start = IF b = 1 THEN 0 ELSE p.blocks[b - 1].stop
             /\ \A c \in 1 .. m : b # c => p.blocks[b].chunks \cap p.blocks[c].chunks = {}
  <2>1. p.blocks[b].start < p.blocks[b].stop
    BY <1>1
  <2>2. b # 1 => p.blocks[b].start = p.blocks[b - 1].stop
    <3>1. b # 1 => b - 1 \in 1 .. m /\ (b - 1) + 1 = b
      BY <1>1
    <3> HIDE DEF m
    <3> QED
      BY <1>1, <3>1
  <2>3. p.blocks[b].start = IF b = 1 THEN 0 ELSE p.blocks[b - 1].stop
    BY <1>1, <1>4, <2>2
  <2>4. ASSUME NEW c \in 1 .. m, b # c
        PROVE  p.blocks[b].chunks \cap p.blocks[c].chunks = {}
    <3>1. b < c \/ c < b
      BY <1>1, <2>4
    <3> QED
      BY <1>3, <3>1
  <2> QED
    BY <2>1, <2>3, <2>4
<1>6. p.blocks # <<>> => p.blocks[m].stop = Len(order.rows)
  <2>1. p.blocks # <<>> => m \in 1 .. m
    <3>1. p.blocks = Blocks(order, p.config.views, p.config.refSpc)
      BY PlannedBlocks DEF order
    <3>2. p.blocks = [x \in 1 .. m |-> p.blocks[x]]
      BY <1>1, <3>1 DEF Blocks
    <3>3. m = 0 => p.blocks = <<>>
      BY <3>2
    <3> HIDE DEF m
    <3> QED
      BY <1>1, <3>3
  <2> QED
    BY <1>1, <1>4, <2>1
<1> QED
  BY <1>1, <1>5, <1>6 DEF order

(* Where the manifest is a split, its parts share nothing and cover the    *)
(* chunks of the window, and a pass draws every anchor of its part exactly *)
(* once, from the one block that its chunk belongs to (split.py,           *)
(* split_by_chunk; shuffle.py, DrawOrder.keep; source.py, _blocks).        *)
THEOREM AnchorsAreDrawnOnce ==
  ASSUME \A p \in Plans : SplitOf(p.config)
  PROVE  Spec => []EveryAnchorOnce
<1>1. plan \in Plans => EveryAnchorOnce
  <2> SUFFICES ASSUME plan \in Plans PROVE EveryAnchorOnce
    OBVIOUS
  <2>1. Planned(plan) /\ Sound(Config) /\ SplitOf(Config)
    BY PlansArePlanned DEF Config
  <2>2. /\ ChunkIds(Config.manifest, "all") = Selected(Config.n, Config.refSpc, Config.window)
        /\ \A p, q \in Parts : p # q => Config.manifest[p] \cap Config.manifest[q] = {}
    <3>1. PICK order \in Seq(Nat), pct \in Nat \X Nat :
            /\ Distinct(order) /\ ToSet(order) = Selected(Config.n, Config.refSpc, Config.window)
            /\ \A part \in Parts : Config.manifest[part] = SplitByChunk(order, pct)[part]
      BY <2>1 DEF SplitOf
    <3>2. PICK manifest : manifest = SplitByChunk(order, pct)
      OBVIOUS
    <3>3. /\ ChunkIds(manifest, "all") = ToSet(order)
          /\ \A p, q \in Parts : p # q => manifest[p] \cap manifest[q] = {}
      BY <3>1, <3>2, SplitDealsOnce
    <3>4. ChunkIds(Config.manifest, "all") = ChunkIds(manifest, "all")
      BY <3>1, <3>2 DEF ChunkIds, Parts
    <3> QED
      BY <3>1, <3>2, <3>3, <3>4
  <2>3. /\ ToSet(RowsDrawn) = Drawable(ChunkIds(Config.manifest, Config.part))
        /\ Len(RowsDrawn) = Cardinality(ToSet(RowsDrawn))
    BY <2>1, DrawnIsDrawable
  <2>4. Config.part \in Parts /\ SampleChunkSize(Config.views[1]) = Config.refSpc =>
          \A row \in ToSet(RowsDrawn) :
            Anchor(row, Config.refSpc) \in SampleIndices(Config.manifest, Config.part, Config.views[1])
    BY <2>1, <2>3, AnchorsAreSamples
  <2>5. /\ \A b \in DOMAIN Blocked :
             /\ Blocked[b].start < Blocked[b].stop
             /\ Blocked[b].start = IF b = 1 THEN 0 ELSE Blocked[b - 1].stop
             /\ \A c \in DOMAIN Blocked :
                  b # c => Blocked[b].chunks \cap Blocked[c].chunks = {}
        /\ Blocked # <<>> => Blocked[Len(Blocked)].stop = Len(RowsDrawn)
    BY <2>1, BlocksFollow DEF Blocked, RowsDrawn, Config
  <2> QED
    BY <2>2, <2>3, <2>4, <2>5 DEF EveryAnchorOnce
<1> QED
  BY <1>1, PlanStays, PTL

-----------------------------------------------------------------------------
(* The passes, of every dataset.                                           *)

(* Where an array is chunked as the anchors are and read without a window  *)
(* a row reads what its anchor chunk does.                                 *)
LEMMA AlignedRowsRead ==
  ASSUME NEW c, Sound(c), NEW chunks, NEW row \in RowsOn(chunks, c.views, c.refSpc, c.n),
         \A v \in DOMAIN c.views : SampleChunkSize(c.views[v]) = c.refSpc /\ c.views[v].offset = 0
  PROVE  KeysOfAnchor(row[1], c.views, c.refSpc) \subseteq RowKeys(row, c.views, c.refSpc)
<1>1. PICK cid \in Nat, w \in Nat, spc \in Nat \ {0} : cid = row[1] /\ w = row[2] /\ spc = c.refSpc /\ w < spc
  BY DEF RowsOn, RowsOf, Sound
<1>2. PICK lo \in Nat, hi \in Nat : lo = cid * spc /\ hi = (cid + 1) * spc /\ hi = lo + spc
  BY <1>1, OneMore
<1>3. PICK a \in Nat : a = lo + w /\ lo <= a /\ a < hi /\ a = Anchor(row, c.refSpc)
  BY <1>1, <1>2 DEF Anchor
<1>4. ASSUME NEW x \in Nat, lo <= x, x < hi
      PROVE  x \div spc = cid
  <2>1. cid * spc <= x /\ x < (cid + 1) * spc
    BY <1>2, <1>4
  <2>2. cid = x \div spc
    BY <1>1, <2>1, QuotientIs
  <2> QED
    BY <2>2
<1>5. ASSUME NEW v \in DOMAIN c.views, NEW x \in SamplesRead(c.views[v], cid, c.refSpc)
      PROVE  ChunkOf(c.views[v], x) = ChunkOf(c.views[v], Anchor(row, c.refSpc) + c.views[v].offset)
  <2>1. c.views[v].offset = 0 /\ SampleChunkSize(c.views[v]) = spc
    BY <1>1
  <2>2. PICK y \in Span(lo, hi) : x = y + c.views[v].offset
    BY <1>1, <1>2 DEF SamplesRead
  <2>3. x \in Nat /\ lo <= x /\ x < hi
    BY <1>2, <2>1, <2>2 DEF Span
  <2>4. x \div spc = cid /\ a \div spc = cid
    BY <1>3, <1>4, <2>3
  <2>5. Anchor(row, c.refSpc) + c.views[v].offset = a
    BY <1>3, <2>1
  <2> QED
    BY <2>1, <2>4, <2>5 DEF ChunkOf
<1> QED
  BY <1>1, <1>5 DEF KeysOfAnchor, RowKeys

(* So where every chunk is full the driver claims for a block exactly what *)
(* its rows wait for (plan.py, build_stored_chunk_reads; source.py,        *)
(* _block_read_keys).                                                      *)
THEOREM EvenBlocksAwaitTheirReads ==
  ASSUME Planned(plan), Sound(Config), EvenChunks, Unwindowed
  PROVE  DeclaredIsAwaited
<1> DEFINE on == RowsOn(ChunkIds(Config.manifest, Config.part), Config.views, Config.refSpc, Config.n)
<1> SUFFICES ASSUME NEW b \in DOMAIN Blocked
             PROVE  ToSet(ReadsOfBlock(GroupsOf(Blocked)[b], Config.views, Config.refSpc)) = Blocked[b].keys
  BY DEF DeclaredIsAwaited
<1>1. b \in 1 .. Len(plan.blocks)
  BY PlannedBlocks DEF Blocked
<1>2. PICK rows : /\ rows = BlockRows(OrderOf(Config), b) /\ DOMAIN rows = 1 .. Len(rows)
                  /\ Terms(rows) = {RowsDrawn[i] : i \in (plan.blocks[b].start + 1) .. plan.blocks[b].stop}
                  /\ (plan.blocks[b].start + 1) .. plan.blocks[b].stop \subseteq 1 .. Len(RowsDrawn)
  BY <1>1, BlockRowsAre DEF RowsDrawn, Config
<1>3. /\ Blocked[b].keys = UNION {RowKeys(row, Config.views, Config.refSpc) : row \in Terms(rows)}
      /\ Blocked[b].chunks = AnchorChunks(rows)
  BY <1>1, <1>2, PlannedBlocks, BlockKeysAre DEF Blocked, Config
<1>4. \A row \in Terms(rows) : row \in on
  <2>1. Terms(RowsDrawn) = on
    BY OrderIs DEF RowsDrawn
  <2> HIDE DEF on
  <2>2. \A i \in 1 .. Len(RowsDrawn) : RowsDrawn[i] \in on
    BY <2>1 DEF Terms
  <2> QED
    BY <1>2, <2>2
<1>5. \A v \in DOMAIN Config.views : SampleChunkSize(Config.views[v]) = Config.refSpc /\ Config.views[v].offset = 0
  BY DEF EvenChunks, Unwindowed
<1>6. \A row \in Terms(rows) : KeysOfAnchor(row[1], Config.views, Config.refSpc) \subseteq RowKeys(row, Config.views, Config.refSpc)
  BY <1>4, <1>5, AlignedRowsRead DEF on
<1>7. \A cid \in Blocked[b].chunks : \E row \in Terms(rows) : cid = row[1]
  BY <1>2, <1>3 DEF AnchorChunks, Terms
<1>8. KeysOfAnchors(Blocked[b].chunks, Config.views, Config.refSpc) \subseteq Blocked[b].keys
  BY <1>3, <1>6, <1>7 DEF KeysOfAnchors
<1>9. Blocked[b].keys \subseteq KeysOfAnchors(Blocked[b].chunks, Config.views, Config.refSpc)
  BY <1>1, BlockReads DEF Blocked, Config
<1>10. PICK reads : /\ reads = ReadsOfBlock(GroupsOf(Blocked)[b], Config.views, Config.refSpc)
                    /\ reads = ReadsOfPlan(plan, Len(plan.blocks))[b]
  BY <1>1 DEF ReadsOfPlan, Blocked, Config
<1>11. /\ reads \in Seq(ReadableKeys(Config.views))
       /\ Terms(reads) = KeysOfAnchors(Blocked[b].chunks, Config.views, Config.refSpc)
  BY <1>1, <1>10, ReadsHold DEF Blocked, Config
<1>12. ToSet(reads) = Terms(reads)
  BY <1>11 DEF ToSet, Terms
<1> QED
  BY <1>8, <1>9, <1>10, <1>11, <1>12

(* A pass lets go of what it took, keeps its read-ahead permits balanced,  *)
(* leaves no reference to what nobody reads, and its loops are in order:   *)
(* of every plan that a dataset makes, with no assumption on the plan.     *)
(* (source.py, _iterate and _produce; scheduler.py).                       *)
COROLLARY PassesAreSafe ==
  Spec => [](TypeOK /\ NothingHeld /\ PermitsBalance /\ LeftoverIsUnread) /\ ImplementsInOrderStream
<1>1. CoherentPlans
  BY PlansAreCoherent
<1>2. Spec => []TypeOK
  BY <1>1, TypeCorrect
<1>3. Spec => []NothingHeld
  BY <1>1, PassesLetGo
<1>4. Spec => []PermitsBalance
  BY <1>1, PermitsAreKept
<1>5. Spec => []LeftoverIsUnread
  BY <1>1, LeftoversAreUnread
<1>6. Spec => ImplementsInOrderStream
  BY <1>1, LoopsAreInOrder
<1> QED
  BY <1>2, <1>3, <1>4, <1>5, <1>6, PTL

(* A pass that reads nothing twice, claims no more than its blocks read    *)
(* and whose batches span two blocks at most is never starved of read-     *)
(* ahead: the driver gives up only where the budget is too small           *)
(* (scheduler.py, _ahead_starvation: "read-ahead permits exhausted").      *)
THEOREM ReadAheadNeverStarves ==
  ASSUME PromptLoop
  PROVE  Spec => [](~plan.reread /\ ClaimsNoMore(plan) /\ BatchesSpanTwoBlocks /\ driver = "starved"
                      => ~BudgetSuffices)
<1>1. CoherentPlans
  BY PlansAreCoherent
<1>2. Spec => [](~plan.reread => StarvedForCause)
  BY <1>1, StarvationHasCause
<1>3. ASSUME plan \in Plans, ~plan.reread => StarvedForCause
      PROVE  ~plan.reread /\ ClaimsNoMore(plan) /\ BatchesSpanTwoBlocks /\ driver = "starved"
               => ~BudgetSuffices
  BY <1>3, PlansAreMade, BoundIsEnough DEF StarvedForCause
<1> QED
  BY <1>2, <1>3, PlanStays, PTL

(* So it is of a pass whose driver reads for a block what its rows wait   *)
(* for, and nothing else (plan.py, build_stored_chunk_reads; scheduler.py, *)
(* _ahead_starvation).                                                     *)
COROLLARY DeclaredNeverStarves ==
  ASSUME PromptLoop
  PROVE  Spec => [](~plan.reread /\ DeclaredIsAwaited /\ BatchesSpanTwoBlocks /\ driver = "starved"
                      => ~BudgetSuffices)
<1>1. Spec => [](~plan.reread /\ ClaimsNoMore(plan) /\ BatchesSpanTwoBlocks /\ driver = "starved"
                   => ~BudgetSuffices)
  BY ReadAheadNeverStarves
<1>2. ASSUME plan \in Plans, DeclaredIsAwaited
      PROVE  ClaimsNoMore(plan)
  BY <1>2, PlansAreMade, DeclaredIsClaimed
<1>3. ASSUME plan \in Plans,
             ~plan.reread /\ ClaimsNoMore(plan) /\ BatchesSpanTwoBlocks /\ driver = "starved"
               => ~BudgetSuffices
      PROVE  ~plan.reread /\ DeclaredIsAwaited /\ BatchesSpanTwoBlocks /\ driver = "starved"
               => ~BudgetSuffices
  BY <1>2, <1>3
<1> QED
  BY <1>1, <1>3, PlanStays, PTL

(* Of a dataset without windows whose arrays are chunked as the anchors    *)
(* are, in full chunks, this is so of every pass that reads nothing twice: *)
(* the widened blocks (source.py, __init__) and the bound computed from    *)
(* them are enough.                                                        *)
COROLLARY EvenPassesNeverStarve ==
  ASSUME PromptLoop
  PROVE  Spec => [](~plan.reread /\ EvenChunks /\ Unwindowed /\ driver = "starved" => ~BudgetSuffices)
<1>1. Spec => [](~plan.reread /\ DeclaredIsAwaited /\ BatchesSpanTwoBlocks /\ driver = "starved"
                   => ~BudgetSuffices)
  BY DeclaredNeverStarves
<1>2. ASSUME plan \in Plans, EvenChunks, Unwindowed
      PROVE  DeclaredIsAwaited /\ BatchesSpanTwoBlocks
  <2>1. Planned(plan) /\ Sound(Config)
    BY <1>2, PlansArePlanned DEF Config
  <2> QED
    BY <1>2, <2>1, BatchMeetsTwo, EvenBlocksAwaitTheirReads
<1>3. ASSUME plan \in Plans,
             ~plan.reread /\ DeclaredIsAwaited /\ BatchesSpanTwoBlocks /\ driver = "starved"
               => ~BudgetSuffices
      PROVE  ~plan.reread /\ EvenChunks /\ Unwindowed /\ driver = "starved" => ~BudgetSuffices
  BY <1>2, <1>3
<1> QED
  BY <1>1, <1>3, PlanStays, PTL


StageNames == {"residency", "store", "decode", "gather"}

-----------------------------------------------------------------------------
(* The ranking, of any four numbers.                                       *)

(* A sequence of four stages and their times.                              *)
FourTimes(s) == DOMAIN s = 1 .. 4 /\ \A i \in 1 .. 4 : s[i].time \in Nat

LEMMA PrecedesIsTotal ==
  ASSUME NEW s, FourTimes(s)
  PROVE  /\ \A i \in 1 .. 4 : Precedes(s, i, i)
         /\ \A i, j \in 1 .. 4 : Precedes(s, i, j) \/ Precedes(s, j, i)
         /\ \A i, j \in 1 .. 4 : Precedes(s, i, j) /\ Precedes(s, j, i) => i = j
         /\ \A i, j, k \in 1 .. 4 : Precedes(s, i, j) /\ Precedes(s, j, k) => Precedes(s, i, k)
BY DEF FourTimes, Precedes

(* What comes first of a set of stages.                                    *)
LEMMA FirstOfSome ==
  ASSUME NEW s, FourTimes(s), NEW S \in SUBSET (1 .. 4), S # {}
  PROVE  \E i \in S : \A j \in S : Precedes(s, i, j)
<1> DEFINE Good(T) == T # {} => \E i \in T : \A j \in T : Precedes(s, i, j)
<1>1. ASSUME NEW T \in SUBSET (1 .. 4), NEW n \in 1 .. 4, Good(T)
      PROVE  Good(T \cup {n})
  <2>1. CASE T = {}
    BY <2>1, PrecedesIsTotal
  <2>2. CASE T # {}
    <3>1. PICK i \in T : \A j \in T : Precedes(s, i, j)
      BY <1>1, <2>2
    <3>2. CASE Precedes(s, i, n)
      BY <3>1, <3>2
    <3>3. CASE Precedes(s, n, i)
      BY <3>1, <3>3, PrecedesIsTotal
    <3> QED
      BY <3>1, <3>2, <3>3, PrecedesIsTotal
  <2> QED
    BY <2>1, <2>2
<1>2. \A T \in SUBSET (1 .. 4), n \in 1 .. 4 : Good(T) => Good(T \cup {n})
  BY <1>1
<1>3. Good({})
  OBVIOUS
<1> HIDE DEF Good
<1> DEFINE Up(n) == S \cap 1 .. n
<1>4. Good(Up(0))
  <2>1. Up(0) = {}
    OBVIOUS
  <2> QED
    BY <1>3, <2>1
<1>5. ASSUME NEW n \in 0 .. 3, Good(Up(n))
      PROVE  Good(Up(n + 1))
  <2>1. Up(n) \in SUBSET (1 .. 4) /\ n + 1 \in 1 .. 4
    OBVIOUS
  <2>2. Up(n + 1) = Up(n) \/ Up(n + 1) = Up(n) \cup {n + 1}
    OBVIOUS
  <2> QED
    BY <1>2, <1>5, <2>1, <2>2
<1>6. Good(Up(4))
  BY <1>4, <1>5
<1>7. Up(4) = S
  OBVIOUS
<1> QED
  BY <1>6, <1>7 DEF Good

(* The first has rank one, the next has rank two, and no other has.        *)
LEMMA Ranks ==
  ASSUME NEW s, FourTimes(s)
  PROVE  \E a, b \in 1 .. 4 :
           /\ a # b
           /\ \A j \in 1 .. 4 : Precedes(s, a, j) /\ (j # a => Precedes(s, b, j))
           /\ \A i \in 1 .. 4 : (Rank(s, i) = 1 <=> i = a) /\ (Rank(s, i) = 2 <=> i = b)
<1> DEFINE Ahead(i) == {j \in 1 .. 4 : Precedes(s, j, i)}
<1>1. \A i \in 1 .. 4 : Rank(s, i) = Cardinality(Ahead(i)) /\ IsFiniteSet(Ahead(i)) /\ i \in Ahead(i)
  <2> SUFFICES ASSUME NEW i \in 1 .. 4
               PROVE  Rank(s, i) = Cardinality(Ahead(i)) /\ IsFiniteSet(Ahead(i)) /\ i \in Ahead(i)
    OBVIOUS
  <2>1. IsFiniteSet(1 .. 4)
    <3>1. 1 \in Int /\ 4 \in Int
      OBVIOUS
    <3> QED
      BY <3>1, FS_Interval
  <2>2. IsFiniteSet(Ahead(i))
    <3>1. Ahead(i) \in SUBSET (1 .. 4)
      OBVIOUS
    <3> QED
      BY <2>1, <3>1, FS_Subset
  <2>3. Rank(s, i) = Cardinality(Ahead(i))
    BY DEF Rank, FourTimes
  <2> QED
    BY <2>2, <2>3, PrecedesIsTotal
<1> HIDE DEF Ahead
<1>2. PICK a \in 1 .. 4 : \A j \in 1 .. 4 : Precedes(s, a, j)
  <2>1. 1 .. 4 # {} /\ 1 .. 4 \in SUBSET (1 .. 4)
    OBVIOUS
  <2> QED
    BY <2>1, FirstOfSome
<1>3. PICK b \in (1 .. 4) \ {a} : \A j \in (1 .. 4) \ {a} : Precedes(s, b, j)
  <2>1. (1 .. 4) \ {a} # {} /\ (1 .. 4) \ {a} \in SUBSET (1 .. 4)
    BY <1>2
  <2> QED
    BY <2>1, FirstOfSome
<1>4. Ahead(a) = {a} /\ Ahead(b) = {a, b}
  BY <1>2, <1>3, PrecedesIsTotal DEF Ahead
<1>5. Rank(s, a) = 1 /\ Rank(s, b) = 2
  <2>1. Cardinality({a}) = 1 /\ Cardinality({a, b}) = 2
    BY <1>3, SmallSets
  <2>2. Rank(s, a) = Cardinality(Ahead(a)) /\ Rank(s, b) = Cardinality(Ahead(b))
    BY <1>1
  <2> QED
    BY <1>4, <2>1, <2>2
<1>6. ASSUME NEW i \in 1 .. 4, i # a
      PROVE  Rank(s, i) # 1
  <2>1. {a, i} \subseteq Ahead(i)
    BY <1>1, <1>2 DEF Ahead
  <2>2. Cardinality({a, i}) = 2
    BY <1>6, SmallSets
  <2>3. Cardinality({a, i}) <= Cardinality(Ahead(i)) /\ Cardinality(Ahead(i)) \in Nat
    BY <1>1, <2>1, FS_Subset, FS_CardinalityType
  <2> QED
    BY <1>1, <2>2, <2>3
<1>7. ASSUME NEW i \in 1 .. 4, i # a, i # b
      PROVE  Rank(s, i) # 2
  <2>1. {a, b, i} \subseteq Ahead(i)
    BY <1>1, <1>2, <1>3, <1>7 DEF Ahead
  <2>2. Cardinality({a, b, i}) = 3
    BY <1>3, <1>7, SmallSets
  <2>3. Cardinality({a, b, i}) <= Cardinality(Ahead(i)) /\ Cardinality(Ahead(i)) \in Nat
    BY <1>1, <2>1, FS_Subset, FS_CardinalityType
  <2> QED
    BY <1>1, <2>2, <2>3
<1> QED
  BY <1>2, <1>3, <1>5, <1>6, <1>7

-----------------------------------------------------------------------------
(* The stages of a pass, ranked.                                           *)

LEMMA SpentOf ==
  ASSUME NEW t \in StageTimes(Nat)
  PROVE  /\ DOMAIN Spent(t) = StageNames
         /\ \A r \in StageNames : Spent(t)[r] \in Nat
         /\ t.parked = Spent(t)["residency"]
         /\ ProducerTime(t) = Spent(t)["residency"] + Spent(t)["store"] + Spent(t)["decode"] + Spent(t)["gather"]
         /\ ProducerTime(t) \in Nat
<1>1. /\ t.parked \in Nat /\ t.fetch \in Nat /\ t.decode \in Nat /\ t.assemble \in Nat
      /\ t.gather \in Nat /\ t.batchTransform \in Nat
  BY DEF StageTimes, Timers
<1>2. DOMAIN Spent(t) = StageNames
  BY DEF Spent, StageNames
<1>3. /\ Spent(t)["residency"] = t.parked /\ Spent(t)["store"] = t.fetch
      /\ Spent(t)["decode"] = t.decode + t.assemble
      /\ Spent(t)["gather"] = t.gather + t.batchTransform
  BY DEF Spent
<1> QED
  BY <1>1, <1>2, <1>3 DEF StageNames, ProducerTime

LEMMA StagesInOrder ==
  ASSUME NEW t \in StageTimes(Nat)
  PROVE  /\ FourTimes(ByStage(t))
         /\ \A i \in 1 .. 4 :
              /\ ByStage(t)[i].stage \in StageNames
              /\ ByStage(t)[i].time = Spent(t)[ByStage(t)[i].stage]
         /\ \A r \in StageNames : \E i \in 1 .. 4 : ByStage(t)[i].stage = r
         /\ \A i, j \in 1 .. 4 : ByStage(t)[i].stage = ByStage(t)[j].stage => i = j
<1> DEFINE s == ByStage(t)
<1>1. /\ t.parked \in Nat /\ t.fetch \in Nat /\ t.decode \in Nat /\ t.assemble \in Nat
      /\ t.gather \in Nat /\ t.batchTransform \in Nat
  BY DEF StageTimes, Timers
<1>2. DOMAIN s = 1 .. 4
  BY DEF ByStage
<1>3. /\ s[1].stage = "residency" /\ s[2].stage = "store"
      /\ s[3].stage = "decode" /\ s[4].stage = "gather"
  BY DEF ByStage
<1>4. /\ s[1].time = t.parked /\ s[2].time = t.fetch
      /\ s[3].time = t.decode + t.assemble /\ s[4].time = t.gather + t.batchTransform
  BY DEF ByStage
<1>5. /\ Spent(t)["residency"] = t.parked /\ Spent(t)["store"] = t.fetch
      /\ Spent(t)["decode"] = t.decode + t.assemble
      /\ Spent(t)["gather"] = t.gather + t.batchTransform
  BY DEF Spent
<1> HIDE DEF s
<1>6. FourTimes(s)
  BY <1>1, <1>2, <1>4 DEF FourTimes
<1>7. \A i \in 1 .. 4 : i = 1 \/ i = 2 \/ i = 3 \/ i = 4
  OBVIOUS
<1>8. \A i \in 1 .. 4 : s[i].stage \in StageNames /\ s[i].time = Spent(t)[s[i].stage]
  BY <1>3, <1>4, <1>5, <1>7 DEF StageNames
<1>9. \A r \in StageNames : \E i \in 1 .. 4 : s[i].stage = r
  BY <1>3 DEF StageNames
<1>10. \A i, j \in 1 .. 4 : s[i].stage = s[j].stage => i = j
  BY <1>3, <1>7
<1> QED
  BY <1>6, <1>8, <1>9, <1>10 DEF s

(* The first two of the ranking are two stages, and no other took longer   *)
(* than either (_dominant: sorted by time).                                *)
LEMMA TopTwo ==
  ASSUME NEW t \in StageTimes(Nat)
  PROVE  \E top, runner \in StageNames :
           /\ top # runner
           /\ Ranked(t)[1].stage = top /\ Ranked(t)[1].time = Spent(t)[top]
           /\ Ranked(t)[2].stage = runner /\ Ranked(t)[2].time = Spent(t)[runner]
           /\ Spent(t)[runner] <= Spent(t)[top]
           /\ \A r \in StageNames \ {top} : Spent(t)[r] <= Spent(t)[runner]
<1> DEFINE s == ByStage(t)
<1>1. /\ FourTimes(s)
      /\ \A i \in 1 .. 4 : s[i].stage \in StageNames /\ s[i].time = Spent(t)[s[i].stage]
      /\ \A r \in StageNames : \E i \in 1 .. 4 : s[i].stage = r
      /\ \A i, j \in 1 .. 4 : s[i].stage = s[j].stage => i = j
  BY StagesInOrder
<1> HIDE DEF s
<1>2. PICK a, b \in 1 .. 4 :
        /\ a # b
        /\ \A j \in 1 .. 4 : Precedes(s, a, j) /\ (j # a => Precedes(s, b, j))
        /\ \A i \in 1 .. 4 : (Rank(s, i) = 1 <=> i = a) /\ (Rank(s, i) = 2 <=> i = b)
  BY <1>1, Ranks
<1> DEFINE ranked(n) == CHOOSE i \in 1 .. 4 : Rank(s, i) = n
<1>3. ranked(1) = a
  BY <1>2
<1>4. ranked(2) = b
  BY <1>2
<1>5. Ranked(t)[1] = s[a] /\ Ranked(t)[2] = s[b]
  <2>1. DOMAIN s = 1 .. 4
    BY <1>1 DEF FourTimes
  <2>2. Ranked(t) = [n \in 1 .. 4 |-> s[ranked(n)]]
    BY <2>1 DEF Ranked, s
  <2> HIDE DEF ranked
  <2> QED
    BY <1>3, <1>4, <2>2
<1>6. \A i, j \in 1 .. 4 : Precedes(s, i, j) => s[j].time <= s[i].time
  BY <1>1 DEF Precedes, FourTimes
<1>7. s[a].stage # s[b].stage /\ s[b].time <= s[a].time
  BY <1>1, <1>2, <1>6
<1>8. \A r \in StageNames \ {s[a].stage} : Spent(t)[r] <= Spent(t)[s[b].stage]
  <2> SUFFICES ASSUME NEW r \in StageNames \ {s[a].stage}
               PROVE  Spent(t)[r] <= Spent(t)[s[b].stage]
    OBVIOUS
  <2>1. PICK i \in 1 .. 4 : s[i].stage = r
    BY <1>1
  <2>2. s[i].time <= s[b].time
    BY <1>2, <1>6, <2>1
  <2> QED
    BY <1>1, <2>1, <2>2
<1> QED
  BY <1>1, <1>5, <1>7, <1>8

-----------------------------------------------------------------------------
(* The verdict on the producer's time.                                     *)

LEMMA DominantIsEarned ==
  ASSUME NEW t \in StageTimes(Nat), NEW saturated,
         NEW v, v = Dominant(t, saturated).stage
  PROVE  /\ v \in StageNames \cup {"unknown"}
         /\ v \in StageNames => Leads(t, v) \/ Explains(t, v)
         /\ v = "unknown" /\ ProducerTime(t) > 0 => \A r \in StageNames : ~Leads(t, r)
<1> DEFINE total == ProducerTime(t)
<1>1. PICK top, runner \in StageNames :
        /\ top # runner
        /\ Ranked(t)[1].stage = top /\ Ranked(t)[1].time = Spent(t)[top]
        /\ Ranked(t)[2].stage = runner /\ Ranked(t)[2].time = Spent(t)[runner]
        /\ Spent(t)[runner] <= Spent(t)[top]
        /\ \A r \in StageNames \ {top} : Spent(t)[r] <= Spent(t)[runner]
  BY TopTwo
<1>2. PICK most, next \in Nat : most = Spent(t)[top] /\ next = Spent(t)[runner] /\ next <= most
  BY <1>1, SpentOf
<1>3. total \in Nat
  BY SpentOf
<1> DEFINE spread == total <= 0 \/ 100 * most < 40 * total
           yields == top = "residency" /\ ~(100 * next < 20 * total)
           near == 100 * (most - next) < 10 * total
<1>4. v = IF spread THEN "unknown" ELSE IF yields THEN runner ELSE IF near THEN "unknown" ELSE top
  BY <1>1, <1>2
     DEF Dominant, Unknown, Accuse, ShareBelow, Dominance, ResidencyYield, Separation
<1> HIDE DEF total
<1>5. "unknown" \notin StageNames
  BY DEF StageNames
<1>6. \A r \in StageNames : Spent(t)[r] \in Nat /\ (r # top => Spent(t)[r] <= next)
  BY <1>1, <1>2, SpentOf
<1>7. CASE spread
  <2>1. v = "unknown"
    BY <1>4, <1>7
  <2>2. ASSUME NEW r \in StageNames, total > 0
        PROVE  ~(100 * Spent(t)[r] >= 40 * total)
    <3>1. Spent(t)[r] <= most
      BY <1>2, <1>6
    <3> QED
      BY <1>2, <1>3, <1>6, <1>7, <2>2, <3>1
  <2> QED
    BY <1>5, <2>1, <2>2 DEF Leads, total
<1>8. CASE ~spread /\ yields
  <2>1. v = runner /\ runner # "residency"
    BY <1>1, <1>4, <1>8
  <2>2. t.parked = most
    BY <1>2, <1>8, SpentOf
  <2>3. \A r \in StageNames : r # "residency" => Spent(t)[r] <= next /\ Spent(t)[r] <= most
    BY <1>2, <1>6, <1>8
  <2>4. 100 * most >= 40 * total /\ 100 * next >= 20 * total
    BY <1>2, <1>3, <1>8
  <2>5. Explains(t, runner)
    BY <1>2, <2>1, <2>2, <2>3, <2>4, SpentOf DEF Explains, total
  <2> QED
    BY <1>1, <1>5, <2>1, <2>5
<1>9. CASE ~spread /\ ~yields /\ near
  <2>1. v = "unknown"
    BY <1>4, <1>9
  <2>2. ASSUME NEW r \in StageNames
        PROVE  ~Leads(t, r)
    <3>1. PICK q \in StageNames \ {r} : 100 * (Spent(t)[r] - Spent(t)[q]) < 10 * total
      <4>1. CASE r = top
        BY <1>1, <1>2, <1>9, <4>1
      <4>2. CASE r # top
        <5>1. Spent(t)[r] <= most
          BY <1>2, <1>6, <4>2
        <5>2. 100 * (Spent(t)[r] - Spent(t)[top]) < 10 * total
          BY <1>2, <1>3, <1>6, <1>9, <5>1
        <5> QED
          BY <1>1, <4>2, <5>2
      <4> QED
        BY <4>1, <4>2
    <3>2. Spent(t)[q] \in Rivals(t, r)
      BY SpentOf DEF Rivals
    <3>3. 100 * (Spent(t)[r] - Spent(t)[q]) \in Int /\ 10 * total \in Int
      BY <1>3, <1>6
    <3> QED
      BY <3>1, <3>2, <3>3 DEF Leads, total
  <2> QED
    BY <1>5, <2>1, <2>2
<1>10. CASE ~spread /\ ~yields /\ ~near
  <2>1. v = top
    BY <1>4, <1>10
  <2>2. \A time \in Rivals(t, top) : time \in Nat /\ time <= next
    BY <1>6, SpentOf DEF Rivals
  <2>3. 100 * most >= 40 * total
    BY <1>2, <1>3, <1>10
  <2>4. \A time \in Rivals(t, top) : 100 * (most - time) >= 10 * total
    BY <1>2, <1>3, <1>10, <2>2
  <2>5. top = "residency" => \A time \in Rivals(t, top) : 100 * time < 20 * total
    BY <1>2, <1>3, <1>10, <2>2
  <2>6. Leads(t, top)
    BY <1>2, <2>3, <2>4, <2>5 DEF Leads, total
  <2> QED
    BY <1>1, <1>5, <2>1, <2>6
<1> QED
  BY <1>7, <1>8, <1>9, <1>10

(* A pass that parked most of its time is told so, or told why: the tie    *)
(* that withholds a verdict is never residency's ("Residency cannot reach  *)
(* here", _dominant).                                                      *)
THEOREM ResidencyIsNoNearTie ==
  ASSUME NEW t \in StageTimes(Nat), NEW saturated,
         Ranked(t)[1].stage = "residency", ProducerTime(t) > 0,
         ~ShareBelow(Ranked(t)[1].time, ProducerTime(t), Dominance)
  PROVE  Dominant(t, saturated).stage # "unknown"
<1> DEFINE total == ProducerTime(t)
<1>1. PICK runner \in StageNames : Ranked(t)[2].stage = runner
  BY TopTwo
<1>2. PICK most, next \in Nat : most = Ranked(t)[1].time /\ next = Ranked(t)[2].time
  BY TopTwo, SpentOf
<1>3. total \in Nat /\ total > 0 /\ ~(100 * most < 40 * total)
  BY <1>2, SpentOf DEF ShareBelow, Dominance
<1> HIDE DEF total
<1>4. 100 * next < 20 * total => ~(100 * (most - next) < 10 * total)
  BY <1>2, <1>3
<1>5. Dominant(t, saturated).stage =
        IF ~(100 * next < 20 * total) THEN runner ELSE "residency"
  BY <1>1, <1>2, <1>3, <1>4
     DEF Dominant, Unknown, Accuse, ShareBelow, Dominance, ResidencyYield, Separation, total
<1> QED
  BY <1>1, <1>5 DEF StageNames

(* Whatever the counters of a pass are, a stage is accused only where it   *)
(* leads every other clearly or explains why admission was parked, the     *)
(* consumer only where it let the queue fill, and nobody goes free who     *)
(* leads (runtime.py, bottleneck, _dominant).                              *)
THEOREM AccusationsAreEarned == ASSUME NEW stats \in PassStats(Nat) PROVE Earned(stats)
<1> DEFINE t == stats.times
           d == stats.depths
           idle == ConsumerIdle(stats)
           v == Dominant(t, Saturated(d)).stage
           stage == Bottleneck(stats).stage
<1>1. t \in StageTimes(Nat) /\ d.samples \in Nat /\ d.full \in Nat /\ d.empty \in Nat
  BY DEF PassStats, Depths
<1>2. /\ v \in StageNames \cup {"unknown"}
      /\ v \in StageNames => Leads(t, v) \/ Explains(t, v)
      /\ v = "unknown" /\ ProducerTime(t) > 0 => \A r \in StageNames : ~Leads(t, r)
  BY <1>1, DominantIsEarned
<1>3. DOMAIN Spent(t) = StageNames
  BY <1>1, SpentOf
<1> DEFINE fed == d.samples > 0 /\ 2 * d.full >= d.samples
           starved == d.samples > 0 /\ 5 * d.empty >= d.samples
           asked == d.samples > 0 /\ (idle \/ (starved /\ ~fed))
<1>4. /\ d.samples > 0 => (FedBelow(d, FullEnough) <=> ~fed)
      /\ d.samples > 0 => (StarvedBelow(d, StarvedEnough) <=> ~starved)
      /\ d.samples = 0 <=> ~(d.samples > 0)
  BY <1>1 DEF FedBelow, StarvedBelow, ShareBelow, FullEnough, StarvedEnough
<1>5. stage = IF d.samples = 0 THEN "unknown" ELSE IF idle THEN v
              ELSE IF ~FedBelow(d, FullEnough) THEN "consumer"
              ELSE IF StarvedBelow(d, StarvedEnough) THEN "unknown" ELSE v
  BY DEF Bottleneck, Unknown, Accuse
<1>6. /\ (stage = "consumer") <=> (fed /\ ~idle)
      /\ stage \in StageNames => asked /\ stage = v
      /\ stage = "unknown" /\ asked => v = "unknown"
  <2> HIDE DEF v, stage, idle
  <2>1. {"consumer", "unknown"} \cap StageNames = {} /\ "consumer" # "unknown"
    BY DEF StageNames
  <2> QED
    BY <1>2, <1>4, <1>5, <2>1
<1> QED
  BY <1>2, <1>3, <1>6 DEF Earned

(* What a pass says of itself is earned, with whatever statistics it ends. *)
THEOREM DiagnosesAreEarned == Spec => []DiagnosisIsEarned
<1>1. DiagnosisIsEarned
  BY AccusationsAreEarned, ProfilesAssumption DEF DiagnosisIsEarned
<1> QED
  BY <1>1, PTL
=============================================================================
