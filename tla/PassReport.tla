----------------------------- MODULE PassReport -----------------------------
(***************************************************************************)
(* What a finished pass says of itself: the stage it accuses, computed     *)
(* from its counters by bottleneck() in insitubatch/runtime.py.            *)
(*                                                                         *)
(* Times are whole units, shares are compared in percent.  A pass's        *)
(* statistics are a record [wall, times, depths]; times has one field per  *)
(* timer of StageTimes, depths the fields of Depths that the verdict uses. *)
(* The advice that goes with a verdict is its name, not its wording.       *)
(* Units is the set that times, and depths, are drawn from.                *)
(***************************************************************************)
EXTENDS Integers, Sequences, FiniteSets, SequencesExt

FullEnough == 50
StarvedEnough == 20
IdleConsumer == 10
Dominance == 40
Separation == 10
ResidencyYield == 20

(* x / total < pct / 100                                                   *)
ShareBelow(x, total, pct) == 100 * x < pct * total

-----------------------------------------------------------------------------
(* The statistics.                                                         *)

Timers == {"fetch", "parked", "decode", "assemble", "gather", "batchTransform", "consumer"}
StageTimes(Units) == [Timers -> Units]
Depths(Units) ==
  [capacity : Units, samples : Units, empty : Units, full : Units, peak : Units,
   inflightPeak : Units, maxInflight : Units]
PassStats(Units) == [wall : Units, times : StageTimes(Units), depths : Depths(Units)]

ProducerTime(t) ==
  t.fetch + t.parked + t.decode + t.assemble + t.gather + t.batchTransform

(* What the consumer records at each get: the depth it finds.  The         *)
(* collector starts from nothing.                                          *)

NoSamples(capacity) == [capacity |-> capacity, samples |-> 0, empty |-> 0, full |-> 0, peak |-> 0]

SampleQueue(d, depth) ==
  [d EXCEPT !.samples = @ + 1,
            !.empty = IF depth = 0 THEN @ + 1 ELSE @,
            !.full = IF depth # 0 /\ d.capacity # 0 /\ ~ShareBelow(depth, d.capacity, FullEnough)
                     THEN @ + 1 ELSE @,
            !.peak = IF depth > @ THEN depth ELSE @]

Sampled(capacity, found) == FoldLeft(SampleQueue, NoSamples(capacity), found)

StarvedBelow(d, pct) == d.samples = 0 \/ ShareBelow(d.empty, d.samples, pct)
FedBelow(d, pct) == d.samples = 0 \/ ShareBelow(d.full, d.samples, pct)

-----------------------------------------------------------------------------
(* The verdict.                                                            *)

(* Mutant: the timers are ranked, and a stage loses to itself.             *)
ByTimer(t) ==
  <<[stage |-> "residency", time |-> t.parked], [stage |-> "store", time |-> t.fetch],
    [stage |-> "decode", time |-> t.decode], [stage |-> "decode", time |-> t.assemble],
    [stage |-> "gather", time |-> t.gather], [stage |-> "gather", time |-> t.batchTransform]>>

(* The stages in the order they enter the dictionary, which breaks ties.   *)
ByStage(t) ==
  <<[stage |-> "residency", time |-> t.parked], [stage |-> "store", time |-> t.fetch],
    [stage |-> "decode", time |-> t.decode + t.assemble],
    [stage |-> "gather", time |-> t.gather + t.batchTransform]>>

Precedes(stages, i, j) ==
  stages[i].time > stages[j].time \/ (stages[i].time = stages[j].time /\ i <= j)
Rank(stages, i) == Cardinality({j \in DOMAIN stages : Precedes(stages, j, i)})
Ranked(t) ==
  LET stages == ByStage(t)
  IN  [n \in DOMAIN stages |-> stages[CHOOSE i \in DOMAIN stages : Rank(stages, i) = n]]

Unknown == [stage |-> "unknown", advice |-> "none"]
Accuse(stage, advice) == [stage |-> stage, advice |-> advice]

(* A full store queue changes the advice, never the verdict.               *)
Advice(stage, saturated) ==
  IF stage = "store" /\ saturated THEN "store_saturated" ELSE stage

(* Parking is backpressure: residency yields to whatever could explain it. *)
Dominant(t, saturated) ==
  LET total == ProducerTime(t)
      top == Ranked(t)[1]
      runner == Ranked(t)[2]
  IN  IF total <= 0 \/ ShareBelow(top.time, total, Dominance) THEN Unknown
      ELSE IF top.stage = "residency" /\ ~ShareBelow(runner.time, total, ResidencyYield)
      THEN Accuse(runner.stage, runner.stage)
      ELSE IF ShareBelow(top.time - runner.time, total, Separation) THEN Unknown
      ELSE Accuse(top.stage, Advice(top.stage, saturated))

ConsumerIdle(stats) == stats.wall > 0 /\ ShareBelow(stats.times.consumer, stats.wall, IdleConsumer)
Saturated(d) == d.inflightPeak >= d.maxInflight /\ d.maxInflight > 0

Bottleneck(stats) ==
  LET d == stats.depths
  IN  IF d.samples = 0 THEN Unknown
      ELSE IF ConsumerIdle(stats) THEN Dominant(stats.times, Saturated(d))
      ELSE IF ~FedBelow(d, FullEnough) THEN Accuse("consumer", "none")
      ELSE IF StarvedBelow(d, StarvedEnough) THEN Unknown
      ELSE Dominant(stats.times, Saturated(d))
=============================================================================
