---------------------------- MODULE InOrderStream ----------------------------
(***************************************************************************)
(* What a loop over ds.train is promised (InSituDataset._iterate): the     *)
(* epoch's rows in draw order, each once, cut into batches of which only   *)
(* the last may be short; the loop ends by itself only after the last row, *)
(* and otherwise by an exception or because the caller left it.            *)
(***************************************************************************)
EXTENDS Integers, Sequences

VARIABLES
  total,    \* rows of the epoch
  size,     \* batch_size
  stream,   \* the batches the caller was given, as row ranges <<start, stop>>
  outcome   \* "open", or how the loop ended

streamVars == <<total, size, stream, outcome>>

Smaller(a, b) == IF a <= b THEN a ELSE b
Reached == IF stream = <<>> THEN 0 ELSE stream[Len(stream)][2]

StreamInit ==
  /\ total \in Nat
  /\ size \in Nat \ {0}
  /\ stream = <<>>
  /\ outcome = "open"

Yield ==
  /\ outcome = "open"
  /\ Reached < total
  /\ stream' = Append(stream, <<Reached, Smaller(Reached + size, total)>>)
  /\ UNCHANGED <<total, size, outcome>>

Finish ==
  /\ outcome = "open"
  /\ Reached = total
  /\ outcome' = "finished"
  /\ UNCHANGED <<total, size, stream>>

Fail == outcome = "open" /\ outcome' = "raised" /\ UNCHANGED <<total, size, stream>>
Leave == outcome = "open" /\ outcome' = "left" /\ UNCHANGED <<total, size, stream>>

StreamNext == Yield \/ Finish \/ Fail \/ Leave
StreamSpec == StreamInit /\ [][StreamNext]_streamVars
=============================================================================
