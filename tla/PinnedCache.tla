---------------------------- MODULE PinnedCache ----------------------------
(***************************************************************************)
(* What the chunk pool promises its callers, without slots, tiles, writers *)
(* or locks: a bounded set of chunks, some of them settled (finished, or   *)
(* known to be bad), of which every pass holds some.                       *)
(*   - what is resident never weighs more than the budget;                 *)
(*   - a chunk some pass holds stays resident, whatever the others do;     *)
(*   - to make room only settled chunks that nobody holds are given up;    *)
(*   - an unfinished chunk goes only when a pass ends and nobody else      *)
(*     holds it;                                                           *)
(*   - a chunk once settled stays so for as long as it is resident.        *)
(***************************************************************************)
EXTENDS Integers, FiniteSets

CONSTANTS
  Pass,     \* the iterations that share the cache
  Chunk,    \* what it holds
  Weight,   \* the weight of a set of chunks
  Budget    \* what all resident chunks together may weigh

VARIABLES
  resident, \* the chunks in the cache
  settled,  \* those that are finished or failed
  held      \* held[p]: the chunks pass p has a reference to

vars == <<resident, settled, held>>

HeldByOthers(p) == UNION {held[q] : q \in Pass \ {p}}
Unheld == Chunk \ UNION {held[p] : p \in Pass}

Init ==
  /\ resident = {}
  /\ settled = {}
  /\ held = [p \in Pass |-> {}]

(* A pass takes a chunk, for which some that nobody holds may have to go.  *)
Take(p, c) ==
  \E V \in SUBSET (settled \cap Unheld) :
    /\ c \notin held[p]
    /\ c \notin V
    /\ resident' = (resident \ V) \cup {c}
    /\ settled' = settled \ V
    /\ held' = [held EXCEPT ![p] = @ \cup {c}]
    /\ Weight[resident'] <= Budget

(* Room was made, and it was not enough.                                   *)
MakeRoom ==
  \E V \in SUBSET (settled \cap Unheld) :
    /\ resident' = resident \ V
    /\ settled' = settled \ V
    /\ UNCHANGED held

Settle(c) ==
  /\ c \in resident
  /\ settled' = settled \cup {c}
  /\ UNCHANGED <<resident, held>>

LetGo(p, c) ==
  /\ c \in held[p]
  /\ held' = [held EXCEPT ![p] = @ \ {c}]
  /\ UNCHANGED <<resident, settled>>

(* A pass ends: it lets go of everything, and what nobody else holds may   *)
(* go with it.                                                             *)
EndPass(p) ==
  \E V \in SUBSET (resident \ HeldByOthers(p)) :
    /\ resident' = resident \ V
    /\ settled' = settled \ V
    /\ held' = [held EXCEPT ![p] = {}]

Next ==
  \/ \E p \in Pass, c \in Chunk : Take(p, c) \/ LetGo(p, c)
  \/ \E c \in Chunk : Settle(c)
  \/ \E p \in Pass : EndPass(p)
  \/ MakeRoom

Spec == Init /\ [][Next]_vars
=============================================================================
