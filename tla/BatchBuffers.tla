---------------------------- MODULE BatchBuffers ----------------------------
(***************************************************************************)
(* The reusable memory batches are gathered into (BatchBuffers in          *)
(* insitubatch/buffers.py) together with what keeps a buffer referenced:   *)
(* the producer that fills it, the caller that holds the batch, and the    *)
(* asynchronous copy to a device that to_torch issues                      *)
(* (insitubatch/frameworks.py).                                            *)
(*                                                                         *)
(* Each iteration has a producer thread and a caller.  A place is anything *)
(* that holds a python reference to an array over some memory: the variable*)
(* `allocated` of take, the batch being filled, and the places where a     *)
(* delivered batch or a view of it is kept (the queue, the caller's        *)
(* variables).  Only one (inner shape, dtype) key is modelled: the lists   *)
(* of different keys have nothing in common but the lock.                  *)
(*                                                                         *)
(* Abstracted: whether the pinned allocator's budget still covers the next *)
(* allocation is a free choice.                                            *)
(***************************************************************************)
EXTENDS Integers, Sequences, FiniteSets

CONSTANTS
  Iterations,  \* the iterations open on the dataset
  Slots,       \* bound: the places of each iteration's delivered batches
  Rows,        \* the batch lengths asked for: whole batches and a short last one
  Memory,      \* bound: identities of memory, used again once it is freed
  CopiedFrom,  \* bound: those used when batches are copied to a device
  PageLocked,  \* the part of it that only the page-locking allocator returns
  Events,      \* bound: transfers pending or running at a time
  None         \* nobody, nothing

ASSUME IterationsAssumption == IsFiniteSet(Iterations) /\ None \notin Iterations
ASSUME SlotsAssumption == IsFiniteSet(Slots) /\ {"local", "out"} \cap Slots = {}
ASSUME RowsAssumption == Rows \subseteq Nat
ASSUME MemoryAssumption == Memory \subseteq Nat /\ None \notin Memory /\ CopiedFrom \cup PageLocked \subseteq Memory
ASSUME EventsAssumption == IsFiniteSet(Events)

VARIABLES
  reuse,      \* _reuse, read from the environment once
  device,     \* do the callers pass to_torch a cuda device?
  open,       \* is the dataset open? it is closed when training is done
  allocator,  \* _alloc: "heap" or "pinned"
  buffers,    \* the _Buffers the pool owns, in order of allocation
  lock,       \* who holds the pool's lock
  phase,      \* phase[p]: where producer p is
  want,       \* want[p]: the rows it asks for
  scan,       \* scan[p]: the position of its loop over the buffers
  chosen,     \* chosen[p]: the memory of the buffer it is about to lend
  at,         \* at[x]: the memory that place x refers to
  stage,      \* stage[c]: how far caller c is in to_torch
  transfer,   \* transfer[c]: the copy it issues there
  kept,       \* kept[c]: what its pruning has kept
  holdLock,   \* who holds _InFlight's lock
  pending,    \* _InFlight._pending
  running     \* the device copies that are still reading their source

setup == <<reuse, device>>
taking == <<lock, phase, want, scan, chosen>>
owned == <<open, allocator, buffers>>
copying == <<stage, transfer, kept, holdLock, pending, running>>
vars == <<setup, taking, owned, at, copying>>

Places == Iterations \X ({"local", "out"} \cup Slots)
Local(p) == <<p, "local">>
Out(p) == <<p, "out">>
Delivered(c, i) == <<c, i>>

Transfers == [mem : Memory, event : Events]

(* A _Buffer: its memory, base.shape[0], and _idle_refs less what is       *)
(* structural.                                                             *)
Buffers == [mem : Memory, rows : Nat, idle : Nat]
Owned == {buffers[i].mem : i \in DOMAIN buffers}

(* sys.getrefcount of the data owner, beyond what is structural.           *)
Refs(places, m) ==
  Cardinality({x \in Places : places[x] = m}) + Cardinality({t \in pending : t.mem = m})

(* Mutant: a buffer at its baseline is not taken for free.                 *)
FreeBelowBaseline(b) == Refs(at, b.mem) < b.idle

Free(b) == Refs(at, b.mem) <= b.idle

(* Memory that an allocation may return: nothing refers to it any more.    *)
Unallocated ==
  {m \in (IF device THEN CopiedFrom ELSE Memory) :
     m \notin Owned /\ Refs(at, m) = 0}

Init ==
  /\ reuse \in BOOLEAN
  /\ device \in BOOLEAN
  /\ open = TRUE
  /\ allocator = "heap"
  /\ buffers = <<>>
  /\ lock = None
  /\ phase = [p \in Iterations |-> "idle"]
  /\ want = [p \in Iterations |-> 0]
  /\ scan = [p \in Iterations |-> 1]
  /\ chosen = [p \in Iterations |-> None]
  /\ at = [x \in Places |-> None]
  /\ stage = [c \in Iterations |-> "out"]
  /\ transfer = [c \in Iterations |-> None]
  /\ kept = [c \in Iterations |-> {}]
  /\ holdLock = None
  /\ pending = {}
  /\ running = {}

-----------------------------------------------------------------------------
(* The producers: take, the gather into what was lent, the hand-over.      *)

Asked(p) == \E n \in Rows : want' = [want EXCEPT ![p] = n]

Ask(p) ==
  /\ phase[p] = "idle"
  /\ open /\ reuse
  /\ lock = None
  /\ lock' = p
  /\ Asked(p)
  /\ phase' = [phase EXCEPT ![p] = "scan"]
  /\ UNCHANGED <<setup, scan, chosen, owned, at, copying>>

(* take returns to gather, its locals are gone.                            *)
Returned(p) ==
  /\ phase' = [phase EXCEPT ![p] = "fill"]
  /\ want' = [want EXCEPT ![p] = 0]
  /\ scan' = [scan EXCEPT ![p] = 1]
  /\ chosen' = [chosen EXCEPT ![p] = None]

Examined(p) == buffers[scan[p]]
Serves(b, n) == Free(b) /\ b.rows >= n

Chosen(p) ==
  /\ phase[p] = "scan"
  /\ scan[p] \in DOMAIN buffers
  /\ Serves(Examined(p), want[p])
  /\ chosen' = [chosen EXCEPT ![p] = Examined(p).mem]
  /\ phase' = [phase EXCEPT ![p] = "lend"]
  /\ UNCHANGED <<setup, want, scan, owned, at, copying>>

(* Mutant: the lock is released between the check and the slice.           *)
ChooseAndUnlock(p) == Chosen(p) /\ lock' = None

(* The lent view is what makes the buffer look taken: the two are a step   *)
(* apart, and the lock covers both.                                        *)
Choose(p) == Chosen(p) /\ UNCHANGED lock

Skip(p) ==
  /\ phase[p] = "scan"
  /\ scan[p] \in DOMAIN buffers
  /\ ~Serves(Examined(p), want[p])
  /\ scan' = [scan EXCEPT ![p] = @ + 1]
  /\ UNCHANGED <<setup, lock, phase, want, chosen, owned, at, copying>>

Lend(p) ==
  /\ phase[p] = "lend"
  /\ at' = [at EXCEPT ![Out(p)] = chosen[p]]
  /\ lock' = None
  /\ Returned(p)
  /\ UNCHANGED <<setup, owned, copying>>

(* The page-locking allocator falls back on the heap past its budget.  The *)
(* least identity of either kind stands for them all.                      *)
Kind(m) == m \in PageLocked
Allocation(m) ==
  /\ Kind(m) => allocator = "pinned"
  /\ \A h \in Unallocated : Kind(h) = Kind(m) => m <= h

(* No buffer serves: take still holds the new array when it wraps it.      *)
Allocate(p) ==
  /\ phase[p] = "scan"
  /\ scan[p] \notin DOMAIN buffers
  /\ \E m \in Unallocated : Allocation(m) /\ at' = [at EXCEPT ![Local(p)] = m]
  /\ phase' = [phase EXCEPT ![p] = "calibrate"]
  /\ UNCHANGED <<setup, lock, want, scan, chosen, owned, copying>>

Forgotten(p) == [at EXCEPT ![Local(p)] = None]

(* Mutant: the baseline counts the allocator's return value.               *)
BaselineBeforeDel(p, m) == Refs(at, m)

(* del allocated comes first, then calibrate takes the baseline.           *)
Baseline(p, m) == Refs(Forgotten(p), m)

Calibrate(p) ==
  /\ phase[p] = "calibrate"
  /\ LET m == at[Local(p)]
     IN  /\ buffers' = Append(buffers, [mem |-> m, rows |-> want[p], idle |-> Baseline(p, m)])
         /\ at' = [Forgotten(p) EXCEPT ![Out(p)] = m]
  /\ lock' = None
  /\ Returned(p)
  /\ UNCHANGED <<setup, open, allocator, copying>>

(* Reuse is switched off: every batch has memory of its own.               *)
AllocateUntracked(p) ==
  /\ phase[p] = "idle"
  /\ open /\ ~reuse
  /\ \E m \in Unallocated : Allocation(m) /\ at' = [at EXCEPT ![Out(p)] = m]
  /\ phase' = [phase EXCEPT ![p] = "fill"]
  /\ UNCHANGED <<setup, lock, want, scan, chosen, owned, copying>>

(* The batch is gathered and handed over.                                  *)
Deliver(p) ==
  /\ phase[p] = "fill"
  /\ \E i \in Slots :
       /\ at[Delivered(p, i)] = None
       /\ at' = [at EXCEPT ![Out(p)] = None, ![Delivered(p, i)] = at[Out(p)]]
  /\ phase' = [phase EXCEPT ![p] = "idle"]
  /\ UNCHANGED <<setup, lock, want, scan, chosen, owned, copying>>

(* A batch transform derived another array from it, or the pass was left.  *)
Discard(p) ==
  /\ phase[p] = "fill"
  /\ at' = [at EXCEPT ![Out(p)] = None]
  /\ phase' = [phase EXCEPT ![p] = "idle"]
  /\ UNCHANGED <<setup, lock, want, scan, chosen, owned, copying>>

-----------------------------------------------------------------------------
(* The owner of the dataset.                                               *)

(* Mutant: buffers are dropped under a producer that looks through them.   *)
DropWheneverAsked == buffers' = <<>>

DropBuffers == lock = None /\ buffers' = <<>>

(* as_torch(device=...) installs page-locked memory, once.                 *)
SetAllocator ==
  /\ device
  /\ allocator = "heap"
  /\ DropBuffers
  /\ allocator' = "pinned"
  /\ UNCHANGED <<setup, open, taking, at, copying>>

(* The dataset is closed, its batches are not.                             *)
Clear ==
  /\ open
  /\ \A p \in Iterations : phase[p] = "idle"
  /\ DropBuffers
  /\ open' = FALSE
  /\ UNCHANGED <<setup, taking, allocator, at, copying>>

-----------------------------------------------------------------------------
(* The callers, and the device.                                            *)

(* A caller forgets a batch, but not while to_torch runs on it.            *)
Forget(c) ==
  /\ \E i \in Slots :
       /\ at[Delivered(c, i)] # None
       /\ stage[c] # "out" => at[Delivered(c, i)] # transfer[c].mem
       /\ at' = [at EXCEPT ![Delivered(c, i)] = None]
  /\ UNCHANGED <<setup, taking, owned, copying>>

Unused(event) ==
  /\ \A t \in pending \cup running : t.event # event
  /\ \A c \in Iterations : stage[c] # "out" => transfer[c].event # event

(* to_torch(device=...): the copy is asynchronous from page-locked memory  *)
(* only.                                                                   *)
Issue(c) ==
  /\ device
  /\ stage[c] = "out"
  /\ \E i \in Slots, e \in Events :
       /\ at[Delivered(c, i)] # None
       /\ Unused(e)
       /\ LET t == [mem |-> at[Delivered(c, i)], event |-> e]
          IN  /\ transfer' = [transfer EXCEPT ![c] = t]
              /\ running' = IF t.mem \in PageLocked THEN running \cup {t} ELSE running
  /\ stage' = [stage EXCEPT ![c] = "issued"]
  /\ UNCHANGED <<setup, taking, owned, at, kept, holdLock, pending>>

Pruned(c) ==
  /\ stage[c] = "issued"
  /\ kept' = [kept EXCEPT ![c] = pending \cap running]
  /\ stage' = [stage EXCEPT ![c] = "pruned"]
  /\ holdLock' = c
  /\ UNCHANGED <<setup, taking, owned, at, transfer, pending, running>>

(* Mutant: the two halves of hold are not locked.                          *)
PruneUnlocked(c) == Pruned(c)

(* hold: what has landed is let go, then this copy is added.               *)
Prune(c) == holdLock = None /\ Pruned(c)

Hold(c) ==
  /\ stage[c] = "pruned"
  /\ pending' = kept[c] \cup {transfer[c]}
  /\ stage' = [stage EXCEPT ![c] = "out"]
  /\ kept' = [kept EXCEPT ![c] = {}]
  /\ transfer' = [transfer EXCEPT ![c] = None]
  /\ holdLock' = None
  /\ UNCHANGED <<setup, taking, owned, at, running>>

Land ==
  /\ \E t \in running : running' = running \ {t}
  /\ UNCHANGED <<setup, taking, owned, at, stage, transfer, kept, holdLock, pending>>

-----------------------------------------------------------------------------
ProducerStep(p) ==
  \/ Ask(p) \/ Choose(p) \/ Skip(p) \/ Lend(p) \/ Allocate(p) \/ Calibrate(p)
  \/ AllocateUntracked(p) \/ Deliver(p) \/ Discard(p)
CallerStep(c) == Forget(c) \/ Issue(c) \/ Prune(c) \/ Hold(c)

Next ==
  \/ \E p \in Iterations : ProducerStep(p) \/ CallerStep(p)
  \/ SetAllocator \/ Clear \/ Land

Spec == Init /\ [][Next]_vars

-----------------------------------------------------------------------------
(* Properties.                                                             *)

Phases == {"idle", "scan", "lend", "calibrate", "fill"}

(* Every variable has the type of what it stands for; a producer that      *)
(* looks through the list is within it.                                    *)
TypeOK ==
  /\ reuse \in BOOLEAN
  /\ device \in BOOLEAN
  /\ open \in BOOLEAN
  /\ allocator \in {"heap", "pinned"}
  /\ buffers \in Seq(Buffers)
  /\ lock \in Iterations \cup {None}
  /\ phase \in [Iterations -> Phases]
  /\ want \in [Iterations -> Nat]
  /\ scan \in [Iterations -> Nat]
  /\ \A p \in Iterations :
       /\ phase[p] = "scan" => scan[p] \in 1 .. Len(buffers) + 1
       /\ phase[p] = "lend" => chosen[p] \in Memory
  /\ chosen \in [Iterations -> Memory \cup {None}]
  /\ at \in [Places -> Memory \cup {None}]
  /\ stage \in [Iterations -> {"out", "issued", "pruned"}]
  /\ transfer \in [Iterations -> Transfers \cup {None}]
  /\ kept \in [Iterations -> SUBSET Transfers]
  /\ holdLock \in Iterations \cup {None}
  /\ pending \subseteq Transfers
  /\ running \subseteq Transfers

(* Memory is written by one producer, while nothing else refers to it and  *)
(* no device reads it: no batch holds rows of another (buffers.py, take;   *)
(* "if batches contain data from a previous batch, ... open an issue").    *)
WrittenAlone ==
  \A p \in Iterations : phase[p] = "fill" =>
    /\ at[Out(p)] # None
    /\ \A x \in Places \ {Out(p)} : at[x] # at[Out(p)]
    /\ \A t \in pending \cup running : t.mem # at[Out(p)]

(* A running copy keeps its source referenced until it has landed, by the  *)
(* pending list or by the call that issued it (frameworks.py, _InFlight).  *)
HeldUntilLanded ==
  \A t \in running : t \in pending \/ \E c \in Iterations : transfer[c] = t

(* The pool converges: of one length it never owns more buffers than can   *)
(* be in use at a time (buffers.py: "Allocate-on-miss converges").         *)
InUseAtMost ==
  Cardinality(Iterations) * (1 + Cardinality(Slots)) + (IF device THEN Cardinality(Events) ELSE 0)
Converges ==
  \A n \in Rows : Cardinality({i \in DOMAIN buffers : buffers[i].rows = n}) <= InUseAtMost
=============================================================================
