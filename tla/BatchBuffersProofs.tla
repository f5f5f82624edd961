------------------------- MODULE BatchBuffersProofs -------------------------
(***************************************************************************)
(* No batch holds the rows of another, and no device copy loses its        *)
(* source, for any number of iterations, places, batch lengths and         *)
(* transfers.                                                              *)
(***************************************************************************)
EXTENDS BatchBuffers, FiniteSetTheorems, TLAPS

-----------------------------------------------------------------------------
(* The inductive invariant.                                                *)

(* Only the holder of the lock looks through the buffers.                  *)
Locked ==
  \A p \in Iterations : phase[p] \in {"scan", "lend", "calibrate"} => lock = p /\ reuse

(* A producer looks through the buffers from the first one on, and the     *)
(* list does not change under it.                                          *)
Scanning ==
  \A p \in Iterations :
    /\ phase[p] = "scan" => scan[p] \in 1 .. Len(buffers) + 1
    /\ phase[p] = "lend" => chosen[p] \in Memory
    /\ phase[p] \in {"idle", "fill"} => scan[p] = 1

(* The baseline counts no reference that can go away.                      *)
AtBaseline == \A i \in DOMAIN buffers : buffers[i].idle = 0

Unseen(m) == /\ \A x \in Places : at[x] # m
             /\ \A t \in pending : t.mem # m

SoleHolder(x) ==
  /\ at[x] \in Memory
  /\ \A y \in Places \ {x} : at[y] # at[x]
  /\ \A t \in pending : t.mem # at[x]

(* What is about to be lent is seen by nobody, what is new or being filled *)
(* by its producer only.                                                   *)
LentFree == \A p \in Iterations : phase[p] = "lend" => Unseen(chosen[p])
NewAlone == \A p \in Iterations : phase[p] = "calibrate" => SoleHolder(Local(p))
FilledAlone == \A p \in Iterations : phase[p] = "fill" => SoleHolder(Out(p))

(* The batch that to_torch runs on is there until it returns.              *)
SourceKept ==
  \A c \in Iterations : stage[c] # "out" =>
    /\ transfer[c] \in Transfers
    /\ \E i \in Slots : at[Delivered(c, i)] = transfer[c].mem

CopyHeld ==
  \A t \in running : t \in pending \/ \E c \in Iterations : stage[c] # "out" /\ transfer[c] = t

(* Between the two halves of hold nothing that still runs is missed.       *)
HoldLocked ==
  \A c \in Iterations : stage[c] = "pruned" =>
    holdLock = c /\ pending \cap running \subseteq kept[c] /\ kept[c] \subseteq pending

Finite == IsFiniteSet(pending) /\ \A c \in Iterations : IsFiniteSet(kept[c])

Referenced == LentFree /\ NewAlone /\ FilledAlone
Copied == SourceKept /\ CopyHeld /\ HoldLocked /\ Finite
IInv == TypeOK /\ Locked /\ Scanning /\ AtBaseline /\ Referenced /\ Copied

-----------------------------------------------------------------------------
(* Places, and counting the references to a piece of memory.               *)

LEMMA PlacesOf ==
  ASSUME NEW p \in Iterations
  PROVE  /\ Local(p) \in Places /\ Out(p) \in Places /\ Local(p) # Out(p)
         /\ \A i \in Slots : /\ Delivered(p, i) \in Places
                             /\ Delivered(p, i) # Local(p) /\ Delivered(p, i) # Out(p)
         /\ \A q \in Iterations :
              /\ Local(p) # Out(q)
              /\ q # p => Local(p) # Local(q) /\ Out(p) # Out(q)
              /\ \A i \in Slots : Delivered(p, i) # Local(q) /\ Delivered(p, i) # Out(q)
BY SlotsAssumption DEF Places, Local, Out, Delivered

LEMMA PlacesFinite == IsFiniteSet(Places)
<1>1. IsFiniteSet({"local"} \cup {"out"})
  BY FS_Singleton, FS_AddElement
<1>2. IsFiniteSet({"local", "out"} \cup Slots)
  BY <1>1, SlotsAssumption, FS_Union
<1> QED
  BY <1>2, IterationsAssumption, FS_Product DEF Places

LEMMA RefsZero ==
  ASSUME Finite, NEW f, NEW m
  PROVE  /\ Refs(f, m) \in Nat
         /\ Refs(f, m) <= 0 <=> /\ \A x \in Places : f[x] # m
                                /\ \A t \in pending : t.mem # m
<1> DEFINE P == {x \in Places : f[x] = m}
           T == {t \in pending : t.mem = m}
<1>1. IsFiniteSet(P)
  BY PlacesFinite, FS_Subset
<1>2. IsFiniteSet(T)
  BY FS_Subset DEF Finite
<1>3. Cardinality(P) \in Nat /\ Cardinality(T) \in Nat
  BY <1>1, <1>2, FS_CardinalityType
<1>4. (Cardinality(P) = 0 <=> P = {}) /\ (Cardinality(T) = 0 <=> T = {})
  BY <1>1, <1>2, FS_EmptySet
<1>5. Refs(f, m) = Cardinality(P) + Cardinality(T)
  BY DEF Refs
<1>6. Refs(f, m) <= 0 <=> P = {} /\ T = {}
  BY <1>3, <1>4, <1>5
<1> QED
  BY <1>3, <1>5, <1>6

LEMMA UnallocatedUnseen ==
  ASSUME Finite, NEW m \in Unallocated
  PROVE  m \in Memory /\ Unseen(m)
<1>1. m \in Memory /\ Refs(at, m) = 0
  BY MemoryAssumption DEF Unallocated
<1>2. Refs(at, m) <= 0
  BY <1>1
<1> QED
  BY <1>1, <1>2, RefsZero DEF Unseen

(* A device that reads some memory is seen by the pool.                    *)
LEMMA RunningIsSeen ==
  ASSUME SourceKept, CopyHeld, NEW t \in running
  PROVE  \/ t \in pending
         \/ \E c \in Iterations, i \in Slots : at[Delivered(c, i)] = t.mem
BY DEF SourceKept, CopyHeld

-----------------------------------------------------------------------------
(* Types and the lock.                                                     *)

(* What TypeOK says apart from the scanning producers.                     *)
Typed ==
  /\ reuse \in BOOLEAN
  /\ device \in BOOLEAN
  /\ open \in BOOLEAN
  /\ allocator \in {"heap", "pinned"}
  /\ buffers \in Seq(Buffers)
  /\ lock \in Iterations \cup {None}
  /\ phase \in [Iterations -> Phases]
  /\ want \in [Iterations -> Nat]
  /\ scan \in [Iterations -> Nat]
  /\ chosen \in [Iterations -> Memory \cup {None}]
  /\ at \in [Places -> Memory \cup {None}]
  /\ stage \in [Iterations -> {"out", "issued", "pruned"}]
  /\ transfer \in [Iterations -> Transfers \cup {None}]
  /\ kept \in [Iterations -> SUBSET Transfers]
  /\ holdLock \in Iterations \cup {None}
  /\ pending \subseteq Transfers
  /\ running \subseteq Transfers

LEMMA TypeParts == TypeOK => Typed
BY DEF TypeOK, Typed

LEMMA TypeFromParts == Typed /\ Scanning => TypeOK
BY DEF TypeOK, Typed, Scanning

LEMMA InitIInv == ASSUME Init PROVE IInv
<1>1. Typed
  BY RowsAssumption DEF Init, Typed, Places, Phases
<1>2. Scanning
  BY DEF Init, Scanning
<1>3. Locked /\ AtBaseline /\ Referenced
  BY DEF Init, Locked, AtBaseline, Referenced, LentFree, NewAlone, FilledAlone
<1>4. Copied
  BY FS_EmptySet DEF Init, Copied, SourceKept, CopyHeld, HoldLocked, Finite
<1> QED
  BY <1>1, <1>2, <1>3, <1>4, TypeFromParts DEF IInv

LEMMA StepCases ==
  ASSUME Next
  PROVE  \/ \E p \in Iterations :
              \/ Ask(p) \/ Choose(p) \/ Skip(p) \/ Lend(p) \/ Allocate(p) \/ Calibrate(p)
              \/ AllocateUntracked(p) \/ Deliver(p) \/ Discard(p)
              \/ Forget(p) \/ Issue(p) \/ Prune(p) \/ Hold(p)
         \/ SetAllocator \/ Clear \/ Land
BY DEF Next, ProducerStep, CallerStep

LEMMA ExaminedIsBuffer ==
  ASSUME Typed, NEW p \in Iterations, scan[p] \in DOMAIN buffers
  PROVE  Examined(p) \in Buffers /\ Examined(p).mem \in Memory
<1>1. Examined(p) \in Buffers
  BY DEF Typed, Examined
<1> QED
  BY <1>1 DEF Buffers

LEMMA TypedStep ==
  ASSUME IInv, [Next]_vars
  PROVE  Typed'
<1> USE DEF setup, taking, owned, copying
<1>0. Typed /\ Finite
  BY TypeParts DEF IInv, Copied
<1>1. CASE UNCHANGED vars
  BY <1>0, <1>1 DEF vars, Typed
<1>2. ASSUME NEW p \in Iterations, Ask(p)
      PROVE  Typed'
  <2>1. PICK n \in Rows : want' = [want EXCEPT ![p] = n]
    BY <1>2 DEF Ask, Asked
  <2> QED
    BY <1>0, <1>2, <2>1, RowsAssumption DEF Ask, Phases, Typed
<1>3. ASSUME NEW p \in Iterations, Choose(p)
      PROVE  Typed'
  BY <1>0, <1>3, ExaminedIsBuffer DEF Choose, Chosen, Phases, Typed
<1>4. ASSUME NEW p \in Iterations, Skip(p)
      PROVE  Typed'
  BY <1>0, <1>4 DEF Skip, Phases, Typed
<1>5. ASSUME NEW p \in Iterations, Lend(p)
      PROVE  Typed'
  BY <1>0, <1>5, PlacesOf DEF Lend, Returned, Phases, Typed
<1>6. ASSUME NEW p \in Iterations, Allocate(p)
      PROVE  Typed'
  BY <1>0, <1>6, PlacesOf, UnallocatedUnseen DEF Allocate, Phases, Typed
<1>7. ASSUME NEW p \in Iterations, Calibrate(p)
      PROVE  Typed'
  <2> DEFINE m == at[Local(p)]
             b == [mem |-> m, rows |-> want[p], idle |-> Baseline(p, m)]
  <2>1. m \in Memory
    BY <1>7 DEF IInv, Referenced, NewAlone, SoleHolder, Calibrate
  <2>2. Baseline(p, m) \in Nat
    BY <1>0, RefsZero DEF Baseline
  <2>3. b \in Buffers
    BY <1>0, <2>1, <2>2 DEF Buffers, Typed
  <2>4. buffers' \in Seq(Buffers)
    BY <1>0, <1>7, <2>3 DEF Calibrate, Typed
  <2>5. at' \in [Places -> Memory \cup {None}]
    BY <1>0, <1>7, <2>1 DEF Calibrate, Forgotten, Typed
  <2> QED
    BY <1>0, <1>7, <2>4, <2>5 DEF Calibrate, Returned, Phases, Typed
<1>8. ASSUME NEW p \in Iterations, AllocateUntracked(p)
      PROVE  Typed'
  BY <1>0, <1>8, PlacesOf, UnallocatedUnseen DEF AllocateUntracked, Phases, Typed
<1>9. ASSUME NEW p \in Iterations, Deliver(p)
      PROVE  Typed'
  BY <1>0, <1>9, PlacesOf DEF Deliver, Phases, Typed
<1>10. ASSUME NEW p \in Iterations, Discard(p)
       PROVE  Typed'
  BY <1>0, <1>10 DEF Discard, Phases, Typed
<1>11. ASSUME NEW c \in Iterations, Forget(c)
       PROVE  Typed'
  BY <1>0, <1>11 DEF Forget, Typed
<1>12. ASSUME NEW c \in Iterations, Issue(c)
       PROVE  Typed'
  <2>1. PICK i \in Slots, e \in Events :
          /\ at[Delivered(c, i)] # None
          /\ transfer' = [transfer EXCEPT ![c] = [mem |-> at[Delivered(c, i)], event |-> e]]
          /\ \/ running' = running \cup {[mem |-> at[Delivered(c, i)], event |-> e]}
             \/ running' = running
    BY <1>12 DEF Issue
  <2>2. [mem |-> at[Delivered(c, i)], event |-> e] \in Transfers
    BY <1>0, <2>1, PlacesOf DEF Typed, Transfers
  <2> QED
    BY <1>0, <1>12, <2>1, <2>2 DEF Issue, Typed
<1>13. ASSUME NEW c \in Iterations, Prune(c)
       PROVE  Typed'
  BY <1>0, <1>13 DEF Prune, Pruned, Typed
<1>14. ASSUME NEW c \in Iterations, Hold(c)
       PROVE  Typed'
  <2>1. transfer[c] \in Transfers
    BY <1>14 DEF IInv, Copied, SourceKept, Hold
  <2> QED
    BY <1>0, <1>14, <2>1 DEF Hold, Typed
<1>15. CASE SetAllocator
  BY <1>0, <1>15 DEF SetAllocator, DropBuffers, Typed
<1>16. CASE Clear
  <2>1. open' = FALSE /\ buffers' = <<>>
    BY <1>16 DEF Clear, DropBuffers
  <2>2a. open' \in BOOLEAN
    BY <2>1
  <2>2. buffers' \in Seq(Buffers)
    BY <2>1
  <2>3. UNCHANGED <<setup, taking, allocator, at, copying>>
    BY <1>16 DEF Clear
  <2> QED
    BY <1>0, <2>2, <2>2a, <2>3 DEF Typed
<1>17. CASE Land
  BY <1>0, <1>17 DEF Land, Typed
<1> QED
  BY <1>1, <1>2, <1>3, <1>4, <1>5, <1>6, <1>7, <1>8, <1>9, <1>10, <1>11, <1>12, <1>13,
     <1>14, <1>15, <1>16, <1>17, StepCases

LEMMA LockedStep ==
  ASSUME IInv, [Next]_vars
  PROVE  Locked' /\ Scanning'
<1> USE DEF setup, taking, owned, copying, Locked, Scanning
<1>0. Typed /\ Locked /\ Scanning /\ None \notin Iterations
  BY TypeParts, IterationsAssumption DEF IInv
<1>1. CASE UNCHANGED vars
  BY <1>0, <1>1 DEF vars
<1>2. ASSUME NEW p \in Iterations, Ask(p)
      PROVE  Locked' /\ Scanning'
  <2>1. Len(buffers) \in Nat
    BY <1>0 DEF Typed
  <2>2. 1 \in 1 .. Len(buffers) + 1
    BY <2>1
  <2> QED
    BY <1>0, <1>2, <2>2 DEF Ask, Typed
<1>3. ASSUME NEW p \in Iterations, Choose(p)
      PROVE  Locked' /\ Scanning'
  BY <1>0, <1>3, ExaminedIsBuffer DEF Choose, Chosen, Typed
<1>4. ASSUME NEW p \in Iterations, Skip(p)
      PROVE  Locked' /\ Scanning'
  <2>1. scan[p] \in 1 .. Len(buffers) /\ Len(buffers) \in Nat
    BY <1>0, <1>4 DEF Skip, Typed
  <2>2. scan[p] + 1 \in 1 .. Len(buffers) + 1
    BY <2>1
  <2> QED
    BY <1>0, <1>4, <2>2 DEF Skip, Typed
<1>5. ASSUME NEW p \in Iterations, Lend(p)
      PROVE  Locked' /\ Scanning'
  BY <1>0, <1>5 DEF Lend, Returned, Typed
<1>6. ASSUME NEW p \in Iterations, Allocate(p)
      PROVE  Locked' /\ Scanning'
  BY <1>0, <1>6 DEF Allocate, Typed
<1>7. ASSUME NEW p \in Iterations, Calibrate(p)
      PROVE  Locked' /\ Scanning'
  BY <1>0, <1>7 DEF Calibrate, Returned, Typed
<1>8. ASSUME NEW p \in Iterations, AllocateUntracked(p) \/ Deliver(p) \/ Discard(p)
      PROVE  Locked' /\ Scanning'
  BY <1>0, <1>8 DEF AllocateUntracked, Deliver, Discard, Typed
<1>9. ASSUME NEW c \in Iterations, Forget(c) \/ Issue(c) \/ Prune(c) \/ Hold(c)
      PROVE  Locked' /\ Scanning'
  BY <1>0, <1>9 DEF Forget, Issue, Prune, Pruned, Hold
<1>10. CASE SetAllocator \/ Clear
  BY <1>0, <1>10 DEF SetAllocator, Clear, DropBuffers
<1>11. CASE Land
  BY <1>0, <1>11 DEF Land
<1> QED
  BY <1>1, <1>2, <1>3, <1>4, <1>5, <1>6, <1>7, <1>8, <1>9, <1>10, <1>11, StepCases

-----------------------------------------------------------------------------
(* The references.                                                         *)

LEMMA BaselineStep ==
  ASSUME IInv, [Next]_vars
  PROVE  AtBaseline'
<1> USE DEF setup, taking, owned, copying, AtBaseline
<1>0. Typed /\ AtBaseline /\ Finite
  BY TypeParts DEF IInv, Copied
<1>1. CASE UNCHANGED buffers
  BY <1>0, <1>1
<1>2. CASE DropBuffers
  BY <1>2 DEF DropBuffers
<1>3. ASSUME NEW p \in Iterations, Calibrate(p)
      PROVE  AtBaseline'
  <2> DEFINE m == at[Local(p)]
             b == [mem |-> m, rows |-> want[p], idle |-> Baseline(p, m)]
  <2>1. SoleHolder(Local(p))
    BY <1>3 DEF IInv, Referenced, NewAlone, Calibrate
  <2>2. \A x \in Places : Forgotten(p)[x] # m
    BY <1>0, <2>1, PlacesOf, MemoryAssumption DEF SoleHolder, Forgotten, Typed
  <2>3. \A t \in pending : t.mem # m
    BY <2>1 DEF SoleHolder
  <2>4. Baseline(p, m) = 0
    BY <1>0, <2>2, <2>3, RefsZero DEF Baseline
  <2>5. b.idle = 0
    BY <2>4
  <2>6. buffers' = Append(buffers, b)
    BY <1>3 DEF Calibrate
  <2> HIDE DEF b, m
  <2>7. /\ DOMAIN buffers' = 1 .. Len(buffers) + 1
        /\ \A i \in 1 .. Len(buffers) : buffers'[i] = buffers[i]
        /\ buffers'[Len(buffers) + 1] = b
        /\ DOMAIN buffers = 1 .. Len(buffers) /\ Len(buffers) \in Nat
    BY <1>0, <2>6 DEF Typed
  <2> QED
    BY <1>0, <2>5, <2>7
<1>4. ASSUME [Next]_vars
      PROVE  \/ UNCHANGED buffers \/ DropBuffers
             \/ \E p \in Iterations : Calibrate(p)
  BY <1>4, StepCases DEF vars, Ask, Choose, Chosen, Skip, Lend, Allocate, AllocateUntracked,
     Deliver, Discard, Forget, Issue, Prune, Pruned, Hold, SetAllocator, Clear, Land
<1> QED
  BY <1>1, <1>2, <1>3, <1>4

(* Letting go of references leaves nobody with more company.               *)
LEMMA FewerReferences ==
  ASSUME \A y \in Places : at'[y] = at[y] \/ at'[y] = None, pending' \subseteq pending
  PROVE  /\ \A m \in Memory : Unseen(m) => Unseen(m)'
         /\ \A x \in Places : SoleHolder(x) /\ at'[x] = at[x] => SoleHolder(x)'
BY MemoryAssumption DEF Unseen, SoleHolder

(* A new reference, to what nobody sees.                                   *)
LEMMA FirstReference ==
  ASSUME NEW m \in Memory, Unseen(m), NEW x \in Places, Typed,
         at' = [at EXCEPT ![x] = m], pending' = pending
  PROVE  /\ SoleHolder(x)'
         /\ \A y \in Places \ {x} : SoleHolder(y) => SoleHolder(y)'
BY DEF Typed, Unseen, SoleHolder

(* A reference moves to a place that refers to nothing.                    *)
LEMMA MovedReference ==
  ASSUME NEW x \in Places, NEW z \in Places, x # z, at[x] \in Memory, Typed,
         at' = [at EXCEPT ![x] = None, ![z] = at[x]], pending' = pending
  PROVE  /\ SoleHolder(x) => SoleHolder(z)'
         /\ \A y \in Places \ {x, z} : SoleHolder(x) /\ SoleHolder(y) => SoleHolder(y)'
         /\ \A m \in Memory : Unseen(m) => Unseen(m)'
BY MemoryAssumption DEF Typed, Unseen, SoleHolder

(* The transfer that hold adds refers to a batch somebody has already.     *)
LEMMA HeldReference ==
  ASSUME NEW t, pending' \subseteq pending \cup {t}, at' = at,
         NEW y \in Places, at[y] = t.mem
  PROVE  /\ \A m \in Memory : Unseen(m) => Unseen(m)'
         /\ \A x \in Places \ {y} : SoleHolder(x) => SoleHolder(x)'
BY DEF Unseen, SoleHolder

LEMMA ReferencedStep ==
  ASSUME IInv, [Next]_vars
  PROVE  Referenced'
<1> USE DEF setup, taking, owned, copying, Referenced, LentFree, NewAlone, FilledAlone
<1>0. /\ Typed /\ Locked /\ Scanning /\ Finite /\ Referenced
      /\ None \notin Iterations /\ None \notin Memory
  BY TypeParts, IterationsAssumption, MemoryAssumption DEF IInv, Copied
<1>1. CASE UNCHANGED vars
  <2>1. \A m : Unseen(m) => Unseen(m)'
    BY <1>1 DEF vars, Unseen
  <2>2. \A x : SoleHolder(x) => SoleHolder(x)'
    BY <1>1 DEF vars, SoleHolder
  <2> QED
    BY <1>0, <1>1, <2>1, <2>2 DEF vars
<1>2. ASSUME UNCHANGED <<at, pending>>
      PROVE  /\ \A m : Unseen(m) => Unseen(m)'
             /\ \A x : SoleHolder(x) => SoleHolder(x)'
  BY <1>2 DEF Unseen, SoleHolder
<1>3. ASSUME NEW p \in Iterations, Ask(p) \/ Skip(p)
      PROVE  Referenced'
  <2>1. UNCHANGED <<at, pending, chosen>>
    BY <1>3 DEF Ask, Skip
  <2>2. \A q \in Iterations : phase'[q] \in {"lend", "calibrate", "fill"} => phase'[q] = phase[q]
    BY <1>0, <1>3 DEF Ask, Skip, Typed
  <2> QED
    BY <1>0, <1>2, <2>1, <2>2
<1>4. ASSUME NEW p \in Iterations, Choose(p)
      PROVE  Referenced'
  <2>1. UNCHANGED <<at, pending>>
    BY <1>4 DEF Choose, Chosen
  <2>2. Examined(p) \in Buffers /\ Examined(p).idle = 0 /\ Free(Examined(p))
    BY <1>0, <1>4, ExaminedIsBuffer DEF Choose, Chosen, Serves, IInv, AtBaseline, Examined
  <2>3. Unseen(Examined(p).mem)
    BY <1>0, <2>2, RefsZero DEF Free, Unseen
  <2>4. /\ chosen'[p] = Examined(p).mem
        /\ \A q \in Iterations \ {p} : chosen'[q] = chosen[q] /\ phase'[q] = phase[q]
        /\ phase'[p] = "lend"
    BY <1>0, <1>4 DEF Choose, Chosen, Typed
  <2> QED
    BY <1>0, <1>2, <2>1, <2>3, <2>4
<1>5. ASSUME NEW p \in Iterations, Lend(p)
      PROVE  Referenced'
  <2>1. chosen[p] \in Memory /\ Unseen(chosen[p])
    BY <1>0, <1>5 DEF Lend, Scanning
  <2>2. at' = [at EXCEPT ![Out(p)] = chosen[p]] /\ pending' = pending
    BY <1>5 DEF Lend
  <2>3. /\ SoleHolder(Out(p))'
        /\ \A y \in Places \ {Out(p)} : SoleHolder(y) => SoleHolder(y)'
    BY <1>0, <2>1, <2>2, PlacesOf, FirstReference
  <2>4. /\ phase'[p] = "fill"
        /\ \A q \in Iterations \ {p} : phase'[q] = phase[q] /\ phase[q] \notin {"lend", "calibrate"}
    BY <1>0, <1>5 DEF Lend, Returned, Locked, Typed
  <2> QED
    BY <1>0, <2>3, <2>4, PlacesOf
<1>6. ASSUME NEW p \in Iterations, Allocate(p)
      PROVE  Referenced'
  <2>1. PICK m \in Unallocated : at' = [at EXCEPT ![Local(p)] = m]
    BY <1>6 DEF Allocate
  <2>2. m \in Memory /\ Unseen(m) /\ pending' = pending
    BY <1>0, <1>6, <2>1, UnallocatedUnseen DEF Allocate
  <2>3. /\ SoleHolder(Local(p))'
        /\ \A y \in Places \ {Local(p)} : SoleHolder(y) => SoleHolder(y)'
    BY <1>0, <2>1, <2>2, PlacesOf, FirstReference
  <2>4. /\ phase'[p] = "calibrate"
        /\ \A q \in Iterations \ {p} : phase'[q] = phase[q] /\ phase[q] \notin {"lend", "calibrate"}
    BY <1>0, <1>6 DEF Allocate, Locked, Typed
  <2> QED
    BY <1>0, <2>3, <2>4, PlacesOf
<1>7. ASSUME NEW p \in Iterations, Calibrate(p)
      PROVE  Referenced'
  <2>1. SoleHolder(Local(p)) /\ at[Local(p)] \in Memory
    BY <1>0, <1>7 DEF Calibrate, SoleHolder
  <2>2. at' = [at EXCEPT ![Local(p)] = None, ![Out(p)] = at[Local(p)]] /\ pending' = pending
    BY <1>7 DEF Calibrate, Forgotten
  <2>3. /\ SoleHolder(Out(p))'
        /\ \A y \in Places \ {Local(p), Out(p)} : SoleHolder(y) => SoleHolder(y)'
    BY <1>0, <2>1, <2>2, PlacesOf, MovedReference
  <2>4. /\ phase'[p] = "fill"
        /\ \A q \in Iterations \ {p} : phase'[q] = phase[q] /\ phase[q] \notin {"lend", "calibrate"}
    BY <1>0, <1>7 DEF Calibrate, Returned, Locked, Typed
  <2> QED
    BY <1>0, <2>3, <2>4, PlacesOf
<1>8. ASSUME NEW p \in Iterations, AllocateUntracked(p)
      PROVE  Referenced'
  <2>1. PICK m \in Unallocated : at' = [at EXCEPT ![Out(p)] = m]
    BY <1>8 DEF AllocateUntracked
  <2>2. m \in Memory /\ Unseen(m) /\ pending' = pending
    BY <1>0, <1>8, <2>1, UnallocatedUnseen DEF AllocateUntracked
  <2>3. /\ SoleHolder(Out(p))'
        /\ \A y \in Places \ {Out(p)} : SoleHolder(y) => SoleHolder(y)'
    BY <1>0, <2>1, <2>2, PlacesOf, FirstReference
  <2>4. /\ phase'[p] = "fill"
        /\ \A q \in Iterations : phase[q] \notin {"lend", "calibrate"}
        /\ \A q \in Iterations \ {p} : phase'[q] = phase[q]
    BY <1>0, <1>8 DEF AllocateUntracked, Locked, Typed
  <2> QED
    BY <1>0, <2>3, <2>4, PlacesOf
<1>9. ASSUME NEW p \in Iterations, Deliver(p)
      PROVE  Referenced'
  <2>1. PICK i \in Slots :
          at' = [at EXCEPT ![Out(p)] = None, ![Delivered(p, i)] = at[Out(p)]]
    BY <1>9 DEF Deliver
  <2>2. SoleHolder(Out(p)) /\ at[Out(p)] \in Memory /\ UNCHANGED <<pending, chosen>>
    BY <1>0, <1>9 DEF Deliver, SoleHolder
  <2>3. /\ \A y \in Places \ {Out(p), Delivered(p, i)} : SoleHolder(y) => SoleHolder(y)'
        /\ \A m \in Memory : Unseen(m) => Unseen(m)'
    BY <1>0, <2>1, <2>2, PlacesOf, MovedReference
  <2>4. phase'[p] = "idle" /\ \A q \in Iterations \ {p} : phase'[q] = phase[q]
    BY <1>0, <1>9 DEF Deliver, Typed
  <2> QED
    BY <1>0, <2>2, <2>3, <2>4, PlacesOf DEF Scanning
<1>10. ASSUME NEW p \in Iterations, Discard(p)
       PROVE  Referenced'
  <2>1. /\ at' = [at EXCEPT ![Out(p)] = None] /\ UNCHANGED <<pending, chosen>>
        /\ phase'[p] = "idle" /\ \A q \in Iterations \ {p} : phase'[q] = phase[q]
    BY <1>0, <1>10 DEF Discard, Typed
  <2>2. \A y \in Places : at'[y] = at[y] \/ at'[y] = None
    BY <1>0, <2>1 DEF Typed
  <2>3. \A y \in Places \ {Out(p)} : at'[y] = at[y]
    BY <1>0, <2>1 DEF Typed
  <2> QED
    BY <1>0, <2>1, <2>2, <2>3, PlacesOf, FewerReferences DEF Scanning
<1>11. ASSUME NEW c \in Iterations, Forget(c)
       PROVE  Referenced'
  <2>1. PICK i \in Slots : at' = [at EXCEPT ![Delivered(c, i)] = None]
    BY <1>11 DEF Forget
  <2>2. UNCHANGED <<pending, chosen, phase>>
    BY <1>11 DEF Forget
  <2>3. /\ \A y \in Places : at'[y] = at[y] \/ at'[y] = None
        /\ \A y \in Places \ {Delivered(c, i)} : at'[y] = at[y]
    BY <1>0, <2>1 DEF Typed
  <2> QED
    BY <1>0, <2>2, <2>3, PlacesOf, FewerReferences DEF Scanning
<1>12. ASSUME NEW c \in Iterations, Issue(c) \/ Prune(c)
       PROVE  Referenced'
  <2>1. UNCHANGED <<at, pending, chosen, phase>>
    BY <1>12 DEF Issue, Prune, Pruned
  <2> QED
    BY <1>0, <1>2, <2>1
<1>13. ASSUME NEW c \in Iterations, Hold(c)
       PROVE  Referenced'
  <2>1. UNCHANGED <<at, chosen, phase>>
    BY <1>13 DEF Hold
  <2>2. pending' \subseteq pending \cup {transfer[c]}
    BY <1>13 DEF Hold, IInv, Copied, HoldLocked
  <2>3. PICK i \in Slots : at[Delivered(c, i)] = transfer[c].mem
    BY <1>13 DEF IInv, Copied, SourceKept, Hold
  <2>4. /\ \A m \in Memory : Unseen(m) => Unseen(m)'
        /\ \A x \in Places \ {Delivered(c, i)} : SoleHolder(x) => SoleHolder(x)'
    BY <2>1, <2>2, <2>3, PlacesOf, HeldReference
  <2> QED
    BY <1>0, <2>1, <2>4, PlacesOf DEF Scanning
<1>14. CASE SetAllocator \/ Clear \/ Land
  <2>1. UNCHANGED <<at, pending, chosen, phase>>
    BY <1>14 DEF SetAllocator, Clear, Land
  <2> QED
    BY <1>0, <1>2, <2>1
<1> QED
  BY <1>1, <1>3, <1>4, <1>5, <1>6, <1>7, <1>8, <1>9, <1>10, <1>11, <1>12, <1>13, <1>14,
     StepCases

-----------------------------------------------------------------------------
(* The copies to the device.                                               *)

LEMMA SourceStep ==
  ASSUME IInv, [Next]_vars
  PROVE  SourceKept'
<1> USE DEF setup, taking, owned, copying, SourceKept
<1>0. Typed /\ Typed' /\ SourceKept /\ None \notin Memory /\ Finite
  BY TypeParts, TypedStep, MemoryAssumption DEF IInv, Copied
<1>1. ASSUME UNCHANGED <<stage, transfer>>,
             \A c \in Iterations, i \in Slots :
               stage[c] # "out" /\ at[Delivered(c, i)] = transfer[c].mem
               => at'[Delivered(c, i)] = at[Delivered(c, i)]
      PROVE  SourceKept'
  <2> SUFFICES ASSUME NEW c \in Iterations, stage'[c] # "out"
               PROVE  /\ transfer'[c] \in Transfers
                      /\ \E i \in Slots : at'[Delivered(c, i)] = transfer'[c].mem
    OBVIOUS
  <2>1. PICK i \in Slots : at[Delivered(c, i)] = transfer[c].mem
    BY <1>0, <1>1
  <2> QED
    BY <1>0, <1>1, <2>1
<1>2. CASE UNCHANGED vars
  BY <1>1, <1>2 DEF vars
<1>3. ASSUME NEW p \in Iterations,
             Ask(p) \/ Choose(p) \/ Skip(p) \/ Lend(p) \/ Allocate(p) \/ Calibrate(p)
             \/ AllocateUntracked(p) \/ Discard(p)
      PROVE  SourceKept'
  <2>1. UNCHANGED <<stage, transfer>>
    BY <1>3 DEF Ask, Choose, Chosen, Skip, Lend, Allocate, Calibrate, AllocateUntracked, Discard
  <2>2. \A c \in Iterations, i \in Slots : at'[Delivered(c, i)] = at[Delivered(c, i)]
    BY <1>0, <1>3, PlacesOf DEF Ask, Choose, Chosen, Skip, Lend, Allocate, Calibrate,
       AllocateUntracked, Discard, Forgotten, Typed
  <2> QED
    BY <1>1, <2>1, <2>2
<1>4. ASSUME NEW p \in Iterations, Deliver(p)
      PROVE  SourceKept'
  <2>1. PICK i \in Slots :
          /\ at[Delivered(p, i)] = None
          /\ at' = [at EXCEPT ![Out(p)] = None, ![Delivered(p, i)] = at[Out(p)]]
    BY <1>4 DEF Deliver
  <2>2. UNCHANGED <<stage, transfer>>
    BY <1>4 DEF Deliver
  <2>3. \A c \in Iterations : stage[c] # "out" => transfer[c].mem # None
    BY <1>0 DEF Transfers
  <2>4. \A c \in Iterations, j \in Slots :
          Delivered(c, j) # Delivered(p, i) => at'[Delivered(c, j)] = at[Delivered(c, j)]
    BY <1>0, <2>1, PlacesOf DEF Typed
  <2> QED
    BY <1>1, <2>1, <2>2, <2>3, <2>4
<1>5. ASSUME NEW d \in Iterations, Forget(d)
      PROVE  SourceKept'
  <2>1. PICK i \in Slots :
          /\ stage[d] # "out" => at[Delivered(d, i)] # transfer[d].mem
          /\ at' = [at EXCEPT ![Delivered(d, i)] = None]
    BY <1>5 DEF Forget
  <2>2. UNCHANGED <<stage, transfer>>
    BY <1>5 DEF Forget
  <2>3. \A c \in Iterations, j \in Slots :
          <<c, j>> # <<d, i>> => at'[Delivered(c, j)] = at[Delivered(c, j)]
    BY <1>0, <2>1, PlacesOf DEF Typed, Delivered
  <2> QED
    BY <1>1, <2>1, <2>2, <2>3
<1>6. ASSUME NEW d \in Iterations, Issue(d)
      PROVE  SourceKept'
  <2>1. PICK i \in Slots, e \in Events :
          /\ at[Delivered(d, i)] # None
          /\ transfer' = [transfer EXCEPT ![d] = [mem |-> at[Delivered(d, i)], event |-> e]]
    BY <1>6 DEF Issue
  <2>2. stage' = [stage EXCEPT ![d] = "issued"] /\ at' = at
    BY <1>6 DEF Issue
  <2>3. [mem |-> at[Delivered(d, i)], event |-> e] \in Transfers
    BY <1>0, <2>1, PlacesOf DEF Typed, Transfers
  <2>4. transfer'[d] \in Transfers /\ at'[Delivered(d, i)] = transfer'[d].mem
    BY <1>0, <2>1, <2>2, <2>3 DEF Typed
  <2>5. \A c \in Iterations \ {d} : stage'[c] = stage[c] /\ transfer'[c] = transfer[c]
    BY <1>0, <2>1, <2>2 DEF Typed
  <2> QED
    BY <1>0, <2>2, <2>4, <2>5
<1>7. ASSUME NEW d \in Iterations, Prune(d)
      PROVE  SourceKept'
  <2>1. UNCHANGED <<at, transfer>> /\ stage[d] # "out"
        /\ \A c \in Iterations \ {d} : stage'[c] = stage[c]
    BY <1>0, <1>7 DEF Prune, Pruned, Typed
  <2> QED
    BY <1>0, <2>1
<1>8. ASSUME NEW d \in Iterations, Hold(d)
      PROVE  SourceKept'
  <2>1. /\ at' = at /\ stage'[d] = "out"
        /\ \A c \in Iterations \ {d} : stage'[c] = stage[c] /\ transfer'[c] = transfer[c]
    BY <1>0, <1>8 DEF Hold, Typed
  <2> QED
    BY <1>0, <2>1
<1>9. CASE SetAllocator \/ Clear \/ Land
  <2>1. UNCHANGED <<stage, transfer, at>>
    BY <1>9 DEF SetAllocator, Clear, Land
  <2> QED
    BY <1>1, <2>1
<1> QED
  BY <1>2, <1>3, <1>4, <1>5, <1>6, <1>7, <1>8, <1>9, StepCases

LEMMA CopiedStep ==
  ASSUME IInv, [Next]_vars
  PROVE  CopyHeld' /\ HoldLocked' /\ Finite'
<1> USE DEF setup, taking, owned, copying, CopyHeld, HoldLocked, Finite
<1>0. Typed /\ CopyHeld /\ HoldLocked /\ Finite /\ None \notin Iterations
  BY TypeParts, IterationsAssumption DEF IInv, Copied
<1>1. CASE UNCHANGED copying
  BY <1>0, <1>1
<1>2. ASSUME NEW d \in Iterations, Issue(d)
      PROVE  CopyHeld' /\ HoldLocked' /\ Finite'
  <2>0. PICK i \in Slots, e \in Events :
          LET s == [mem |-> at[Delivered(d, i)], event |-> e]
          IN  /\ Unused(e)
              /\ transfer' = [transfer EXCEPT ![d] = s]
              /\ running' = running \cup {s} \/ running' = running
    BY <1>2 DEF Issue
  <2> DEFINE t == [mem |-> at[Delivered(d, i)], event |-> e]
  <2>1. /\ transfer' = [transfer EXCEPT ![d] = t]
        /\ running' = running \cup {t} \/ running' = running
    BY <2>0
  <2>2. t \notin pending
    BY <2>0 DEF Unused
  <2> HIDE DEF t
  <2>3. /\ stage[d] = "out" /\ UNCHANGED <<kept, holdLock, pending>>
        /\ stage'[d] = "issued" /\ transfer'[d] = t
        /\ \A c \in Iterations \ {d} : stage'[c] = stage[c] /\ transfer'[c] = transfer[c]
    BY <1>0, <1>2, <2>1 DEF Issue, Typed
  <2>4. CopyHeld'
    BY <1>0, <2>1, <2>3
  <2>5. HoldLocked'
    BY <1>0, <2>1, <2>2, <2>3
  <2>6. Finite'
    BY <1>0, <2>3
  <2> QED
    BY <2>4, <2>5, <2>6
<1>3. ASSUME NEW d \in Iterations, Prune(d)
      PROVE  CopyHeld' /\ HoldLocked' /\ Finite'
  <2>1. /\ stage[d] = "issued" /\ stage'[d] = "pruned" /\ holdLock = None /\ holdLock' = d
        /\ kept'[d] = pending \cap running /\ UNCHANGED <<pending, running, transfer>>
        /\ \A c \in Iterations \ {d} : stage'[c] = stage[c] /\ kept'[c] = kept[c]
    BY <1>0, <1>3 DEF Prune, Pruned, Typed
  <2>2. IsFiniteSet(pending \cap running)
    BY <1>0, FS_Subset
  <2>3. CopyHeld'
    BY <1>0, <2>1
  <2>4. HoldLocked'
    BY <1>0, <2>1
  <2>5. Finite'
    BY <1>0, <2>1, <2>2
  <2> QED
    BY <2>3, <2>4, <2>5
<1>4. ASSUME NEW d \in Iterations, Hold(d)
      PROVE  CopyHeld' /\ HoldLocked' /\ Finite'
  <2>1. /\ stage[d] = "pruned" /\ stage'[d] = "out" /\ running' = running
        /\ pending' = kept[d] \cup {transfer[d]} /\ kept'[d] = {}
        /\ \A c \in Iterations \ {d} :
             stage'[c] = stage[c] /\ kept'[c] = kept[c] /\ transfer'[c] = transfer[c]
    BY <1>0, <1>4 DEF Hold, Typed
  <2>2. \A c \in Iterations \ {d} : stage[c] # "pruned"
    BY <1>0, <2>1
  <2>3. CopyHeld'
    BY <1>0, <2>1
  <2>4. HoldLocked'
    BY <2>1, <2>2
  <2>5. Finite'
    BY <1>0, <2>1, FS_AddElement, FS_EmptySet
  <2> QED
    BY <2>3, <2>4, <2>5
<1>5. CASE Land
  BY <1>0, <1>5 DEF Land
<1>6. ASSUME [Next]_vars
      PROVE  \/ UNCHANGED copying \/ Land
             \/ \E d \in Iterations : Issue(d) \/ Prune(d) \/ Hold(d)
  <2>1. CASE UNCHANGED vars
    BY <2>1 DEF vars
  <2>2. ASSUME NEW p \in Iterations,
               Ask(p) \/ Choose(p) \/ Skip(p) \/ Lend(p) \/ Allocate(p) \/ Calibrate(p)
        PROVE  UNCHANGED copying
    BY <2>2 DEF Ask, Choose, Chosen, Skip, Lend, Allocate, Calibrate
  <2>3. ASSUME NEW p \in Iterations, AllocateUntracked(p) \/ Deliver(p) \/ Discard(p) \/ Forget(p)
        PROVE  UNCHANGED copying
    BY <2>3 DEF AllocateUntracked, Deliver, Discard, Forget
  <2>4. CASE SetAllocator \/ Clear
    BY <2>4 DEF SetAllocator, Clear
  <2> QED
    BY <1>6, <2>1, <2>2, <2>3, <2>4, StepCases
<1> QED
  BY <1>1, <1>2, <1>3, <1>4, <1>5, <1>6

-----------------------------------------------------------------------------
(* The theorems.                                                           *)

LEMMA Induction == Spec => []IInv
<1>1. Init => IInv
  BY InitIInv
<1>2. ASSUME IInv, [Next]_vars
      PROVE  IInv'
  <2>1. Typed' /\ Locked' /\ Scanning'
    BY <1>2, TypedStep, LockedStep
  <2>2. AtBaseline' /\ Referenced'
    BY <1>2, BaselineStep, ReferencedStep
  <2>3. SourceKept' /\ CopyHeld' /\ HoldLocked' /\ Finite'
    BY <1>2, SourceStep, CopiedStep
  <2>4. TypeOK'
    BY <2>1, TypeFromParts, PTL
  <2> QED
    BY <2>1, <2>2, <2>3, <2>4 DEF IInv, Copied
<1> QED
  BY <1>1, <1>2, PTL DEF Spec

(* Every variable keeps its type.                                          *)
THEOREM TypeCorrect == Spec => []TypeOK
<1>1. IInv => TypeOK
  BY DEF IInv
<1> QED
  BY <1>1, Induction, PTL

(* A batch's memory is written by one producer at a time, while no other   *)
(* batch, pending transfer or running device copy refers to it (take in    *)
(* buffers.py, hold in frameworks.py).                                     *)
THEOREM NoSharedRows == Spec => []WrittenAlone
<1>1. ASSUME IInv
      PROVE  WrittenAlone
  <2> SUFFICES ASSUME NEW p \in Iterations, phase[p] = "fill"
               PROVE  /\ at[Out(p)] # None
                      /\ \A x \in Places \ {Out(p)} : at[x] # at[Out(p)]
                      /\ \A t \in pending \cup running : t.mem # at[Out(p)]
    BY DEF WrittenAlone
  <2>1. SoleHolder(Out(p))
    BY <1>1 DEF IInv, Referenced, FilledAlone
  <2>2. ASSUME NEW t \in running
        PROVE  t.mem # at[Out(p)]
    BY <1>1, <2>1, <2>2, RunningIsSeen, PlacesOf DEF IInv, Copied, SoleHolder
  <2> QED
    BY <2>1, <2>2, MemoryAssumption DEF SoleHolder
<1> QED
  BY <1>1, Induction, PTL

(* A copy that still runs has its source referenced (_InFlight.hold).      *)
THEOREM CopiesHoldTheirSource == Spec => []HeldUntilLanded
<1>1. IInv => HeldUntilLanded
  BY DEF IInv, Copied, CopyHeld, HeldUntilLanded
<1> QED
  BY <1>1, Induction, PTL

(* The steps, as they touch the copies and the device.                     *)
LEMMA CopyCases ==
  ASSUME [Next]_vars
  PROVE  /\ device' = device
         /\ \/ UNCHANGED copying \/ Land
            \/ \E d \in Iterations : Issue(d) \/ Prune(d) \/ Hold(d)
<1> USE DEF setup, taking, owned, copying
<1>1. CASE UNCHANGED vars
  BY <1>1 DEF vars
<1>2. ASSUME NEW p \in Iterations,
             Ask(p) \/ Choose(p) \/ Skip(p) \/ Lend(p) \/ Allocate(p) \/ Calibrate(p)
      PROVE  UNCHANGED copying /\ device' = device
  BY <1>2 DEF Ask, Choose, Chosen, Skip, Lend, Allocate, Calibrate
<1>3. ASSUME NEW p \in Iterations, AllocateUntracked(p) \/ Deliver(p) \/ Discard(p) \/ Forget(p)
      PROVE  UNCHANGED copying /\ device' = device
  BY <1>3 DEF AllocateUntracked, Deliver, Discard, Forget
<1>4. CASE SetAllocator \/ Clear
  BY <1>4 DEF SetAllocator, Clear
<1>5. ASSUME NEW d \in Iterations, Issue(d) \/ Prune(d) \/ Hold(d)
      PROVE  device' = device
  BY <1>5 DEF Issue, Prune, Pruned, Hold
<1>6. Land => device' = device
  BY DEF Land
<1> QED
  BY <1>1, <1>2, <1>3, <1>4, <1>5, <1>6, StepCases
-----------------------------------------------------------------------------
(* Why the pool converges.                                                 *)

(* No two transfers share an event.                                        *)
EventsApart ==
  /\ \A t, u \in pending : t.event = u.event => t = u
  /\ \A c \in Iterations : stage[c] # "out" =>
       /\ \A t \in pending : t.event # transfer[c].event
       /\ \A d \in Iterations \ {c} : stage[d] # "out" => transfer[d].event # transfer[c].event
  /\ ~device => pending = {} /\ \A c \in Iterations : stage[c] = "out"

(* No two buffers share memory.                                            *)
OwnedOnce ==
  /\ \A i, j \in DOMAIN buffers : buffers[i].mem = buffers[j].mem => i = j
  /\ \A p \in Iterations : phase[p] = "calibrate" =>
       at[Local(p)] \notin Owned /\ scan[p] = Len(buffers) + 1

(* A producer has an array in hand only where take or gather has one.      *)
Vacant ==
  \A p \in Iterations : /\ phase[p] # "calibrate" => at[Local(p)] = None
                        /\ phase[p] # "fill" => at[Out(p)] = None

(* The buffers that are in use, and those that were when the producer      *)
(* passed them by: while it has the lock no other buffer is lent.          *)
Occupied(p) ==
  {i \in DOMAIN buffers : ~Unseen(buffers[i].mem) \/ (i < scan[p] /\ buffers[i].rows >= want[p])}
Roomy ==
  \A p \in Iterations : phase[p] \in {"scan", "calibrate"} =>
    Cardinality(Occupied(p)) < InUseAtMost

LEMMA EventsApartStep ==
  ASSUME IInv, EventsApart, [Next]_vars
  PROVE  EventsApart'
<1> USE DEF EventsApart, copying
<1>0. Typed /\ EventsApart /\ HoldLocked
  BY TypeParts DEF IInv, Copied
<1>1. device' = device
  BY CopyCases
<1>2. CASE UNCHANGED copying
  BY <1>0, <1>1, <1>2
<1>3. CASE Land
  BY <1>0, <1>1, <1>3 DEF Land
<1>4. ASSUME NEW d \in Iterations, Issue(d)
      PROVE  EventsApart'
  <2>1. PICK e \in Events : /\ Unused(e) /\ device /\ pending' = pending
                            /\ stage' = [stage EXCEPT ![d] = "issued"]
                            /\ \E m : transfer' = [transfer EXCEPT ![d] = [mem |-> m, event |-> e]]
    BY <1>4 DEF Issue
  <2>2. /\ transfer'[d].event = e
        /\ \A c \in Iterations \ {d} : stage'[c] = stage[c] /\ transfer'[c] = transfer[c]
    BY <1>0, <2>1 DEF Typed
  <2> QED
    BY <1>0, <1>1, <2>1, <2>2 DEF Unused
<1>5. ASSUME NEW d \in Iterations, Prune(d)
      PROVE  EventsApart'
  <2>1. /\ stage[d] = "issued" /\ UNCHANGED <<pending, transfer>>
        /\ \A c \in Iterations \ {d} : stage'[c] = stage[c]
    BY <1>0, <1>5 DEF Prune, Pruned, Typed
  <2> QED
    BY <1>0, <1>1, <2>1
<1>6. ASSUME NEW d \in Iterations, Hold(d)
      PROVE  EventsApart'
  <2>1. /\ stage[d] = "pruned" /\ stage'[d] = "out"
        /\ pending' = kept[d] \cup {transfer[d]}
        /\ \A c \in Iterations \ {d} : stage'[c] = stage[c] /\ transfer'[c] = transfer[c]
    BY <1>0, <1>6 DEF Hold, Typed
  <2>2. kept[d] \subseteq pending
    BY <1>0, <2>1 DEF HoldLocked
  <2> QED
    BY <1>0, <1>1, <2>1, <2>2
<1> QED
  BY <1>2, <1>3, <1>4, <1>5, <1>6, CopyCases

LEMMA VacantStep ==
  ASSUME IInv, Vacant, [Next]_vars
  PROVE  Vacant'
<1> USE DEF setup, taking, owned, copying, Vacant
<1>0. Typed /\ Vacant
  BY TypeParts DEF IInv
<1>1. CASE UNCHANGED vars
  BY <1>0, <1>1 DEF vars
<1>2. ASSUME NEW p \in Iterations, Ask(p) \/ Choose(p) \/ Skip(p)
      PROVE  Vacant'
  BY <1>0, <1>2 DEF Ask, Choose, Chosen, Skip, Typed
<1>3. ASSUME NEW p \in Iterations, Lend(p)
      PROVE  Vacant'
  BY <1>0, <1>3, PlacesOf DEF Lend, Returned, Typed
<1>4. ASSUME NEW p \in Iterations, Allocate(p)
      PROVE  Vacant'
  BY <1>0, <1>4, PlacesOf DEF Allocate, Typed
<1>5. ASSUME NEW p \in Iterations, Calibrate(p)
      PROVE  Vacant'
  BY <1>0, <1>5, PlacesOf DEF Calibrate, Returned, Forgotten, Typed
<1>6. ASSUME NEW p \in Iterations, AllocateUntracked(p)
      PROVE  Vacant'
  BY <1>0, <1>6, PlacesOf DEF AllocateUntracked, Typed
<1>7. ASSUME NEW p \in Iterations, Deliver(p)
      PROVE  Vacant'
  <2>1. PICK i \in Slots : at' = [at EXCEPT ![Out(p)] = None, ![Delivered(p, i)] = at[Out(p)]]
    BY <1>7 DEF Deliver
  <2> QED
    BY <1>0, <1>7, <2>1, PlacesOf DEF Deliver, Typed
<1>8. ASSUME NEW p \in Iterations, Discard(p)
      PROVE  Vacant'
  BY <1>0, <1>8, PlacesOf DEF Discard, Typed
<1>9. ASSUME NEW c \in Iterations, Forget(c)
      PROVE  Vacant'
  <2>1. PICK i \in Slots : at' = [at EXCEPT ![Delivered(c, i)] = None]
    BY <1>9 DEF Forget
  <2> QED
    BY <1>0, <1>9, <2>1, PlacesOf DEF Forget, Typed
<1>10. ASSUME NEW c \in Iterations, Issue(c) \/ Prune(c) \/ Hold(c)
       PROVE  Vacant'
  BY <1>0, <1>10 DEF Issue, Prune, Pruned, Hold
<1>11. CASE SetAllocator \/ Clear \/ Land
  BY <1>0, <1>11 DEF SetAllocator, Clear, Land
<1> QED
  BY <1>1, <1>2, <1>3, <1>4, <1>5, <1>6, <1>7, <1>8, <1>9, <1>10, <1>11, StepCases

LEMMA OwnedOnceStep ==
  ASSUME IInv, OwnedOnce, [Next]_vars
  PROVE  OwnedOnce'
<1> USE DEF setup, taking, owned, copying
<1>0. Typed /\ Locked /\ Scanning /\ OwnedOnce /\ None \notin Iterations /\ None \notin Memory
  BY TypeParts, IterationsAssumption, MemoryAssumption DEF IInv
<1>1. ASSUME UNCHANGED buffers,
             \A p \in Iterations : phase'[p] = "calibrate" =>
               phase[p] = "calibrate" /\ at'[Local(p)] = at[Local(p)] /\ scan'[p] = scan[p]
      PROVE  OwnedOnce'
  BY <1>0, <1>1 DEF OwnedOnce, Owned
<1>2. CASE UNCHANGED vars
  BY <1>1, <1>2 DEF vars
<1>3. ASSUME NEW p \in Iterations, Ask(p) \/ Choose(p) \/ Skip(p) \/ Lend(p)
      PROVE  OwnedOnce'
  <2>1. /\ UNCHANGED buffers /\ phase'[p] # "calibrate"
        /\ \A q \in Iterations \ {p} : phase'[q] = phase[q] /\ scan'[q] = scan[q]
    BY <1>0, <1>3 DEF Ask, Choose, Chosen, Skip, Lend, Returned, Typed
  <2>2. \A q \in Iterations \ {p} : at'[Local(q)] = at[Local(q)]
    BY <1>0, <1>3, PlacesOf DEF Ask, Choose, Chosen, Skip, Lend, Typed
  <2> QED
    BY <1>1, <2>1, <2>2
<1>4. ASSUME NEW p \in Iterations, Allocate(p)
      PROVE  OwnedOnce'
  <2>1. PICK m \in Unallocated : at' = [at EXCEPT ![Local(p)] = m]
    BY <1>4 DEF Allocate
  <2>2. m \notin Owned /\ at'[Local(p)] = m
    BY <1>0, <2>1, PlacesOf DEF Unallocated, Typed
  <2>3. UNCHANGED <<buffers, scan>> /\ phase[p] = "scan" /\ scan[p] \notin DOMAIN buffers
    BY <1>4 DEF Allocate
  <2>4. scan[p] = Len(buffers) + 1
    <3>1. scan[p] \in 1 .. Len(buffers) + 1 /\ DOMAIN buffers = 1 .. Len(buffers) /\ Len(buffers) \in Nat
      BY <1>0, <2>3 DEF Scanning, Typed
    <3> QED
      BY <2>3, <3>1
  <2>5. \A q \in Iterations \ {p} : phase'[q] # "calibrate"
    BY <1>0, <1>4 DEF Locked, Allocate, Typed
  <2> QED
    BY <1>0, <2>2, <2>3, <2>4, <2>5 DEF OwnedOnce, Owned
<1>5. ASSUME NEW p \in Iterations, Calibrate(p)
      PROVE  OwnedOnce'
  <2> DEFINE m == at[Local(p)]
  <2>1. PICK b : buffers' = Append(buffers, b) /\ b.mem = m
    BY <1>5 DEF Calibrate
  <2>2. /\ buffers \in Seq(Buffers) /\ Len(buffers) \in Nat
        /\ DOMAIN buffers = 1 .. Len(buffers) /\ DOMAIN buffers' = 1 .. Len(buffers) + 1
        /\ buffers'[Len(buffers) + 1] = b
        /\ \A i \in 1 .. Len(buffers) : buffers'[i] = buffers[i]
    BY <1>0, <2>1 DEF Typed
  <2>3. \A i \in 1 .. Len(buffers) : buffers[i].mem # m
    BY <1>0, <1>5, <2>2 DEF OwnedOnce, Owned, Calibrate
  <2>4. \A i, j \in DOMAIN buffers' : buffers'[i].mem = buffers'[j].mem => i = j
    <3>1. \A i \in DOMAIN buffers' : i \in 1 .. Len(buffers) \/ i = Len(buffers) + 1
      BY <2>2
    <3>2. \A i, j \in 1 .. Len(buffers) : buffers[i].mem = buffers[j].mem => i = j
      BY <1>0, <2>2 DEF OwnedOnce
    <3> HIDE DEF m
    <3> QED
      BY <2>1, <2>2, <2>3, <3>1, <3>2
  <2>5. \A q \in Iterations : phase'[q] # "calibrate"
    BY <1>0, <1>5 DEF Locked, Calibrate, Returned, Typed
  <2> QED
    BY <2>4, <2>5 DEF OwnedOnce
<1>6. ASSUME NEW p \in Iterations, AllocateUntracked(p) \/ Deliver(p) \/ Discard(p)
      PROVE  OwnedOnce'
  <2>1. /\ UNCHANGED <<buffers, scan>> /\ phase'[p] # "calibrate"
        /\ \A q \in Iterations \ {p} : phase'[q] = phase[q]
    BY <1>0, <1>6 DEF AllocateUntracked, Deliver, Discard, Typed
  <2>2. \A q \in Iterations : at'[Local(q)] = at[Local(q)]
    BY <1>0, <1>6, PlacesOf DEF AllocateUntracked, Deliver, Discard, Typed
  <2> QED
    BY <1>1, <2>1, <2>2
<1>7. ASSUME NEW c \in Iterations, Forget(c) \/ Issue(c) \/ Prune(c) \/ Hold(c)
      PROVE  OwnedOnce'
  <2>1. UNCHANGED <<buffers, scan, phase>>
    BY <1>7 DEF Forget, Issue, Prune, Pruned, Hold
  <2>2. \A q \in Iterations : at'[Local(q)] = at[Local(q)]
    BY <1>0, <1>7, PlacesOf DEF Forget, Issue, Prune, Pruned, Hold, Typed
  <2> QED
    BY <1>1, <2>1, <2>2
<1>8. CASE SetAllocator \/ Clear
  <2>1. buffers' = <<>> /\ phase' = phase /\ lock = None
    BY <1>8 DEF SetAllocator, Clear, DropBuffers
  <2>2. \A q \in Iterations : phase'[q] # "calibrate"
    BY <1>0, <2>1 DEF Locked
  <2>3. DOMAIN buffers' = {}
    BY <2>1
  <2> QED
    BY <2>2, <2>3 DEF OwnedOnce
<1>9. CASE Land
  BY <1>1, <1>9 DEF Land
<1> QED
  BY <1>2, <1>3, <1>4, <1>5, <1>6, <1>7, <1>8, <1>9, StepCases

(* While a producer looks for a buffer, nobody refers anew to one.         *)
Looking(p) == phase[p] \in {"scan", "calibrate"}

LEMMA NoneLentAnew ==
  ASSUME IInv, [Next]_vars, NEW p \in Iterations, Looking(p), Looking(p)', NEW m \in Owned
  PROVE  Unseen(m) => Unseen(m)'
<1> USE DEF setup, taking, owned, copying, Looking
<1>0. /\ Typed /\ Locked /\ None \notin Iterations /\ None \notin Memory /\ Finite
      /\ FilledAlone /\ SourceKept /\ HoldLocked /\ lock = p
  BY TypeParts, IterationsAssumption, MemoryAssumption DEF IInv, Copied, Referenced, Locked
<1>1. m \in Memory
  <2>1. PICK i \in DOMAIN buffers : m = buffers[i].mem
    BY DEF Owned
  <2>2. buffers[i] \in Buffers
    BY <1>0, <2>1 DEF Typed
  <2> QED
    BY <2>1, <2>2 DEF Buffers
<1>2. ASSUME UNCHANGED <<at, pending>>
      PROVE  Unseen(m) => Unseen(m)'
  BY <1>2 DEF Unseen
<1>3. ASSUME NEW x \in Places, NEW n, n # m, at' = [at EXCEPT ![x] = n], pending' = pending
      PROVE  Unseen(m) => Unseen(m)'
  BY <1>0, <1>3 DEF Unseen, Typed
<1>4. CASE UNCHANGED vars
  BY <1>2, <1>4 DEF vars
<1>5. ASSUME NEW q \in Iterations, Ask(q) \/ Choose(q) \/ Skip(q)
      PROVE  Unseen(m) => Unseen(m)'
  BY <1>2, <1>5 DEF Ask, Choose, Chosen, Skip
<1>6. ASSUME NEW q \in Iterations, Lend(q) \/ Calibrate(q)
      PROVE  FALSE
  BY <1>0, <1>6 DEF Locked, Lend, Calibrate, Returned, Typed
<1>7. ASSUME NEW q \in Iterations, Allocate(q) \/ AllocateUntracked(q)
      PROVE  Unseen(m) => Unseen(m)'
  <2>1. PICK x \in Places, n \in Unallocated : at' = [at EXCEPT ![x] = n]
    BY <1>7, PlacesOf DEF Allocate, AllocateUntracked
  <2>2. n # m
    BY <2>1 DEF Unallocated
  <2> QED
    BY <1>3, <1>7, <2>1, <2>2 DEF Allocate, AllocateUntracked
<1>8. ASSUME NEW q \in Iterations, Deliver(q)
      PROVE  Unseen(m) => Unseen(m)'
  <2>1. PICK i \in Slots : at' = [at EXCEPT ![Out(q)] = None, ![Delivered(q, i)] = at[Out(q)]]
    BY <1>8 DEF Deliver
  <2>2. at[Out(q)] \in Memory
    BY <1>0, <1>8 DEF FilledAlone, SoleHolder, Deliver
  <2>3. Out(q) \in Places /\ Delivered(q, i) \in Places /\ Out(q) # Delivered(q, i) /\ pending' = pending
    BY <1>8, PlacesOf DEF Deliver
  <2> QED
    BY <1>0, <1>1, <2>1, <2>2, <2>3, MovedReference
<1>9. ASSUME NEW q \in Iterations, Discard(q) \/ Forget(q)
      PROVE  Unseen(m) => Unseen(m)'
  <2>1. PICK x \in Places : at' = [at EXCEPT ![x] = None]
    BY <1>9, PlacesOf DEF Discard, Forget
  <2>2. pending' = pending
    BY <1>9 DEF Discard, Forget
  <2> QED
    BY <1>0, <1>1, <1>3, <2>1, <2>2
<1>10. ASSUME NEW c \in Iterations, Hold(c)
       PROVE  Unseen(m) => Unseen(m)'
  <2>1. at' = at /\ pending' \subseteq pending \cup {transfer[c]}
    BY <1>0, <1>10 DEF Hold, HoldLocked
  <2>2. PICK i \in Slots : at[Delivered(c, i)] = transfer[c].mem
    BY <1>0, <1>10 DEF SourceKept, Hold
  <2>3. Delivered(c, i) \in Places
    BY PlacesOf
  <2> QED
    BY <1>1, <2>1, <2>2, <2>3, HeldReference
<1>11. ASSUME NEW c \in Iterations, Issue(c) \/ Prune(c)
       PROVE  Unseen(m) => Unseen(m)'
  BY <1>2, <1>11 DEF Issue, Prune, Pruned
<1>12. CASE SetAllocator \/ Clear \/ Land
  BY <1>2, <1>12 DEF SetAllocator, Clear, Land
<1> QED
  BY <1>4, <1>5, <1>6, <1>7, <1>8, <1>9, <1>10, <1>11, <1>12, StepCases

(* How many buffers may be in use, when one more is asked for.             *)
InUse == {i \in DOMAIN buffers : ~Unseen(buffers[i].mem)}
Holders == Iterations \X ({"out"} \cup Slots)

LEMMA HoldersCount ==
  /\ IsFiniteSet(Holders)
  /\ Cardinality(Holders) = Cardinality(Iterations) * (1 + Cardinality(Slots))
  /\ Cardinality(Iterations) \in Nat /\ Cardinality(Slots) \in Nat /\ Cardinality(Events) \in Nat
<1> DEFINE S == Slots \cup {"out"}
<1>1. IsFiniteSet(S) /\ Cardinality(S) = Cardinality(Slots) + 1
  BY SlotsAssumption, FS_AddElement
<1>2. Cardinality(Iterations) \in Nat /\ Cardinality(Slots) \in Nat /\ Cardinality(Events) \in Nat
  BY SlotsAssumption, IterationsAssumption, EventsAssumption, FS_CardinalityType
<1>3. /\ IsFiniteSet(Iterations \X S)
      /\ Cardinality(Iterations \X S) = Cardinality(Iterations) * Cardinality(S)
  BY <1>1, IterationsAssumption, FS_Product
<1>4. Holders = Iterations \X S
  BY DEF Holders
<1>5. Cardinality(S) = 1 + Cardinality(Slots)
  BY <1>1, <1>2
<1> QED
  BY <1>2, <1>3, <1>4, <1>5

LEMMA PendingCount ==
  ASSUME IInv, EventsApart
  PROVE  /\ IsFiniteSet(pending) /\ Cardinality(pending) \in Nat
         /\ device => Cardinality(pending) <= Cardinality(Events)
         /\ ~device => Cardinality(pending) = 0
<1>0. IsFiniteSet(pending) /\ pending \subseteq Transfers
  BY TypeParts DEF IInv, Copied, Finite, Typed
<1>1. Cardinality(pending) \in Nat
  BY <1>0, FS_CardinalityType
<1>2. CASE ~device
  BY <1>0, <1>1, <1>2, FS_EmptySet DEF EventsApart
<1>3. CASE device
  <2> DEFINE event == [t \in pending |-> t.event]
  <2>1. \A t \in pending : t.event \in Events
    BY <1>0 DEF Transfers
  <2>2. event \in [pending -> Events]
    BY <2>1
  <2>3. \A t, u \in pending : event[t] = event[u] => t = u
    BY DEF EventsApart
  <2>4. event \in Injection(pending, Events)
    BY <2>2, <2>3 DEF Injection, IsInjective
  <2> HIDE DEF event
  <2>5. Cardinality(pending) <= Cardinality(Events)
    BY <2>4, EventsAssumption, FS_Injection
  <2> QED
    BY <1>0, <1>1, <1>3, <2>5
<1> QED
  BY <1>0, <1>1, <1>2, <1>3

(* A place is some producer's.                                             *)
LEMMA PlaceParts ==
  ASSUME NEW x \in Places
  PROVE  \E q \in Iterations, z \in {"local", "out"} \cup Slots : x = <<q, z>>
<1>1. x[1] \in Iterations /\ x[2] \in {"local", "out"} \cup Slots /\ x = <<x[1], x[2]>>
  BY DEF Places
<1> QED
  BY <1>1

LEMMA InUseCount ==
  ASSUME IInv, EventsApart, OwnedOnce, Vacant, NEW p \in Iterations, phase[p] = "idle", lock = None
  PROVE  IsFiniteSet(InUse) /\ Cardinality(InUse) < InUseAtMost
<1> DEFINE D == Holders \ {Out(p)}
           atD == {at[x] : x \in D}
           mems == {t.mem : t \in pending}
<1>0. /\ Typed /\ None \notin Iterations /\ None \notin Memory
      /\ IsFiniteSet(pending) /\ Cardinality(pending) \in Nat
  BY TypeParts, IterationsAssumption, MemoryAssumption, PendingCount DEF IInv
<1>1. /\ IsFiniteSet(D) /\ Cardinality(D) \in Nat
      /\ Cardinality(D) = Cardinality(Iterations) * (1 + Cardinality(Slots)) - 1
  <2>1. Out(p) \in Holders
    BY DEF Out, Holders
  <2>2. IsFiniteSet(D) /\ Cardinality(D) = Cardinality(Holders) - 1
    BY <2>1, HoldersCount, FS_RemoveElement
  <2> QED
    BY <2>2, HoldersCount, FS_CardinalityType
<1>2. IsFiniteSet(atD) /\ Cardinality(atD) <= Cardinality(D) /\ Cardinality(atD) \in Nat
  <2> DEFINE f == [x \in D |-> at[x]]
  <2>1. f \in Surjection(D, atD)
    <3>1. f \in [D -> atD]
      OBVIOUS
    <3>2. \A t \in atD : \E x \in D : f[x] = t
      OBVIOUS
    <3> QED
      BY <3>1, <3>2 DEF Surjection
  <2> HIDE DEF f, D, atD
  <2> QED
    BY <1>1, <2>1, FS_Surjection, FS_CardinalityType
<1>3. IsFiniteSet(mems) /\ Cardinality(mems) <= Cardinality(pending) /\ Cardinality(mems) \in Nat
  <2> DEFINE f == [t \in pending |-> t.mem]
  <2>1. f \in Surjection(pending, mems)
    <3>1. f \in [pending -> mems]
      OBVIOUS
    <3>2. \A m \in mems : \E t \in pending : f[t] = m
      OBVIOUS
    <3> QED
      BY <3>1, <3>2 DEF Surjection
  <2> HIDE DEF f, mems
  <2> QED
    BY <1>0, <2>1, FS_Surjection, FS_CardinalityType
<1>4. \A x \in Places : at[x] # None => x \in D
  <2> SUFFICES ASSUME NEW x \in Places, at[x] # None PROVE x \in D
    OBVIOUS
  <2>0. PICK q \in Iterations, z \in {"local", "out"} \cup Slots : x = <<q, z>>
    BY PlaceParts
  <2>1. phase[q] # "calibrate"
    BY <1>0, <2>0 DEF IInv, Locked
  <2>2. z # "local"
    BY <2>0, <2>1 DEF Vacant, Local
  <2>3. x # Out(p)
    BY DEF Vacant
  <2> QED
    BY <2>0, <2>2, <2>3 DEF Holders
<1>5. \A i \in InUse : buffers[i].mem \in atD \cup mems
  <2> SUFFICES ASSUME NEW i \in InUse PROVE buffers[i].mem \in atD \cup mems
    OBVIOUS
  <2>1. buffers[i] \in Buffers
    BY <1>0 DEF InUse, Typed
  <2>2. buffers[i].mem # None
    BY <1>0, <2>1 DEF Buffers
  <2>3. \/ \E x \in Places : at[x] = buffers[i].mem
        \/ \E t \in pending : t.mem = buffers[i].mem
    BY DEF InUse, Unseen
  <2> QED
    BY <1>4, <2>2, <2>3
<1> HIDE DEF D, atD, mems
<1>6. /\ IsFiniteSet(atD \cup mems) /\ Cardinality(atD \cup mems) \in Nat
      /\ Cardinality(atD \cup mems) <= Cardinality(atD) + Cardinality(mems)
  <2>1. /\ IsFiniteSet(atD \cup mems) /\ Cardinality(atD \cap mems) \in Nat
        /\ Cardinality(atD \cup mems) = Cardinality(atD) + Cardinality(mems) - Cardinality(atD \cap mems)
    BY <1>2, <1>3, FS_Union, FS_Intersection, FS_CardinalityType
  <2>2. Cardinality(atD \cup mems) \in Nat
    BY <2>1, FS_CardinalityType
  <2>3. ASSUME NEW a \in Nat, NEW b \in Nat, NEW c \in Nat PROVE a + b - c <= a + b
    OBVIOUS
  <2> QED
    BY <1>2, <1>3, <2>1, <2>2, <2>3
<1>7. IsFiniteSet(InUse) /\ Cardinality(InUse) <= Cardinality(atD \cup mems) /\ Cardinality(InUse) \in Nat
  <2> DEFINE f == [i \in InUse |-> buffers[i].mem]
  <2>1. f \in [InUse -> atD \cup mems]
    BY <1>5
  <2>2. \A i, j \in InUse : f[i] = f[j] => i = j
    BY DEF OwnedOnce, InUse
  <2>3. f \in Injection(InUse, atD \cup mems)
    BY <2>1, <2>2 DEF Injection, IsInjective
  <2> HIDE DEF f
  <2> QED
    BY <1>6, <2>3, FS_Injection, FS_CardinalityType
<1>8. /\ device => Cardinality(pending) <= Cardinality(Events)
      /\ ~device => Cardinality(pending) = 0
  BY PendingCount
<1>9. Cardinality(InUse) <= Cardinality(D) + Cardinality(pending)
  BY <1>0, <1>1, <1>2, <1>3, <1>6, <1>7
<1>10. PICK cap \in Nat : cap = Cardinality(Iterations) * (1 + Cardinality(Slots))
  BY HoldersCount, FS_CardinalityType
<1> QED
  BY <1>0, <1>1, <1>7, <1>8, <1>9, <1>10, HoldersCount DEF InUseAtMost

LEMMA OccupiedIsFinite ==
  ASSUME Typed, NEW p \in Iterations
  PROVE  IsFiniteSet(Occupied(p)) /\ Occupied(p) \subseteq DOMAIN buffers /\ IsFiniteSet(DOMAIN buffers)
<1>1. DOMAIN buffers = 1 .. Len(buffers) /\ Len(buffers) \in Nat
  BY DEF Typed
<1>2. IsFiniteSet(DOMAIN buffers)
  BY <1>1, FS_Interval
<1>3. Occupied(p) \in SUBSET DOMAIN buffers
  BY DEF Occupied
<1> QED
  BY <1>2, <1>3, FS_Subset

(* A producer that looks on sees no more buffers occupied than before.     *)
LEMMA OccupiedShrinks ==
  ASSUME IInv, [Next]_vars, NEW p \in Iterations, Looking(p), Looking(p)'
  PROVE  Occupied(p)' \subseteq Occupied(p)
<1> USE DEF setup, taking, owned, copying, Looking
<1>0. /\ Typed /\ Locked /\ Scanning /\ AtBaseline /\ Finite /\ lock = p /\ None \notin Iterations
      /\ scan[p] \in Nat
  BY TypeParts, IterationsAssumption DEF IInv, Copied, Locked, Typed
<1>1. ASSUME UNCHANGED <<buffers, want>>, scan'[p] = scan[p]
      PROVE  Occupied(p)' \subseteq Occupied(p)
  <2>1. \A i \in DOMAIN buffers : buffers[i].mem \in Owned
    BY DEF Owned
  <2> QED
    BY <1>1, <2>1, NoneLentAnew DEF Occupied
<1>2. CASE UNCHANGED vars
  BY <1>1, <1>2 DEF vars
<1>3. ASSUME NEW q \in Iterations, Skip(q)
      PROVE  Occupied(p)' \subseteq Occupied(p)
  <2>1. q = p
    BY <1>0, <1>3 DEF Locked, Skip
  <2>2. /\ UNCHANGED <<buffers, want, at, pending>> /\ scan'[p] = scan[p] + 1
        /\ scan[p] \in DOMAIN buffers /\ ~Serves(buffers[scan[p]], want[p])
    BY <1>0, <1>3, <2>1 DEF Skip, Examined, Typed
  <2>3. \A m : Unseen(m)' <=> Unseen(m)
    BY <2>2 DEF Unseen
  <2>4. buffers[scan[p]].rows >= want[p] => ~Unseen(buffers[scan[p]].mem)
    <3>1. SUFFICES ASSUME buffers[scan[p]].rows >= want[p], Unseen(buffers[scan[p]].mem) PROVE FALSE
      OBVIOUS
    <3>2. Refs(at, buffers[scan[p]].mem) <= 0
      BY <1>0, <3>1, RefsZero DEF Unseen
    <3> QED
      BY <1>0, <2>2, <3>1, <3>2 DEF Serves, Free, AtBaseline
  <2>5. \A i \in DOMAIN buffers : i \in Nat /\ (i < scan[p] + 1 => i < scan[p] \/ i = scan[p])
    <3>1. DOMAIN buffers = 1 .. Len(buffers) /\ Len(buffers) \in Nat
      BY <1>0 DEF Typed
    <3> QED
      BY <1>0, <3>1
  <2> QED
    BY <2>2, <2>3, <2>4, <2>5 DEF Occupied
<1>4. ASSUME NEW q \in Iterations, Ask(q) \/ Choose(q) \/ Lend(q) \/ Calibrate(q)
      PROVE  FALSE
  BY <1>0, <1>4 DEF Locked, Ask, Choose, Chosen, Lend, Calibrate, Returned, Typed
<1>5. ASSUME NEW q \in Iterations, Allocate(q) \/ AllocateUntracked(q) \/ Deliver(q) \/ Discard(q)
      PROVE  Occupied(p)' \subseteq Occupied(p)
  BY <1>1, <1>5 DEF Allocate, AllocateUntracked, Deliver, Discard
<1>6. ASSUME NEW c \in Iterations, Forget(c) \/ Issue(c) \/ Prune(c) \/ Hold(c)
      PROVE  Occupied(p)' \subseteq Occupied(p)
  BY <1>1, <1>6 DEF Forget, Issue, Prune, Pruned, Hold
<1>7. CASE SetAllocator \/ Clear
  BY <1>0, <1>7 DEF SetAllocator, Clear, DropBuffers
<1>8. CASE Land
  BY <1>1, <1>8 DEF Land
<1> QED
  BY <1>2, <1>3, <1>4, <1>5, <1>6, <1>7, <1>8, StepCases

LEMMA CapIsFixed ==
  ASSUME [Next]_vars
  PROVE  InUseAtMost' = InUseAtMost
BY CopyCases DEF InUseAtMost

LEMMA RoomyStep ==
  ASSUME IInv, EventsApart, OwnedOnce, Vacant, Roomy, [Next]_vars
  PROVE  Roomy'
<1> SUFFICES ASSUME NEW p \in Iterations, Looking(p)'
             PROVE  Cardinality(Occupied(p)') < InUseAtMost
  BY CapIsFixed DEF Roomy, Looking
<1>0. Typed /\ Locked /\ Scanning /\ InUseAtMost \in Int
  BY TypeParts, HoldersCount DEF IInv, InUseAtMost
<1>1. CASE Looking(p)
  <2>1. Occupied(p)' \in SUBSET Occupied(p)
    BY <1>1, OccupiedShrinks
  <2>2. IsFiniteSet(Occupied(p))
    BY <1>0, OccupiedIsFinite
  <2>3. /\ Cardinality(Occupied(p)') <= Cardinality(Occupied(p))
        /\ Cardinality(Occupied(p)') \in Nat /\ Cardinality(Occupied(p)) \in Nat
    BY <2>1, <2>2, FS_Subset, FS_CardinalityType
  <2>4. Cardinality(Occupied(p)) < InUseAtMost
    BY <1>1 DEF Roomy, Looking
  <2> QED
    BY <1>0, <2>3, <2>4
<1>2. CASE ~Looking(p)
  <2>1. Ask(p)
    <3> USE DEF setup, taking, owned, copying, Looking
    <3>1. ASSUME UNCHANGED phase PROVE FALSE
      BY <1>2, <3>1
    <3>2. ASSUME NEW q \in Iterations, q # p, phase'[p] = phase[p] PROVE FALSE
      BY <1>2, <3>2
    <3>3. ASSUME NEW q \in Iterations,
                 Choose(q) \/ Skip(q) \/ Lend(q) \/ Allocate(q) \/ Calibrate(q)
          PROVE  FALSE
      BY <1>0, <1>2, <3>3 DEF Choose, Chosen, Skip, Lend, Allocate, Calibrate, Returned, Typed
    <3>4. ASSUME NEW q \in Iterations, AllocateUntracked(q) \/ Deliver(q) \/ Discard(q)
          PROVE  FALSE
      BY <1>0, <1>2, <3>4 DEF AllocateUntracked, Deliver, Discard, Typed
    <3>5. ASSUME NEW q \in Iterations, Forget(q) \/ Issue(q) \/ Prune(q) \/ Hold(q)
          PROVE  FALSE
      BY <3>1, <3>5 DEF Forget, Issue, Prune, Pruned, Hold
    <3>6. CASE UNCHANGED vars \/ SetAllocator \/ Clear \/ Land
      BY <3>1, <3>6 DEF vars, SetAllocator, Clear, Land
    <3>7. ASSUME NEW q \in Iterations, Ask(q)
          PROVE  Ask(p)
      BY <1>0, <1>2, <3>7 DEF Ask, Typed
    <3> QED
      BY <3>3, <3>4, <3>5, <3>6, <3>7, StepCases
  <2>2. phase[p] = "idle" /\ lock = None /\ scan[p] = 1 /\ UNCHANGED <<buffers, scan, at, pending>>
    BY <1>0, <2>1 DEF Ask, Scanning, owned, copying
  <2>3. \A i \in DOMAIN buffers : ~(i < 1)
    BY <1>0 DEF Typed
  <2>4. Occupied(p)' = InUse
    <3>1. \A m : Unseen(m)' <=> Unseen(m)
      BY <2>2 DEF Unseen
    <3> QED
      BY <2>2, <2>3, <3>1 DEF Occupied, InUse
  <2> QED
    BY <2>2, <2>4, InUseCount
<1> QED
  BY <1>1, <1>2

LEMMA ConvergesStep ==
  ASSUME IInv, OwnedOnce, Roomy, Converges, [Next]_vars
  PROVE  Converges'
<1> DEFINE Long(n) == {i \in DOMAIN buffers : buffers[i].rows = n}
<1> SUFFICES ASSUME NEW n \in Rows
             PROVE  Cardinality({i \in DOMAIN buffers' : buffers'[i].rows = n}) <= InUseAtMost
  BY CapIsFixed DEF Converges
<1>0. Typed /\ InUseAtMost \in Nat
  BY TypeParts, HoldersCount DEF IInv, InUseAtMost
<1>1. CASE UNCHANGED buffers
  BY <1>1 DEF Converges
<1>2. CASE DropBuffers
  <2>1. {i \in DOMAIN buffers' : buffers'[i].rows = n} = {}
    BY <1>2 DEF DropBuffers
  <2> QED
    BY <1>0, <2>1, FS_EmptySet
<1>3. ASSUME NEW p \in Iterations, Calibrate(p)
      PROVE  Cardinality({i \in DOMAIN buffers' : buffers'[i].rows = n}) <= InUseAtMost
  <2>1. PICK b : buffers' = Append(buffers, b) /\ b.rows = want[p]
    BY <1>3 DEF Calibrate
  <2>2. /\ DOMAIN buffers = 1 .. Len(buffers) /\ DOMAIN buffers' = 1 .. Len(buffers) + 1 /\ Len(buffers) \in Nat
        /\ buffers'[Len(buffers) + 1] = b
        /\ \A i \in 1 .. Len(buffers) : buffers'[i] = buffers[i]
    BY <1>0, <2>1 DEF Typed
  <2>3. CASE want[p] # n
    <3>1. {i \in DOMAIN buffers' : buffers'[i].rows = n} = Long(n)
      BY <2>1, <2>2, <2>3
    <3> QED
      BY <3>1 DEF Converges
  <2>4. CASE want[p] = n
    <3>1. {i \in DOMAIN buffers' : buffers'[i].rows = n} = Long(n) \cup {Len(buffers) + 1}
      BY <2>1, <2>2, <2>4
    <3>2. Looking(p) /\ scan[p] = Len(buffers) + 1
      BY <1>3 DEF Looking, Calibrate, OwnedOnce
    <3>3. Long(n) \in SUBSET Occupied(p)
      <4>1. \A i \in DOMAIN buffers : i < scan[p] /\ buffers[i].rows \in Nat
        <5>1. \A i \in DOMAIN buffers : buffers[i] \in Buffers
          BY <1>0 DEF Typed
        <5> QED
          BY <2>2, <3>2, <5>1 DEF Buffers
      <4> QED
        BY <2>4, <4>1 DEF Occupied
    <3>4. IsFiniteSet(Occupied(p)) /\ Cardinality(Occupied(p)) < InUseAtMost
      BY <1>0, <3>2, OccupiedIsFinite DEF Roomy, Looking
    <3> HIDE DEF Long
    <3>5. /\ IsFiniteSet(Long(n)) /\ Cardinality(Long(n)) \in Nat /\ Cardinality(Occupied(p)) \in Nat
          /\ Cardinality(Long(n)) <= Cardinality(Occupied(p))
      BY <3>3, <3>4, FS_Subset, FS_CardinalityType
    <3>6. ASSUME NEW L, NEW x, IsFiniteSet(L)
          PROVE  /\ Cardinality(L \cup {x}) \in Nat /\ Cardinality(L) \in Nat
                 /\ Cardinality(L \cup {x}) <= Cardinality(L) + 1
      <4>1. Cardinality(L) \in Nat
        BY <3>6, FS_CardinalityType
      <4>2. Cardinality(L \cup {x}) = Cardinality(L) \/ Cardinality(L \cup {x}) = Cardinality(L) + 1
        BY <3>6, FS_AddElement
      <4> QED
        BY <4>1, <4>2
    <3>7. /\ Cardinality(Long(n) \cup {Len(buffers) + 1}) \in Nat
          /\ Cardinality(Long(n) \cup {Len(buffers) + 1}) <= Cardinality(Long(n)) + 1
      BY <3>5, <3>6
    <3>8. ASSUME NEW x \in Nat, NEW y \in Nat, NEW z \in Nat, x <= y + 1, y <= z, z < InUseAtMost
          PROVE  x <= InUseAtMost
      BY <1>0, <3>8
    <3>9. Cardinality(Long(n) \cup {Len(buffers) + 1}) <= InUseAtMost
      BY <3>4, <3>5, <3>7, <3>8
    <3> QED
      BY <3>1, <3>9
  <2> QED
    BY <2>3, <2>4
<1>4. UNCHANGED buffers \/ DropBuffers \/ \E p \in Iterations : Calibrate(p)
  <2> USE DEF setup, taking, owned, copying
  <2>1. CASE UNCHANGED vars
    BY <2>1 DEF vars
  <2>2. ASSUME NEW p \in Iterations, Ask(p) \/ Choose(p) \/ Skip(p) \/ Lend(p) \/ Allocate(p)
        PROVE  UNCHANGED buffers
    BY <2>2 DEF Ask, Choose, Chosen, Skip, Lend, Allocate
  <2>3. ASSUME NEW p \in Iterations, AllocateUntracked(p) \/ Deliver(p) \/ Discard(p)
        PROVE  UNCHANGED buffers
    BY <2>3 DEF AllocateUntracked, Deliver, Discard
  <2>4. ASSUME NEW c \in Iterations, Forget(c) \/ Issue(c) \/ Prune(c) \/ Hold(c)
        PROVE  UNCHANGED buffers
    BY <2>4 DEF Forget, Issue, Prune, Pruned, Hold
  <2>5. CASE SetAllocator \/ Clear
    BY <2>5 DEF SetAllocator, Clear
  <2>6. CASE Land
    BY <2>6 DEF Land
  <2> QED
    BY <2>1, <2>2, <2>3, <2>4, <2>5, <2>6, StepCases
<1> QED
  BY <1>1, <1>2, <1>3, <1>4

Converging == EventsApart /\ OwnedOnce /\ Vacant /\ Roomy /\ Converges

LEMMA ConvergingInit == ASSUME Init PROVE Converging
<1>1. EventsApart /\ OwnedOnce /\ Roomy
  BY DEF Init, EventsApart, OwnedOnce, Roomy
<1>2. Vacant
  BY PlacesOf DEF Init, Vacant
<1>3. Converges
  <2>1. \A n : {i \in DOMAIN buffers : buffers[i].rows = n} = {}
    BY DEF Init
  <2>2. 0 <= InUseAtMost
    BY HoldersCount DEF InUseAtMost
  <2> QED
    BY <2>1, <2>2, FS_EmptySet DEF Converges
<1> QED
  BY <1>1, <1>2, <1>3 DEF Converging

(* The pool stops growing: a buffer is allocated only when every other one *)
(* of its length was in use at the moment the lock was taken, and no more  *)
(* can be than there are producers, places to keep a batch and transfers   *)
(* under way (take; "Allocate-on-miss converges").                         *)
THEOREM PoolConverges == Spec => []Converges
<1>1. Init => Converging
  BY ConvergingInit
<1>2. IInv /\ Converging /\ [Next]_vars => Converging'
  BY EventsApartStep, OwnedOnceStep, VacantStep, RoomyStep, ConvergesStep DEF Converging
<1>3. Converging => Converges
  BY DEF Converging
<1> QED
  BY <1>1, <1>2, <1>3, Induction, PTL DEF Spec
=============================================================================
