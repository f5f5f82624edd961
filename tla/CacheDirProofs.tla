--------------------------- MODULE CacheDirProofs ---------------------------
(***************************************************************************)
(* What CacheDir guarantees for any number of processes, keys, arrays and  *)
(* openings, however the processes are configured.                         *)
(***************************************************************************)
EXTENDS CacheDir, FiniteSetTheorems, TLAPS

-----------------------------------------------------------------------------
(* The steps, and the assignments they are made of.                        *)

LEMMA NextCases ==
  ASSUME Next
  PROVE  \/ \E p \in Proc :
              \/ Open(p) \/ LoadCold(p) \/ LoadRefuses(p) \/ LoadResets(p)
              \/ LoadEntries(p) \/ UnlinkStale(p) \/ UnlinkLog(p) \/ KeepSurvivors(p)
              \/ CompactWrite(p) \/ CompactRename(p) \/ OpenLog(p) \/ WriteHeader(p)
              \/ HeaderFails(p) \/ FreeSlots(p) \/ ReleaseLock(p) \/ Crash(p)
         \/ \E p \in Proc, k \in Key :
              \/ Revive(p, k) \/ Admit(p, k) \/ AllocTemp(p, k) \/ AllocRename(p, k)
              \/ Fill(p, k) \/ Complete(p, k) \/ CompleteAndLog(p, k)
              \/ AppendFails(p, k) \/ FailUnlogged(p, k) \/ Drop(p, k)
BY DEF Next, OpeningStep, SlotStep

(* Where the processes are after one of them moved.                        *)
LEMMA AtAfterGoto ==
  ASSUME TypeOK, NEW p \in Proc, NEW l \in PC, Goto(p, l)
  PROVE  /\ pc' \in [Proc -> PC]
         /\ pc'[p] = l
         /\ \A q \in Proc \ {p} : pc'[q] = pc[q]
BY DEF TypeOK, Goto

(* The slots after one was set.                                            *)
LEMMA SlotAfterSet ==
  ASSUME TypeOK, NEW p \in Proc, NEW k \in Key, NEW s \in Slots, SetSlot(p, k, s)
  PROVE  /\ slot' \in [Proc -> [Key -> Slots]]
         /\ slot'[p][k] = s
         /\ \A q \in Proc, l \in Key : q # p \/ l # k => slot'[q][l] = slot[q][l]
BY DEF TypeOK, SetSlot

(* A process that lets go of the lock has forgotten everything.            *)
LEMMA MemoryAfterForget ==
  ASSUME TypeOK, NEW p \in Proc, Forget(p)
  PROVE  /\ slot' \in [Proc -> [Key -> Slots]]
         /\ persisted' \in [Proc -> SUBSET Key]
         /\ recorded' \in [Proc -> SUBSET Key]
         /\ pc' \in [Proc -> PC]
         /\ short' = short \ {p}
         /\ pc'[p] = "closed" /\ persisted'[p] = {} /\ recorded'[p] = {}
         /\ \A k \in Key : slot'[p][k] = "none"
         /\ \A q \in Proc \ {p} :
              /\ pc'[q] = pc[q] /\ slot'[q] = slot[q]
              /\ persisted'[q] = persisted[q] /\ recorded'[q] = recorded[q]
<1>1. NoSlots \in [Key -> Slots] /\ \A k \in Key : NoSlots[k] = "none"
  BY DEF NoSlots, Slots
<1>2. "closed" \in PC
  BY DEF PC
<1> QED
  BY <1>1, <1>2 DEF TypeOK, Forget, Goto

(* A process that loads the log remembers the keys of its entries.         *)
LEMMA MemoryAfterLoad ==
  ASSUME TypeOK, NEW p \in Proc, NEW E \in SUBSET entries, Load(p, E)
  PROVE  /\ persisted' \in [Proc -> SUBSET Key]
         /\ recorded' \in [Proc -> SUBSET Key]
         /\ persisted'[p] = {e[1] : e \in E} /\ recorded'[p] = {e[1] : e \in E}
         /\ \A q \in Proc \ {p} : persisted'[q] = persisted[q] /\ recorded'[q] = recorded[q]
<1>1. {e[1] : e \in E} \in SUBSET Key
  BY DEF TypeOK
<1> QED
  BY <1>1 DEF TypeOK, Load

(* What a persisting process believes once a chunk is complete.            *)
LEMMA BeliefAfterBelieve ==
  ASSUME TypeOK, NEW p \in Proc, NEW k \in Key, Believe(p, k)
  PROVE  /\ persisted' \in [Proc -> SUBSET Key]
         /\ persisted'[p] = persisted[p] \cup (IF Kind[p] = "persist" THEN {k} ELSE {})
         /\ \A q \in Proc \ {p} : persisted'[q] = persisted[q]
BY DEF TypeOK, Believe

(* The files of a pool's slots, and what a chunk file can hold.            *)
LEMMA MadeIsAFile ==
  ASSUME NEW p \in Proc, NEW k \in Key, NEW b \in BOOLEAN
  PROVE  /\ FingerprintOf[p][ArrayOf[k]] \in Fingerprint
         /\ [print |-> FingerprintOf[p][ArrayOf[k]], whole |-> b] \in Content
         /\ [print |-> FingerprintOf[p][ArrayOf[k]], whole |-> b] # NoFile
BY CacheDirAssumption DEF Content, NoFile

(* What survives a reset was in the log.                                   *)
LEMMA SurvivorsAreEntries == \A p \in Proc : Survivors(p) \in SUBSET entries
BY DEF Survivors

-----------------------------------------------------------------------------
(* The inductive invariant: what holds of each process, and of the         *)
(* directory.                                                              *)

(* The advisory lock: beside a writer nobody else holds it.                *)
LockIsExclusive ==
  \A p, q \in Proc :
    p # q /\ HoldsLock(p) /\ HoldsLock(q) => Kind[p] = "readonly" /\ Kind[q] = "readonly"

(* Slots are for the arrays the process reads, while it uses the           *)
(* directory; a read-only one can only revive.                             *)
SlotsAreInUse(p) ==
  \A k \in Key : slot[p][k] # "none" =>
    /\ pc[p] = "open"
    /\ ArrayOf[k] \in Reads[p]
    /\ Kind[p] = "readonly" => slot[p][k] = "ready"

(* A temporary chunk file of a live process is for a slot that waits for   *)
(* it: dead processes' temporary files are swept before anybody writes.    *)
TempsAreForSlots(p) ==
  \A k \in Key : <<p, k>> \in temps =>
    Writes(p) /\ (HoldsLock(p) => slot[p][k] = "admitted")

Remembering == {"compacting", "loaded", "headerless", "open", "freed"}
Loading == {"locked", "dropping", "compacting", "loaded", "headerless"}

(* Before the log is loaded, without the lock, and in a pool that does not *)
(* persist, nothing is remembered.                                         *)
(* Only a reset deletes, or compacts a log that has stale entries.         *)
OpensInOrder(p) ==
  /\ pc[p] \notin Remembering \/ ~Persistent(p) => persisted[p] = {} /\ recorded[p] = {}
  /\ pc[p] \in Loading => Persistent(p)
  /\ pc[p] = "dropping" => p \in Resets
  /\ pc[p] = "compacting" => Writes(p) /\ (p \in Resets \/ StaleEntries(p) = {})
  /\ pc[p] = "headerless" => Writes(p)

(* A process that has opened the log has created it.                       *)
LogExists(p) ==
  /\ pc[p] = "headerless" => head = "empty"
  /\ pc[p] \in {"open", "freed"} /\ Kind[p] = "persist" => head # "missing"

(* The log as p sees it once it has been compacted.                        *)
LogOf(p) == IF pc[p] = "compacting" THEN Survivors(p) ELSE entries

MyEntry(p, k) == <<k, FingerprintOf[p][ArrayOf[k]]>>

(* A process that has loaded the log agrees with it about what p's arrays  *)
(* are made of and knows every key that has an entry.  It believes of no   *)
(* other key that it has one, unless a line of its own was cut short: the  *)
(* next line was lost behind that one.                                     *)
LogIsMine(p) ==
  pc[p] \in Remembering /\ Persistent(p) =>
    /\ \A e \in LogOf(p) : ArrayOf[e[1]] \in Reads[p] => e = MyEntry(p, e[1])
    /\ \A e \in LogOf(p) : e[1] \in recorded[p]
    /\ p \notin short => \A k \in recorded[p] : \E e \in LogOf(p) : e[1] = k

(* Whoever appends appends to a whole line, as long as its own are.        *)
LogIsWhole(p) ==
  pc[p] \in Remembering \ {"compacting"} /\ Kind[p] = "persist" /\ p \notin short
    => tail # "cut"

(* Without a line cut short, what is believed to be on disk was logged.    *)
BeliefIsRecorded(p) == p \notin short => persisted[p] \subseteq recorded[p]

ReadyIsRecorded(p) ==
  Persistent(p) /\ p \notin short => \A k \in Key : slot[p][k] = "ready" => k \in recorded[p]

Mine(p, k, whole) == [print |-> FingerprintOf[p][ArrayOf[k]], whole |-> whole]

(* What is in the file a slot that is being filled maps.                   *)
FillingIsMine(p) ==
  \A k \in Key :
    /\ slot[p][k] = "backed" => file[k] = Mine(p, k, FALSE)
    /\ slot[p][k] = "filled" => file[k] = Mine(p, k, TRUE)

(* What is believed to be on disk and has no entry was made by the process *)
(* itself, and is whole, gone, or being replaced.                          *)
Unlogged(p, k) == \A e \in LogOf(p) : e[1] # k

UnloggedIsMine(p) ==
  \A k \in persisted[p] : Unlogged(p, k) =>
    slot[p][k] = "backed" \/ file[k] \in {NoFile, Mine(p, k, TRUE)}

ProcessInv(p) ==
  /\ SlotsAreInUse(p)
  /\ TempsAreForSlots(p)
  /\ OpensInOrder(p)
  /\ LogExists(p)
  /\ LogIsMine(p)
  /\ LogIsWhole(p)
  /\ BeliefIsRecorded(p)
  /\ ReadyIsRecorded(p)
  /\ FillingIsMine(p)
  /\ UnloggedIsMine(p)

LinesAreCounted == IsFiniteSet(entries) /\ lines = Cardinality(entries)

DirInv ==
  /\ TypeOK
  /\ LinesAreCounted
  /\ LockIsExclusive
  /\ \A p \in Proc : ProcessInv(p)

-----------------------------------------------------------------------------
(* Types.                                                                  *)

(* The last tile completes the file that was allocated.                    *)
LEMMA FileAfterFill ==
  ASSUME NEW p \in Proc, NEW k \in Key, FillingIsMine(p), Fill(p, k)
  PROVE  file' = [file EXCEPT ![k] = Mine(p, k, TRUE)]
<1>1. file[k] = Mine(p, k, FALSE)
  BY DEF Fill, FillingIsMine
<1>2. file[k].print = FingerprintOf[p][ArrayOf[k]]
  BY <1>1 DEF Mine
<1> QED
  BY <1>2 DEF Fill, Mine

(* Every step keeps the types.                                             *)
LEMMA TypeOKStep ==
  DirInv /\ [Next]_vars => TypeOK'
<1> SUFFICES ASSUME TypeOK, LinesAreCounted, \A p \in Proc : ProcessInv(p), [Next]_vars
             PROVE TypeOK'
  BY DEF DirInv
<1> USE DEF TypeOK, disk, memory, history
<1>a. \A l \in {"closed", "locked", "dropping", "compacting", "loaded", "headerless",
                "open", "freed", "corrupt", "stale"} : l \in PC
  BY DEF PC
<1>b. NoFile \in Files
  BY DEF Files
<1>c. {"missing", "empty", "headless"} \cap Version = {}
  BY CacheDirAssumption
<1>1. ASSUME NEW p \in Proc, Open(p) PROVE TypeOK'
  <2>1. opens' \in 0 .. MaxOpens
    BY <1>1, CacheDirAssumption DEF Open
  <2>2. pc' \in [Proc -> PC]
    BY <1>1, <1>a, AtAfterGoto DEF Open
  <2> QED
    BY <1>1, <2>1, <2>2 DEF Open
<1>2. ASSUME NEW p \in Proc, LoadCold(p) \/ LoadRefuses(p) \/ LoadResets(p) PROVE TypeOK'
  <2>1. pc' \in [Proc -> PC]
    BY <1>2, <1>a, AtAfterGoto DEF LoadCold, LoadRefuses, LoadResets
  <2> QED
    BY <1>2, <2>1 DEF LoadCold, LoadRefuses, LoadResets
<1>3. ASSUME NEW p \in Proc, LoadEntries(p) \/ KeepSurvivors(p) PROVE TypeOK'
  <2>1. pc' \in [Proc -> PC]
    BY <1>3, <1>a, AtAfterGoto DEF LoadEntries, KeepSurvivors
  <2>2. persisted' \in [Proc -> SUBSET Key] /\ recorded' \in [Proc -> SUBSET Key]
    BY <1>3, MemoryAfterLoad, SurvivorsAreEntries DEF LoadEntries, KeepSurvivors
  <2> QED
    BY <1>3, <2>1, <2>2 DEF LoadEntries, KeepSurvivors
<1>4. ASSUME NEW p \in Proc, UnlinkStale(p) PROVE TypeOK'
  BY <1>4, <1>b DEF UnlinkStale
<1>5. ASSUME NEW p \in Proc, UnlinkLog(p) PROVE TypeOK'
  <2>1. pc' \in [Proc -> PC]
    BY <1>5, <1>a, AtAfterGoto DEF UnlinkLog
  <2> QED
    BY <1>5, <2>1 DEF UnlinkLog, Head
<1>6. ASSUME NEW p \in Proc, CompactWrite(p) PROVE TypeOK'
  BY <1>6 DEF CompactWrite
<1>7. ASSUME NEW p \in Proc, CompactRename(p) PROVE TypeOK'
  <2>1. pc' \in [Proc -> PC]
    BY <1>7, <1>a, AtAfterGoto DEF CompactRename
  <2>2. entries' \subseteq entries /\ lines' \in Nat
    BY <1>7, SurvivorsAreEntries, FS_Subset, FS_CardinalityType
       DEF CompactRename, LinesAreCounted
  <2> QED
    BY <1>7, <2>1, <2>2 DEF CompactRename
<1>8. ASSUME NEW p \in Proc, OpenLog(p) PROVE TypeOK'
  <2>1. pc' \in [Proc -> PC]
    BY <1>8, <1>a, AtAfterGoto DEF OpenLog
  <2> QED
    BY <1>8, <2>1 DEF OpenLog, Head
<1>9. ASSUME NEW p \in Proc, WriteHeader(p) PROVE TypeOK'
  <2>1. pc' \in [Proc -> PC]
    BY <1>9, <1>a, AtAfterGoto DEF WriteHeader
  <2>2. head' \in Version
    BY <1>9, CacheDirAssumption DEF WriteHeader
  <2> QED
    BY <1>9, <1>c, <2>1, <2>2 DEF WriteHeader, Head
<1>10. ASSUME NEW p \in Proc, FreeSlots(p) PROVE TypeOK'
  <2>1. pc' \in [Proc -> PC]
    BY <1>10, <1>a, AtAfterGoto DEF FreeSlots
  <2>2. slot' \in [Proc -> [Key -> Slots]]
    BY <1>10 DEF FreeSlots, NoSlots, Slots
  <2>3. file' \in [Key -> Files]
    BY <1>10, <1>b DEF FreeSlots
  <2> QED
    BY <1>10, <2>1, <2>2, <2>3 DEF FreeSlots
<1>11. ASSUME NEW p \in Proc, HeaderFails(p) \/ ReleaseLock(p) \/ Crash(p) PROVE TypeOK'
  <2>1. Forget(p) /\ UNCHANGED <<file, entries, tail, broken, temps, lines, opens>>
    BY <1>11 DEF HeaderFails, ReleaseLock, Crash
  <2>2. /\ head' \in Head
        /\ head' \in {"missing", "empty"} => head \in {"missing", "empty"}
    BY <1>11 DEF HeaderFails, ReleaseLock, Crash, Head, ProcessInv, LogExists
  <2>3. shortWrites' \in 0 .. MaxShortWrites /\ short' \in SUBSET Proc
    <3>1. shortWrites' \in 0 .. MaxShortWrites
      BY <1>11, CacheDirAssumption DEF HeaderFails, ReleaseLock, Crash
    <3> QED
      BY <2>1, <3>1, MemoryAfterForget
  <2> QED
    BY <2>1, <2>2, <2>3, MemoryAfterForget
<1>12. ASSUME NEW p \in Proc, NEW k \in Key, Revive(p, k) \/ Admit(p, k) PROVE TypeOK'
  <2>1. slot' \in [Proc -> [Key -> Slots]]
    BY <1>12, SlotAfterSet DEF Revive, Admit, Slots
  <2> QED
    BY <1>12, <2>1 DEF Revive, Admit
<1>13. ASSUME NEW p \in Proc, NEW k \in Key, AllocTemp(p, k) PROVE TypeOK'
  BY <1>13 DEF AllocTemp
<1>14. ASSUME NEW p \in Proc, NEW k \in Key, AllocRename(p, k) \/ Fill(p, k) \/ Drop(p, k)
       PROVE  TypeOK'
  <2>1. slot' \in [Proc -> [Key -> Slots]]
    BY <1>14, SlotAfterSet DEF AllocRename, Fill, Drop, Slots
  <2>2. file' \in [Key -> Files]
    <3>1. CASE AllocRename(p, k)
      BY <3>1, MadeIsAFile DEF AllocRename, Files
    <3>2. CASE Fill(p, k)
      <4>1. file' = [file EXCEPT ![k] = Mine(p, k, TRUE)]
        BY <3>2, FileAfterFill DEF ProcessInv
      <4> QED
        BY <4>1, MadeIsAFile DEF Files, Mine
    <3>3. CASE Drop(p, k)
      BY <3>3, <1>b DEF Drop
    <3> QED
      BY <1>14, <3>1, <3>2, <3>3
  <2> QED
    BY <1>14, <2>1, <2>2 DEF AllocRename, Fill, Drop
<1>15. ASSUME NEW p \in Proc, NEW k \in Key,
              Complete(p, k) \/ CompleteAndLog(p, k) \/ AppendFails(p, k)
       PROVE  TypeOK'
  <2>1. slot' \in [Proc -> [Key -> Slots]]
    BY <1>15, SlotAfterSet DEF Complete, CompleteAndLog, AppendFails, Slots
  <2>2. persisted' \in [Proc -> SUBSET Key]
    BY <1>15, BeliefAfterBelieve DEF Complete, CompleteAndLog, AppendFails
  <2>3. recorded' \in [Proc -> SUBSET Key] /\ lines' \in Nat
    BY <1>15 DEF Complete, CompleteAndLog, AppendFails
  <2>4. entries' \subseteq Key \X Fingerprint
    <3>1. <<k, FingerprintOf[p][ArrayOf[k]]>> \in Key \X Fingerprint
      BY MadeIsAFile
    <3> QED
      BY <1>15, <3>1 DEF Complete, CompleteAndLog, AppendFails
  <2>5. UNCHANGED <<file, temps, pc, opens>>
    BY <1>15 DEF Complete, CompleteAndLog, AppendFails
  <2>6. tail' \in {"whole", "cut", "glued"} /\ broken' \in BOOLEAN
    BY <1>15 DEF Complete, CompleteAndLog, AppendFails
  <2>7. shortWrites' \in 0 .. MaxShortWrites /\ short' \in SUBSET Proc
    BY <1>15, CacheDirAssumption DEF Complete, CompleteAndLog, AppendFails
  <2>8. /\ head' \in Head
        /\ head' \in {"missing", "empty"} => UNCHANGED <<head, entries, tail, broken>>
    BY <1>15 DEF Complete, CompleteAndLog, AppendFails, FirstLine, Head, ProcessInv, LogExists,
                 Completes, Logs, Uses
  <2> QED
    BY <2>1, <2>2, <2>3, <2>4, <2>5, <2>6, <2>7, <2>8
<1>17. ASSUME NEW p \in Proc, NEW k \in Key, FailUnlogged(p, k) PROVE TypeOK'
  <2>1. slot' \in [Proc -> [Key -> Slots]]
    BY <1>17, SlotAfterSet DEF FailUnlogged, Slots
  <2> QED
    BY <1>17, <2>1 DEF FailUnlogged
<1>16. CASE UNCHANGED vars
  BY <1>16 DEF vars
<1> QED
  BY <1>1, <1>2, <1>3, <1>4, <1>5, <1>6, <1>7, <1>8, <1>9, <1>10, <1>11, <1>12, <1>13,
     <1>14, <1>15, <1>16, <1>17, NextCases


-----------------------------------------------------------------------------
(* One process acts at a time, and what it leaves alone.                   *)

OpenStep(p) ==
  \/ Open(p) \/ LoadCold(p) \/ LoadRefuses(p) \/ LoadResets(p) \/ LoadEntries(p)
  \/ UnlinkStale(p) \/ UnlinkLog(p) \/ KeepSurvivors(p)
  \/ CompactWrite(p) \/ CompactRename(p) \/ OpenLog(p) \/ WriteHeader(p)

LetsGo(p) == HeaderFails(p) \/ ReleaseLock(p) \/ Crash(p)

ProcStep(p) ==
  \/ OpenStep(p)
  \/ \E k \in Key : SlotStep(p, k)
  \/ FreeSlots(p) \/ LetsGo(p)

LEMMA SomebodyActs == Next => \E p \in Proc : ProcStep(p)
BY DEF Next, OpeningStep, ProcStep, OpenStep, LetsGo

(* Opening touches no slot; whoever opens has none.                        *)
LEMMA OpeningEffect ==
  ASSUME TypeOK, NEW p \in Proc, OpenStep(p)
  PROVE  /\ slot' = slot
         /\ pc[p] \notin {"open", "freed"}
         /\ \A q \in Proc \ {p} :
              pc'[q] = pc[q] /\ persisted'[q] = persisted[q] /\ recorded'[q] = recorded[q]
         /\ short' = short
<1> USE DEF TypeOK, Goto, memory, history
<1>1. CASE Open(p) \/ LoadCold(p) \/ LoadRefuses(p) \/ LoadResets(p)
  BY <1>1 DEF Open, LoadCold, LoadRefuses, LoadResets
<1>2. CASE LoadEntries(p) \/ KeepSurvivors(p)
  BY <1>2 DEF LoadEntries, KeepSurvivors, StaleGone, Load
<1>3. CASE UnlinkStale(p) \/ UnlinkLog(p)
  BY <1>3 DEF UnlinkStale, UnlinkLog, StaleGone
<1>4. CASE CompactWrite(p) \/ CompactRename(p) \/ OpenLog(p) \/ WriteHeader(p)
  BY <1>4 DEF CompactWrite, CompactRename, OpenLog, WriteHeader
<1> QED
  BY <1>1, <1>2, <1>3, <1>4 DEF OpenStep

(* A slot's step is one of a process that uses the directory, and is about *)
(* that slot and its file.                                                 *)
LEMMA SlotEffect ==
  ASSUME TypeOK, NEW p \in Proc, NEW k \in Key, SlotStep(p, k)
  PROVE  /\ pc' = pc
         /\ Uses(p, k)
         /\ \A q \in Proc, l \in Key : q # p \/ l # k => slot'[q][l] = slot[q][l]
         /\ \A l \in Key \ {k} : file'[l] = file[l]
         /\ \A q \in Proc \ {p} : persisted'[q] = persisted[q] /\ recorded'[q] = recorded[q]
         /\ short' = short \/ short' = short \cup {p}
<1> USE DEF TypeOK, SetSlot, disk, history, Uses
<1>1. CASE Revive(p, k) \/ Admit(p, k)
  BY <1>1 DEF Revive, Admit
<1>2. CASE AllocTemp(p, k) \/ AllocRename(p, k)
  BY <1>2 DEF AllocTemp, AllocRename, memory
<1>3. CASE Fill(p, k) \/ Drop(p, k)
  BY <1>3 DEF Fill, Drop
<1>4. CASE Complete(p, k) \/ CompleteAndLog(p, k) \/ AppendFails(p, k) \/ FailUnlogged(p, k)
  BY <1>4 DEF Complete, CompleteAndLog, AppendFails, FailUnlogged, Completes, Believe
<1> QED
  BY <1>1, <1>2, <1>3, <1>4 DEF SlotStep

(* A step of one process leaves the others' memory alone.                  *)
LEMMA OthersRemember ==
  ASSUME TypeOK, NEW p \in Proc, ProcStep(p), NEW q \in Proc \ {p}
  PROVE  /\ pc'[q] = pc[q]
         /\ \A k \in Key : slot'[q][k] = slot[q][k]
         /\ persisted'[q] = persisted[q] /\ recorded'[q] = recorded[q]
         /\ q \in short' <=> q \in short
<1>1. CASE OpenStep(p)
  BY <1>1, OpeningEffect
<1>2. ASSUME NEW k \in Key, SlotStep(p, k)
      PROVE  /\ pc'[q] = pc[q] /\ \A l \in Key : slot'[q][l] = slot[q][l]
             /\ persisted'[q] = persisted[q] /\ recorded'[q] = recorded[q]
             /\ q \in short' <=> q \in short
  BY <1>2, SlotEffect
<1>3. CASE FreeSlots(p)
  BY <1>3 DEF FreeSlots, Goto, TypeOK, history
<1>4. CASE LetsGo(p)
  BY <1>4, MemoryAfterForget DEF LetsGo, HeaderFails, ReleaseLock, Crash
<1> QED
  BY <1>1, <1>2, <1>3, <1>4 DEF ProcStep

(* A step of a process without the exclusive lock changes neither the log  *)
(* nor a file.                                                             *)
DiskKept == UNCHANGED <<file, head, entries, tail, broken, lines>>

LEMMA WritersWrite ==
  ASSUME TypeOK, NEW p \in Proc, ProcessInv(p), ProcStep(p)
  PROVE  DiskKept \/ (HoldsLock(p) /\ Writes(p))
<1> USE DEF DiskKept, HoldsLock
<1>a. /\ SlotsAreInUse(p)
      /\ OpensInOrder(p)
      /\ Resets \subseteq {r \in Proc : Kind[r] = "persist"}
  BY CacheDirAssumption DEF ProcessInv
<1>1. CASE Open(p) \/ LoadCold(p) \/ LoadRefuses(p) \/ LoadResets(p)
           \/ LoadEntries(p) \/ KeepSurvivors(p) \/ CompactWrite(p)
  BY <1>1 DEF Open, LoadCold, LoadRefuses, LoadResets, LoadEntries, KeepSurvivors,
              CompactWrite, disk
<1>2. CASE UnlinkStale(p) \/ UnlinkLog(p)
  BY <1>2, <1>a DEF UnlinkStale, UnlinkLog, StaleGone, OpensInOrder, Writes
<1>3. CASE CompactRename(p) \/ WriteHeader(p)
  BY <1>3, <1>a DEF CompactRename, WriteHeader, OpensInOrder
<1>4. CASE OpenLog(p)
  BY <1>4 DEF OpenLog
<1>5. ASSUME NEW k \in Key, SlotStep(p, k) PROVE DiskKept \/ (HoldsLock(p) /\ Writes(p))
  <2>1. HoldsLock(p)
    BY <1>5, SlotEffect DEF Uses
  <2>2. Kind[p] = "readonly" => slot[p][k] \in {"none", "ready"}
    BY <1>a DEF SlotsAreInUse
  <2>3. CASE Revive(p, k) \/ Admit(p, k) \/ AllocTemp(p, k) \/ Complete(p, k)
           \/ FailUnlogged(p, k)
    BY <2>3 DEF Revive, Admit, AllocTemp, Complete, FailUnlogged, disk
  <2>4. CASE AllocRename(p, k)
    BY <2>1, <2>4 DEF AllocRename, ProcessInv, TempsAreForSlots
  <2>5. CASE Fill(p, k) \/ CompleteAndLog(p, k) \/ AppendFails(p, k)
    BY <2>1, <2>2, <2>5 DEF Fill, CompleteAndLog, AppendFails, Completes, Writes
  <2>6. CASE Drop(p, k)
    BY <2>1, <2>2, <2>6 DEF Drop, Writes, Persistent
  <2> QED
    BY <1>5, <2>3, <2>4, <2>5, <2>6 DEF SlotStep
<1>6. CASE FreeSlots(p)
  <2>1. CASE Kind[p] = "readonly"
    <3>1. \A k \in Mapped(p) : Persistent(p) /\ slot[p][k] = "ready"
      BY <1>a, <2>1 DEF Mapped, SlotsAreInUse, Persistent
    <3>2. file' = file
      BY <1>6, <3>1 DEF FreeSlots, TypeOK
    <3> QED
      BY <1>6, <3>2 DEF FreeSlots
  <2> QED
    BY <1>6, <2>1 DEF FreeSlots, Writes
<1>7. CASE LetsGo(p)
  <2>1. CASE HeaderFails(p)
    BY <1>a, <2>1 DEF HeaderFails, OpensInOrder
  <2>2. CASE ReleaseLock(p) \/ Crash(p)
    BY <2>2 DEF ReleaseLock, Crash, disk
  <2> QED
    BY <1>7, <2>1, <2>2 DEF LetsGo
<1> QED
  BY <1>1, <1>2, <1>3, <1>4, <1>5, <1>6, <1>7 DEF ProcStep, OpenStep

(* What a process that holds the lock relies on stays when another acts.   *)
LEMMA DiskIsStable ==
  ASSUME DirInv, NEW p \in Proc, ProcStep(p), NEW q \in Proc \ {p}, HoldsLock(q)
  PROVE  DiskKept
<1>1. DiskKept \/ (HoldsLock(p) /\ Writes(p))
  BY WritersWrite DEF DirInv
<1>2. ~(HoldsLock(p) /\ Writes(p))
  BY DEF DirInv, LockIsExclusive, Writes
<1> QED
  BY <1>1, <1>2

(* Nobody writes another process's temporary files.                        *)
LEMMA OthersTemps ==
  ASSUME NEW p \in Proc, ProcStep(p), NEW q \in Proc \ {p}, NEW k \in Key, <<q, k>> \in temps'
  PROVE  <<q, k>> \in temps
<1>1. CASE OpenStep(p)
  BY <1>1 DEF OpenStep, Open, LoadCold, LoadRefuses, LoadResets, LoadEntries, KeepSurvivors,
              CompactWrite, UnlinkStale, UnlinkLog, CompactRename, OpenLog, WriteHeader, disk
<1>2. ASSUME NEW l \in Key, SlotStep(p, l) PROVE <<q, k>> \in temps
  BY <1>2 DEF SlotStep, Revive, Admit, AllocTemp, AllocRename, Fill, Complete,
              CompleteAndLog, AppendFails, FailUnlogged, Drop, disk
<1>3. CASE FreeSlots(p) \/ LetsGo(p)
  BY <1>3 DEF FreeSlots, LetsGo, HeaderFails, ReleaseLock, Crash, disk
<1> QED
  BY <1>1, <1>2, <1>3 DEF ProcStep

(* So whatever one process does, the others' invariants stay.              *)
LEMMA OthersKeepTheirInvariant ==
  ASSUME DirInv, NEW p \in Proc, ProcStep(p), NEW q \in Proc \ {p}
  PROVE  ProcessInv(q)'
<1>a. /\ pc'[q] = pc[q]
      /\ \A k \in Key : slot'[q][k] = slot[q][k]
      /\ persisted'[q] = persisted[q] /\ recorded'[q] = recorded[q]
      /\ q \in short' <=> q \in short
  BY OthersRemember DEF DirInv
<1>b. /\ SlotsAreInUse(q) /\ TempsAreForSlots(q) /\ OpensInOrder(q) /\ LogExists(q)
      /\ LogIsMine(q) /\ LogIsWhole(q) /\ BeliefIsRecorded(q) /\ ReadyIsRecorded(q)
      /\ FillingIsMine(q) /\ UnloggedIsMine(q)
      /\ persisted[q] \subseteq Key
  BY DEF DirInv, ProcessInv, TypeOK
<1>c. HoldsLock(q) => DiskKept
  BY DiskIsStable
<1>d. pc[q] \in Remembering \cup Loading => HoldsLock(q)
  BY DEF Remembering, Loading, HoldsLock
<1>e. ~HoldsLock(q) => /\ \A k \in Key : slot[q][k] = "none"
                       /\ persisted[q] = {}
  BY <1>b, <1>d DEF SlotsAreInUse, OpensInOrder, HoldsLock, Remembering
<1>1. SlotsAreInUse(q)'
  BY <1>a, <1>b DEF SlotsAreInUse
<1>2. TempsAreForSlots(q)'
  BY <1>a, <1>b, OthersTemps DEF TempsAreForSlots, HoldsLock, Writes
<1>3. HoldsLock(q) => StaleEntries(q)' = StaleEntries(q) /\ Survivors(q)' = Survivors(q)
                      /\ LogOf(q)' = LogOf(q)
  BY <1>a, <1>c DEF DiskKept, StaleEntries, StaleArrays, Survivors, LogOf
<1>4. OpensInOrder(q)'
  BY <1>a, <1>b, <1>d, <1>3 DEF OpensInOrder, Loading, Persistent, Writes
<1>5. LogExists(q)'
  BY <1>a, <1>b, <1>c DEF LogExists, DiskKept, HoldsLock
<1>6. LogIsMine(q)'
  BY <1>a, <1>b, <1>d, <1>3 DEF LogIsMine, Persistent, MyEntry
<1>7. BeliefIsRecorded(q)'
  BY <1>a, <1>b DEF BeliefIsRecorded
<1>8. ReadyIsRecorded(q)'
  BY <1>a, <1>b DEF ReadyIsRecorded, Persistent
<1>9. FillingIsMine(q)'
  BY <1>a, <1>b, <1>c, <1>e DEF FillingIsMine, DiskKept, Mine
<1>10. LogIsWhole(q)'
  BY <1>a, <1>b, <1>c, <1>d DEF LogIsWhole, DiskKept
<1>11. UnloggedIsMine(q)'
  BY <1>a, <1>b, <1>c, <1>e, <1>3 DEF UnloggedIsMine, Unlogged, DiskKept, Mine
<1> QED
  BY <1>1, <1>2, <1>4, <1>5, <1>6, <1>7, <1>8, <1>9, <1>10, <1>11 DEF ProcessInv


-----------------------------------------------------------------------------
(* The lock, and the process that acts.                                    *)

(* Only opening takes the lock.                                            *)
LEMMA LocksAreTakenByOpen ==
  ASSUME TypeOK, NEW p \in Proc, ProcStep(p), ~Open(p), HoldsLock(p)'
  PROVE  HoldsLock(p)
<1> USE DEF TypeOK, Goto, HoldsLock
<1>1. CASE OpenStep(p)
  BY <1>1 DEF OpenStep, LoadCold, LoadRefuses, LoadResets, LoadEntries, KeepSurvivors,
              UnlinkStale, UnlinkLog, StaleGone, CompactWrite, CompactRename, OpenLog, WriteHeader
<1>2. ASSUME NEW k \in Key, SlotStep(p, k) PROVE HoldsLock(p)
  BY <1>2, SlotEffect DEF Uses
<1>3. CASE FreeSlots(p)
  BY <1>3 DEF FreeSlots
<1>4. CASE LetsGo(p)
  BY <1>4 DEF LetsGo, HeaderFails, ReleaseLock, Crash
<1> QED
  BY <1>1, <1>2, <1>3, <1>4 DEF ProcStep

(* Every step keeps the lock exclusive.                                    *)
LEMMA LockStep ==
  ASSUME DirInv, NEW p \in Proc, ProcStep(p)
  PROVE  LockIsExclusive'
<1>1. \A q \in Proc \ {p} : HoldsLock(q)' => HoldsLock(q)
  BY OthersRemember DEF DirInv, HoldsLock
<1>2. CASE Open(p)
  <2>1. \A q \in Proc : HoldsLock(q) => Kind[q] = "readonly" /\ Kind[p] = "readonly"
    BY <1>2 DEF Open, LockGranted
  <2> QED
    BY <1>1, <2>1 DEF LockIsExclusive, DirInv
<1>3. CASE ~Open(p)
  BY <1>1, <1>3, LocksAreTakenByOpen DEF LockIsExclusive, DirInv
<1> QED
  BY <1>2, <1>3

(* Every step counts its lines: only a key without entry is logged.        *)
LEMMA LinesStep ==
  ASSUME DirInv, NEW p \in Proc, ProcStep(p)
  PROVE  LinesAreCounted'
<1>a. /\ IsFiniteSet(entries) /\ lines = Cardinality(entries)
      /\ ProcessInv(p)
  BY DEF DirInv, LinesAreCounted
<1>b. CASE UNCHANGED <<entries, lines>>
  BY <1>a, <1>b DEF LinesAreCounted
<1>1. CASE OpenStep(p)
  <2>1. CASE UnlinkLog(p)
    BY <2>1, FS_EmptySet DEF UnlinkLog, LinesAreCounted
  <2>2. CASE CompactRename(p)
    BY <1>a, <2>2, SurvivorsAreEntries, FS_Subset DEF CompactRename, LinesAreCounted
  <2> QED
    BY <1>1, <1>b, <2>1, <2>2
       DEF OpenStep, Open, LoadCold, LoadRefuses, LoadResets, LoadEntries, KeepSurvivors,
           UnlinkStale, CompactWrite, OpenLog, WriteHeader, disk
<1>2. ASSUME NEW k \in Key, CompleteAndLog(p, k) PROVE LinesAreCounted'
  <2>1. pc[p] = "open" /\ Persistent(p) /\ k \notin recorded[p]
    BY <1>2 DEF CompleteAndLog, Completes, Logs, Uses, Persistent
  <2>2. \A e \in entries : e[1] \in recorded[p]
    BY <1>a, <2>1 DEF ProcessInv, LogIsMine, LogOf, Remembering
  <2>3. MyEntry(p, k) \notin entries
    BY <2>1, <2>2 DEF MyEntry
  <2>4. \/ UNCHANGED <<entries, lines>>
        \/ entries' = entries \cup {MyEntry(p, k)} /\ lines' = lines + 1
    BY <1>2 DEF CompleteAndLog, MyEntry
  <2> QED
    BY <1>a, <1>b, <2>3, <2>4, FS_AddElement DEF LinesAreCounted
<1>3. ASSUME NEW k \in Key, SlotStep(p, k), ~CompleteAndLog(p, k)
      PROVE  UNCHANGED <<entries, lines>>
  BY <1>3 DEF SlotStep, Revive, Admit, AllocTemp, AllocRename, Fill, Complete, AppendFails,
              FailUnlogged, Drop, disk
<1>4. CASE FreeSlots(p) \/ LetsGo(p)
  BY <1>4, <1>b DEF FreeSlots, LetsGo, HeaderFails, ReleaseLock, Crash, disk
<1> QED
  BY <1>1, <1>b, <1>2, <1>3, <1>4 DEF ProcStep

(* What the process itself does to each part of its invariant. A process   *)
(* that gives its lock back remembers nothing.                             *)
LEMMA ForgottenIsFine ==
  ASSUME TypeOK, NEW p \in Proc, ProcessInv(p), LetsGo(p)
  PROVE  ProcessInv(p)'
<1>1. /\ pc'[p] = "closed" /\ persisted'[p] = {} /\ recorded'[p] = {}
      /\ \A k \in Key : slot'[p][k] = "none"
  BY MemoryAfterForget DEF LetsGo, HeaderFails, ReleaseLock, Crash
<1>2. temps' = temps
  BY DEF LetsGo, HeaderFails, ReleaseLock, Crash, disk
<1>3. SlotsAreInUse(p)' /\ FillingIsMine(p)' /\ ReadyIsRecorded(p)' /\ BeliefIsRecorded(p)'
      /\ UnloggedIsMine(p)'
  BY <1>1 DEF SlotsAreInUse, FillingIsMine, ReadyIsRecorded, BeliefIsRecorded, UnloggedIsMine
<1>4. TempsAreForSlots(p)'
  BY <1>1, <1>2 DEF TempsAreForSlots, HoldsLock, Writes, ProcessInv
<1>5. OpensInOrder(p)' /\ LogExists(p)' /\ LogIsMine(p)' /\ LogIsWhole(p)'
  BY <1>1 DEF OpensInOrder, LogExists, LogIsMine, LogIsWhole, Remembering, Loading
<1> QED
  BY <1>3, <1>4, <1>5 DEF ProcessInv

(* Closing takes unfinished files along.                                   *)
LEMMA FreedIsFine ==
  ASSUME TypeOK, NEW p \in Proc, ProcessInv(p), FreeSlots(p)
  PROVE  ProcessInv(p)'
<1>1. /\ pc[p] = "open" /\ pc'[p] = "freed"
      /\ persisted' = persisted /\ recorded' = recorded /\ temps' = temps
      /\ head' = head /\ entries' = entries /\ tail' = tail /\ short' = short
      /\ \A k \in Key : slot'[p][k] = "none"
      /\ \A k \in Key : <<p, k>> \notin temps
  BY DEF FreeSlots, TypeOK, Goto, NoSlots, history
<1>2. \A k \in Key :
        /\ slot[p][k] = "backed" => file'[k] = NoFile
        /\ file'[k] \in {file[k], NoFile}
  BY DEF FreeSlots, Mapped
<1>3. SlotsAreInUse(p)' /\ FillingIsMine(p)' /\ ReadyIsRecorded(p)'
  BY <1>1 DEF SlotsAreInUse, FillingIsMine, ReadyIsRecorded
<1>4. BeliefIsRecorded(p)'
  BY <1>1 DEF BeliefIsRecorded, ProcessInv
<1>5. TempsAreForSlots(p)'
  BY <1>1 DEF TempsAreForSlots
<1>6. OpensInOrder(p)' /\ LogExists(p)'
  BY <1>1 DEF OpensInOrder, LogExists, Remembering, Loading, ProcessInv
<1>7. LogIsMine(p)'
  BY <1>1 DEF LogIsMine, ProcessInv, Remembering, LogOf, Persistent, MyEntry
<1>8. LogIsWhole(p)'
  BY <1>1 DEF LogIsWhole, ProcessInv, Remembering
<1>9. UnloggedIsMine(p)'
  <2>1. LogOf(p)' = LogOf(p) /\ \A k \in persisted[p] : k \in Key
    BY <1>1 DEF LogOf, TypeOK
  <2> QED
    BY <1>1, <1>2, <2>1 DEF UnloggedIsMine, Unlogged, ProcessInv, Mine
<1> QED
  BY <1>3, <1>4, <1>5, <1>6, <1>7, <1>8, <1>9 DEF ProcessInv


(* What survives a reset of p's arrays was made by p's pipeline.           *)
LEMMA SurvivorsAreMine ==
  ASSUME TypeOK, NEW p \in Proc, NEW e \in Survivors(p), ArrayOf[e[1]] \in Reads[p]
  PROVE  e = MyEntry(p, e[1])
<1>1. e \in entries /\ e = <<e[1], e[2]>> /\ ArrayOf[e[1]] \notin StaleArrays(p)
  BY DEF Survivors, StaleEntries, TypeOK
<1>2. e[2] = FingerprintOf[p][ArrayOf[e[1]]]
  BY <1>1 DEF StaleArrays
<1> QED
  BY <1>1, <1>2 DEF MyEntry

(* Every step of the constructor keeps the process's invariant.            *)
LEMMA OpeningIsFine ==
  ASSUME TypeOK, NEW p \in Proc, ProcessInv(p), OpenStep(p)
  PROVE  ProcessInv(p)'
<1>a. /\ slot' = slot /\ short' = short /\ pc[p] \notin {"open", "freed"}
      /\ SlotsAreInUse(p) /\ TempsAreForSlots(p) /\ OpensInOrder(p) /\ LogExists(p)
      /\ LogIsMine(p) /\ LogIsWhole(p) /\ BeliefIsRecorded(p) /\ UnloggedIsMine(p)
  BY OpeningEffect DEF ProcessInv
<1>b. \A k \in Key : slot[p][k] = "none"
  BY <1>a DEF SlotsAreInUse
<1>c. Resets \subseteq {r \in Proc : Kind[r] = "persist"}
  BY CacheDirAssumption
<1>1. SlotsAreInUse(p)' /\ FillingIsMine(p)' /\ ReadyIsRecorded(p)'
  BY <1>a, <1>b DEF SlotsAreInUse, FillingIsMine, ReadyIsRecorded
<1>2. TempsAreForSlots(p)'
  <2>1. CASE Open(p)
    BY <1>a, <2>1 DEF Open, TempsAreForSlots, Writes
  <2>2. CASE ~Open(p)
    <3>1. HoldsLock(p) /\ \A k \in Key : <<p, k>> \in temps' => <<p, k>> \in temps
      BY <2>2, CacheDirAssumption
         DEF OpenStep, LoadCold, LoadRefuses, LoadResets, LoadEntries, KeepSurvivors, StaleGone,
             CompactWrite, UnlinkStale, UnlinkLog, CompactRename, OpenLog, WriteHeader, disk,
             HoldsLock
    <3> QED
      BY <1>a, <1>b, <3>1 DEF TempsAreForSlots
  <2> QED
    BY <2>1, <2>2
<1>3. BeliefIsRecorded(p)' /\ UnloggedIsMine(p)'
  <2>0. pc[p] \in {"closed", "corrupt", "stale", "locked", "dropping"} => persisted[p] = {}
    BY <1>a DEF OpensInOrder, Remembering
  <2>1. CASE LoadEntries(p)
    <3>1. StaleEntries(p) = {} /\ entries' = entries /\ Survivors(p)' = entries
      BY <2>1 DEF LoadEntries, Stale, disk, Survivors, StaleEntries, StaleArrays
    <3>2. LogOf(p)' = entries
      BY <3>1 DEF LogOf
    <3>3. /\ persisted'[p] = {e[1] : e \in entries}
          /\ recorded'[p] = {e[1] : e \in entries}
      BY <2>1, MemoryAfterLoad DEF LoadEntries
    <3> QED
      BY <3>2, <3>3 DEF BeliefIsRecorded, UnloggedIsMine, Unlogged
  <2>2. CASE KeepSurvivors(p)
    <3>1. pc'[p] = "compacting" /\ Survivors(p)' = Survivors(p)
      BY <2>2 DEF KeepSurvivors, StaleGone, disk, TypeOK, Goto, Survivors, StaleEntries, StaleArrays
    <3>2. LogOf(p)' = Survivors(p)
      BY <3>1 DEF LogOf
    <3>3. /\ persisted'[p] = {e[1] : e \in Survivors(p)}
          /\ recorded'[p] = {e[1] : e \in Survivors(p)}
      BY <2>2, MemoryAfterLoad, SurvivorsAreEntries DEF KeepSurvivors
    <3> QED
      BY <3>2, <3>3 DEF BeliefIsRecorded, UnloggedIsMine, Unlogged
  <2>3. CASE ~LoadEntries(p) /\ ~KeepSurvivors(p)
    <3>1. UNCHANGED <<persisted, recorded>>
      BY <2>3 DEF OpenStep, Open, LoadCold, LoadRefuses, LoadResets, CompactWrite, UnlinkStale,
                  UnlinkLog, CompactRename, OpenLog, WriteHeader, disk, memory
    <3>2. BeliefIsRecorded(p)'
      BY <1>a, <3>1 DEF BeliefIsRecorded
    <3>3. CASE CompactWrite(p) \/ CompactRename(p) \/ OpenLog(p) \/ WriteHeader(p)
      <4>1. LogOf(p)' = LogOf(p) /\ file' = file
        BY <3>3 DEF CompactWrite, CompactRename, OpenLog, WriteHeader, TypeOK, Goto,
                    LogOf, Survivors, StaleEntries, StaleArrays, memory
      <4>2. \A k \in Key : Unlogged(p, k)' <=> Unlogged(p, k)
        BY <4>1 DEF Unlogged
      <4> QED
        BY <1>a, <3>1, <3>2, <4>1, <4>2 DEF UnloggedIsMine, Mine, TypeOK
    <3>4. CASE ~(CompactWrite(p) \/ CompactRename(p) \/ OpenLog(p) \/ WriteHeader(p))
      <4>1. pc[p] \in {"closed", "corrupt", "stale", "locked", "dropping"}
        BY <2>3, <3>4 DEF OpenStep, Open, LoadCold, LoadRefuses, LoadResets, UnlinkStale,
                          UnlinkLog, StaleGone
      <4> QED
        BY <2>0, <3>1, <3>2, <4>1 DEF UnloggedIsMine
    <3> QED
      BY <3>3, <3>4
  <2> QED
    BY <2>1, <2>2, <2>3
<1>5. LogIsWhole(p)'
  <2>a. SUFFICES ASSUME pc'[p] \in {"loaded", "headerless", "open", "freed"},
                        Kind[p] = "persist"
                 PROVE  tail' # "cut" \/ p \in short'
    BY DEF LogIsWhole, Remembering
  <2>b. Persistent(p) /\ Writes(p)
    BY <2>a DEF Persistent, Writes
  <2> USE DEF TypeOK, Goto, disk
  <2>1. CASE LoadCold(p) \/ LoadEntries(p) \/ UnlinkLog(p) \/ CompactRename(p)
    BY <2>1, <2>a, <2>b DEF LoadCold, LoadEntries, UnlinkLog, CompactRename
  <2>2. CASE OpenLog(p) \/ WriteHeader(p)
    BY <1>a, <2>2, <2>a DEF OpenLog, WriteHeader, LogIsWhole, Remembering
  <2>3. CASE \/ Open(p) \/ LoadRefuses(p) \/ LoadResets(p) \/ UnlinkStale(p)
             \/ KeepSurvivors(p) \/ CompactWrite(p)
    BY <2>3, <2>a, <2>b
       DEF Open, LoadRefuses, LoadResets, UnlinkStale, KeepSurvivors, CompactWrite
  <2> QED
    BY <2>1, <2>2, <2>3 DEF OpenStep
<1>4. OpensInOrder(p)' /\ LogExists(p)' /\ LogIsMine(p)'
  <2> USE DEF TypeOK, Goto
  <2>1. CASE Open(p)
    BY <1>a, <2>1 DEF Open, OpensInOrder, LogExists, LogIsMine, Remembering, Loading, Persistent,
                      HoldsLock, memory
  <2>2. CASE LoadCold(p) \/ LoadRefuses(p) \/ LoadResets(p)
    <3>1. /\ pc'[p] \in {"loaded", "corrupt", "stale", "dropping"}
          /\ pc'[p] = "loaded" => entries = {}
          /\ pc'[p] = "dropping" => p \in Resets
          /\ Persistent(p)
          /\ UNCHANGED <<entries, persisted, recorded>>
          /\ persisted[p] = {} /\ recorded[p] = {}
      BY <1>a, <2>2 DEF LoadCold, LoadRefuses, LoadResets, OpensInOrder, Remembering, Loading,
                        disk, memory
    <3> QED
      BY <3>1 DEF OpensInOrder, LogExists, LogIsMine, LogOf, Remembering, Loading, Persistent
  <2>3. CASE LoadEntries(p)
    <3>1. StaleEntries(p) = {} /\ Survivors(p) = entries
      BY <2>3 DEF LoadEntries, Stale, Survivors
    <3>2. /\ entries' = entries /\ StaleEntries(p)' = StaleEntries(p)
          /\ Survivors(p)' = Survivors(p)
      BY <2>3 DEF LoadEntries, disk, Survivors, StaleEntries, StaleArrays
    <3>3. /\ pc'[p] \in {"compacting", "loaded"}
          /\ pc'[p] = "compacting" => Writes(p)
          /\ Persistent(p)
      BY <1>a, <2>3 DEF LoadEntries, OpensInOrder, Loading
    <3>4. recorded'[p] = {e[1] : e \in entries}
      BY <2>3, MemoryAfterLoad DEF LoadEntries
    <3>5. LogOf(p)' = entries
      BY <3>1, <3>2 DEF LogOf
    <3>6. LogIsMine(p)'
      BY <3>1, <3>3, <3>4, <3>5, SurvivorsAreMine DEF LogIsMine, MyEntry
    <3> QED
      BY <3>1, <3>2, <3>3, <3>6
         DEF OpensInOrder, LogExists, Remembering, Loading, Persistent, Writes
  <2>4. CASE KeepSurvivors(p)
    <3>1. p \in Resets /\ pc'[p] = "compacting" /\ entries' = entries /\ Persistent(p) /\ Writes(p)
      BY <1>a, <1>c, <2>4 DEF KeepSurvivors, StaleGone, OpensInOrder, Persistent, Writes, disk
    <3>2. LogOf(p)' = Survivors(p)
      BY <3>1 DEF LogOf, Survivors, StaleEntries, StaleArrays
    <3>3. recorded'[p] = {e[1] : e \in Survivors(p)}
      BY <2>4, MemoryAfterLoad, SurvivorsAreEntries DEF KeepSurvivors
    <3>4. LogIsMine(p)'
      BY <3>2, <3>3, SurvivorsAreMine DEF LogIsMine, MyEntry
    <3> QED
      BY <3>1, <3>4 DEF OpensInOrder, LogExists, Remembering, Loading, Persistent, Writes
  <2>5. CASE UnlinkStale(p)
    BY <1>a, <2>5 DEF UnlinkStale, OpensInOrder, LogExists, LogIsMine, Remembering, Loading,
                      Persistent, memory
  <2>6. CASE UnlinkLog(p)
    BY <1>a, <2>6 DEF UnlinkLog, StaleGone, OpensInOrder, LogExists, LogIsMine, LogOf, Remembering,
                      Loading, Persistent, memory
  <2>7. CASE CompactWrite(p)
    <3>1. UNCHANGED <<pc, head, entries, persisted, recorded>>
      BY <2>7 DEF CompactWrite, memory
    <3>2. StaleEntries(p)' = StaleEntries(p) /\ LogOf(p)' = LogOf(p)
      BY <3>1 DEF StaleEntries, StaleArrays, LogOf, Survivors
    <3> QED
      BY <1>a, <3>1, <3>2 DEF OpensInOrder, LogExists, LogIsMine, Remembering, Loading,
                              Persistent, Writes, MyEntry
  <2>8. CASE CompactRename(p)
    <3>1. /\ pc[p] = "compacting" /\ pc'[p] = "loaded" /\ entries' = Survivors(p)
          /\ UNCHANGED <<persisted, recorded>>
      BY <2>8 DEF CompactRename, memory
    <3>2. LogOf(p)' = LogOf(p)
      BY <3>1 DEF LogOf
    <3> QED
      BY <1>a, <3>1, <3>2 DEF OpensInOrder, LogExists, LogIsMine, Remembering, Loading,
                              Persistent, Writes, MyEntry
  <2>9. CASE OpenLog(p) \/ WriteHeader(p)
    <3>1. /\ pc[p] \in {"loaded", "headerless"} /\ pc'[p] \in {"headerless", "open"}
          /\ UNCHANGED <<entries, persisted, recorded>>
      BY <2>9 DEF OpenLog, WriteHeader, memory
    <3>2. LogOf(p)' = LogOf(p)
      BY <3>1 DEF LogOf
    <3>3. pc'[p] = "headerless" => Writes(p)
      BY <2>9 DEF OpenLog, WriteHeader
    <3>4. LogExists(p)'
      BY <2>9, CacheDirAssumption DEF OpenLog, WriteHeader, Fresh, LogExists, Writes
    <3> QED
      BY <1>a, <3>1, <3>2, <3>3, <3>4 DEF OpensInOrder, LogIsMine, Remembering, Loading,
                              Persistent, Writes, MyEntry
  <2> QED
    BY <2>1, <2>2, <2>3, <2>4, <2>5, <2>6, <2>7, <2>8, <2>9 DEF OpenStep
<1> QED
  BY <1>1, <1>2, <1>3, <1>4, <1>5 DEF ProcessInv


(* So does every step of a slot.                                           *)
LEMMA SlotIsFine ==
  ASSUME TypeOK, NEW p \in Proc, ProcessInv(p), NEW k \in Key, SlotStep(p, k)
  PROVE  ProcessInv(p)'
<1>a. /\ pc[p] = "open" /\ pc'[p] = "open" /\ HoldsLock(p)
      /\ ArrayOf[k] \in Reads[p]
      /\ \A l \in Key \ {k} : slot'[p][l] = slot[p][l] /\ file'[l] = file[l]
  BY SlotEffect DEF Uses, HoldsLock
<1>b. /\ SlotsAreInUse(p) /\ TempsAreForSlots(p) /\ LogExists(p) /\ LogIsMine(p)
      /\ LogIsWhole(p) /\ BeliefIsRecorded(p) /\ ReadyIsRecorded(p) /\ FillingIsMine(p)
      /\ UnloggedIsMine(p) /\ persisted[p] \subseteq Key
      /\ Kind[p] \in {"persist", "spill", "readonly"}
  BY CacheDirAssumption DEF ProcessInv, TypeOK
<1>c. /\ slot[p][k] \in Slots
      /\ Kind[p] = "readonly" => slot[p][k] \in {"none", "ready"}
  BY <1>b DEF TypeOK, SlotsAreInUse
<1>d. \A s \in Slots : SetSlot(p, k, s) => slot'[p][k] = s
  BY SlotAfterSet
<1>e. "ready" \in Slots /\ "admitted" \in Slots /\ "backed" \in Slots /\ "filled" \in Slots
      /\ "failed" \in Slots /\ "none" \in Slots
  BY DEF Slots
<1>f. OpensInOrder(p)'
  <2>1. ~Persistent(p) => persisted'[p] \subseteq persisted[p] /\ recorded' = recorded
    BY DEF SlotStep, Revive, Admit, AllocTemp, AllocRename, Fill, Complete, CompleteAndLog,
           AppendFails, FailUnlogged, Drop, Believe, Logs, Persistent, memory, TypeOK
  <2> QED
    BY <1>a, <2>1 DEF OpensInOrder, Remembering, Loading, Persistent, ProcessInv
<1>g. ASSUME UNCHANGED <<head, entries, tail, short>>, recorded' = recorded,
             persisted'[p] \subseteq persisted[p],
             \/ slot'[p][k] = "backed"
             \/ file'[k] \in {NoFile, Mine(p, k, TRUE)}
             \/ file' = file /\ slot[p][k] # "backed"
      PROVE  LogExists(p)' /\ LogIsMine(p)' /\ LogIsWhole(p)' /\ BeliefIsRecorded(p)'
             /\ UnloggedIsMine(p)'
  <2>1. LogOf(p)' = LogOf(p) /\ \A l \in Key : Unlogged(p, l)' <=> Unlogged(p, l)
    BY <1>a, <1>g DEF LogOf, Unlogged
  <2>2. LogExists(p)' /\ LogIsMine(p)' /\ LogIsWhole(p)'
    BY <1>a, <1>b, <1>g, <2>1 DEF LogExists, LogIsMine, LogIsWhole, Remembering, Persistent, MyEntry
  <2>3. BeliefIsRecorded(p)'
    BY <1>b, <1>g DEF BeliefIsRecorded
  <2>4. ASSUME NEW l \in persisted'[p], Unlogged(p, l)'
        PROVE  slot'[p][l] = "backed" \/ file'[l] \in {NoFile, Mine(p, l, TRUE)}
    <3>1. l \in Key /\ (slot[p][l] = "backed" \/ file[l] \in {NoFile, Mine(p, l, TRUE)})
      BY <1>b, <1>g, <2>1, <2>4 DEF UnloggedIsMine
    <3> QED
      BY <1>a, <1>g, <3>1
  <2> QED
    BY <2>2, <2>3, <2>4 DEF UnloggedIsMine, Mine
<1> USE DEF TypeOK, disk, memory, history
<1>1. CASE Revive(p, k)
  <2>1. /\ UNCHANGED <<file, head, entries, tail, temps, recorded, short>>
        /\ slot[p][k] = "none" /\ k \in persisted[p]
        /\ \/ slot'[p][k] = "ready" /\ persisted' = persisted
           \/ slot' = slot /\ persisted'[p] = persisted[p] \ {k}
    BY <1>1, <1>d, <1>e DEF Revive
  <2>2. <<p, k>> \notin temps
    BY <1>a, <1>b, <2>1 DEF TempsAreForSlots
  <2>3. p \notin short => k \in recorded[p]
    BY <1>b, <2>1 DEF BeliefIsRecorded
  <2>4. SlotsAreInUse(p)' /\ TempsAreForSlots(p)' /\ ReadyIsRecorded(p)' /\ FillingIsMine(p)'
    BY <1>a, <1>b, <2>1, <2>2, <2>3
       DEF SlotsAreInUse, TempsAreForSlots, ReadyIsRecorded, FillingIsMine, Persistent, Mine
  <2> QED
    BY <1>f, <1>g, <2>1, <2>4 DEF ProcessInv
<1>2. CASE Admit(p, k)
  <2>1. /\ UNCHANGED <<file, head, entries, tail, temps, persisted, recorded, short>>
        /\ Writes(p) /\ slot[p][k] = "none" /\ slot'[p][k] = "admitted"
    BY <1>2, <1>d, <1>e DEF Admit
  <2>2. SlotsAreInUse(p)' /\ TempsAreForSlots(p)' /\ ReadyIsRecorded(p)' /\ FillingIsMine(p)'
    BY <1>a, <1>b, <2>1
       DEF SlotsAreInUse, TempsAreForSlots, ReadyIsRecorded, FillingIsMine, Persistent, Writes, Mine
  <2> QED
    BY <1>f, <1>g, <2>1, <2>2 DEF ProcessInv
<1>3. CASE AllocTemp(p, k)
  <2>1. /\ UNCHANGED <<file, head, entries, tail, slot, persisted, recorded, short>>
        /\ slot[p][k] = "admitted" /\ temps' = temps \cup {<<p, k>>}
    BY <1>3 DEF AllocTemp
  <2>2. SlotsAreInUse(p)' /\ TempsAreForSlots(p)' /\ ReadyIsRecorded(p)' /\ FillingIsMine(p)'
    BY <1>a, <1>b, <1>c, <2>1
       DEF SlotsAreInUse, TempsAreForSlots, ReadyIsRecorded, FillingIsMine, Persistent, Writes, Mine
  <2> QED
    BY <1>f, <1>g, <2>1, <2>2 DEF ProcessInv
<1>4. CASE AllocRename(p, k)
  <2>1. /\ UNCHANGED <<head, entries, tail, persisted, recorded, short>>
        /\ temps' = temps \ {<<p, k>>} /\ <<p, k>> \in temps
        /\ slot'[p][k] = "backed" /\ file'[k] = Mine(p, k, FALSE)
    BY <1>4, <1>d, <1>e DEF AllocRename, Mine
  <2>2. slot[p][k] = "admitted" /\ Writes(p)
    BY <1>a, <1>b, <2>1 DEF TempsAreForSlots
  <2>3. SlotsAreInUse(p)' /\ TempsAreForSlots(p)' /\ ReadyIsRecorded(p)'
    BY <1>a, <1>b, <2>1, <2>2
       DEF SlotsAreInUse, TempsAreForSlots, ReadyIsRecorded, Persistent, Writes
  <2>4. FillingIsMine(p)'
    BY <1>a, <1>b, <2>1 DEF FillingIsMine, Mine
  <2> QED
    BY <1>f, <1>g, <2>1, <2>3, <2>4 DEF ProcessInv
<1>5. CASE Fill(p, k)
  <2>1. /\ UNCHANGED <<head, entries, tail, temps, persisted, recorded, short>>
        /\ slot[p][k] = "backed" /\ slot'[p][k] = "filled"
    BY <1>5, <1>d, <1>e DEF Fill
  <2>2. file'[k] = Mine(p, k, TRUE)
    <3>1. file' = [file EXCEPT ![k] = Mine(p, k, TRUE)]
      BY <1>5, <1>b, FileAfterFill
    <3> QED
      BY <3>1
  <2>3. SlotsAreInUse(p)' /\ TempsAreForSlots(p)' /\ ReadyIsRecorded(p)'
    BY <1>a, <1>b, <1>c, <2>1
       DEF SlotsAreInUse, TempsAreForSlots, ReadyIsRecorded, Persistent, Writes
  <2>4. FillingIsMine(p)'
    BY <1>a, <1>b, <2>1, <2>2 DEF FillingIsMine, Mine
  <2> QED
    BY <1>f, <1>g, <2>1, <2>2, <2>3, <2>4 DEF ProcessInv
<1>6. CASE Complete(p, k) \/ CompleteAndLog(p, k) \/ AppendFails(p, k)
  <2>1. /\ UNCHANGED <<file, temps>> /\ slot[p][k] = "filled" /\ slot'[p][k] = "ready"
        /\ persisted'[p] = persisted[p] \cup (IF Kind[p] = "persist" THEN {k} ELSE {})
        /\ head' \in {head, "headless"}
        /\ p \in short => p \in short'
    BY <1>6, <1>d, <1>e, BeliefAfterBelieve
       DEF Complete, CompleteAndLog, AppendFails, Completes, FirstLine
  <2>2. file[k] = Mine(p, k, TRUE)
    BY <1>b, <2>1 DEF FillingIsMine
  <2>3. LogOf(p)' = entries' /\ LogOf(p) = entries
    BY <1>a DEF LogOf
  <2>4. entries' \in {entries, entries \cup {MyEntry(p, k)}}
    BY <1>6 DEF Complete, CompleteAndLog, AppendFails, MyEntry
  <2>5. LogExists(p)' /\ UnloggedIsMine(p)'
    <3>1. LogExists(p)'
      BY <1>a, <1>b, <2>1 DEF LogExists
    <3>2. ASSUME NEW l \in persisted'[p], Unlogged(p, l)', l # k
          PROVE  slot'[p][l] = "backed" \/ file'[l] \in {NoFile, Mine(p, l, TRUE)}
      <4>1. l \in persisted[p] /\ l \in Key /\ Unlogged(p, l)
        BY <1>b, <2>1, <2>3, <2>4, <3>2 DEF Unlogged
      <4> QED
        BY <1>a, <1>b, <3>2, <4>1 DEF UnloggedIsMine
    <3>3. UnloggedIsMine(p)'
      BY <2>1, <2>2, <3>2 DEF UnloggedIsMine, Mine
    <3> QED
      BY <3>1, <3>3
  <2>6. ASSUME Persistent(p), pc[p] \in Remembering
        PROVE  /\ \A e \in entries : ArrayOf[e[1]] \in Reads[p] => e = MyEntry(p, e[1])
               /\ \A e \in entries : e[1] \in recorded[p]
               /\ p \notin short => \A l \in recorded[p] : \E e \in entries : e[1] = l
    BY <1>b, <2>3, <2>6 DEF LogIsMine
  <2>7. ASSUME Complete(p, k)
       PROVE  LogIsMine(p)' /\ LogIsWhole(p)' /\ ReadyIsRecorded(p)' /\ BeliefIsRecorded(p)'
    <3>1. /\ UNCHANGED <<entries, recorded, tail, short>>
          /\ Kind[p] = "persist" => k \in recorded[p]
      BY <2>7 DEF Complete, Logs
    <3>2. LogIsMine(p)' /\ LogIsWhole(p)'
      BY <1>a, <1>b, <2>3, <3>1 DEF LogIsMine, LogIsWhole, Remembering, Persistent, MyEntry
    <3>3. BeliefIsRecorded(p)'
      BY <1>b, <2>1, <3>1 DEF BeliefIsRecorded
    <3>4. ReadyIsRecorded(p)'
      BY <1>a, <1>b, <1>c, <2>1, <3>1 DEF ReadyIsRecorded, Persistent
    <3> QED
      BY <3>2, <3>3, <3>4
  <2>8. ASSUME AppendFails(p, k)
       PROVE  LogIsMine(p)' /\ LogIsWhole(p)' /\ ReadyIsRecorded(p)' /\ BeliefIsRecorded(p)'
    <3>1. UNCHANGED <<entries, recorded>> /\ p \in short'
      BY <2>8 DEF AppendFails
    <3>2. LogIsMine(p)'
      BY <1>a, <1>b, <2>3, <3>1 DEF LogIsMine, Remembering, Persistent, MyEntry
    <3> QED
      BY <3>1, <3>2 DEF LogIsWhole, BeliefIsRecorded, ReadyIsRecorded
  <2>9. ASSUME CompleteAndLog(p, k)
       PROVE  LogIsMine(p)' /\ LogIsWhole(p)' /\ ReadyIsRecorded(p)' /\ BeliefIsRecorded(p)'
    <3>1. /\ Kind[p] = "persist" /\ Persistent(p) /\ pc[p] \in Remembering
          /\ recorded'[p] = recorded[p] \cup {k}
          /\ short' = short /\ tail' # "cut"
          /\ tail # "cut" => entries' = entries \cup {MyEntry(p, k)}
      BY <1>a, <2>9 DEF CompleteAndLog, Logs, MyEntry, Persistent, Remembering
    <3>2. MyEntry(p, k)[1] = k /\ MyEntry(p, k) = MyEntry(p, MyEntry(p, k)[1])
      BY DEF MyEntry
    <3>3. p \notin short => entries' = entries \cup {MyEntry(p, k)}
      BY <1>a, <1>b, <3>1 DEF LogIsWhole
    <3>4. \A e \in entries' : ArrayOf[e[1]] \in Reads[p] => e = MyEntry(p, e[1])
      BY <2>4, <2>6, <3>1, <3>2
    <3>5. \A e \in entries' : e[1] \in recorded'[p]
      BY <2>4, <2>6, <3>1, <3>2
    <3>6. p \notin short => \A l \in recorded'[p] : \E e \in entries' : e[1] = l
      BY <2>6, <3>1, <3>2, <3>3
    <3>7. LogIsMine(p)' /\ LogIsWhole(p)'
      BY <2>3, <3>1, <3>4, <3>5, <3>6 DEF LogIsMine, LogIsWhole, MyEntry
    <3>8. ReadyIsRecorded(p)' /\ BeliefIsRecorded(p)'
      BY <1>a, <1>b, <2>1, <3>1 DEF ReadyIsRecorded, BeliefIsRecorded
    <3> QED
      BY <3>7, <3>8
  <2>10. SlotsAreInUse(p)' /\ TempsAreForSlots(p)' /\ FillingIsMine(p)'
    BY <1>a, <1>b, <1>c, <2>1
       DEF SlotsAreInUse, TempsAreForSlots, FillingIsMine, Writes, Mine
  <2> QED
    BY <1>6, <1>f, <2>5, <2>7, <2>8, <2>9, <2>10 DEF ProcessInv
<1>7. CASE FailUnlogged(p, k)
  <2>1. /\ UNCHANGED <<file, head, entries, tail, temps, persisted, recorded, short>>
        /\ slot[p][k] = "ready" /\ slot'[p][k] = "failed" /\ Kind[p] = "persist"
    BY <1>7, <1>d, <1>e DEF FailUnlogged, Logs
  <2>2. SlotsAreInUse(p)' /\ TempsAreForSlots(p)' /\ ReadyIsRecorded(p)' /\ FillingIsMine(p)'
    BY <1>a, <1>b, <2>1
       DEF SlotsAreInUse, TempsAreForSlots, ReadyIsRecorded, FillingIsMine, Persistent, Writes, Mine
  <2> QED
    BY <1>f, <1>g, <2>1, <2>2 DEF ProcessInv
<1>8. CASE Drop(p, k)
  <2>1. /\ UNCHANGED <<head, entries, tail, temps, persisted, recorded, short>>
        /\ <<p, k>> \notin temps /\ slot'[p][k] = "none"
        /\ slot[p][k] = "backed" => file'[k] = NoFile
        /\ file'[k] = NoFile \/ file' = file
    BY <1>8, <1>d, <1>e DEF Drop, Mapped
  <2>2. SlotsAreInUse(p)' /\ TempsAreForSlots(p)' /\ ReadyIsRecorded(p)' /\ FillingIsMine(p)'
    BY <1>a, <1>b, <2>1
       DEF SlotsAreInUse, TempsAreForSlots, ReadyIsRecorded, FillingIsMine, Persistent, Writes, Mine
  <2> QED
    BY <1>f, <1>g, <2>1, <2>2 DEF ProcessInv
<1> QED
  BY <1>1, <1>2, <1>3, <1>4, <1>5, <1>6, <1>7, <1>8 DEF SlotStep


-----------------------------------------------------------------------------
(* The invariant, and what follows from it.                                *)

(* Every step keeps the directory's invariant.                             *)
LEMMA DirInvStep == DirInv /\ [Next]_vars => DirInv'
<1> SUFFICES ASSUME DirInv, [Next]_vars PROVE DirInv'
  OBVIOUS
<1>1. TypeOK'
  BY TypeOKStep
<1>2. ASSUME NEW p \in Proc, ProcStep(p) PROVE DirInv'
  <2>1. LinesAreCounted' /\ LockIsExclusive'
    BY <1>2, LinesStep, LockStep
  <2>2. ProcessInv(p)'
    BY <1>2, OpeningIsFine, SlotIsFine, FreedIsFine, ForgottenIsFine DEF ProcStep, DirInv
  <2>3. \A q \in Proc \ {p} : ProcessInv(q)'
    BY <1>2, OthersKeepTheirInvariant
  <2> QED
    BY <1>1, <2>1, <2>2, <2>3 DEF DirInv
<1>3. CASE UNCHANGED vars
  <2>a. UNCHANGED <<file, head, entries, tail, temps, lines, slot, persisted, recorded, pc, short>>
    BY <1>3 DEF vars, disk, memory, history
  <2>1. LinesAreCounted' /\ LockIsExclusive'
    BY <2>a DEF DirInv, LinesAreCounted, LockIsExclusive, HoldsLock
  <2>2. ASSUME NEW p \in Proc PROVE ProcessInv(p)'
    <3>a. ProcessInv(p) /\ persisted[p] \subseteq Key
      BY DEF DirInv, TypeOK
    <3>1. /\ \A q \in Proc : LogOf(q)' = LogOf(q) /\ StaleEntries(q)' = StaleEntries(q)
          /\ \A k \in Key : Unlogged(p, k)' <=> Unlogged(p, k)
      BY <2>a DEF LogOf, Survivors, StaleEntries, StaleArrays, Unlogged
    <3>2. SlotsAreInUse(p)' /\ TempsAreForSlots(p)' /\ OpensInOrder(p)' /\ LogExists(p)'
      BY <2>a, <3>a, <3>1
         DEF ProcessInv, SlotsAreInUse, TempsAreForSlots, OpensInOrder, LogExists, HoldsLock
    <3>3. LogIsMine(p)' /\ LogIsWhole(p)' /\ BeliefIsRecorded(p)' /\ ReadyIsRecorded(p)'
      BY <2>a, <3>a, <3>1
         DEF ProcessInv, LogIsMine, LogIsWhole, BeliefIsRecorded, ReadyIsRecorded, MyEntry
    <3>4. FillingIsMine(p)' /\ UnloggedIsMine(p)'
      BY <2>a, <3>a, <3>1 DEF ProcessInv, FillingIsMine, UnloggedIsMine, Mine
    <3> QED
      BY <3>2, <3>3, <3>4 DEF ProcessInv
  <2> QED
    BY <1>1, <2>1, <2>2 DEF DirInv
<1> QED
  BY <1>2, <1>3, SomebodyActs

(* An empty directory satisfies it.                                        *)
LEMMA DirInvInit == Init => DirInv
<1> SUFFICES ASSUME Init PROVE DirInv
  OBVIOUS
<1> USE DEF Init
<1>1. TypeOK
  <2>1. pc \in [Proc -> PC] /\ slot \in [Proc -> [Key -> Slots]]
    BY DEF NoSlots, Slots, PC
  <2>2. file \in [Key -> Files] /\ head \in Head
    BY DEF Files, Head
  <2>3. opens \in 0 .. MaxOpens /\ shortWrites \in 0 .. MaxShortWrites /\ lines \in Nat
    BY CacheDirAssumption
  <2>4. persisted \in [Proc -> SUBSET Key] /\ recorded \in [Proc -> SUBSET Key]
    OBVIOUS
  <2> QED
    BY <2>1, <2>2, <2>3, <2>4 DEF TypeOK
<1>2. LinesAreCounted
  BY FS_EmptySet DEF LinesAreCounted
<1>3. LockIsExclusive
  BY DEF LockIsExclusive, HoldsLock
<1>4. ASSUME NEW p \in Proc PROVE ProcessInv(p)
  BY DEF ProcessInv, SlotsAreInUse, TempsAreForSlots, OpensInOrder, LogExists, LogIsMine,
         LogIsWhole, BeliefIsRecorded, ReadyIsRecorded, FillingIsMine, UnloggedIsMine,
         Remembering, Loading, NoSlots
<1> QED
  BY <1>1, <1>2, <1>3, <1>4 DEF DirInv

(* Whatever the processes do, wherever they die and whenever the disk is   *)
(* full, the lock is exclusive, the log has as many readable lines as      *)
(* entries, and each process knows every key that has an entry.  It takes  *)
(* no other key to have one until one of its own lines is cut short: from  *)
(* then on what it believes in and the log lacks is at least its own work. *)
THEOREM DirInvariant == Spec => []DirInv
<1>1. DirInv /\ [Next]_vars => DirInv'
  BY DirInvStep
<1> QED
  BY <1>1, DirInvInit, PTL DEF Spec

(* The directory and every process's memory of it keep their types.        *)
THEOREM DirTypeCorrect == Spec => []TypeOK
<1>1. DirInv => TypeOK
  BY DEF DirInv
<1> QED
  BY <1>1, DirInvariant, PTL

(* The log never lists a key twice, whoever reopens it (_recorded).        *)
THEOREM OneLinePerKey == Spec => []NoDuplicateLine
<1>1. DirInv => NoDuplicateLine
  BY DEF DirInv, LinesAreCounted, NoDuplicateLine
<1> QED
  BY <1>1, DirInvariant, PTL

(* A mapping is never left without the lock: while one process has files   *)
(* mapped, no other can be writing (close).                                *)
THEOREM MappingsKeepTheLock == Spec => []MappedUnderLock
<1>1. DirInv => MappedUnderLock
  <2> SUFFICES ASSUME DirInv, NEW p \in Proc, NEW q \in Proc, p # q, Mapped(p) # {}, HoldsLock(q)
               PROVE  ~Writes(p) /\ ~Writes(q)
    BY DEF MappedUnderLock
  <2>1. HoldsLock(p)
    BY DEF DirInv, ProcessInv, SlotsAreInUse, Mapped, HoldsLock
  <2> QED
    BY <2>1 DEF DirInv, LockIsExclusive, Writes
<1> QED
  BY <1>1, DirInvariant, PTL

(* A chunk a persisting or reading process serves has its line in the log, *)
(* so that a death loses nothing that was finished (_record_completed), as *)
(* long as a full disk has cut no line of this process short.              *)
THEOREM FinishedWorkIsLogged == Spec => []ReadyIsLogged
<1>1. DirInv => ReadyIsLogged
  <2> SUFFICES ASSUME DirInv, NEW p \in Proc \ short, NEW k \in Key,
                      Persistent(p), slot[p][k] = "ready"
               PROVE  MyEntry(p, k) \in entries
    BY DEF ReadyIsLogged, MyEntry
  <2>1. k \in recorded[p] /\ pc[p] = "open" /\ ArrayOf[k] \in Reads[p]
    BY DEF DirInv, ProcessInv, ReadyIsRecorded, SlotsAreInUse
  <2>2. LogIsMine(p) /\ LogOf(p) = entries
    BY <2>1 DEF DirInv, ProcessInv, LogOf
  <2>3. PICK e \in entries : e[1] = k
    BY <2>1, <2>2 DEF LogIsMine, Remembering
  <2> QED
    BY <2>1, <2>2, <2>3 DEF LogIsMine, Remembering
<1> QED
  BY <1>1, DirInvariant, PTL

(* No step takes an entry out of the log but a reset's of a stale one, and *)
(* none touches a file of an array its process does not read, but a reset  *)
(* of another format (_drop_stale_arrays, _compact).                       *)
THEOREM ResetsAreNarrow == Spec => ResetTakesOnlyStale
<1> DEFINE Narrow ==
      /\ \A e \in entries \ entries' :
           \E p \in Resets : pc[p] \in {"dropping", "compacting"} /\ e \in Doomed(p)
      /\ \A k \in Key : file'[k] # file[k] =>
           \E p \in Proc :
             /\ HoldsLock(p)
             /\ Writes(p)
             /\ ArrayOf[k] \in Reads[p] \/ (pc[p] = "dropping" /\ head # VersionOf[p])
<1>1. ASSUME DirInv, NEW p \in Proc, ProcStep(p) PROVE Narrow
  <2>a. TypeOK /\ SlotsAreInUse(p) /\ OpensInOrder(p)
    BY <1>1 DEF DirInv, ProcessInv
  <2>b. DiskKept \/ (HoldsLock(p) /\ Writes(p))
    BY <1>1, WritersWrite DEF DirInv
  <2>1. ASSUME NEW e \in entries \ entries'
        PROVE  p \in Resets /\ pc[p] \in {"dropping", "compacting"} /\ e \in Doomed(p)
    <3>1. CASE UnlinkLog(p)
      BY <2>a, <3>1 DEF UnlinkLog, StaleGone, OpensInOrder, Doomed
    <3>2. CASE CompactRename(p)
      <4>1. pc[p] = "compacting" /\ e \in StaleEntries(p)
        BY <2>1, <3>2 DEF CompactRename, Survivors
      <4> QED
        BY <2>a, <4>1 DEF OpensInOrder, Doomed
    <3>3. CASE ~UnlinkLog(p) /\ ~CompactRename(p)
      <4>1. entries \subseteq entries'
        BY <1>1, <3>3
           DEF ProcStep, OpenStep, Open, LoadCold, LoadRefuses, LoadResets, LoadEntries,
               KeepSurvivors, UnlinkStale, CompactWrite, OpenLog, WriteHeader, SlotStep, Revive,
               Admit, AllocTemp, AllocRename, Fill, Complete, CompleteAndLog, AppendFails,
               FailUnlogged, Drop, FreeSlots, LetsGo, HeaderFails, ReleaseLock, Crash, disk
      <4> QED
        BY <2>1, <4>1
    <3> QED
      BY <3>1, <3>2, <3>3
  <2>2. ASSUME NEW k \in Key, file'[k] # file[k]
        PROVE  ArrayOf[k] \in Reads[p] \/ (pc[p] = "dropping" /\ head # VersionOf[p])
    <3>1. CASE UnlinkStale(p)
      <4>1. PICK e \in Doomed(p) : file' = [file EXCEPT ![e[1]] = NoFile]
        BY <3>1 DEF UnlinkStale
      <4>2. e[1] = k
        BY <2>a, <2>2, <4>1 DEF TypeOK
      <4>3. head = VersionOf[p] => ArrayOf[k] \in Reads[p]
        BY <4>1, <4>2 DEF Doomed, StaleEntries, StaleArrays
      <4> QED
        BY <3>1, <4>3 DEF UnlinkStale
    <3>2. CASE OpenStep(p) /\ ~UnlinkStale(p)
      BY <2>2, <3>2 DEF OpenStep, Open, LoadCold, LoadRefuses, LoadResets, LoadEntries,
               KeepSurvivors, UnlinkLog, CompactWrite, CompactRename, OpenLog, WriteHeader, disk
    <3>3. ASSUME NEW l \in Key, SlotStep(p, l) PROVE ArrayOf[k] \in Reads[p]
      BY <2>a, <2>2, <3>3, SlotEffect DEF Uses
    <3>4. CASE FreeSlots(p)
      BY <2>a, <2>2, <3>4 DEF FreeSlots, Mapped, SlotsAreInUse
    <3>5. CASE LetsGo(p)
      BY <2>2, <3>5 DEF LetsGo, HeaderFails, ReleaseLock, Crash, disk
    <3> QED
      BY <1>1, <3>1, <3>2, <3>3, <3>4, <3>5 DEF ProcStep
  <2> QED
    BY <2>b, <2>1, <2>2 DEF DiskKept
<1>2. DirInv /\ [Next]_vars => Narrow \/ UNCHANGED vars
  BY <1>1, SomebodyActs
<1>3. DirInv /\ [Next]_vars => [Narrow]_vars
  BY <1>2
<1> QED
  BY <1>3, DirInvariant, PTL DEF Spec, ResetTakesOnlyStale


-----------------------------------------------------------------------------
(* What the files hold, when no process dies while it has replaced a file  *)
(* the log lists (DiesClobbering).                                         *)

(* A file the log names is what the log says, or gone, or in the hands of  *)
(* the one process that writes.                                            *)
InHand(k) == \E p \in Proc : Writes(p) /\ HoldsLock(p) /\ k \in Mapped(p)

FilesMatchLog == \A e \in entries : file[e[1]] \in {NoFile, Listed(e)} \/ InHand(e[1])

ReadyIsMine == \A p \in Proc, k \in Key : slot[p][k] = "ready" => file[k] = Mine(p, k, TRUE)

FilesInv == DirInv /\ FilesMatchLog /\ ReadyIsMine

(* An entry for a ready slot of mine is mine, and so is what it lists.     *)
LEMMA MyEntriesListMine ==
  ASSUME DirInv, NEW p \in Proc, NEW k \in Key, Persistent(p), pc[p] = "open",
         ArrayOf[k] \in Reads[p], NEW e \in entries, e[1] = k
  PROVE  Listed(e) = Mine(p, k, TRUE)
<1>1. LogIsMine(p) /\ LogOf(p) = entries
  BY DEF DirInv, ProcessInv, LogOf
<1>2. e = MyEntry(p, k)
  BY <1>1 DEF LogIsMine, Remembering
<1> QED
  BY <1>2 DEF Listed, Mine, MyEntry

(* What a process leaves behind when it frees a slot: a persisting pool    *)
(* keeps what is ready, everything else goes with its slot.                *)
LEMMA FreedFileIsListed ==
  ASSUME FilesInv, NEW p \in Proc, NEW k \in Mapped(p), NEW e \in entries, e[1] = k,
         file'[k] = IF Persistent(p) /\ slot[p][k] = "ready" THEN file[k] ELSE NoFile
  PROVE  file'[k] \in {NoFile, Listed(e)}
<1>1. k \in Key /\ slot[p][k] # "none"
  BY DEF Mapped
<1>2. pc[p] = "open" /\ ArrayOf[k] \in Reads[p]
  BY <1>1 DEF FilesInv, DirInv, ProcessInv, SlotsAreInUse
<1>3. CASE Persistent(p) /\ slot[p][k] = "ready"
  BY <1>1, <1>2, <1>3, MyEntriesListMine DEF FilesInv, ReadyIsMine
<1> QED
  BY <1>3

(* Files change one at a time under a slot that maps them, or go.          *)
LEMMA FilesMatchLogStep ==
  ASSUME ~DiesClobbering, FilesInv, NEW p \in Proc, ProcStep(p)
  PROVE  FilesMatchLog'
<1>a. TypeOK /\ DirInv /\ ProcessInv(p) /\ SlotsAreInUse(p) /\ TempsAreForSlots(p)
  BY DEF FilesInv, DirInv, ProcessInv
<1>b. SUFFICES ASSUME NEW e \in entries' PROVE (file[e[1]] \in {NoFile, Listed(e)} \/ InHand(e[1]))'
  BY DEF FilesMatchLog
<1> DEFINE d == e[1]
<1>c. Listed(e)' = Listed(e)
  BY DEF Listed
(* What another writer has in hand it keeps.                               *)
<1>1. ASSUME NEW q \in Proc \ {p}, Writes(q), HoldsLock(q), d \in Mapped(q) PROVE InHand(d)'
  BY <1>1, <1>a, OthersRemember DEF InHand, Mapped, HoldsLock, Writes
<1>2. CASE OpenStep(p)
  <2>1. e \in entries /\ d \in Key
    BY <1>2, <1>a, SurvivorsAreEntries
       DEF OpenStep, Open, LoadCold, LoadRefuses, LoadResets, LoadEntries, KeepSurvivors,
           UnlinkStale, UnlinkLog, CompactWrite, CompactRename, OpenLog, WriteHeader, disk, TypeOK
  <2>2. d \notin Mapped(p)
    BY <1>2, <1>a, OpeningEffect DEF Mapped, SlotsAreInUse
  <2>3. file'[d] = file[d] \/ file'[d] = NoFile
    BY <1>2, <1>a, <2>1
       DEF OpenStep, Open, LoadCold, LoadRefuses, LoadResets, LoadEntries, KeepSurvivors,
           UnlinkStale, UnlinkLog, CompactWrite, CompactRename, OpenLog, WriteHeader, disk, TypeOK
  <2> QED
    BY <1>1, <1>c, <2>1, <2>2, <2>3 DEF FilesInv, FilesMatchLog, InHand, NoFile
<1>3. ASSUME NEW k \in Key, SlotStep(p, k)
      PROVE  (file[d] \in {NoFile, Listed(e)} \/ InHand(d))'
  <2>1. /\ HoldsLock(p) /\ HoldsLock(p)' /\ Writes(p)' = Writes(p)
        /\ \A l \in Key \ {k} : slot'[p][l] = slot[p][l] /\ file'[l] = file[l]
    BY <1>3, <1>a, SlotEffect DEF HoldsLock, Uses, Writes
  <2>2. CASE k \in Mapped(p)' /\ Writes(p) /\ d = k
    BY <2>1, <2>2 DEF InHand
  <2>3. CASE d # k /\ e \in entries
    <3>1. d \in Key
      BY <1>a, <2>3 DEF TypeOK
    <3>2. file'[d] = file[d] /\ (d \in Mapped(p) => d \in Mapped(p)')
      BY <2>1, <2>3, <3>1 DEF Mapped
    <3> QED
      BY <1>1, <1>c, <2>1, <2>3, <3>2 DEF FilesInv, FilesMatchLog, InHand, NoFile
  <2>4. CASE e \notin entries
    <3>1. CompleteAndLog(p, k) /\ d = k
      BY <1>3, <2>4 DEF SlotStep, Revive, Admit, AllocTemp, AllocRename, Fill, Complete,
                        CompleteAndLog, AppendFails, FailUnlogged, Drop, disk
    <3>2. slot'[p][k] = "ready"
      BY <1>a, <3>1, SlotAfterSet DEF CompleteAndLog, Slots
    <3> QED
      BY <2>2, <3>1, <3>2 DEF Mapped, CompleteAndLog, Logs, Writes
  <2>5. CASE d = k /\ e \in entries /\ Drop(p, k)
    <3>1. CASE k \in Mapped(p)
      <4>1. file'[k] = IF Persistent(p) /\ slot[p][k] = "ready" THEN file[k] ELSE NoFile
        BY <1>a, <2>5, <3>1 DEF Drop, TypeOK
      <4> QED
        BY <1>c, <2>5, <3>1, <4>1, FreedFileIsListed DEF NoFile
    <3>2. CASE k \notin Mapped(p)
      <4>1. file' = file
        BY <2>5, <3>2 DEF Drop
      <4> QED
        BY <1>1, <1>c, <2>5, <3>2, <4>1 DEF FilesInv, FilesMatchLog, InHand, NoFile
    <3> QED
      BY <3>1, <3>2
  <2>6. CASE d = k /\ e \in entries /\ ~Drop(p, k) /\ ~(k \in Mapped(p)' /\ Writes(p))
    <3>1. Kind[p] = "readonly" => slot[p][k] \in {"none", "ready"}
      BY <1>a DEF SlotsAreInUse
    <3>2. /\ ~AllocRename(p, k) /\ ~Fill(p, k)
          /\ ~(k \in Mapped(p) /\ Writes(p))
      BY <1>a, <1>3, <2>6, <3>1, SlotAfterSet
         DEF SlotStep, Revive, Admit, AllocTemp, AllocRename, Fill, Complete, CompleteAndLog,
             AppendFails, FailUnlogged, Completes, TempsAreForSlots, Mapped, Writes, Slots
    <3>3. file' = file
      BY <1>3, <2>6, <3>2 DEF SlotStep, Revive, Admit, AllocTemp, Complete, CompleteAndLog,
                              AppendFails, FailUnlogged, disk
    <3> QED
      BY <1>1, <1>c, <2>6, <3>2, <3>3 DEF FilesInv, FilesMatchLog, InHand, NoFile
  <2> QED
    BY <2>2, <2>3, <2>4, <2>5, <2>6
<1>4. CASE FreeSlots(p)
  <2>1. e \in entries /\ d \in Key
    BY <1>4, <1>a DEF FreeSlots, TypeOK
  <2>2. CASE d \in Mapped(p)
    <3>1. file'[d] = IF Persistent(p) /\ slot[p][d] = "ready" THEN file[d] ELSE NoFile
      BY <1>4, <2>1, <2>2 DEF FreeSlots
    <3> QED
      BY <1>c, <2>1, <2>2, <3>1, FreedFileIsListed DEF NoFile
  <2>3. CASE d \notin Mapped(p)
    <3>1. file'[d] = file[d]
      BY <1>4, <2>1, <2>3 DEF FreeSlots
    <3> QED
      BY <1>1, <1>c, <2>1, <2>3, <3>1 DEF FilesInv, FilesMatchLog, InHand, NoFile
  <2> QED
    BY <2>2, <2>3
<1>5. CASE LetsGo(p)
  <2>1. e \in entries /\ file' = file
    BY <1>5 DEF LetsGo, HeaderFails, ReleaseLock, Crash, disk
  <2>2. d \in Mapped(p) => file[d] = Listed(e)
    BY <1>5, <1>a, <2>1 DEF LetsGo, HeaderFails, ReleaseLock, Crash, Clobbers, SlotsAreInUse, Mapped
  <2> QED
    BY <1>1, <1>c, <2>1, <2>2 DEF FilesInv, FilesMatchLog, InHand, NoFile
<1> QED
  BY <1>2, <1>3, <1>4, <1>5 DEF ProcStep


(* A chunk is served from its own file or one the log vouches for.         *)
LEMMA ReadyIsMineStep ==
  ASSUME FilesInv, NEW p \in Proc, ProcStep(p)
  PROVE  ReadyIsMine'
<1>a. TypeOK /\ DirInv /\ ProcessInv(p) /\ SlotsAreInUse(p)
  BY DEF FilesInv, DirInv, ProcessInv
<1>b. SUFFICES ASSUME NEW q \in Proc, NEW k \in Key, slot'[q][k] = "ready"
               PROVE  file'[k] = Mine(q, k, TRUE)
  BY DEF ReadyIsMine, Mine
<1>c. slot[q][k] = "ready" => file[k] = Mine(q, k, TRUE)
  BY DEF FilesInv, ReadyIsMine
<1>1. CASE q # p
  <2>1. slot[q][k] = "ready" /\ HoldsLock(q)
    BY <1>1, <1>a, <1>b, OthersRemember DEF DirInv, ProcessInv, SlotsAreInUse, HoldsLock
  <2> QED
    BY <1>1, <1>a, <1>c, <2>1, DiskIsStable DEF DiskKept
<1>2. CASE q = p
  <2>1. CASE OpenStep(p)
    BY <1>a, <1>b, <1>2, <2>1, OpeningEffect DEF SlotsAreInUse
  <2>2. ASSUME NEW l \in Key, SlotStep(p, l), l # k PROVE file'[k] = Mine(q, k, TRUE)
    BY <1>a, <1>b, <1>c, <1>2, <2>2, SlotEffect
  <2>3. CASE Revive(p, k)
    <3>1. CASE slot[p][k] = "none" /\ k \in persisted[p] /\ file[k] # NoFile /\ file' = file
      <4>1. pc[p] = "open" /\ ArrayOf[k] \in Reads[p] /\ Persistent(p)
        BY <1>a, <2>3, <3>1 DEF ProcessInv, OpensInOrder, Revive, Uses
      <4>2. CASE Unlogged(p, k)
        BY <1>a, <1>2, <3>1, <4>2 DEF ProcessInv, UnloggedIsMine
      <4>3. CASE ~Unlogged(p, k)
        <5>1. PICK e \in entries : e[1] = k
          BY <4>1, <4>3 DEF Unlogged, LogOf
        <5>2. Listed(e) = Mine(p, k, TRUE)
          BY <1>a, <4>1, <5>1, MyEntriesListMine
        <5>3. ~InHand(k)
          BY <1>a, <3>1, <4>1 DEF InHand, Mapped, DirInv, LockIsExclusive, HoldsLock, Writes
        <5>4. file[k] = Listed(e)
          BY <3>1, <5>1, <5>3 DEF FilesInv, FilesMatchLog
        <5> QED
          BY <1>2, <3>1, <5>2, <5>4
      <4> QED
        BY <4>2, <4>3
    <3>2. file[k] # NoFile
      BY <1>b, <1>2, <2>3 DEF Revive
    <3> QED
      BY <2>3, <3>1, <3>2 DEF Revive, disk
  <2>4. CASE Complete(p, k) \/ CompleteAndLog(p, k) \/ AppendFails(p, k)
    <3>1. slot[p][k] = "filled" /\ file' = file
      BY <2>4 DEF Complete, CompleteAndLog, AppendFails, Completes, disk
    <3> QED
      BY <1>a, <1>2, <3>1 DEF ProcessInv, FillingIsMine
  <2>5. CASE \/ Admit(p, k) \/ AllocTemp(p, k) \/ AllocRename(p, k) \/ Fill(p, k)
             \/ FailUnlogged(p, k) \/ Drop(p, k)
    <3>1. AllocTemp(p, k)
      BY <1>a, <1>b, <1>2, <2>5, SlotAfterSet
         DEF Admit, AllocRename, Fill, FailUnlogged, Drop, Slots
    <3> QED
      BY <1>b, <1>c, <1>2, <3>1 DEF AllocTemp, memory
  <2>6. CASE FreeSlots(p)
    BY <1>a, <1>b, <1>2, <2>6 DEF FreeSlots, NoSlots, TypeOK
  <2>7. CASE LetsGo(p)
    BY <1>a, <1>b, <1>2, <2>7, MemoryAfterForget DEF LetsGo, HeaderFails, ReleaseLock, Crash
  <2> QED
    BY <2>1, <2>2, <2>3, <2>4, <2>5, <2>6, <2>7 DEF ProcStep, SlotStep
<1> QED
  BY <1>1, <1>2

(* Files match the log as long as nobody dies clobbering.                  *)
LEMMA FilesInvariant ==
  ASSUME ~DiesClobbering
  PROVE  Spec => []FilesInv
<1>1. Init => FilesInv
  <2> SUFFICES ASSUME Init PROVE FilesInv
    OBVIOUS
  <2>1. FilesMatchLog
    BY DEF Init, FilesMatchLog
  <2>2. ReadyIsMine
    BY DEF Init, ReadyIsMine, NoSlots
  <2> QED
    BY <2>1, <2>2, DirInvInit DEF FilesInv
<1>2. FilesInv /\ [Next]_vars => FilesInv'
  <2> SUFFICES ASSUME FilesInv, [Next]_vars PROVE FilesInv'
    OBVIOUS
  <2>1. DirInv'
    BY DirInvStep DEF FilesInv
  <2>2. ASSUME NEW p \in Proc, ProcStep(p) PROVE FilesInv'
    BY <2>1, <2>2, FilesMatchLogStep, ReadyIsMineStep DEF FilesInv
  <2>3. CASE UNCHANGED vars
    BY <2>1, <2>3 DEF vars, disk, memory, FilesInv, FilesMatchLog, ReadyIsMine, InHand, HoldsLock,
                      Mapped, Writes, Listed, Mine
  <2> QED
    BY <2>2, <2>3, SomebodyActs
<1> QED
  BY <1>1, <1>2, PTL DEF Spec

(* What is served is whole and made by the pipeline of the run that serves *)
(* it, provided nobody dies while it replaces a file that is listed        *)
(* (_revive, _record_completed).                                           *)
THEOREM OnlyMineIsServed ==
  ASSUME ~DiesClobbering
  PROVE  Spec => []ServedIsMine
<1>1. FilesInv => ServedIsMine
  BY DEF FilesInv, ReadyIsMine, ServedIsMine, Mine
<1> QED
  BY <1>1, FilesInvariant, PTL

(* Between writers the log tells the truth about every file, under the     *)
(* same proviso (_advance).                                                *)
THEOREM LogTellsTheTruth ==
  ASSUME ~DiesClobbering
  PROVE  Spec => []LogIsTruthful
<1>1. FilesInv => LogIsTruthful
  BY DEF FilesInv, FilesMatchLog, InHand, LogIsTruthful
<1> QED
  BY <1>1, FilesInvariant, PTL

-----------------------------------------------------------------------------
(* The header, when no process dies between creating the log and writing   *)
(* it (DiesHeaderless).                                                    *)

HeaderIsDue ==
  /\ head # "headless"
  /\ head = "empty" => \E p \in Proc : pc[p] = "headerless"

HeaderInv ==
  /\ DirInv
  /\ shortWrites = 0 => HeaderIsDue /\ tail = "whole" /\ ~broken
  /\ NoFalseCorruption

(* Only the process that created the log finds it empty.                   *)
LEMMA HeaderStep ==
  ASSUME ~DiesHeaderless, HeaderInv, NEW p \in Proc, ProcStep(p), shortWrites' = 0
  PROVE  HeaderIsDue' /\ tail' = "whole" /\ ~broken' /\ NoFalseCorruption'
<1>a. TypeOK /\ DirInv /\ ProcessInv(p) /\ SlotsAreInUse(p) /\ shortWrites \in Nat
  BY CacheDirAssumption DEF HeaderInv, DirInv, ProcessInv, TypeOK
<1>b. \A q \in Proc : VersionOf[q] \notin {"missing", "empty", "headless"}
  BY CacheDirAssumption
(* While a header is due, whoever owes it is the only one inside.          *)
<1>c. \A q \in Proc : pc[q] = "headerless" /\ q # p => ~HoldsLock(p)
  BY <1>a DEF DirInv, LockIsExclusive, ProcessInv, OpensInOrder, HoldsLock, Writes
<1>d. \A q \in Proc \ {p} : pc'[q] = pc[q]
  BY <1>a, OthersRemember
(* No write is cut short by this step, and none was before.                *)
<1>e. ~HeaderFails(p) /\ \A k \in Key : ~AppendFails(p, k)
  BY <1>a DEF HeaderFails, AppendFails
<1>f. shortWrites = 0
  BY <1>e DEF ProcStep, OpenStep, Open, LoadCold, LoadRefuses, LoadResets, LoadEntries, UnlinkStale,
              UnlinkLog, KeepSurvivors, CompactWrite, CompactRename, OpenLog, WriteHeader, SlotStep,
              Revive, Admit, AllocTemp, AllocRename, Fill, Complete, CompleteAndLog, FailUnlogged,
              Drop, FreeSlots, LetsGo, ReleaseLock, Crash, history
<1>g. HeaderIsDue /\ tail = "whole" /\ ~broken /\ \A q \in Proc : pc[q] # "corrupt"
  BY <1>f DEF HeaderInv, NoFalseCorruption
<1>1. CASE OpenLog(p)
  BY <1>a, <1>d, <1>g, <1>1 DEF OpenLog, Fresh, Goto, TypeOK, HeaderIsDue, NoFalseCorruption
<1>2. CASE WriteHeader(p)
  BY <1>a, <1>b, <1>d, <1>g, <1>2 DEF WriteHeader, Goto, TypeOK, HeaderIsDue, NoFalseCorruption
<1>3. CASE UnlinkLog(p)
  BY <1>a, <1>d, <1>g, <1>3 DEF UnlinkLog, Goto, TypeOK, HeaderIsDue, NoFalseCorruption
<1>4. ASSUME NEW k \in Key, SlotStep(p, k)
      PROVE  HeaderIsDue' /\ tail' = "whole" /\ ~broken' /\ NoFalseCorruption'
  <2>1. pc[p] = "open" /\ HoldsLock(p) /\ pc' = pc
    BY <1>a, <1>4, SlotEffect DEF Uses, HoldsLock
  <2>2. head # "empty"
    BY <1>c, <1>g, <2>1 DEF HeaderIsDue
  <2>3. head' = head /\ tail' = "whole" /\ ~broken'
    <3>1. ~AppendFails(p, k)
      BY <1>e
    <3>2. CASE CompleteAndLog(p, k)
      BY <1>g, <2>2, <3>2 DEF CompleteAndLog, FirstLine
    <3>3. CASE ~CompleteAndLog(p, k)
      <4>1. UNCHANGED <<head, tail, broken>>
        BY <1>4, <3>1, <3>3
           DEF SlotStep, Revive, Admit, AllocTemp, AllocRename, Fill, Complete, FailUnlogged,
               Drop, disk
      <4> QED
        BY <1>g, <4>1
    <3> QED
      BY <3>2, <3>3
  <2> QED
    BY <1>g, <2>1, <2>2, <2>3 DEF HeaderIsDue, NoFalseCorruption
<1>5. CASE \/ Open(p) \/ LoadCold(p) \/ LoadRefuses(p) \/ LoadResets(p) \/ LoadEntries(p)
           \/ UnlinkStale(p) \/ KeepSurvivors(p) \/ CompactWrite(p) \/ CompactRename(p)
           \/ FreeSlots(p) \/ ReleaseLock(p) \/ Crash(p)
  <2>1. head' = head /\ tail' = "whole" /\ ~broken'
    BY <1>5, <1>g
       DEF Open, LoadCold, LoadRefuses, LoadResets, LoadEntries, UnlinkStale, KeepSurvivors,
           CompactWrite, CompactRename, FreeSlots, ReleaseLock, Crash, disk
  <2>2. ~Corrupt(p)
    BY <1>g DEF Corrupt, HeaderIsDue
  <2>3. pc[p] # "headerless" /\ pc'[p] # "corrupt"
    BY <1>a, <1>5, <1>g, <2>2
       DEF Open, LoadCold, LoadRefuses, LoadResets, LoadEntries, UnlinkStale, KeepSurvivors,
           StaleGone, CompactWrite, CompactRename, FreeSlots, ReleaseLock, Crash, Forget, Goto,
           TypeOK
  <2> QED
    BY <1>d, <1>g, <2>1, <2>3 DEF HeaderIsDue, NoFalseCorruption
<1> QED
  BY <1>e, <1>1, <1>2, <1>3, <1>4, <1>5 DEF ProcStep, OpenStep, LetsGo

(* A crash never looks like tampering, if no process dies between creating *)
(* the log and writing its header and no write to the log was ever cut     *)
(* short by a full disk (_load_log).                                       *)
THEOREM CrashesLookLikeCrashes ==
  ASSUME ~DiesHeaderless
  PROVE  Spec => []NoFalseCorruption
<1>1. Init => HeaderInv
  <2>1. Init => HeaderIsDue /\ tail = "whole" /\ ~broken /\ NoFalseCorruption
    BY DEF Init, HeaderIsDue, NoFalseCorruption
  <2> QED
    BY <2>1, DirInvInit DEF HeaderInv
<1>2. HeaderInv /\ [Next]_vars => HeaderInv'
  <2> SUFFICES ASSUME HeaderInv, [Next]_vars PROVE HeaderInv'
    OBVIOUS
  <2>1. DirInv'
    BY DirInvStep DEF HeaderInv
  <2>2. ASSUME NEW p \in Proc, ProcStep(p) PROVE HeaderInv'
    BY <2>1, <2>2, HeaderStep DEF HeaderInv, NoFalseCorruption
  <2>3. CASE UNCHANGED vars
    BY <2>1, <2>3 DEF vars, disk, history, HeaderInv, HeaderIsDue, NoFalseCorruption
  <2> QED
    BY <2>2, <2>3, SomebodyActs
<1>3. HeaderInv => NoFalseCorruption
  BY DEF HeaderInv
<1> QED
  BY <1>1, <1>2, <1>3, PTL DEF Spec
=============================================================================
