------------------------------ MODULE CacheDir ------------------------------
(***************************************************************************)
(* The cache directory of the chunk pool (insitubatch/pool.py): the lock   *)
(* that arbitrates it, the append-only log of completed entries, and one   *)
(* file per chunk.  Processes open it, use it and close it; any of them    *)
(* may die at any point, which drops its lock and its memory and leaves    *)
(* the directory as it is.                                                 *)
(*                                                                         *)
(* A process's pool is seen only through its slots: what a slot goes       *)
(* through between admission and READY is ChunkPool's subject.             *)
(***************************************************************************)
EXTENDS Integers, FiniteSets

CONSTANTS
  Proc,          \* the processes (a training run is one configuration)
  Key,           \* slot keys, (array, chunk_index)
  Array,         \* zarr paths
  ArrayOf,       \* the array of a key
  Fingerprint,         \* fingerprints of chunk_transform pipelines
  Version,       \* manifest formats
  Kind,          \* how each process opens the directory
  Reads,         \* the arrays each process reads
  FingerprintOf,       \* the pipeline each process has for each array
  VersionOf,     \* the manifest format each process writes
  Resets,        \* the processes with reset_stale_cache = True
  DiesHeaderless,\* may a process die between creating the log and its header?
  DiesClobbering,\* may a process die while it has replaced a logged file?
  MaxOpens,      \* bound: how often the directory is opened
  MaxShortWrites \* bound: how many writes to the log a full disk cuts short

ASSUME CacheDirAssumption ==
  /\ "none" \notin Fingerprint
  /\ "log" \notin Key
  /\ {"missing", "empty", "headless"} \cap Version = {}
  /\ ArrayOf \in [Key -> Array]
  /\ Kind \in [Proc -> {"persist", "spill", "readonly"}]
  /\ Reads \in [Proc -> SUBSET Array]
  /\ FingerprintOf \in [Proc -> [Array -> Fingerprint]]
  /\ VersionOf \in [Proc -> Version]
  /\ Resets \subseteq {p \in Proc : Kind[p] = "persist"}
  /\ DiesHeaderless \in BOOLEAN
  /\ DiesClobbering \in BOOLEAN
  /\ MaxOpens \in Nat
  /\ MaxShortWrites \in Nat

VARIABLES
  file,      \* file[k]: what k's .npy holds, NoFile if there is none
  head,      \* the log's first line
  entries,   \* the log's entries, <<key, fingerprint>>
  tail,      \* the log's last line: whole, cut short, or glued to one that was
  broken,    \* does a line that cannot be read stand before the last one?
  temps,     \* temporary files on disk, <<process, purpose>>
  pc,        \* pc[p]: how far p is in opening or closing the directory
  slot,      \* slot[p][k]: p's slot for k
  persisted, \* _persisted: the keys p believes are on disk
  recorded,  \* _recorded: the keys p has seen in, or written to, the log
  lines,     \* how many entry lines the log has
  opens,     \* how often the directory was opened
  shortWrites, \* how many writes to the log came up short
  short      \* the live processes with one of them

disk == <<file, head, entries, tail, broken, temps, lines>>
memory == <<slot, persisted, recorded>>
history == <<opens, shortWrites, short>>
vars == <<disk, memory, pc, history>>

Content == [print : Fingerprint, whole : BOOLEAN]
NoFile == [print |-> "none", whole |-> FALSE]
Files == Content \cup {NoFile}

(* "headless": the log's first line is an entry, or a header cut short.    *)
Head == {"missing", "empty", "headless"} \cup Version

(* "admitted" slots have no file; "backed" ones are mapped to a fresh file *)
(* that tiles are landing in; in a "filled" one all have landed.  A "ready" *)
(* slot is served, logged or not; one that was not becomes "failed" if the *)
(* exception reaches somebody.                                             *)
Slots == {"none", "admitted", "backed", "filled", "ready", "failed"}
NoSlots == [k \in Key |-> "none"]

PC == {"closed", "locked", "dropping", "compacting", "loaded", "headerless",
       "open", "freed", "corrupt", "stale"}

Persistent(p) == Kind[p] \in {"persist", "readonly"}
Writes(p) == Kind[p] # "readonly"

(* A process holds the lock from opening until its last mapping is gone; a *)
(* constructor that raises gives it back.                                  *)
HoldsLock(p) == pc[p] \notin {"closed", "corrupt", "stale"}
Uses(p, k) == pc[p] = "open" /\ ArrayOf[k] \in Reads[p]
Mapped(p) == {k \in Key : slot[p][k] \in {"backed", "filled", "ready", "failed"}}

Init ==
  /\ file = [k \in Key |-> NoFile]
  /\ head = "missing"
  /\ entries = {}
  /\ tail = "whole"
  /\ broken = FALSE
  /\ temps = {}
  /\ lines = 0
  /\ pc = [p \in Proc |-> "closed"]
  /\ slot = [p \in Proc |-> NoSlots]
  /\ persisted = [p \in Proc |-> {}]
  /\ recorded = [p \in Proc |-> {}]
  /\ opens = 0
  /\ shortWrites = 0
  /\ short = {}

Goto(p, l) == pc' = [pc EXCEPT ![p] = l]
SetSlot(p, k, s) == slot' = [slot EXCEPT ![p][k] = s]

-----------------------------------------------------------------------------
(* Opening.                                                                *)

(* Mutants: there are no advisory locks; readers do not keep a writer out. *)
LockGrantedUnarbitrated(p) == ~HoldsLock(p)
LockGrantedBesideReaders(p) ==
  \A q \in Proc : HoldsLock(q) => Kind[q] = "readonly"

(* One writer or any number of readers; contention raises.                 *)
LockGranted(p) ==
  \A q \in Proc : HoldsLock(q) => Kind[q] = "readonly" /\ Kind[p] = "readonly"

(* _lock, then _sweep_tmp: under the exclusive lock every temporary file   *)
(* is a dead writer's.                                                     *)
Open(p) ==
  /\ pc[p] \in {"closed", "corrupt", "stale"}
  /\ opens < MaxOpens
  /\ LockGranted(p)
  /\ opens' = opens + 1
  /\ temps' = IF Writes(p) THEN {} ELSE temps
  /\ Goto(p, IF Persistent(p) THEN "locked" ELSE "open")
  /\ UNCHANGED <<file, head, entries, tail, broken, lines, memory, shortWrites, short>>

StaleArrays(p) ==
  {ArrayOf[e[1]] : e \in {e \in entries : /\ ArrayOf[e[1]] \in Reads[p]
                                          /\ e[2] # FingerprintOf[p][ArrayOf[e[1]]]}}

StaleEntries(p) == {e \in entries : ArrayOf[e[1]] \in StaleArrays(p)}

(* The entries whose files a reset deletes: those of the stale arrays, or  *)
(* of the whole cache when its format is another one.                      *)
Doomed(p) == IF head = VersionOf[p] THEN StaleEntries(p) ELSE entries

(* Mutant: the memory of the log is taken before the reset.                *)
LoadAll(p, E) ==
  /\ persisted' = [persisted EXCEPT ![p] = {e[1] : e \in entries}]
  /\ recorded' = [recorded EXCEPT ![p] = {e[1] : e \in entries}]

Load(p, E) ==
  /\ persisted' = [persisted EXCEPT ![p] = {e[1] : e \in E}]
  /\ recorded' = [recorded EXCEPT ![p] = {e[1] : e \in E}]

(* _load_log: an empty log is a cold start, a first line that is not a     *)
(* header is corruption, a stale log raises or is reset, and what is left  *)
(* is loaded.                                                              *)
LoadCold(p) ==
  /\ pc[p] = "locked"
  /\ head \in {"missing", "empty"}
  /\ Goto(p, "loaded")
  /\ UNCHANGED <<disk, memory, history>>

(* A header that cannot be read is corruption, and so is an entry that     *)
(* cannot, unless it is the last one.                                      *)
Corrupt(p) == head = "headless" \/ (head = VersionOf[p] /\ broken)

Stale(p) ==
  /\ head \in Version
  /\ ~Corrupt(p)
  /\ head # VersionOf[p] \/ StaleEntries(p) # {}

LoadRefuses(p) ==
  /\ pc[p] = "locked"
  /\ Corrupt(p) \/ (Stale(p) /\ p \notin Resets)
  /\ Goto(p, IF Corrupt(p) THEN "corrupt" ELSE "stale")
  /\ UNCHANGED <<disk, memory, history>>

LoadResets(p) ==
  /\ pc[p] = "locked"
  /\ Stale(p)
  /\ p \in Resets
  /\ Goto(p, "dropping")
  /\ UNCHANGED <<disk, memory, history>>

(* A last line that cannot be read is dropped: a reader ignores it, a      *)
(* writer compacts.                                                        *)
LoadEntries(p) ==
  /\ pc[p] = "locked"
  /\ head \in Version
  /\ ~Corrupt(p)
  /\ ~Stale(p)
  /\ Load(p, entries)
  /\ Goto(p, IF tail # "whole" /\ Writes(p) THEN "compacting" ELSE "loaded")
  /\ UNCHANGED <<disk, slot, history>>

(* reset_stale_cache: the files go one by one, the log after them.         *)
UnlinkStale(p) ==
  /\ pc[p] = "dropping"
  /\ \E e \in Doomed(p) :
       /\ file[e[1]] # NoFile
       /\ file' = [file EXCEPT ![e[1]] = NoFile]
  /\ UNCHANGED <<head, entries, tail, broken, temps, lines, memory, pc, history>>

StaleGone(p) ==
  /\ pc[p] = "dropping"
  /\ \A e \in Doomed(p) : file[e[1]] = NoFile

(* A stale format takes the log itself away.                               *)
UnlinkLog(p) ==
  /\ StaleGone(p)
  /\ head # VersionOf[p]
  /\ head' = "missing"
  /\ entries' = {}
  /\ lines' = 0
  /\ tail' = "whole"
  /\ broken' = FALSE
  /\ Goto(p, "loaded")
  /\ UNCHANGED <<file, temps, memory, history>>

(* Mutants: the rewritten log keeps everything; or only what this run      *)
(* reads.                                                                  *)
SurvivorsAll(p) == entries
SurvivorsOfOwnArrays(p) ==
  {e \in entries \ StaleEntries(p) : ArrayOf[e[1]] \in Reads[p]}

Survivors(p) == entries \ StaleEntries(p)

(* Stale arrays leave the others' entries, and the log is rewritten.       *)
KeepSurvivors(p) ==
  /\ StaleGone(p)
  /\ head = VersionOf[p]
  /\ Load(p, Survivors(p))
  /\ Goto(p, "compacting")
  /\ UNCHANGED <<disk, slot, history>>

(* _compact: a temporary log, renamed over the old one.                    *)
CompactWrite(p) ==
  /\ pc[p] = "compacting"
  /\ <<p, "log">> \notin temps
  /\ temps' = temps \cup {<<p, "log">>}
  /\ UNCHANGED <<file, head, entries, tail, broken, lines, memory, pc, history>>

CompactRename(p) ==
  /\ pc[p] = "compacting"
  /\ <<p, "log">> \in temps
  /\ temps' = temps \ {<<p, "log">>}
  /\ entries' = Survivors(p)
  /\ lines' = Cardinality(Survivors(p))
  /\ tail' = "whole"
  /\ broken' = FALSE
  /\ Goto(p, "loaded")
  /\ UNCHANGED <<file, head, memory, history>>

(* Mutant: whether the log is new is asked once it has been opened.        *)
FreshOnceOpen == FALSE

Fresh == head = "missing"

(* _open_log creates the log if there is none; only then is a header due.  *)
OpenLog(p) ==
  /\ pc[p] = "loaded"
  /\ head' = IF head = "missing" /\ Writes(p) THEN "empty" ELSE head
  /\ Goto(p, IF Fresh /\ Writes(p) THEN "headerless" ELSE "open")
  /\ UNCHANGED <<file, entries, tail, broken, temps, lines, memory, history>>

WriteHeader(p) ==
  /\ pc[p] = "headerless"
  /\ head' = VersionOf[p]
  /\ Goto(p, "open")
  /\ UNCHANGED <<file, entries, tail, broken, temps, lines, memory, history>>

(* A process that lets go of the lock has forgotten everything.            *)
Forget(p) ==
  /\ slot' = [slot EXCEPT ![p] = NoSlots]
  /\ persisted' = [persisted EXCEPT ![p] = {}]
  /\ recorded' = [recorded EXCEPT ![p] = {}]
  /\ short' = short \ {p}
  /\ Goto(p, "closed")

(* The disk is full: the header is cut short, or not written at all, and   *)
(* the constructor raises.                                                 *)
HeaderFails(p) ==
  /\ pc[p] = "headerless"
  /\ shortWrites < MaxShortWrites
  /\ shortWrites' = shortWrites + 1
  /\ head' \in {"empty", "headless"}
  /\ Forget(p)
  /\ UNCHANGED <<file, entries, tail, broken, temps, lines, opens>>

-----------------------------------------------------------------------------
(* Using.                                                                  *)

(* _revive: what is on disk under a key this run believes in becomes a     *)
(* READY slot; a file that is gone makes the run forget the key.           *)
Revive(p, k) ==
  /\ Uses(p, k)
  /\ k \in persisted[p]
  /\ slot[p][k] = "none"
  /\ IF file[k] # NoFile
     THEN SetSlot(p, k, "ready") /\ UNCHANGED persisted
     ELSE persisted' = [persisted EXCEPT ![p] = @ \ {k}] /\ UNCHANGED slot
  /\ UNCHANGED <<disk, recorded, pc, history>>

(* A miss is admitted: the key is not believed to be on disk, or it is     *)
(* there and there was no room to map it when the driver asked.  A         *)
(* read-only opener never admits.                                          *)
Admit(p, k) ==
  /\ Uses(p, k)
  /\ Writes(p)
  /\ slot[p][k] = "none"
  /\ k \in persisted[p] => file[k] # NoFile
  /\ SetSlot(p, k, "admitted")
  /\ UNCHANGED <<disk, persisted, recorded, pc, history>>

(* _alloc: a fresh file under a private name, renamed over k's.            *)
AllocTemp(p, k) ==
  /\ Uses(p, k)
  /\ slot[p][k] = "admitted"
  /\ <<p, k>> \notin temps
  /\ temps' = temps \cup {<<p, k>>}
  /\ UNCHANGED <<file, head, entries, tail, broken, lines, memory, pc, history>>

AllocRename(p, k) ==
  /\ Uses(p, k)
  /\ <<p, k>> \in temps
  /\ temps' = temps \ {<<p, k>>}
  /\ file' = [file EXCEPT ![k] = [print |-> FingerprintOf[p][ArrayOf[k]], whole |-> FALSE]]
  /\ SetSlot(p, k, "backed")
  /\ UNCHANGED <<head, entries, tail, broken, lines, persisted, recorded, pc, history>>

(* The last tile, or the transformed chunk, is in the file.                *)
Fill(p, k) ==
  /\ Uses(p, k)
  /\ slot[p][k] = "backed"
  /\ file' = [file EXCEPT ![k] = [print |-> @.print, whole |-> TRUE]]
  /\ SetSlot(p, k, "filled")
  /\ UNCHANGED <<head, entries, tail, broken, temps, lines, persisted, recorded, pc, history>>

(* Mutant: the entry is logged when its file is allocated.                 *)
CompletesWhenBacked(p, k) == Uses(p, k) /\ slot[p][k] \in {"backed", "filled"}

Completes(p, k) == Uses(p, k) /\ slot[p][k] = "filled"

(* Mutant: every completion is logged, whether or not the key was before.  *)
LogsAlways(p, k) == Kind[p] = "persist"

Logs(p, k) == Kind[p] = "persist" /\ k \notin recorded[p]

Believe(p, k) ==
  persisted' = IF Kind[p] = "persist" THEN [persisted EXCEPT ![p] = @ \cup {k}]
                                      ELSE persisted

(* A log that has a first line without a header never gets one.            *)
FirstLine == IF head = "empty" THEN "headless" ELSE head

(* _record_completed: published, and logged unless it already was.         *)
Complete(p, k) ==
  /\ Completes(p, k)
  /\ ~Logs(p, k)
  /\ SetSlot(p, k, "ready")
  /\ Believe(p, k)
  /\ UNCHANGED <<disk, recorded, pc, history>>

(* The line is appended to whatever the log ends in.  Behind a line that   *)
(* was cut short it is glued to it and lost, and behind a glued one it     *)
(* leaves that in the middle of the log.                                   *)
CompleteAndLog(p, k) ==
  /\ Completes(p, k)
  /\ Logs(p, k)
  /\ SetSlot(p, k, "ready")
  /\ Believe(p, k)
  /\ recorded' = [recorded EXCEPT ![p] = @ \cup {k}]
  /\ head' = FirstLine
  /\ IF tail = "cut"
     THEN UNCHANGED <<entries, lines>>
     ELSE /\ entries' = entries \cup {<<k, FingerprintOf[p][ArrayOf[k]]>>}
          /\ lines' = lines + 1
  /\ tail' = IF tail = "cut" THEN "glued" ELSE "whole"
  /\ broken' = (broken \/ tail = "glued")
  /\ UNCHANGED <<file, temps, pc, history>>

(* The disk is full: the line is cut short, or not written at all, and the *)
(* write raises.  The slot has been READY since before the write.          *)
AppendFails(p, k) ==
  /\ Completes(p, k)
  /\ Logs(p, k)
  /\ shortWrites < MaxShortWrites
  /\ shortWrites' = shortWrites + 1
  /\ short' = short \cup {p}
  /\ SetSlot(p, k, "ready")
  /\ Believe(p, k)
  /\ \/ /\ tail' = "cut"
        /\ head' = FirstLine
        /\ broken' = (broken \/ tail = "glued")
     \/ UNCHANGED <<tail, head, broken>>
  /\ UNCHANGED <<file, entries, temps, lines, recorded, pc, opens>>

(* The exception reaches the coroutine, which poisons the slot in a        *)
(* critical section of its own, unless it was cancelled.  Until then the   *)
(* chunk is served, and may be evicted and revived.                        *)
FailUnlogged(p, k) ==
  /\ Uses(p, k)
  /\ slot[p][k] = "ready"
  /\ Logs(p, k)
  /\ SetSlot(p, k, "failed")
  /\ UNCHANGED <<disk, persisted, recorded, pc, history>>

(* _drop: a READY entry of a persisting pool keeps its file; any other     *)
(* slot takes its file with it.                                            *)
Drop(p, k) ==
  /\ Uses(p, k)
  /\ slot[p][k] # "none"
  /\ <<p, k>> \notin temps
  /\ SetSlot(p, k, "none")
  /\ file' = IF k \in Mapped(p) /\ ~(Persistent(p) /\ slot[p][k] = "ready")
             THEN [file EXCEPT ![k] = NoFile] ELSE file
  /\ UNCHANGED <<head, entries, tail, broken, temps, lines, persisted, recorded, pc, history>>

-----------------------------------------------------------------------------
(* Closing, and dying.                                                     *)

(* close frees every slot as _drop would, then gives the lock back.        *)
FreeSlots(p) ==
  /\ pc[p] = "open"
  /\ \A k \in Key : <<p, k>> \notin temps
  /\ file' = [k \in Key |->
                IF k \in Mapped(p) /\ ~(Persistent(p) /\ slot[p][k] = "ready")
                THEN NoFile ELSE file[k]]
  /\ slot' = [slot EXCEPT ![p] = NoSlots]
  /\ Goto(p, "freed")
  /\ UNCHANGED <<head, entries, tail, broken, temps, lines, persisted, recorded, history>>

ReleaseLock(p) ==
  /\ pc[p] = "freed"
  /\ Forget(p)
  /\ UNCHANGED <<disk, opens, shortWrites>>

(* What the log says of k is not what k's file holds.                      *)
Listed(e) == [print |-> e[2], whole |-> TRUE]
Clobbers(p) == \E e \in entries : e[1] \in Mapped(p) /\ file[e[1]] # Listed(e)

Crash(p) ==
  /\ HoldsLock(p)
  /\ pc[p] = "headerless" => DiesHeaderless
  /\ Clobbers(p) => DiesClobbering
  /\ Forget(p)
  /\ UNCHANGED <<disk, opens, shortWrites>>

OpeningStep(p) ==
  \/ Open(p) \/ LoadCold(p) \/ LoadRefuses(p) \/ LoadResets(p) \/ LoadEntries(p)
  \/ UnlinkStale(p) \/ UnlinkLog(p) \/ KeepSurvivors(p)
  \/ CompactWrite(p) \/ CompactRename(p) \/ OpenLog(p)
  \/ WriteHeader(p) \/ HeaderFails(p)

SlotStep(p, k) ==
  \/ Revive(p, k) \/ Admit(p, k) \/ AllocTemp(p, k) \/ AllocRename(p, k)
  \/ Fill(p, k) \/ Complete(p, k) \/ CompleteAndLog(p, k)
  \/ AppendFails(p, k) \/ FailUnlogged(p, k) \/ Drop(p, k)

Next ==
  \E p \in Proc :
    \/ OpeningStep(p)
    \/ \E k \in Key : SlotStep(p, k)
    \/ FreeSlots(p) \/ ReleaseLock(p) \/ Crash(p)

Spec == Init /\ [][Next]_vars

-----------------------------------------------------------------------------
(* Properties.                                                             *)

(* Every variable has the type of what it stands for on disk or in the     *)
(* pool's memory, and a log without a first line has no other.             *)
TypeOK ==
  /\ file \in [Key -> Files]
  /\ head \in Head
  /\ entries \subseteq Key \X Fingerprint
  /\ tail \in {"whole", "cut", "glued"}
  /\ broken \in BOOLEAN
  /\ head \in {"missing", "empty"} => entries = {} /\ tail = "whole" /\ ~broken
  /\ temps \subseteq Proc \X (Key \cup {"log"})
  /\ lines \in Nat
  /\ pc \in [Proc -> PC]
  /\ slot \in [Proc -> [Key -> Slots]]
  /\ persisted \in [Proc -> SUBSET Key]
  /\ recorded \in [Proc -> SUBSET Key]
  /\ opens \in 0 .. MaxOpens
  /\ shortWrites \in 0 .. MaxShortWrites
  /\ short \in SUBSET Proc

(* What a process serves, fetched or revived, is a complete chunk made by  *)
(* its own pipeline (pool.py, _revive, _load_log, _record_completed).      *)
ServedIsMine ==
  \A p \in Proc, k \in Key :
    slot[p][k] = "ready" => file[k] = [print |-> FingerprintOf[p][ArrayOf[k]], whole |-> TRUE]

(* Whenever no writer is alive, each file the log names is what the log    *)
(* says it is, or gone: that is what the next run relies on (pool.py,      *)
(* _advance: a crash "still leaves a usable cache").                       *)
LogIsTruthful ==
  (\A p \in Proc : HoldsLock(p) => ~Writes(p))
    => \A e \in entries : file[e[1]] \in {NoFile, Listed(e)}

(* A finished chunk of a persisting run is in the log from the moment it   *)
(* is served, so dying does not lose it (pool.py, _record_completed), as   *)
(* long as no line of this run has been cut short, whatever happened to    *)
(* the lines of the runs before it.                                        *)
ReadyIsLogged ==
  \A p \in Proc \ short, k \in Key :
    Persistent(p) /\ slot[p][k] = "ready" => <<k, FingerprintOf[p][ArrayOf[k]]>> \in entries

(* The same without the proviso: "a killed process still leaves every      *)
(* finished chunk in the log" (pool.py, _record_completed).  A full disk   *)
(* refutes it.                                                             *)
EveryReadyIsLogged ==
  \A p \in Proc, k \in Key :
    Persistent(p) /\ slot[p][k] = "ready" => <<k, FingerprintOf[p][ArrayOf[k]]>> \in entries

(* While one process has a file of the cache mapped, no other can write    *)
(* there (pool.py, close: "hold the lock for as long as you hold a         *)
(* mapping").                                                              *)
MappedUnderLock ==
  \A p, q \in Proc :
    p # q /\ Mapped(p) # {} /\ HoldsLock(q) => ~Writes(p) /\ ~Writes(q)

(* The log has one line per completed key, however often it is completed   *)
(* and whoever reopens it (pool.py, _recorded).                            *)
NoDuplicateLine == lines = Cardinality(entries)

(* No sequence of runs, resets and crashes makes the directory look        *)
(* tampered with (pool.py, _load_log), as long as no write to the log was  *)
(* ever cut short.                                                         *)
NoFalseCorruption == shortWrites = 0 => \A p \in Proc : pc[p] # "corrupt"

(* Only a reset takes an entry away, and only a stale one; a run changes   *)
(* no file of an array it does not read, unless the format is another one  *)
(* (pool.py, _load_log, _drop_stale_arrays, _compact).                     *)
ResetTakesOnlyStale ==
  [][/\ \A e \in entries \ entries' :
          \E p \in Resets : pc[p] \in {"dropping", "compacting"} /\ e \in Doomed(p)
     /\ \A k \in Key : file'[k] # file[k] =>
          \E p \in Proc :
            /\ HoldsLock(p)
            /\ Writes(p)
            /\ ArrayOf[k] \in Reads[p] \/ (pc[p] = "dropping" /\ head # VersionOf[p])]_vars
=============================================================================
