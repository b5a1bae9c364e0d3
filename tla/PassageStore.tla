---------------------------- MODULE PassageStore ----------------------------
(***************************************************************************)
(* One context's passages: the snapshot, the log and the legacy file on    *)
(* disk, the resident store that serves them, and the requests, compactions*)
(* and evictions that share it.                                            *)
(*                                                                         *)
(* An eviction takes the resident store out of its slot; the next request  *)
(* loads another one from disk.  Whoever still holds the old one goes on   *)
(* with it, so several instances can be live: stores holds the ones some   *)
(* thread or the slot still refers to.  A passage is the number of the write *)
(* that stored it, 0 stands for none; sizes are counted in records.        *)
(***************************************************************************)
EXTENDS Integers, Sequences, FiniteSets

CONSTANTS
  Threads,
  Free,         \* a lock is held by nobody
  Sources,
  StoreKeys,    \* the sources a store request may carry, in key order
  LegacyMap,    \* the passages of the pre-migration file
  Floor,        \* COMPACT_FLOOR_BYTES
  Cap,          \* max_log_bytes, 0 for no cap
  MaxWrites,    \* bound: store requests
  MaxRetracts,  \* bound: retract requests
  MaxFaults     \* bound: failed disk operations and crashes

ASSUME PassageConstants ==
  /\ {Floor, Cap, MaxWrites, MaxRetracts, MaxFaults} \subseteq Nat
  /\ IsFiniteSet(Threads) /\ IsFiniteSet(Sources) /\ Free \notin Threads
  /\ LegacyMap \in [Sources -> 0..1]
  /\ StoreKeys \subseteq Seq(Sources) \ {<<>>}

VARIABLES
  snap,      \* the snapshot: whether it exists, its map and its watermark
  legacy,    \* the pre-migration file: whether it exists and its map
  log,       \* the log's records, in file order
  tail,      \* how the log ends: clean, torn (a line is cut short), or fused (a torn
             \* line runs into the next one, and no load accepts the log)
  stores,    \* the instances in use
  slot,      \* the entry's resident instance, 0 when there is none
  slotlock,  \* holder of the slot's lock
  admission, \* holder of the entry's admission lock
  th,        \* per thread: program counter and locals
  writes,    \* history: store requests
  retracts,  \* history: retract requests
  split,     \* history: has an instance been loaded over one still in use?
  leaked,    \* history: is there a refused batch in the log that memory does not have?
  faults     \* history

disk == <<snap, legacy, log, tail>>
vars == <<disk, stores, slot, slotlock, admission, th, writes, retracts, split, leaked, faults>>

-----------------------------------------------------------------------------
(* What the files say *)

Empty == [s \in Sources |-> 0]

\* wal::replay: records above the watermark, the later of two with one number.
Survivors(wm) ==
  { i \in 1..Len(log) : log[i].seq > wm /\ \A j \in 1..Len(log) : log[j].seq = log[i].seq => j <= i }
Top(wm) == LET ns == {wm} \cup { log[i].seq : i \in 1..Len(log) }
           IN CHOOSE n \in ns : \A m \in ns : m <= n

\* load: the snapshot or else the legacy file or else nothing, and the log over it.
Base == IF snap.here THEN snap.map ELSE IF legacy THEN LegacyMap ELSE Empty
Recovered ==
  [s \in Sources |->
     LET on == { i \in Survivors(snap.wm) : log[i].src = s }
     IN IF on = {} THEN Base[s]
        ELSE log[CHOOSE i \in on : \A j \in on : log[j].seq <= log[i].seq].val]

Size(map) == Cardinality({ s \in Sources : map[s] # 0 })

\* PassageStore::load, with the torn tail healed.
MutLoaded == [map |-> Recovered, next |-> snap.wm + 1, logb |-> Len(log),
              snapb |-> IF snap.here THEN Size(snap.map) ELSE 0, lock |-> Free]
Loaded == [map |-> Recovered, next |-> Top(snap.wm) + 1, logb |-> Len(log),
           snapb |-> IF snap.here THEN Size(snap.map) ELSE 0, lock |-> Free]

-----------------------------------------------------------------------------
(* Requests *)

Ids == 1..(Cardinality(Threads) + 1)
NoStore == [map |-> Empty, next |-> 0, logb |-> 0, snapb |-> 0, lock |-> Free]
FreshId == CHOOSE i \in Ids : stores[i] = NoStore

Idle == [pc |-> "idle", kind |-> "none", ops |-> <<>>, st |-> 0, map |-> Empty, seen |-> 0]
Fault == faults < MaxFaults /\ faults' = faults + 1
InCall == { t \in Threads : th[t].kind # "none" }
My(t) == stores[th[t].st]

\* store_passages: under the entry's shared fence and the admission lock, a batch of
\* one record per source.
StartStore(t) ==
  /\ th[t].pc = "idle" /\ admission = Free /\ writes < MaxWrites
  /\ \E keys \in StoreKeys :
       th' = [th EXCEPT ![t] = [Idle EXCEPT !.pc = "open", !.kind = "store",
                !.ops = [i \in 1..Len(keys) |-> [src |-> keys[i], val |-> writes + 2]]]]
  /\ admission' = t /\ writes' = writes + 1
  /\ UNCHANGED <<disk, stores, slot, slotlock, retracts, split, leaked, faults>>

\* retract_source's passage half and the compact request take the fence only.
StartRetract(t) ==
  /\ th[t].pc = "idle" /\ retracts < MaxRetracts
  /\ \E s \in Sources :
       th' = [th EXCEPT ![t] = [Idle EXCEPT !.pc = "open", !.kind = "retract",
                                            !.ops = <<[src |-> s, val |-> 0]>>]]
  /\ retracts' = retracts + 1
  /\ UNCHANGED <<disk, stores, slot, slotlock, admission, writes, split, leaked, faults>>

StartCompact(t) ==
  /\ th[t].pc = "idle" /\ (log # <<>> \/ snap.here)
  /\ th' = [th EXCEPT ![t] = [Idle EXCEPT !.pc = "open", !.kind = "compact"]]
  /\ UNCHANGED <<disk, stores, slot, slotlock, admission, writes, retracts, split, leaked, faults>>

\* A load, which heals a torn tail in place.
Load ==
  /\ tail # "fused" /\ tail' = "clean"
  /\ stores' = [stores EXCEPT ![FreshId] = Loaded]
  /\ slot' = FreshId
  /\ split' = (split \/ \E u \in Threads : th[u].st # 0)
  /\ leaked' = FALSE

\* entry_passages: the resident instance, or one loaded from disk under the slot's lock.
Open(t) ==
  /\ th[t].pc = "open" /\ slotlock = Free
  /\ IF slot # 0
     THEN /\ th' = [th EXCEPT ![t].pc = "held", ![t].st = slot]
          /\ UNCHANGED <<tail, stores, slot, split, leaked>>
     ELSE /\ Load
          /\ th' = [th EXCEPT ![t].pc = "held", ![t].st = slot']
  /\ UNCHANGED <<snap, legacy, log, slotlock, admission, writes, retracts, faults>>

\* A search or lookup loads the store too and then only reads it.
Read ==
  /\ slot = 0 /\ slotlock = Free /\ Load
  /\ UNCHANGED <<snap, legacy, log, slotlock, admission, th, writes, retracts, faults>>

\* The end of a request or an eviction: its locks are released, and its instance goes
\* with the last reference to it.
Ends(t, now) ==
  /\ th' = [th EXCEPT ![t] = Idle]
  /\ stores' = [i \in Ids |-> IF i = slot \/ \E u \in Threads \ {t} : th[u].st = i
                             THEN now[i] ELSE NoStore]
  /\ admission' = IF admission = t THEN Free ELSE admission
  /\ slotlock' = IF slotlock = t THEN Free ELSE slotlock

\* The load fails (and is quarantined): the request is refused.
OpenFails(t) ==
  /\ th[t].pc = "open" /\ slotlock = Free /\ slot = 0
  /\ Fault \/ (tail = "fused" /\ UNCHANGED faults)
  /\ Ends(t, stores)
  /\ UNCHANGED <<disk, slot, writes, retracts, split, leaked>>

-----------------------------------------------------------------------------
(* Writing *)

Capped(s) == Cap > 0 /\ s.logb >= Cap /\ s.logb >= 2 * s.snapb

\* Under the instance's writer lock: a store over the backstop is refused, a retract
\* of nothing answers at once, a store that was never written to is not compacted.
Declines(t) ==
  \/ th[t].kind = "store" /\ Capped(My(t))
  \/ th[t].kind = "retract" /\ My(t).map[th[t].ops[1].src] = 0
  \/ th[t].kind = "compact" /\ My(t).next = 1

Begin(t) ==
  /\ th[t].pc = "held" /\ My(t).lock = Free /\ ~Declines(t)
  /\ stores' = [stores EXCEPT ![th[t].st].lock = t]
  /\ th' = [th EXCEPT ![t].pc = IF th[t].ops = <<>> THEN "read" ELSE "append"]
  /\ UNCHANGED <<disk, slot, slotlock, admission, writes, retracts, split, leaked, faults>>

Decline(t) ==
  /\ th[t].pc = "held" /\ My(t).lock = Free /\ Declines(t)
  /\ Ends(t, stores)
  /\ UNCHANGED <<disk, slot, writes, retracts, split, leaked, faults>>

Records(t, k) ==
  [i \in 1..k |-> [seq |-> My(t).next + i - 1, src |-> th[t].ops[i].src, val |-> th[t].ops[i].val]]

\* The first k of the batch's lines reach the file whole, and then perhaps part of one.
\* After a torn tail the first of them fuses with it.
Lands(t, k, end) ==
  /\ log' = log \o Records(t, k)
  /\ tail' = IF tail = "clean" THEN end ELSE IF tail = "torn" /\ k = 0 THEN "torn" ELSE "fused"

\* append_and_apply_locked: log first, synced.
AppendBatch(t) ==
  /\ th[t].pc = "append"
  /\ Lands(t, Len(th[t].ops), "clean")
  /\ th' = [th EXCEPT ![t].pc = "apply"]
  /\ UNCHANGED <<snap, legacy, stores, slot, slotlock, admission, writes, retracts, split, leaked, faults>>

\* A failed append refuses the batch, and nothing is applied.  Its rollback is best
\* effort: when that fails too, what landed stays behind, under numbers the next batch
\* is given again.
AppendFails(t) ==
  /\ th[t].pc = "append" /\ Fault
  /\ \/ UNCHANGED <<log, tail, leaked>>
     \/ /\ \E k \in 0..Len(th[t].ops), end \in {"clean", "torn"} :
             (k > 0 \/ end = "torn") /\ Lands(t, k, end)
        /\ leaked' = TRUE
  /\ Ends(t, [stores EXCEPT ![th[t].st].lock = Free])
  /\ UNCHANGED <<snap, legacy, slot, writes, retracts, split>>

\* ... then memory, and a compaction when the log has outgrown the snapshot.
After(map, ops) ==
  [s \in Sources |->
     LET on == { i \in 1..Len(ops) : ops[i].src = s }
     IN IF on = {} THEN map[s] ELSE ops[CHOOSE i \in on : \A j \in on : j <= i].val]
OverRatio(s) == s.logb > Floor /\ s.logb > s.snapb

Apply(t) ==
  LET n == Len(th[t].ops)
      s == [My(t) EXCEPT !.map = After(@, th[t].ops), !.next = @ + n, !.logb = @ + n]
  IN /\ th[t].pc = "apply"
     /\ IF OverRatio(s)
        THEN /\ stores' = [stores EXCEPT ![th[t].st] = s]
             /\ th' = [th EXCEPT ![t].pc = "read"]
             /\ UNCHANGED <<slotlock, admission>>
        ELSE Ends(t, [stores EXCEPT ![th[t].st] = [s EXCEPT !.lock = Free]])
     /\ UNCHANGED <<disk, slot, writes, retracts, split, leaked, faults>>

-----------------------------------------------------------------------------
(* compact_locked, under the writer lock *)

ReadMap(t) ==
  /\ th[t].pc = "read"
  /\ th' = [th EXCEPT ![t].pc = "write", ![t].map = My(t).map, ![t].seen = My(t).next]
  /\ UNCHANGED <<disk, stores, slot, slotlock, admission, writes, retracts, split, leaked, faults>>

\* The snapshot's rename is durable before the legacy file goes.
WriteSnapshot(t) ==
  /\ th[t].pc = "write"
  /\ snap' = [here |-> TRUE, map |-> th[t].map, wm |-> th[t].seen - 1]
  /\ th' = [th EXCEPT ![t].pc = "retire"]
  /\ UNCHANGED <<legacy, log, tail, stores, slot, slotlock, admission, writes, retracts, split, leaked, faults>>

\* A failure is only logged; the write that led here stays acknowledged.
CompactFails(t) ==
  /\ th[t].pc = "write" /\ Fault
  /\ Ends(t, [stores EXCEPT ![th[t].st].lock = Free])
  /\ UNCHANGED <<disk, slot, writes, retracts, split, leaked>>

RetireLegacy(t) ==
  /\ th[t].pc = "retire"
  /\ \/ legacy' = FALSE /\ UNCHANGED faults
     \/ legacy /\ UNCHANGED legacy /\ Fault
  /\ th' = [th EXCEPT ![t].pc = "reset"]
  /\ UNCHANGED <<snap, log, tail, stores, slot, slotlock, admission, writes, retracts, split, leaked>>

\* The log is emptied only when no write landed since the map was read; a failed
\* reset leaves records the watermark covers.
Reset(t) ==
  /\ th[t].pc = "reset"
  /\ LET s == [My(t) EXCEPT !.snapb = Size(th[t].map), !.lock = Free]
     IN \/ /\ My(t).next = th[t].seen /\ log' = <<>> /\ tail' = "clean" /\ leaked' = FALSE
           /\ Ends(t, [stores EXCEPT ![th[t].st] = [s EXCEPT !.logb = 0]]) /\ UNCHANGED faults
        \/ /\ My(t).next = th[t].seen /\ UNCHANGED <<log, tail, leaked>>
           /\ Ends(t, [stores EXCEPT ![th[t].st] = s]) /\ Fault
        \/ /\ My(t).next # th[t].seen /\ UNCHANGED <<log, tail, leaked, faults>>
           /\ Ends(t, [stores EXCEPT ![th[t].st] = s])
  /\ UNCHANGED <<snap, legacy, slot, writes, retracts, split>>

-----------------------------------------------------------------------------
(* Eviction *)

\* evict_entry's exclusive section waits out every request's fence and then ends ...
StartEvict(t) ==
  /\ th[t].pc = "idle" /\ InCall = {} /\ slot # 0
  /\ th' = [th EXCEPT ![t].pc = "evict"]
  /\ UNCHANGED <<disk, stores, slot, slotlock, admission, writes, retracts, split, leaked, faults>>

\* ... before the slot is emptied; the taken instance is compacted with the slot locked.
TakeSlot(t) ==
  /\ th[t].pc = "evict" /\ slotlock = Free
  /\ slot' = 0
  /\ IF slot # 0 /\ stores[slot].logb > 0
     THEN /\ th' = [th EXCEPT ![t] = [Idle EXCEPT !.pc = "taken", !.st = slot]]
          /\ slotlock' = t /\ UNCHANGED stores
     ELSE /\ th' = [th EXCEPT ![t] = Idle] /\ UNCHANGED slotlock
          /\ stores' = [i \in Ids |-> IF \E u \in Threads : th[u].st = i THEN stores[i] ELSE NoStore]
  /\ UNCHANGED <<disk, admission, writes, retracts, split, leaked, faults>>

MutCompactTaken(t) ==
  /\ th[t].pc = "taken"
  /\ th' = [th EXCEPT ![t].pc = "read"]
  /\ UNCHANGED <<disk, stores, slot, slotlock, admission, writes, retracts, split, leaked, faults>>
CompactTaken(t) ==
  /\ th[t].pc = "taken" /\ My(t).lock = Free
  /\ stores' = [stores EXCEPT ![th[t].st].lock = t]
  /\ th' = [th EXCEPT ![t].pc = "read"]
  /\ UNCHANGED <<disk, slot, slotlock, admission, writes, retracts, split, leaked, faults>>

-----------------------------------------------------------------------------
\* The process dies; of a batch being appended any complete records may be on disk
\* (a torn one is healed away by the load).
Crash ==
  /\ Fault
  /\ \/ UNCHANGED <<log, tail>>
     \/ \E t \in Threads : \E k \in 1..Len(th[t].ops) : th[t].pc = "append" /\ Lands(t, k, "clean")
  /\ leaked' = (leaked /\ tail' = "fused")
  /\ stores' = [i \in Ids |-> NoStore] /\ slot' = 0 /\ slotlock' = Free /\ admission' = Free
  /\ th' = [t \in Threads |-> Idle]
  /\ UNCHANGED <<snap, legacy, writes, retracts, split>>

Init ==
  /\ legacy \in BOOLEAN
  /\ snap = [here |-> FALSE, map |-> Empty, wm |-> 0]
  /\ log = <<>> /\ tail = "clean" /\ stores = [i \in Ids |-> NoStore] /\ slot = 0 /\ slotlock = Free /\ admission = Free
  /\ th = [t \in Threads |-> Idle]
  /\ writes = 0 /\ retracts = 0 /\ split = FALSE /\ leaked = FALSE /\ faults = 0

Next ==
  \/ \E t \in Threads :
       \/ StartStore(t) \/ StartRetract(t) \/ StartCompact(t) \/ Open(t) \/ OpenFails(t)
       \/ Begin(t) \/ Decline(t) \/ AppendBatch(t) \/ AppendFails(t) \/ Apply(t)
       \/ ReadMap(t) \/ WriteSnapshot(t) \/ CompactFails(t) \/ RetireLegacy(t) \/ Reset(t)
       \/ StartEvict(t) \/ TakeSlot(t) \/ CompactTaken(t)
  \/ Read \/ Crash

Spec == Init /\ [][Next]_vars

-----------------------------------------------------------------------------
(* Properties *)

Landed(t) == th[t].pc \in {"apply", "read", "write", "retire", "reset"}
Calls == [t \in Threads |-> IF th[t].ops = <<>> THEN [ops |-> <<>>, done |-> FALSE]
                            ELSE [ops |-> th[t].ops, done |-> Landed(t)]]
AllBatches ==
  { [i \in 1..Len(keys) |-> [src |-> keys[i], val |-> v]] : keys \in StoreKeys, v \in 2..(MaxWrites + 1) }
    \cup { <<[src |-> s, val |-> 0]>> : s \in Sources }

M == INSTANCE DurableMap WITH Callers <- Threads, Batches <- AllBatches,
                              map <- Recovered, calls <- Calls

\* The files, as a load would read them at any moment, are the durable map the store
\* promises: only a batch's own append changes what they say; snapshots, resets, the
\* legacy file's removal, loads and every failure leave it alone.  Two things excuse a
\* step: a second instance was loaded over one in use (see EvictionLosesNothing), or a
\* refused batch's rollback failed, which wal.rs accepts; the promise holds again once
\* the store was loaded afresh or its log emptied.
KeepsTheMap == [][M!Next \/ split' \/ leaked \/ leaked']_(M!vars)

\* engine.rs of the eviction: dropping the passage store loses nothing.
EvictionLosesNothing == [][M!Next]_(M!vars)

\* What requests are served from memory is what a restart would bring back, unless a
\* batch is just between its log record and its memory, and the store's numbering has
\* not fallen behind the log's (with the exceptions of KeepsTheMap).
ServedIsDurable ==
  slot # 0 /\ ~split /\ ~leaked /\ stores[slot].lock = Free =>
    /\ stores[slot].map = Recovered
    /\ stores[slot].next = Top(snap.wm) + 1
=============================================================================
