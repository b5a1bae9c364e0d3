---------------------------- MODULE ContextStore ----------------------------
(***************************************************************************)
(* The durability engine of one taguru context: the entry that holds its   *)
(* graph in memory, its image file, its sidecar's graph revision and its   *)
(* write-ahead log, under concurrent writes, flushes, evictions,           *)
(* compactions, cold loads and a delete, with disk faults and crashes.     *)
(*                                                                         *)
(* A graph is the set of operations applied to it; an operation is a       *)
(* number drawn afresh for every attempt, and `ok' says whether the graph  *)
(* accepts it.  The log is a sequence of records, one unit of length each; *)
(* a torn last line is the separate field `tail'.                          *)
(***************************************************************************)
EXTENDS Integers, Sequences, FiniteSets

CONSTANTS
  Threads,      \* request handlers, the flusher and the budget sweep alike
  Batches,      \* batches a client may send: sequences of "does the graph accept it"
  WalEnabled,   \* TAGURU_WAL
  Shipping,     \* a replication shipper may hold back the log reset
  QuotaGated,   \* a storage ceiling is declared and may refuse a batch
  WalCap,       \* TAGURU_WAL_MAX_BYTES, in records; 0 means no cap
  Faults,       \* kinds of failure this instance explores
  MaxFaults,    \* bound: failures per behaviour
  MaxOps,       \* bound: operations attempted
  MaxCrashes,   \* bound: process crashes
  MaxGen,       \* bound: image generations of one process
  Flusher       \* the thread that runs the periodic flush

FaultKinds == {"append", "leak", "trim", "reappend", "releak", "panic", "load",
               "stage", "meta", "commit", "reset", "resetsync"}

ASSUME ConstantsOK ==
  /\ Batches \subseteq Seq(BOOLEAN)
  /\ {WalEnabled, Shipping, QuotaGated} \subseteq BOOLEAN
  /\ Faults \subseteq FaultKinds
  /\ {WalCap, MaxFaults, MaxOps, MaxCrashes, MaxGen} \subseteq Nat

ASSUME FlusherIsThread == Flusher \in Threads

ASSUME BatchesNonEmpty == \A b \in Batches : Len(b) > 0

VARIABLES
  entry,     \* EntryInner: slot, graph, walSeq, walBytes, rev, gen, quarantined
  dirty,     \* Entry.dirty
  flushing,  \* Entry.flushing
  lock,      \* holder of Entry.inner's exclusive lock, or Free
  disk,      \* the context's files
  th,        \* every thread's program counter and locals
  acked,     \* history: operations whose client was told they succeeded
  refused,   \* history: operations whose client was told they failed
  exposed,   \* history: told either way although the recovery flush was missed
  nextId,    \* history: the next operation
  faults,    \* history: failures so far
  crashes    \* history: crashes so far

history == <<acked, refused, exposed, nextId, faults, crashes>>
vars == <<entry, dirty, flushing, lock, disk, th, history>>

Free == "free"
ASSUME FreeIsNoThread == Free \notin Threads

-----------------------------------------------------------------------------
(* The log file *)

Record == [seq : Nat, id : Nat, ok : BOOLEAN]
Tails == {"clean", "fragment", "unterminated"}

\* The lines append_batch writes for a batch numbered from `first'.
RecordsOf(first, base, batch) ==
  [i \in 1..Len(batch) |-> [seq |-> first + i - 1, id |-> base + i - 1, ok |-> batch[i]]]

\* An append writes after whatever the file ends in; after a torn line the two
\* fuse into a line that decodes as neither, and `fused' is its position.
AppendLog(d, recs, tail) ==
  IF recs = <<>> /\ tail = "clean" THEN d
  ELSE [d EXCEPT !.log = @ \o recs, !.tail = tail,
                 !.fused = IF @ = 0 /\ d.tail # "clean" THEN Len(d.log) + 1 ELSE @]

\* What a write cut short (by a crash, or by an error whose rollback failed too)
\* can leave: some of the lines, the last one possibly torn.
PartialAppends(d, recs) ==
  { AppendLog(d, SubSeq(recs, 1, p[1]), p[2]) :
      p \in { q \in (0..Len(recs)) \X Tails :
                /\ q[2] = "fragment" => q[1] < Len(recs)
                /\ q[2] = "unterminated" => q[1] > 0 } }

\* truncate_to refuses a length beyond the file's own.
Truncatable(d, len) == len <= Len(d.log)
TruncateTo(d, len) ==
  [d EXCEPT !.log = SubSeq(@, 1, len), !.tail = "clean",
            !.fused = IF @ > len THEN 0 ELSE @]

\* parse_log keys records by seq; a later duplicate replaces an earlier one.
Winning(log) ==
  { i \in DOMAIN log : \A j \in DOMAIN log : j > i => log[j].seq # log[i].seq }

\* Records above the image's watermark are replayed, rejected ones skipped over.
Replayable(d) == { i \in Winning(d.log) : d.log[i].ok /\ d.log[i].seq > d.image.wm }
Recovered(d) == d.image.ops \cup { d.log[i].id : i \in Replayable(d) }

\* The highest seq the log or the image knows; the next write numbers from it.
Seqs(d) == {d.image.wm} \cup { d.log[i].seq : i \in DOMAIN d.log }
TopSeq(d) == CHOOSE n \in Seqs(d) : \A m \in Seqs(d) : m <= n
MaxOf(a, b) == IF a >= b THEN a ELSE b

\* replay heals a torn tail in place: a fragment is cut, a whole record that
\* lost only its newline gets it back.
Heal(d) == [d EXCEPT !.tail = "clean"]

-----------------------------------------------------------------------------
(* State *)

Image == [ops : SUBSET Nat, wm : Nat]
Snapshot == [ops : SUBSET Nat, wm : Nat, gen : Nat, rev : Nat, exposed : SUBSET Nat]
NoSnapshot == [ops |-> {}, wm |-> 0, gen |-> 0, rev |-> 0, exposed |-> {}]

PCs == {"idle", "append", "retrim", "operate", "trim", "reappend",
        "flush", "claim", "stage", "publish", "commit", "truncate",
        "evict", "evcommit", "evtruncate", "evcool", "unlink"}
Conts == {"idle", "write", "evict"}

Idle == [pc |-> "idle", cont |-> "idle", batch |-> <<>>, base |-> 0, first |-> 0,
         len |-> 0, landed |-> 0, snap |-> NoSnapshot]

Init ==
  /\ entry = [slot |-> "Hot", graph |-> {}, walSeq |-> 1, walBytes |-> 0, rev |-> 0,
              gen |-> 0, quarantined |-> FALSE]
  /\ dirty = FALSE /\ flushing = FALSE /\ lock = Free
  /\ disk = [present |-> TRUE, image |-> [ops |-> {}, wm |-> 0], rev |-> 0,
             log |-> <<>>, tail |-> "clean", fused |-> 0]
  /\ th = [t \in Threads |-> Idle]
  /\ acked = {} /\ refused = {} /\ exposed = {}
  /\ nextId = 1 /\ faults = 0 /\ crashes = 0

At(t, pc) == th[t].pc = pc
Goto(t, pc) == th' = [th EXCEPT ![t].pc = pc]
Fault(kind) == kind \in Faults /\ faults < MaxFaults /\ faults' = faults + 1
NoFault == UNCHANGED faults

-----------------------------------------------------------------------------
(* ensure_hot: the image, plus what the log holds above its watermark *)

Loadable == entry.slot = "Hot" \/ (entry.slot = "Cold" /\ disk.fused = 0 /\ ~entry.quarantined)

LoadedEntry ==
  IF entry.slot = "Hot" THEN entry
  ELSE [entry EXCEPT !.slot = "Hot", !.graph = Recovered(disk),
                     !.walSeq = TopSeq(disk) + 1,
                     !.rev = MaxOf(entry.rev, TopSeq(disk)),
                     !.walBytes = Len(disk.log)]

MutHealedDisk == disk
HealedDisk == IF entry.slot = "Hot" THEN disk ELSE Heal(disk)

\* read_context: a hot entry is read under the shared lock, a cold one is loaded.
Read(t) ==
  /\ At(t, "idle") /\ lock = Free /\ Loadable
  /\ entry' = LoadedEntry /\ disk' = HealedDisk
  /\ UNCHANGED <<dirty, flushing, lock, th, history>>

\* A load that fails (unreadable image, fused log line, a tail that cannot be
\* healed) is remembered and answered from memory for a while.
LoadFails(t) ==
  /\ At(t, "idle") /\ lock = Free
  /\ entry.slot = "Cold" /\ ~entry.quarantined
  /\ (disk.fused > 0 /\ NoFault) \/ Fault("load")
  /\ entry' = [entry EXCEPT !.quarantined = TRUE]
  /\ UNCHANGED <<dirty, flushing, lock, disk, th, acked, refused, exposed, nextId, crashes>>

QuarantineLapses ==
  /\ entry.quarantined
  /\ entry' = [entry EXCEPT !.quarantined = FALSE]
  /\ UNCHANGED <<dirty, flushing, lock, disk, th, history>>

\* A read of a deleted context answers NotFound.
ReadDeleted(t) ==
  /\ At(t, "idle") /\ lock = Free /\ entry.slot = "Deleted"
  /\ UNCHANGED vars

-----------------------------------------------------------------------------
(* logged_write *)

Ids(base, n) == base..(base + n - 1)

\* apply_in_order stops at the first operation the graph rejects.
Landed(batch) == Cardinality({ i \in DOMAIN batch : \A j \in 1..i : batch[j] })

\* Under the lock, before anything is logged: the load, then the storage quota,
\* then the log's cap.  A refusal here leaves nothing behind but the load.
RefuseWrite(t) ==
  \E b \in Batches :
    /\ At(t, "idle") /\ lock = Free /\ Loadable
    /\ nextId + Len(b) - 1 <= MaxOps
    /\ \/ QuotaGated
       \/ WalEnabled /\ WalCap > 0 /\ LoadedEntry.walBytes >= WalCap
    /\ entry' = LoadedEntry /\ disk' = HealedDisk
    /\ refused' = refused \cup Ids(nextId, Len(b))
    /\ nextId' = nextId + Len(b)
    /\ UNCHANGED <<dirty, flushing, lock, th, acked, exposed, faults, crashes>>

BeginWrite(t) ==
  \E b \in Batches :
    /\ At(t, "idle") /\ lock = Free /\ Loadable
    /\ nextId + Len(b) - 1 <= MaxOps
    /\ ~(WalEnabled /\ WalCap > 0 /\ LoadedEntry.walBytes >= WalCap)
    /\ entry' = LoadedEntry /\ disk' = HealedDisk
    /\ lock' = t
    /\ th' = [th EXCEPT ![t] =
               [Idle EXCEPT !.pc = IF WalEnabled THEN "append" ELSE "operate",
                            !.batch = b, !.base = nextId, !.first = LoadedEntry.walSeq,
                            !.len = LoadedEntry.walBytes]]
    /\ nextId' = nextId + Len(b)
    /\ UNCHANGED <<dirty, flushing, acked, refused, exposed, faults, crashes>>

\* The client learns the outcome: the first `landed' operations succeeded.  When
\* the recovery flush was missed the answer is exposed to a crash until a flush
\* that started later has landed.
Answer(t, landed, missed) ==
  LET w == th[t] IN
  /\ acked' = acked \cup Ids(w.base, landed)
  /\ refused' = refused \cup Ids(w.base + landed, Len(w.batch) - landed)
  /\ exposed' = IF missed THEN exposed \cup Ids(w.base, Len(w.batch))
                 ELSE exposed \ w.snap.exposed
  /\ th' = [th EXCEPT ![t] = Idle]

\* The write-ahead append, synced before anything is applied.
AppendOk(t) ==
  LET w == th[t] IN
  /\ At(t, "append")
  /\ disk' = AppendLog(disk, RecordsOf(w.first, w.base, w.batch), "clean")
  /\ entry' = [entry EXCEPT !.walBytes = @ + Len(w.batch), !.walSeq = @ + Len(w.batch)]
  /\ Goto(t, "operate")
  /\ UNCHANGED <<dirty, flushing, lock, history>>

\* A failed append either left the log as it was (its own rollback worked) or
\* leaked some of its bytes.
AppendFails(t) ==
  LET w == th[t] IN
  /\ At(t, "append")
  /\ \/ Fault("append") /\ UNCHANGED disk
     \/ /\ Fault("leak")
        /\ disk' \in PartialAppends(disk, RecordsOf(w.first, w.base, w.batch))
  /\ Goto(t, "retrim")
  /\ UNCHANGED <<entry, dirty, flushing, lock, acked, refused, exposed, nextId, crashes>>

\* The rollback is retried once; nothing was applied, so the write is refused.
RetrimOk(t) ==
  LET w == th[t] IN
  /\ At(t, "retrim") /\ Truncatable(disk, w.len)
  /\ disk' = TruncateTo(disk, w.len)
  /\ lock' = Free
  /\ Answer(t, 0, FALSE)
  /\ UNCHANGED <<entry, dirty, flushing, nextId, faults, crashes>>

\* If that fails too the image is flushed right away, outside the lock.
RetrimFails(t) ==
  /\ At(t, "retrim")
  /\ IF Truncatable(disk, th[t].len) THEN Fault("trim") ELSE NoFault
  /\ dirty' = TRUE
  /\ lock' = Free
  /\ th' = [th EXCEPT ![t].pc = "flush", ![t].cont = "write", ![t].landed = 0]
  /\ UNCHANGED <<entry, flushing, disk, acked, refused, exposed, nextId, crashes>>

\* The revision counts what applied.
MutRevised(n) == entry.rev
Revised(n) == entry.rev + n

\* Records of rejected or untried operations are in the log.
MutMustTrim(w, n) == FALSE
MustTrim(w, n) == WalEnabled /\ n < Len(w.batch)

\* operate, recount, revision; a batch applied in full is done here.
Operate(t) ==
  LET w == th[t]
      n == Landed(w.batch) IN
  /\ At(t, "operate")
  /\ entry' = [entry EXCEPT !.graph = @ \cup Ids(w.base, n), !.rev = Revised(n)]
  /\ dirty' = TRUE
  /\ IF MustTrim(w, n)
       THEN /\ th' = [th EXCEPT ![t].pc = "trim", ![t].landed = n]
            /\ UNCHANGED <<lock, acked, refused, exposed>>
       ELSE Answer(t, n, FALSE) /\ lock' = Free
  /\ UNCHANGED <<flushing, disk, nextId, faults, crashes>>

\* operate panicked: the half-applied graph is dropped; its log records stand
\* and the next load replays them.  The client gets no answer.
OperatePanics(t) ==
  /\ At(t, "operate") /\ Fault("panic")
  /\ entry' = [entry EXCEPT !.slot = "Cold", !.graph = {}]
  /\ lock' = Free
  /\ th' = [th EXCEPT ![t] = Idle]
  /\ UNCHANGED <<dirty, flushing, disk, acked, refused, exposed, nextId, crashes>>

\* Part of the batch was rejected: rewind the log to before the batch ...
TrimOk(t) ==
  /\ At(t, "trim") /\ Truncatable(disk, th[t].len)
  /\ disk' = TruncateTo(disk, th[t].len)
  /\ Goto(t, "reappend")
  /\ UNCHANGED <<entry, dirty, flushing, lock, history>>

TrimFails(t) ==
  /\ At(t, "trim")
  /\ IF Truncatable(disk, th[t].len) THEN Fault("trim") ELSE NoFault
  /\ lock' = Free
  /\ th' = [th EXCEPT ![t].pc = "flush", ![t].cont = "write"]
  /\ UNCHANGED <<entry, dirty, flushing, disk, acked, refused, exposed, nextId, crashes>>

\* ... and log the applied prefix again (nothing to log is nothing to do).
Prefix(w) == RecordsOf(w.first, w.base, SubSeq(w.batch, 1, w.landed))

ReappendOk(t) ==
  LET w == th[t] IN
  /\ At(t, "reappend")
  /\ disk' = AppendLog(disk, Prefix(w), "clean")
  /\ entry' = [entry EXCEPT !.walBytes = w.len + w.landed, !.walSeq = w.first + w.landed]
  /\ lock' = Free
  /\ Answer(t, w.landed, FALSE)
  /\ UNCHANGED <<dirty, flushing, nextId, faults, crashes>>

ReappendFails(t) ==
  LET w == th[t] IN
  /\ At(t, "reappend") /\ w.landed > 0
  /\ \/ Fault("reappend") /\ UNCHANGED disk
     \/ Fault("releak") /\ disk' \in PartialAppends(disk, Prefix(w))
  /\ entry' = [entry EXCEPT !.walBytes = w.len, !.walSeq = w.first]
  /\ lock' = Free
  /\ th' = [th EXCEPT ![t].pc = "flush", ![t].cont = "write"]
  /\ UNCHANGED <<dirty, flushing, acked, refused, exposed, nextId, crashes>>

-----------------------------------------------------------------------------
(* flush_entry *)

\* The flusher's tick, POST /flush and the shutdown sweep: the one lock-free
\* read of `dirty'.
Tick(t) ==
  /\ At(t, "idle") /\ dirty
  /\ Goto(t, "claim")
  /\ UNCHANGED <<entry, dirty, flushing, lock, disk, history>>

\* flush_entry returned to its caller.
FlushReturns(t, ok) ==
  IF th[t].cont = "write" THEN Answer(t, th[t].landed, ~ok)
  ELSE /\ exposed' = IF ok THEN exposed \ th[t].snap.exposed ELSE exposed
       /\ th' = [th EXCEPT ![t] = IF @.cont = "evict" THEN [Idle EXCEPT !.pc = "evict"]
                                                      ELSE Idle]
       /\ UNCHANGED <<acked, refused>>

\* The same test when a write, an eviction or a compaction calls flush_entry.
FlushEntry(t) ==
  /\ At(t, "flush")
  /\ IF dirty THEN Goto(t, "claim") /\ UNCHANGED <<acked, refused, exposed>>
              ELSE FlushReturns(t, FALSE)
  /\ UNCHANGED <<entry, dirty, flushing, lock, disk, nextId, faults, crashes>>

\* The claim: nobody else is between here and publication.
MutFlushFree == TRUE
FlushFree == ~flushing

\* What a serialised graph covers: everything logged so far.
MutWatermarkHigh == entry.walSeq
MutWatermarkLow == IF entry.walSeq > 1 THEN entry.walSeq - 2 ELSE 0
MutWatermarkWrap == entry.walSeq - 2
Watermark == entry.walSeq - 1

\* Another flush of this entry is in flight, or there is no graph to write.
ClaimLost(t) ==
  /\ At(t, "claim") /\ lock = Free
  /\ ~FlushFree \/ entry.slot # "Hot"
  /\ dirty' = (~FlushFree /\ dirty)
  /\ FlushReturns(t, FALSE)
  /\ UNCHANGED <<entry, flushing, lock, disk, nextId, faults, crashes>>

\* Claim and snapshot in one critical section.
Claim(t) ==
  /\ At(t, "claim") /\ lock = Free
  /\ FlushFree /\ entry.slot = "Hot"
  /\ flushing' = TRUE
  /\ dirty' = FALSE
  /\ th' = [th EXCEPT ![t].pc = "stage",
                      ![t].snap = [ops |-> entry.graph, wm |-> Watermark,
                                   gen |-> entry.gen, rev |-> entry.rev, exposed |-> exposed]]
  /\ UNCHANGED <<entry, lock, disk, history>>

\* Writing and syncing the staged bytes, with the entry unlocked.
StageOk(t) ==
  /\ At(t, "stage")
  /\ Goto(t, "publish")
  /\ UNCHANGED <<entry, dirty, flushing, lock, disk, history>>

MutStageFails(t) ==
  /\ At(t, "stage") /\ Fault("stage")
  /\ flushing' = FALSE
  /\ FlushReturns(t, FALSE)
  /\ UNCHANGED <<entry, dirty, lock, disk, nextId, crashes>>
StageFails(t) ==
  /\ At(t, "stage") /\ Fault("stage")
  /\ dirty' = TRUE /\ flushing' = FALSE
  /\ FlushReturns(t, FALSE)
  /\ UNCHANGED <<entry, lock, disk, nextId, crashes>>

\* Is the graph this flush serialised still the one in the slot?
MutStillCurrent(t) == entry.slot = "Hot"
MutStillCurrentGen(t) == entry.gen = th[t].snap.gen
StillCurrent(t) == entry.slot = "Hot" /\ entry.gen = th[t].snap.gen

PublishBacksOff(t) ==
  /\ At(t, "publish") /\ lock = Free /\ ~StillCurrent(t)
  /\ flushing' = FALSE
  /\ FlushReturns(t, FALSE)
  /\ UNCHANGED <<entry, dirty, lock, disk, nextId, faults, crashes>>

\* The sidecar lands before the image it describes.
PublishMeta(t) ==
  /\ At(t, "publish") /\ lock = Free /\ StillCurrent(t)
  /\ disk' = [disk EXCEPT !.rev = th[t].snap.rev]
  /\ lock' = t
  /\ Goto(t, "commit")
  /\ UNCHANGED <<entry, dirty, flushing, history>>

PublishMetaFails(t) ==
  /\ At(t, "publish") /\ lock = Free /\ StillCurrent(t) /\ Fault("meta")
  /\ disk' \in {disk, [disk EXCEPT !.rev = th[t].snap.rev]}
  /\ dirty' = TRUE /\ flushing' = FALSE
  /\ FlushReturns(t, FALSE)
  /\ UNCHANGED <<entry, lock, nextId, crashes>>

Publish(d, ops, wm) == [d EXCEPT !.image = [ops |-> ops, wm |-> wm], !.present = TRUE]

\* The log may be reset only if the published image covers all of it.
MutCoversLog(t) == TRUE
CoversLog(t) == Watermark = th[t].snap.wm

CommitOk(t) ==
  LET s == th[t].snap IN
  /\ At(t, "commit")
  /\ disk' = Publish(disk, s.ops, s.wm)
  /\ IF CoversLog(t)
       THEN Goto(t, "truncate") /\ UNCHANGED <<lock, flushing, acked, refused, exposed>>
       ELSE lock' = Free /\ flushing' = FALSE /\ FlushReturns(t, TRUE)
  /\ UNCHANGED <<entry, dirty, nextId, faults, crashes>>

\* commit_staged renames, then syncs the directory: it can report failure with
\* the new image in place.
CommitFails(t) ==
  LET s == th[t].snap IN
  /\ At(t, "commit") /\ Fault("commit")
  /\ disk' \in {disk, Publish(disk, s.ops, s.wm)}
  /\ dirty' = TRUE /\ flushing' = FALSE /\ lock' = Free
  /\ FlushReturns(t, FALSE)
  /\ UNCHANGED <<entry, nextId, crashes>>

\* truncate_wal: a shipper that has not read the tail defers it while the log is
\* under half its cap; failure is shrugged off, whether or not the file shrank.
MutDeferCap == MaxOps + 1
DeferCap == IF WalCap = 0 THEN MaxOps + 1 ELSE WalCap \div 2

TruncateWal ==
  \/ /\ disk' = TruncateTo(disk, 0) /\ entry' = [entry EXCEPT !.walBytes = 0] /\ NoFault
  \/ Shipping /\ entry.walBytes < DeferCap /\ NoFault /\ UNCHANGED <<disk, entry>>
  \/ Fault("reset") /\ UNCHANGED <<disk, entry>>
  \/ Fault("resetsync") /\ disk' = TruncateTo(disk, 0) /\ UNCHANGED entry

FlushTruncates(t) ==
  /\ At(t, "truncate")
  /\ TruncateWal
  /\ lock' = Free /\ flushing' = FALSE
  /\ FlushReturns(t, TRUE)
  /\ UNCHANGED <<dirty, nextId, crashes>>

-----------------------------------------------------------------------------
(* evict_entry, compact_context, delete *)

\* The budget sweep picked this entry: flush it without the lock first.
EvictStarts(t) ==
  /\ At(t, "idle") /\ entry.slot = "Hot" /\ entry.gen < MaxGen
  /\ th' = [th EXCEPT ![t].pc = "flush", ![t].cont = "evict"]
  /\ UNCHANGED <<entry, dirty, flushing, lock, disk, history>>

ColdEntry == [entry EXCEPT !.slot = "Cold", !.graph = {}, !.gen = @ + 1]

\* Not saved yet: unflushed writes, or a rival flush whose bytes are not on disk.
MutMustSave == dirty
MustSave == dirty \/ flushing

\* Pinned since the sweep picked it: it stays.
EvictPinned(t) ==
  /\ At(t, "evict") /\ lock = Free
  /\ th' = [th EXCEPT ![t] = Idle]
  /\ UNCHANGED <<entry, dirty, flushing, lock, disk, history>>

EvictClean(t) ==
  /\ At(t, "evict") /\ lock = Free
  /\ entry.slot = "Hot" => ~MustSave
  /\ entry' = IF entry.slot = "Hot" THEN ColdEntry ELSE entry
  /\ th' = [th EXCEPT ![t] = Idle]
  /\ UNCHANGED <<dirty, flushing, lock, disk, history>>

\* save_files under the lock: sidecar, image, then the log is emptied.
EvictMeta(t) ==
  /\ At(t, "evict") /\ lock = Free /\ entry.slot = "Hot" /\ MustSave
  /\ disk' = [disk EXCEPT !.rev = entry.rev]
  /\ lock' = t
  /\ Goto(t, "evcommit")
  /\ UNCHANGED <<entry, dirty, flushing, history>>

EvictMetaFails(t) ==
  /\ At(t, "evict") /\ lock = Free /\ entry.slot = "Hot" /\ MustSave /\ Fault("meta")
  /\ disk' \in {disk, [disk EXCEPT !.rev = entry.rev]}
  /\ th' = [th EXCEPT ![t] = Idle]
  /\ UNCHANGED <<entry, dirty, flushing, lock, acked, refused, exposed, nextId, crashes>>

EvictCommit(t) ==
  /\ At(t, "evcommit")
  /\ disk' = Publish(disk, entry.graph, Watermark)
  /\ dirty' = FALSE
  /\ Goto(t, "evtruncate")
  /\ UNCHANGED <<entry, flushing, lock, history>>

EvictCommitFails(t) ==
  /\ At(t, "evcommit") /\ Fault("commit")
  /\ disk' \in {disk, Publish(disk, entry.graph, Watermark)}
  /\ lock' = Free
  /\ th' = [th EXCEPT ![t] = Idle]
  /\ UNCHANGED <<entry, dirty, flushing, acked, refused, exposed, nextId, crashes>>

EvictTruncates(t) ==
  /\ At(t, "evtruncate")
  /\ Goto(t, "evcool")
  /\ TruncateWal
  /\ UNCHANGED <<dirty, flushing, lock, acked, refused, exposed, nextId, crashes>>

EvictCools(t) ==
  /\ At(t, "evcool")
  /\ entry' = ColdEntry
  /\ lock' = Free
  /\ th' = [th EXCEPT ![t] = Idle]
  /\ UNCHANGED <<dirty, flushing, disk, history>>

\* The graph is rebuilt without its dead weight (its live content is the same)
\* and flushed at once.
Compact(t) ==
  /\ At(t, "idle") /\ lock = Free /\ Loadable /\ entry.gen < MaxGen
  /\ entry' = [LoadedEntry EXCEPT !.gen = @ + 1]
  /\ disk' = HealedDisk
  /\ dirty' = TRUE
  /\ Goto(t, "flush")
  /\ UNCHANGED <<flushing, lock, history>>

\* delete: the tombstone under the lock, then the files without it.
Delete(t) ==
  /\ At(t, "idle") /\ lock = Free /\ entry.slot # "Deleted"
  /\ entry' = [entry EXCEPT !.slot = "Deleted", !.graph = {}]
  /\ dirty' = FALSE
  /\ Goto(t, "unlink")
  /\ UNCHANGED <<flushing, lock, disk, history>>

Unlink(t) ==
  /\ At(t, "unlink")
  /\ disk' = [TruncateTo(disk, 0) EXCEPT !.present = FALSE]
  /\ th' = [th EXCEPT ![t] = Idle]
  /\ UNCHANGED <<entry, dirty, flushing, lock, history>>

-----------------------------------------------------------------------------
(* Crash and boot: the entry is registered cold from the files alone.  A crash *)
(* inside an append can leave part of it in the log.                           *)

CrashDisks ==
  UNION ( {{disk}} \cup
          { PartialAppends(disk, RecordsOf(th[t].first, th[t].base, th[t].batch)) :
              t \in { u \in Threads : At(u, "append") } } \cup
          { PartialAppends(disk, Prefix(th[t])) : t \in { u \in Threads : At(u, "reappend") } } )

Crash ==
  /\ crashes < MaxCrashes /\ disk.present
  /\ crashes' = crashes + 1
  /\ disk' \in CrashDisks
  /\ entry' = [slot |-> "Cold", graph |-> {}, walSeq |-> 1, walBytes |-> Len(disk'.log),
               rev |-> disk.rev, gen |-> 0, quarantined |-> FALSE]
  /\ dirty' = FALSE /\ flushing' = FALSE /\ lock' = Free
  /\ th' = [t \in Threads |-> Idle]
  /\ acked' = acked \ exposed /\ refused' = refused \ exposed /\ exposed' = {}
  /\ UNCHANGED <<nextId, faults>>

-----------------------------------------------------------------------------

WriteStep(t) ==
  \/ AppendOk(t) \/ AppendFails(t) \/ RetrimOk(t) \/ RetrimFails(t)
  \/ Operate(t) \/ OperatePanics(t) \/ TrimOk(t) \/ TrimFails(t)
  \/ ReappendOk(t) \/ ReappendFails(t)

FlushStep(t) ==
  \/ FlushEntry(t) \/ ClaimLost(t) \/ Claim(t) \/ StageOk(t) \/ StageFails(t)
  \/ PublishBacksOff(t) \/ PublishMeta(t) \/ PublishMetaFails(t)
  \/ CommitOk(t) \/ CommitFails(t) \/ FlushTruncates(t)

EvictStep(t) ==
  \/ EvictPinned(t) \/ EvictClean(t) \/ EvictMeta(t) \/ EvictMetaFails(t) \/ EvictCommit(t)
  \/ EvictCommitFails(t) \/ EvictTruncates(t) \/ EvictCools(t)

\* Steps a thread takes once it has started, and the calls that start it.
Continue(t) == WriteStep(t) \/ FlushStep(t) \/ EvictStep(t) \/ Unlink(t)
Call(t) ==
  \/ Read(t) \/ ReadDeleted(t) \/ LoadFails(t) \/ RefuseWrite(t) \/ BeginWrite(t)
  \/ Tick(t) \/ EvictStarts(t) \/ Compact(t) \/ Delete(t)

Next == (\E t \in Threads : Continue(t) \/ Call(t)) \/ QuarantineLapses \/ Crash

Spec == Init /\ [][Next]_vars

\* A started call runs on (locks are eventually granted, disk calls return), and
\* the flusher's interval timer keeps firing.
Fairness == (\A t \in Threads : WF_vars(Continue(t))) /\ WF_vars(Tick(Flusher))
FairSpec == Spec /\ Fairness

-----------------------------------------------------------------------------
(* Properties *)

Entry == [slot : {"Hot", "Cold", "Deleted"}, graph : SUBSET Nat, walSeq : Nat \ {0},
          walBytes : Nat, rev : Nat, gen : Nat, quarantined : BOOLEAN]
Disk == [present : BOOLEAN, image : Image, rev : Nat, log : Seq(Record),
         tail : Tails, fused : Nat]
Thread == [pc : PCs, cont : Conts, batch : Seq(BOOLEAN), base : Nat, first : Nat,
           len : Nat, landed : Nat, snap : Snapshot]

\* Every variable has the shape the code's types give it.
TypeOK ==
  /\ entry \in Entry
  /\ dirty \in BOOLEAN /\ flushing \in BOOLEAN
  /\ lock \in Threads \cup {Free}
  /\ disk \in Disk
  /\ th \in [Threads -> Thread]
  /\ acked \in SUBSET Nat /\ refused \in SUBSET Nat /\ exposed \in SUBSET Nat
  /\ nextId \in Nat \ {0} /\ faults \in Nat /\ crashes \in Nat

\* What a read of the context answers now, and the revision it reports.
Visible == IF entry.slot = "Hot" THEN entry.graph ELSE Recovered(disk)
VisibleRev == IF entry.slot = "Hot" THEN entry.rev ELSE MaxOf(entry.rev, TopSeq(disk))

Alive == entry.slot # "Deleted"

\* logged_write's contract "acknowledged means replayable": whatever a client was
\* told succeeded is rebuilt by a load of the files as they are at this instant,
\* in every state between two disk operations of any thread.
AckedDurable == WalEnabled /\ Alive => (acked \ exposed) \subseteq Recovered(disk)

\* An acknowledged write stays readable through flushes, evictions, reloads and
\* compactions, with the log on or off (evict_entry saves what a rival flush has
\* only staged).
AckedVisible == Alive => acked \subseteq Visible

\* An operation the client was told failed is never brought back: neither a read
\* nor a replay of the log sees it (the trim of a partly applied batch).
RefusedNeverReplays ==
  Alive => ((refused \ exposed) \cap (Visible \cup Recovered(disk))) = {}

\* No record the watermark leaves open repeats what the image already contains:
\* replay applies every operation once.
NoDoubleReplay ==
  \A i \in Replayable(disk) : disk.log[i].id \notin disk.image.ops

\* A torn tail is healed before anything can be appended after it: the log always
\* decodes, and nobody can append while its last line is torn.
LogDecodes ==
  /\ disk.fused = 0
  /\ entry.slot = "Hot" /\ lock = Free => disk.tail = "clean"

\* While a thread is between claim and publication of a flush the `flushing' flag
\* is up, and it is the only such thread.
InFlight(t) == th[t].pc \in {"stage", "publish", "commit", "truncate"}
FlushExclusive ==
  /\ flushing <=> \E t \in Threads : InFlight(t)
  /\ \A t, u \in Threads : InFlight(t) /\ InFlight(u) => t = u

\* The published image of a clean entry never goes back: a flush that staged before
\* an eviction or a compaction must not overwrite what they made of the graph.  (A
\* dirty entry's image may: an eviction whose save reports failure after its rename
\* can be overtaken by the older flush, and the entry is flushed again.)
ImageNeverRegresses ==
  [][Alive' /\ ~dirty =>
               /\ disk.image.ops \subseteq disk'.image.ops
               /\ disk.image.wm <= disk'.image.wm]_disk

\* The tombstone: once the files are unlinked nobody recreates them.
DeletedStaysGone ==
  [][~disk.present => ~disk'.present /\ disk'.log = <<>>]_disk

\* ContextRevision: within one process, a change of what reads answer moves the
\* graph revision forward (caches compare it for equality).
RevisionTracksContent ==
  [][Alive' /\ crashes' = crashes /\ Visible' # Visible => VisibleRev' > VisibleRev]_vars

\* Every acknowledged write reaches the image: no combination of racing flushes,
\* evictions and compactions leaves it in memory or in the log for good.
AckedEventuallyImaged ==
  \A i \in 1..MaxOps : (i \in acked) ~> (i \in disk.image.ops \/ ~Alive)

\* A full log empties again, so that the refusal of writes it causes ends: a dirty
\* entry whose log is at its cap comes back under it.  This is the deferral half of what
\* truncate_wal's comment promises ("a dead bucket can never walk this log into its
\* cap"): ShipProgress::new lets the shipper defer a reset only up to half the cap.
\* It needs resets that do not fail and no crash before the flush (CapAlwaysClears
\* is what fails without them).
ResetsSucceed == Faults \cap {"reset", "resetsync"} = {} /\ MaxCrashes = 0
AtCap == WalCap > 0 /\ entry.walBytes >= WalCap
CapClears == (ResetsSucceed /\ AtCap /\ dirty) ~> (~AtCap \/ ~Alive)

\* The same without the hypotheses, which the code does not promise: after a failed
\* reset, or a load that counts a full log, the entry is clean and nothing empties
\* the log.
CapAlwaysClears == AtCap ~> (~AtCap \/ ~Alive)

=============================================================================
