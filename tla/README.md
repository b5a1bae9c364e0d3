# A TLA+ model of taguru

taguru is a knowledge-graph server: named *contexts*, each a graph of
associations held in memory, published as an image file, protected by a
write-ahead log, and optionally replicated to object storage. This directory
models the parts whose correctness is hardest to test: what happens to data,
caches, replicas, groups and imports when threads, disk failures, crashes, a
lagging shipper, lost answers and deletes meet.

## The system and its parts

| Part | State it keeps | Operations | What is hard | What makes it correct |
|---|---|---|---|---|
| Write-ahead log (`wal.rs`, `registry/wal_replay.rs`) | one JSON line per operation, numbered | append a batch, truncate, reset, replay with healing | torn tails, failed syncs, failed rollbacks | replay gives exactly what was acknowledged |
| Durability engine (`registry/engine.rs`, `registry.rs`) | per context: slot (hot, cold, deleted), graph, `wal_seq`, `wal_bytes`, revision, image generation, `dirty`, `flushing` | `logged_write`, `flush_entry`, `evict_entry`, `ensure_hot`, `compact_context`, tombstone | snapshots staged without the lock, several failure paths per call, panics | acknowledged means durable and visible; refused means gone |
| Create, delete, boot (`registry/lifecycle.rs`, `boot.rs`, `meta_io.rs`) | the file family of an id, the registry, `pending_creates`, `.deleted` markers | `create_if_absent`, `delete`, `scan_data_dir`, rename, metadata updates | crash between two unlinks, an id imported again | acknowledged deletes and creates both stick |
| WAL shipping (`ship/*.rs`) | the shipper's bookkeeping, `ShipProgress`, the bucket: fence, objects, segments, manifest | poll cycle, claim, restore | local files change between any two store calls; a call fails after taking effect | a restore is gapless, never less than it was, eventually everything |
| Boot from bucket (`hydrate.rs`) | the replication record; per family: pending, in flight, done, vetoed | prepare, ensure, veto, retarget, fill | two writers alive at once, a restart over old files, a manifest moving under a fetch, callers parked on one another | one history is served; a generation is crowned with all it inherited; no family is stranded |
| Replica (`replica.rs`) | last reconciled manifest, refresh debt | `poll_once`, register, refresh, deregister | a failed poll that already re-aimed the hydrator, requests loading meanwhile | reads are a prefix of the writer's history; it catches up |
| Passage store (`passages.rs`) | sources, log, snapshot, legacy file | store, retract, compact, load, evict | compaction against a store, two live instances | a durable map |
| Retrieval caches (`registry/retrieval_cache.rs`, `semantic_cache.rs`) | answers by revision key | key, search, file | a write between key and search | no answer older than its key |
| Change feed (`registry/changes.rs`) | bounded ring, epoch | push, page | overflow between two pages | a page sequence skips nothing silently |
| Circuit breaker (`breaker.rs`) | closed, open, half-open, probe generation | admit, record, abandon | late answers of reclaimed probes | one probe at a time, recovery possible |
| Groups (`groups.rs`, `registry/group_ops.rs`) | records, nesting, rename markers | create, update, rename, delete, restore, reconcile | crash inside a rename, inside a restore, inside a boot | nesting stays legal, a restart recovers what clients were told |
| Import (`api/import.rs`, `api/rejection.rs`) | import markers; the graph, passages and aliases of a source | apply a batch, retract a source | failure between two durable writes, a deadline | a half-applied source is marked |
| Router (`route/*.rs`) | a context→shard map | split import, scatter-gather | a shard failing between chunks, a lost answer | all or nothing up to dispatch; posting again is exact |

The rest (graph queries, BM25 and vector ranking, HTTP and MCP surfaces,
authentication, command-line tools, metrics) is sequential, numeric or
formatting; `PROJECT.json` lists every part with the reason it is left out, and
the hazards found in each with the line where they bite.

How they interact: a request handler, the flusher and the budget sweep all work
on one entry under its `inner` lock and two atomics; the flusher asks
`ShipProgress` before it resets a log; the shipper only ever reads the directory
and polls; a replica's tailer reads the bucket the shipper writes, and re-aims
the hydrator its requests wait for; delete and boot address files by stem, and a
context's delete sweeps the groups that name it; the caches trust the revisions
the engine and the passage store maintain; the router dispatches an import to
shards whose handlers write through the engine and the passage store.

## Modules

**`ContextStore`** is the engine and its log for one context. A graph is the set
of operations applied to it; an operation is a fresh number with a verdict (`ok`:
does the graph accept it). The log is a sequence of records plus the state of its
last line (`tail`: clean, a fragment, or complete but for its newline); `fused`
records that an append hit a torn line. Each thread has a program counter, and
one action is one lock section or one disk operation of the code:

| Code | Actions |
|---|---|
| `logged_write` | `RefuseWrite`, `BeginWrite`, `AppendOk/Fails`, `RetrimOk/Fails`, `Operate`, `OperatePanics`, `TrimOk/Fails`, `ReappendOk/Fails` |
| `flush_entry`, `truncate_wal` | `Tick`, `FlushEntry`, `Claim`, `ClaimLost`, `StageOk/Fails`, `PublishBacksOff`, `PublishMeta/Fails`, `CommitOk/Fails`, `FlushTruncates` |
| `enforce_budget`, `evict_entry` | `EvictStarts`, `EvictPinned`, `EvictClean`, `EvictMeta/Fails`, `EvictCommit/Fails`, `EvictTruncates`, `EvictCools` |
| `ensure_hot`, quarantine | `Read`, `ReadDeleted`, `LoadFails`, `QuarantineLapses` |
| `compact_context` | `Compact` |
| `delete` (this entry's side) | `Delete` (tombstone), `Unlink` |
| process death and boot | `Crash`: memory is lost, an append under way leaves any prefix of its bytes |

Conventions: which entry the sweep picks and whether it is pinned is a choice.
A failed disk call is a *fault*, charged to a budget. When a write is answered
although the recovery flush its failure path asked for did not publish, its
operations are `exposed`: the code says in so many words that this is the window
it cannot close, so `AckedDurable` and `RefusedNeverReplays` exclude them until
a later flush covers them.

**`FamilyLifecycle`** is the life of one id's files: two importers, a deleter, the
marker, the unlinks one by one, crashes between any two, and the boot scan. A
file is the *generation* (creation of the id) that wrote it; three files stand
for ten, because the order of unlinks and the role of the image at boot are what
matters. `Recreate` says when an id is imported again: only once its delete is
confirmed, as soon as it has returned, or at any time.

**`Shipping`** is replication of one context: the local writer, flush, reset,
delete and re-creation in coarse steps (their fine steps are `ContextStore`'s
and `FamilyLifecycle`'s), and the shipper's cycle with every object-store call a
step of its own: scan, fence check, retirements, upload of the image (signature,
then bytes), the lane (read, prefix test, parent snapshot, segment), the
manifest. A file's content stands for its signature and its checksum. A failed
call may have taken effect. `Verifies` and `Promised` are what `restore_into`
does with the newest complete generation. `ahead` remembers that a reset
discarded a record the lane had not shipped.

**`Replica`** is a read replica of one context. The bucket's writer and shipper are
reduced to what they put there and in which order. A cycle goes through stages:
retire what its scan found gone, ship the image, then the log (the next segment of the
series it continues, or, where it diverged, the snapshot and a new series), the
manifest last; it may stop anywhere (`CycleFails`). What a stage ships is the file of
that moment and not of the scan, with any reset or flush the image allows in between,
so `Recreate` (a delete, and the id imported again) may come at any point and leave
the image of one incarnation beside the log of another. Operations are acknowledged
with the first object that holds them, since the replica can see none earlier, and an
empty history stands for a deleted context as well as for a fresh one. A takeover
starts from a manifest cut from one history (`Whole`); what a start makes of others is
`Takeover`'s subject. The deposed writer's running cycle runs on. `poll_once` is `PollLooks`,
`PollReads`, `Retarget`, `Deregister`, `HydrateShared`, `Refresh`, `PollEnds`
and `PollFails` at any of them; `ensure` and the fetch are `EnsureClaims/Passes`,
`FetchImage`, `FetchLane`, `Mismatch`, `RefreshExtent`, `Settle`, `FetchFails`;
a request is `StartLoad`, `Touch`, `ReadImage`, `ReplayLane`, `ImageUnreadable`;
the process may crash and boot with or without the bucket. The hydrator's `hyd`
holds the family's `StemState` and target, `ent` the registry entry, `tail` the
tailer's applied stamp and debt.

**`Takeover`** is a bucket and several data directories. Any of them may start at
any time, whether or not the writer before it is dead: the guard that refuses a
start reads the age of a heartbeat and yields to the operator, so the model leaves
it open. `Boot` is `prepare` (warm restart, local truth, or a cache of the newest
complete generation), `hydrate_shared`, both phases of the record, the deletion
sweep and the registration; `BootDies` is the same cut short. The family then
hydrates (`FetchImage`, `FetchLane`, `FetchFails`) while the process serves
(`Write`, `Flush`, `Delete`, `Unlink`) and its shipper works (`Claim`, `Scan`, `Fenced`,
`Ship`, `ShipFails`, `PutManifest`, `PutManifestFails`). A file's content stands for
its length and checksum, and a lane in the bucket for the segments of one extent.
Appends, flushes and uploads are coarser than in `ContextStore` and `Shipping`.
History variables say what each write was acknowledged on top of (`past`), what a
directory inherited (`base`), whether the family was deleted there (`fate`), and
which of the known disagreements below have occurred (`flaws`).

**`DurableMap`** is what the passage store promises: a batch takes effect once
between call and answer, an error means no effect, a crash may leave a prefix of
the batch it cut, nothing else changes the map. **`PassageStore`** is the store
itself: snapshot, log and legacy file on disk, resident instances with their
locks, the entry's slot, one action per lock section or file operation
(`Open`, `Begin`, `AppendBatch`, `Apply`, `ReadMap`, `WriteSnapshot`,
`RetireLegacy`, `Reset`, `StartEvict`, `TakeSlot`, `CompactTaken`). Its
refinement mapping takes the map to be what a load of the files would return at
this moment, and a call as landed once its append is in the log. An append may fail
after some of its lines, or part of one, reached the file; its rollback is best effort
(`wal.rs`, `append_batch`), and when that fails too the refused records stay, under
numbers the next batch gets again, and a next append fuses with a torn line (`tail`).
Unlike the engine the passage store has no retry for this, and `wal.rs` accepts it.
`leaked` says that it has happened; a load that succeeds or a reset of the log ends it,
a fused log cannot be loaded and only a reset of the instance in memory repairs it.

**`ReadSide`** is what readers of one context are told while others write: the
revision counters and cache identity, the retrieval cache (key, lookup, filing,
eviction by budget), the resident lexical index with its watermark, and the
change ring with a client that polls, pulls and resynchronises on
`stale_cursor`. A write is split where the code releases a lock: passages land,
are folded into the index, the watermark is read, the counter bumped, the event
pushed.

**`Breaker`** is the provider breaker and its callers' attempts; time is ticks, and
instead of a generation counter the model keeps the caller whose probe is the
latest, the only thing the code ever compares.

**`Groups`** is the group map, the group files, the rename markers and the context
registry. Each operation is its file steps in order, each of which may fail or be
the last before a crash; `Boot…` are the boot's steps in order. `Recovered` is
what a boot makes of the disk. `cut` says whether a restore stopped partway, and
whether a further one began over the chain too deep that this may leave (`deep`).
`loose` says that something a client was told is still owed to the disk and known to be
lost by a restart: a name taken again over an old change, an unlink that failed, or a
repair of boot's that could not be written (`boot.rs` logs it and serves on).

**`Import`** is a stream of sources posted through the router: split by owner,
preflighted, dispatched chunk by chunk; on the shard `apply_batch` is `Begin`,
`Marks`, `Retracts`, `Unstores`, `Stores`, `Associates`, `Aliases`, `Clears`, each a
durable write that may fail. Calls time out while the shard works on, a shard's
own deadline expires, shards die, clients post again or withdraw a source.

`MCContextStore`, `MCFamilyLifecycle`, `MCPassageStore` and `MCReadSide` give TLC
its batches, fault sets and symmetries. The proofs about a module `X` are in
`X_proofs`.
Definitions named `Mut…` are plausible wrong versions of the definition that
follows them; with one put in its place TLC refutes the property `PROJECT.json`
names.

## What TLC checks

| Run | Instance | Shows |
|---|---|---|
| `wal_crash` | log on, 2 threads, 4 operations in batches of 1 or 2, any 1 fault, 1 crash, shipper may defer | `AckedDurable`, `RefusedNeverReplays`, `NoDoubleReplay`, `LogDecodes`, `FlushExclusive`, `RevisionTracksContent` |
| `wal_off` | log off, 3 threads, 3 operations, save faults, storage quota | `AckedVisible`, `ImageNeverRegresses`, `DeletedStaysGone` |
| `liveness` | log on, cap 2 records, 2 threads, 2 faults of staging, publication, a leaked append or a trim | `AckedEventuallyImaged`; `CapClears`: a full log empties if there is something to flush and resets do not fail |
| `family` | 2 importers, 1 deleter, 3 generations, any 1 fault, 2 crashes | `NoResurrection`, `CreatedSurvives`, `LogIsItsOwn`, `ImageHasSidecar` |
| `shipping` | 2 writes, deferral budget 2 records, 2 incarnations, 2 bucket generations, 1 failed call, restart or foreign claim | `GaplessUnlessAhead`, `CaughtUpRestores`, `PromisesKept`, `MixedHeals`: a manifest of two incarnations is followed by one of a single; `AckedEventuallyShipped` |
| `replica` | 1 reader and the tailer, up to 1 operation shipped before the start and 3 in all, 1 further cycle or a takeover, any number of deletes and re-creations, 1 failed call or crash, boots with and without the bucket | `DebtFreeReadsArePrefix`: what is served of a manifest cut from one history, with no refresh owed, is a prefix of a history; `AppliedMeansCurrent`: an applied stamp leaves nothing older behind |
| `takeover` | 2 directories, 3 writes, 2 starts after the first, a flush, a deletion or a failed call | `ServedIsAHistory`: each write served stands on what its writer had acknowledged; `CrownKeepsLineage`: a manifest keeps what its directory inherited; `VetoHolds`: a deletion is not undone by a fetch still due, nor by a restart over the directory's own files; `IdleIsCrowned`: a process with nothing left to do has its generation crowned and current |
| `passages` | 2 threads, 2 sources, 2 stores, 1 retract, 2 faults or crashes, log capped, a legacy file | `KeepsTheMap`: the store implements `DurableMap`; `ServedIsDurable`: memory is what a restart returns |
| `read_side` | 2 writers, 1 reader or the client, 3 changes, ring of 2, deletes and re-creations | `SearchesShowAcked`, `FeedSkipsNothing` |
| `breaker` | 3 callers, threshold 2, cooldown 2, 2 panics, shutdown | `OneProbeAtATime`, `AwaitsLatestProbe`, `Recovers` |
| `groups` | 3 names, depth 2, 1 context, restores of 2 records, 1 failed step, 1 crash, started from every legal map | `NestingHolds`, `MembersLive`, `RestartsTell`, `BootIsIdempotent` |
| `import` | 2 sources over 2 shards, 3 calls, 2 faults | `TornIsMarked`, `AckedIsExact` |

Further configurations that pass, with the same properties where none are named:
`replica_live` (one generation, the context pinned, under fairness: `EventuallyApplied`,
the last manifest is reached and no caller stays parked); `replica_gens` (a takeover
while the deposed writer's cycle is under way); `shipping_three` (three writes, no
faults); `groups_deep` (four names, the code's `MAX_GROUP_DEPTH` of 3, restores of three
records, one crash; with one failed step in its place it passes too, in 4 minutes).

### Where the code and its comments disagree

Each of these is a counterexample TLC finds; those with a configuration of their
own are reproduced by `tlc -config <name>.cfg <module>`, which ends in the
violation described.

| Configuration | Module | Property | What it shows |
|---|---|---|---|
| `boot_unlink` | `MCFamilyLifecycle` | `NoResurrection` | the boot sweep removes the deletion marker although an unlink failed; the deleted context is registered |
| `stale_marker` | `MCFamilyLifecycle` | `CreatedSurvives` | a delete that answers Ok may leave its marker; an import of the id is acknowledged and wiped by the next boot |
| `recreate_race` | `MCFamilyLifecycle` | `CreatedSurvives` | an import of an id whose delete is still unlinking loses its files |
| `reset_wedge` | `MCContextStore` | `CapAlwaysClears` | one failed reset of a log at its cap is not "harmless": the context refuses every write and nothing retries |
| `complete_refused` | `Shipping` | `CompleteRestores` | between a cycle's uploads and its manifest the complete generation does not restore |
| `shipping_gap` | `Shipping` | `RestoreGapless` | a shipped and rolled-back record lets the reset discard an unshipped one, and the manifest pairs an older image with a later series |
| `mixed_read` | `Replica` | `SteadyReadsArePrefix` | a cycle that scanned before a delete and reads the log after the re-creation publishes the old image with the new records (`shipper.rs` retires only names a scan finds missing); a replica of that manifest serves one incarnation's operations behind another's, which `replica.rs` excludes for every read |
| `groups_cycle` | `Groups` | `StaysAcyclic` | a restore cut by its deadline leaves a chain of four; a second restore, legal as a whole, is cut between two records and leaves a cycle, although `group_ops.rs` relies on the standing map being acyclic |
| `passage_evict` | `MCPassageStore` | `EvictionLosesNothing` | `evict_entry` (`registry/engine.rs`) releases the entry before it takes the passage store out of its slot; a request holding the old instance and one that loads a new one then number their records alike, and one of two acknowledged writes is gone, although "dropping the passage store loses nothing" |
| `stale_search` | `MCReadSide` | `HitsAreAsNewAsTheirKey` | `registry/passages.rs` drops admission before it refreshes the lexical index, and its `fetch_max` of the store's watermark may cover another batch that is not folded in yet; a search files a result without that batch under a key that names it, against what `retrieval_cache.rs` says of every hit |
| `done_exact` | `Replica` | `DoneIsExact` | a fetch that took a refreshed extent records the manifest slice it started from as done, so `Done` is not "verified as this exact manifest slice" (`hydrate.rs`) |
| `early_crown` | `Takeover` | `CrownedWhole` | the cycle scans the directory before it asks whether the hydration has drained; a family that lands between the two is missing from the manifest that crowns the generation, which `shipper.rs` says would be a lie |
| `graft` | `Takeover` | `MixesNothing` | a lane without records is a prefix of any log, so a deposed volume keeps its diverged tail beside its successor's newer image, and the load replays it on top; `hydrate.rs` says a diverged tail is discarded |

Met on the way, and visible by changing constants or checking the named property:

* `ContextStore`: the recovery flush after a leaked append relies on a reset the
  shipper may defer (`RefusedNeverReplays` with `Faults = {"leak","trim"}`,
  `Shipping = TRUE`); a reset that truncates but fails to sync leaves `wal_bytes`
  too large (`"resetsync"`, two faults); after a leak whose retry failed too, a
  later trim cuts at a stale offset (`AckedDurable`, two faults); a failed
  re-append followed by a panic changes content under an unmoved revision
  (`RevisionTracksContent`, two faults). `CapAlwaysClears` fails in three ways, and
  `CapClears` states the hypotheses that leave them out: a reset that fails
  (`reset_wedge`); a refused batch that leaked and could not be trimmed, which is counted
  when the context is loaded again, with nothing dirty (`liveness.cfg` shows it); and a
  crash with a full log, for a load replays it and marks nothing dirty (`MaxCrashes = 1`,
  no faults). In each the next flush finds nothing to do, and every write is refused.
* `Shipping`: without `Mixed`, `GaplessUnlessAhead` fails at three writes and no fault: a
  context is deleted and created again between a cycle's scan and its read of the log,
  the shipped prefix is empty and so intact, and the manifest names the old image beside
  the new incarnation's records, of which a restore drops those at or below the old
  watermark. `MixedHeals` says that the next cycles replace it. With a reset past the deferral budget, which `ship.rs` documents as
  falling back to snapshot granularity, the unconditional form of `PromisesKept`
  fails for a cycle; hence its `~ahead'`.
* `Replica`: `ReadsArePrefix` fails without its exclusions, for a load reads the
  image before and the lane after a refresh replaced both (`replica.rs` says every
  read is an exact prefix). The copy is dropped by the refresh, which is what
  `DebtFreeReadsArePrefix` says. That property asks that the hydrator's target is cut
  from one history (`Whole`): the two ways the shipper publishes another are
  `mixed_read` and `shipping_gap`. It also excepts a fetch that took a refreshed extent
  (`drift`): a context is deleted and created again between the two halves of a fetch,
  and the refreshed lane of the new incarnation lands beside the image of the old. A boot without the bucket registers what is on disk
  and reports none of it as vanished later; and a cold read needs the bucket once
  the hydrator was re-aimed.
* `Takeover`: each member of `flaws` is one way for the strict forms `MixesNothing`
  and `CrownedWhole` to fail. `early` and `grafted` are above. `hollow`: the claim is
  recorded before the hydration has drained; after a crash the directory counts as the
  lineage's tip, the families still missing are forgotten, and the next manifest is
  published without them. `skewed`: a lane's extent read again after its segments went
  is newer than the image that has landed. Two more lie outside the properties. A
  delete acknowledged before the claim is recorded is undone when the directory starts
  again and hydrates from the predecessor, which carries the family still (`fate` is
  `live` again after such a boot; `lifecycle.rs` says it "cannot resurrect from either
  generation"). And a family that the deposed writer retires while its successor
  still has to fetch it keeps the fill retrying for ever and the generation uncrowned
  (`Fetchable` excludes it). A boot whose manifest names both an image and its deletion
  marker registers the vetoed stem as a context that has no image.
* `Breaker`: `SuccessCloses` fails. An attempt may take up to 60 s
  (`embedding.rs`) while its slot is reclaimed after 30 s; a provider that always
  answers, slowly, never has its success counted. `Recovers` asks for answers
  within the reclaim window.
* `Groups`: `DepthHolds` fails (`Names = 1..4`, `MaxDepth = 3`, `MaxMembers = 2`,
  no faults or crashes): a restore cut by its deadline leaves a chain deeper than
  `MAX_GROUP_DEPTH`, which `boot.rs` repairs only at the next start, and over which a
  second restore may close a cycle (`groups_cycle`). `RestartsTell`
  fails without `loose`: a name taken again while its old change is still owed to
  the disk (a rename marker whose parent rewrite failed, a deleted group's file or
  edges that could not be rewritten) is recovered with the older edges.
* `Import`: without the exclusion of `crossed`, a call that timed out and its
  retry overlap on one source: associations are counted twice, or one clears the
  marker of the other.
* `ReadSide`: a retraction that touches the graph announces its event before the
  passage is removed, and compaction announces none; such changes are `quiet`.

### Bounds and why they are enough

The races need two threads on one entry (a flush in flight and a rival), and
three where memory is dropped between a flush and a write (`wal_off`). Four
operations in batches of up to two give an acknowledged write before, a partial
batch during and a write after each failure. One fault anywhere covers every
failure path; the second one of `liveness` is a rollback whose retry fails too. One
crash in `ContextStore` suffices because properties about recovery
(`AckedDurable`, `RefusedNeverReplays`) are stated of the files in every state,
as if the crash came now; the crash itself is there for the life after it.
`FamilyLifecycle` allows two, one of them inside the boot scan. In `Shipping` two
writes make a gap expressible within an incarnation; across two incarnations a gap needs
a third (one under the old image, two after it), which `shipping_three` has. Two
incarnations and two bucket generations are what its rules distinguish.

`Replica`: three operations are one under an old image and two of the next incarnation,
so that gaps and mixtures are expressible; `MaxCycles` counts the cycles that upload
something, a successor's first included, so one is a manifest that moves under a fetch,
or a takeover, and two (`replica_gens`) are both. The two invariants are also proved for
all bounds. One reader beside the
tailer is enough to load, park and pin, since readers meet only at the entry's lock
and the family's state. `PassageStore`: two threads and two sources give
a compaction against a store, a batch cut in the middle and two live instances;
the cap and the floor are set so that both the refusal and the automatic compaction
occur; the second fault is what comes after a leaked batch. From the moment a second instance is loaded over one in use (`split`) the
refinement is not claimed: that is `passage_evict`.

`Takeover`: two directories are a writer and its successor, or a volume and its own
past; three writes are a common one and one on each side of a fork; two starts bring
a takeover and the deposed directory's return, or a restart of either. Which of
flush, deletion and failed call happens is what `MaxEvents` bounds. With
`MaxOps`/`MaxBoots`/`MaxEvents` at 2/2/2, 2/3/1 and 4/2/1 the four invariants hold as
well, in 3 to 6 minutes each.

`ReadSide`: a ring of two overflows under three changes. Observers only observe,
so a behaviour has either readers or the client, and the ring is kept only
for the client. Changes in `overtaken` are those `stale_search` is about, changes
in `quiet` those no event follows; both are excluded and nothing else is.

`Breaker`: three callers give a straggler, a reclaimed probe and a fresh one; ages
stop counting at the reclaim window, beyond which the code does not distinguish
them. The cooldown is the longer of the two windows, as in production (30 s against
50 ms); with a shorter one a straggler's success and new failures can bring a second
probe before the first is old. `Groups`: it starts from every legal map over three names, so long histories
are replaced by their results. Over three names a chain of three is the only one too
deep for depth 2, and restores of two records can leave it; what three records and
chains of four do is checked by `groups_deep` and `groups_cycle`. `Import`: three calls are a failed one, its retry
and a withdrawal or another version; `Chunks = 1` with three calls and `Chunks = 2`
with two calls (and three faults) both pass. `AckedIsExact` is stated at the
moment of the answer: a call that timed out earlier may still be at work and apply
after it. Contexts exist already, and the switch that turns markers off is not
modelled.

`CHECK_DEADLOCK FALSE` appears where the system really stops: in `Shipping` (a
fenced shipper over an idle, exhausted writer), `Replica` (everything applied,
nothing written any more), `Takeover` (every start used), `ReadSide`, `Groups` and `Import` (no requests left
within the bounds).

Symmetry is over threads, importers, writers or shards that no formula names; the
liveness runs use none.

### Fairness

`ContextStore`: a started call runs on (`WF` of each thread's steps: locks are
released by finished calls, disk calls return) and the flusher's interval timer
fires again (`WF` of `Tick(Flusher)`, `flush_dirty` in a loop). Nothing is assumed
of clients, the budget sweep, or a quarantine's lapse. `Shipping`: the shipping
task loops with a sleep (`handle.rs`), every store call comes back, and a local
write, reset or delete that began ends. `Replica`: the tailer's loop polls again,
calls return, a shipping cycle that replaced an object ends with its manifest, a dead
replica is started again; where the tailer needs a lock that requests take too, it is
strongly fair, for `parking_lot` locks are eventually fair. Nothing is assumed of
requests. `Breaker`: time passes, requests keep coming, and an attempt ends within
its timeout. Failures are finitely many by the fault
bound, so "eventually" means "once failures stop".

## What is proved

TLAPS checks these for every value of the constants that the named assumptions
admit: any set of threads, readers, importers, callers, directories or sources, and any
number of operations, faults and crashes (the `Max…` bounds are arbitrary naturals).
Each is proved from an inductive invariant, one lemma per action or group of
actions, closed by `PTL`.

| Module | Theorem | States | Hypotheses |
|---|---|---|---|
| `ContextStore_proofs` | `TypeCorrect`, `FlushesExclude`, `DeleteIsFinal` | `TypeOK`, `FlushExclusive`, `DeletedStaysGone` | none |
| | `AcknowledgedMeansReplayable`, `AcknowledgedMeansVisible`, `ReplayAppliesOnce`, `LogAlwaysDecodes` | `AckedDurable`, `AckedVisible`, `NoDoubleReplay`, `LogDecodes` | `Sound` |
| | `RefusedIsGone`, `RevisionMoves` | `RefusedNeverReplays`, `RevisionTracksContent` | `Sound`, `"trim" \notin Faults` |
| | `ImageAdvances` | `ImageNeverRegresses` | `"panic" \notin Faults` |
| `PassageStore_proofs` | `ImplementsDurableMap`, `MemoryIsTheFiles` | `KeepsTheMap` (the refinement of `DurableMap`), `ServedIsDurable` | none |
| `FamilyLifecycle_proofs` | `CreatedNeverLost`, `SidecarFirst` | `CreatedSurvives`, `ImageHasSidecar` | `Recreate = "confirmed"` |
| | `DeletedNeverReturns`, `LogNeverMixed` | `NoResurrection`, `LogIsItsOwn` | also `"bootunlink" \notin Faults` |
| `Replica_proofs` | `ReadsServePrefixes`, `AppliedIsCurrent`, `TypeCorrect` | `DebtFreeReadsArePrefix`, `AppliedMeansCurrent`, `TypeOK` | none |
| `Takeover_proofs` | `DeletedStaysDeleted` | `VetoHolds` | none |
| `Import_proofs` | `TornSourcesAreMarked`, `AcksAreExact` | `TornIsMarked`, `AckedIsExact` | none |
| `ReadSide_proofs` | `FeedIsComplete`, `RetrievalsAreFresh`, `ReadSideType` | `FeedSkipsNothing`, `SearchesShowAcked`, `TypeOK` | none |
| `Breaker_proofs` | `LatestProbeKeepsSlot` | `AwaitsLatestProbe` | none |
| | `ProbesApart` | `OneProbeAtATime` | `Cooldown >= MinReclaim` |

The hypotheses are those without which TLC has a counterexample above. `Recreate =
"confirmed"` leaves out `recreate_race` and `stale_marker`, `"bootunlink"` is
`boot_unlink`. `Cooldown >= MinReclaim` is how production runs (30 s against 50 ms).
`PassageStore`'s properties speak of the time until an instance is split, which is
`passage_evict`, and of stores in which no refused batch has stayed in the log
(`leaked`). `DebtFreeReadsArePrefix` speaks of manifests cut from one history. `Sound` asks that the log is on, that an error from a reset means it
did not happen, that a re-append after a trim works, and that of a failed append's own
rollback and its retry at most one fails. Failed and leaked appends, panics in the
middle of a batch, failed loads, stagings, sidecars, publications and resets, and
failed trims of partly applied batches are all inside. TLC refutes a theorem for
each failure outside, with `MaxFaults = 2`: `{"leak","trim"}` and `"releak"` break
`LogDecodes`, `{"reappend","panic"}` `AckedVisible`, `"resetsync"`
`RefusedNeverReplays`. And `{"panic","commit"}` breaks `ImageNeverRegresses`: after a
panic the entry is loaded again under the generation a flush in flight was claimed at;
an eviction publishes and reports a failure; then the older flush publishes over it.
The log still holds what that image lacks, which is why `AckedDurable` stands.
`{"trim","panic"}` breaks `RevisionTracksContent`: the records of a batch that was
rejected in part stay in the log until an image covers them; before the flush that
would do so has published, the next write panics and the graph is loaded again with
those records replayed; then that flush publishes, its watermark hides them again, and
the next eviction takes them out of what reads answer while the revision stands still.

The assumptions on constants say what the code guarantees of its inputs. Batches
are not empty (`BatchesNonEmpty`: an empty one is appended and applied as nothing;
`StoreKeys` of `PassageConstants`: `passages.rs` answers an empty one at once); the sets of threads and sources are finite; a
version is a positive number, for 0 is the absent one (`ImportConstants`).

### The inductive invariants

**`ContextStore_proofs`**: `IInv == TypeInv /\ Control /\ Tombstoned`. `TypeInv`
adds to `TypeOK` that a thread's applied prefix fits its batch and its numbering
starts above 0 (`LocalsOK`): without it the trim and re-append are not type
correct. `Control` ties the lock to the program counter that holds it and
`flushing` to the one thread between claim and publication; exclusion alone is
not inductive, because a claim's guard looks at the flag, not at the other
threads. `Tombstoned` says that the files are absent only under a deleted slot,
that a deleted slot's lock is free (so no write, flush publication or eviction is
under way on it) and that only a deleted slot is being unlinked; every step is
`Living` (a live context stays live), `Aside` (touches neither slot nor files), a
tombstone or an unlink, which is how the action property follows. That the next
record number exists (the maximum of a finite log) rests on well-foundedness of `<`
on the naturals.

What the files and memory hold is the subject of a second invariant, `DInv`. `LogOK`: the log is sorted by number and
repeats nothing the image contains. `Kept`: image and log together hold everything
`Promised`, that is acknowledged or about to be by a write whose recovery flush is
under way. `Warm`: a hot graph holds that too, and the entry's `walSeq` and
`walBytes` are right whenever nobody is inside a write. `Writers`: a write knows
exactly what the log held before it and how much of its batch has been logged
since. `Flights`: a flush between claim and publication carries a snapshot that may
still be published (same generation, nobody about to cool the entry, not deleted)
only as long as snapshot and log hold everything promised and the log repeats
nothing of the snapshot. This is what the generation check protects, and what a reset
under an eviction would otherwise destroy. After a panic the entry is cold and no
generation has moved, so `Flights` adds that the records the panic left stand above
the watermark of every flight: the reload numbers past them and the flight's own
reset is refused. `Evictions`: an eviction that has published has published exactly
the memory it is about to drop. `Drawn` and `Unlogged` say whose numbers may occur
where. The refused-is-gone argument needs `Unlogged` only.

That images only advance is the subject of a third, `MInv == HotLocked /\ Aged /\ Ahead
/\ Numbering /\ CleanFlight`, which does without the log and so without `Sound`. Whether
a publication may replace the image depends on what has happened since the claim: as
long as the entry is clean, the snapshot of a flight of the present generation is the
whole graph and its watermark is no older than the image's (`CleanFlight`). For that to
survive an eviction the generation has to have moved whenever the graph left memory
(`Aged`); a panic is the one way out of memory that moves none. `Numbering` keeps a
write that takes its numbers back from going below what an image or a snapshot covers.

That the revision moves with the content needs a fourth, `RInv == Exact /\ Numbered /\
Counting`, beside `DInv`. `DInv` bounds what a load gives from below (everything promised
is there); a revision that may stand still needs equality. `Exact`: the image, and every
snapshot that may still be published, give together with the log what a read answers
now, the batch being written aside; so loads, evictions and publications change nothing
visible. `Numbered`: every number given out, be it a revision in memory, on disk or in a
snapshot, a watermark, or the number before the next record's, is reached by what a load
from any of those snapshots finds, without counting on the records of a batch that may
still be taken back. So a write numbers above the revision the entry had, and a
load after a panic, whose revision is the highest number it finds, comes out above it too
(`PanicTracks`). `Counting` carries the bound through the trim of a partly applied batch.

**`PassageStore_proofs`**: while nothing is split, `Good == Shape /\ Locks /\
OneInstance /\ Gone /\ Numbered /\ Current /\ Landing /\ Compacting /\ Snapped`: one
instance is in use and its memory is what a load of the files returns (`Current`), a
store whose append has landed and not been applied is the only difference (`Landing`),
both as long as nothing has leaked; and a
compaction's copy is the files' content up to its watermark (`Compacting`,
`Snapped`), so that publishing it and resetting the log changes nothing a load sees.
`Numbered`, that a store's next number is not 0, holds through a leak, when `Current`
no longer says so; the load or the reset that ends the leak makes files and memory
agree again.
Each action then maps to a `DurableMap` step or leaves the mapped state alone.

**`Replica_proofs`**: `IInv` has a part about the bucket (`UpInv`) and one about the
replica. Of the bucket it says little, since nothing is assumed of
what the shipper publishes: types, and that the first generation is complete. `Writes`
is all that a step of a writer or a shipper may do to a generation; what the replica's
half stands on is that a manifest is left alone or stamped anew, hence that a stamp
that is current after a step was current before it and names the same manifest. `Fetches`: at most one
fetch is in flight and it is for the hydrator's target, which holds because `Retarget`
waits a fetch out; the files it has landed are those it wanted. `Targets`: `Done` means
the disk is the target's exact slice, drift aside. `Shown`: while no refresh is owed, the
entry's sidecar, its loaded graph and a load half way are the target's. `Locks`: a load
reads under the entry's lock. `Polls`: a poll past its retarget and the hydrator aim at
one manifest, and a poll inside a refresh owes it. `Lost`: a family the manifest does
not have is not registered. `Stamps` is why an applied stamp can be trusted: while it
is current nothing has moved since it was recorded. That a load of what was cut from
one history is a beginning of it (`LoadedAgrees`) gives the prefix.

**`FamilyLifecycle_proofs`**: `Control` bounds who may be at which step under which
phase, registry and marker; `Gone` says that a file of a deleted generation stands
only while its marker does, which is what the order *marker first, image before the
rest* buys.

**`Takeover_proofs`**: `Shape /\ MarkedIsVetoed /\ GoneIsBare /\ DownIsIdle`. A marker on
disk goes with a vetoed family, a family gone for good has left no files that a warm
restart could register, and a process that is down has no hydration of its own.

**`Import_proofs`**: `InStep /\ Begun /\ Progress /\ SeenThrough /\ TornIsMarked`. Router
and shard agree on how far a call has come, a source a call is working on was marked
by it (unless calls `crossed`), what the call has done so far is exactly there, and a
chunk reported as done is done. The answer's exactness follows from the last two.

**`ReadSide_proofs`** has two arguments. The feed: `FeedInv` says that of each
mirrored part the client has everything `Owed`, or has been told to pull the part, or
an event naming it stands unread in the ring, or an event after its cursor has been
evicted, in which case the next poll answers `stale_cursor`. Every announcement
`Extends` the ring: what was unread stays unread or counts as evicted. A page is an
initial segment of what follows the cursor, so what it leaves out is still unread at the
cursor it returns. Retrievals: `WriteInv` says that the context serves what is
acknowledged, and that a batch which a counter names is in the index or `overtaken`.
`ReadInv` speaks of every response filed or about to be (`Holds`): as long as its key
could be minted now, it shows all that is `Settled`, the acknowledged changes together
with the batches the passage counter names already; and it shows what any reader with
that key is due. `Settled` is needed because a batch's call returns after its bump, under an
unmoved counter. `Moves` is what every step of a writer obeys: a fresh identity, or
counters that only grow, with nothing newly settled in a part whose counters stand
still.

**`Breaker_proofs`**: an attempt in flight has a kind, the latest probe's holder is
in flight while the breaker waits for it, and a superseded probe is older than the
reclaim window (`SupersededIsOld`), whence two probes are never both young.

### Only model-checked

All liveness (`AckedEventuallyImaged`, `CapClears`, `MixedHeals`,
`AckedEventuallyShipped`, `Recovers`, `EventuallyApplied`) and `IdleIsCrowned`:
fairness and `ENABLED` are out of the prover's reach. `NestingHolds`, `RestartsTell`
and `BootIsIdempotent` of `Groups` rest on functions that recur over the records
(chains, the boot's repair), whose values for every input need induction over data.
So do `Takeover`'s `ServedIsAHistory` and `CrownKeepsLineage`: they speak of what a load
makes of a log (`Loaded`, a filter by watermark), and nothing is provable about the
filter of an arbitrary log without that induction. Not yet tried: `Shipping`'s
`GaplessUnlessAhead` and `CaughtUpRestores`, and `MembersLive`. `AckedDurable`,
`RefusedNeverReplays`, `NoDoubleReplay`, `LogDecodes` and `RevisionTracksContent` with
the failures `Sound` excludes are checked by `wal_crash` for one fault of any kind but
`"releak"` and `"resetsync"`.

## Not modelled

Of the modelled parts: context rename (a sidecar rewrite), the clocks behind the
takeover guard, a writer's boot with the bucket out of reach, the passage lane of the shipper, the similarity test of the
semantic cache, the counter a load of the passage store raises (`registry.rs`, around an
eviction), a directory sync that fails after its rename landed (`storage.rs`), schema and group records of an import stream, the router's map
reload and response merging. Of the rest: the graph core, ranking, schema
checks and consolidation are sequential computations over one snapshot, much of
it floating point; authentication, the HTTP and MCP surfaces and the command-line
tools parse, format and call the registry; metrics, tracing and configuration only
observe. They are most of the repository's lines and hold little of its control,
so the modules cover a small share of the source and nearly all of the code
whose order of steps matters.

## Plan

1. Proofs: `Shipping`'s `GaplessUnlessAhead`; `Groups`' `MembersLive`.
2. Several families in `Takeover`, so that a hydration can be cut between two of them.
3. Context rename, and schema and group records of an import stream.

## Running

| Module | Configurations |
|---|---|
| `MCContextStore` | `wal_crash`, `wal_off`, `liveness`; `reset_wedge` |
| `MCFamilyLifecycle` | `family`; `boot_unlink`, `stale_marker`, `recreate_race` |
| `Shipping` | `shipping`, `shipping_three`; `complete_refused`, `shipping_gap` |
| `Replica` | `replica`, `replica_live`, `replica_gens`; `done_exact`, `mixed_read` |
| `Takeover` | `takeover`; `early_crown`, `graft` |
| `MCPassageStore` | `passages`; `passage_evict` |
| `MCReadSide` | `read_side`; `stale_search` |
| `Groups` | `groups`, `groups_deep`; `groups_cycle` |
| `Breaker`, `Import` | `breaker`, `import` |

`tlc -config wal_crash.cfg MCContextStore`, and likewise for the others; those
after a semicolon end in the violation listed above. Proofs:
`tlapm X.tla` for `X` in the table of proved theorems; `ContextStore_proofs`, the
longest, takes some eight minutes on four cores, `ReadSide_proofs` and `Replica_proofs` two.
