------------------------------ MODULE Shipping ------------------------------
(***************************************************************************)
(* WAL shipping of one context to object storage: the poll cycle that      *)
(* uploads the image and tails the log while the context is written,       *)
(* flushed, deleted and created again underneath it, the manifest that     *)
(* makes the uploads restorable, and what a restore then rebuilds.         *)
(*                                                                         *)
(* A file's content stands for its signature (no two published images, and *)
(* no two logs with different records, share one), and the records of a    *)
(* log for the length and CRC-32C of its complete lines.  Every            *)
(* object-store call is a step of its own, and any local step may come     *)
(* between two.                                                            *)
(***************************************************************************)
EXTENDS Integers, Sequences, FiniteSets

CONSTANTS
  DeferCap,   \* defer_cap_bytes, in records
  MaxOps,     \* bound: writes attempted
  MaxInc,     \* bound: creations of the context's id
  MaxGen,     \* bound: replication generations
  MaxFaults   \* bound: failed object-store calls, restarts and foreign claims

ASSUME ShippingConstants == {DeferCap, MaxOps, MaxInc, MaxGen, MaxFaults} \subseteq Nat

VARIABLES
  image,     \* the .ctx file, or NoImage
  log,       \* the .wal.jsonl file's records
  logHere,   \* does that file exist?
  writer,    \* the entry's writer: idle, append, reset, unlink, gone
  walSeq,    \* the next record's number
  ship,      \* the shipper: its generation, its bookkeeping and its cycle
  progress,  \* ShipProgress: the seq the shipper has reported for the lane
  bucket,    \* per generation: the objects under gen-N/
  fence,     \* the highest claimed generation
  acked,     \* history: acknowledged writes of the living incarnation
  inc,       \* history: the incarnation of the id
  ahead,     \* history: has a reset discarded records the lane had not shipped?
  nextId,    \* history
  faults     \* history

local == <<image, log, logHere, writer, walSeq>>
history == <<acked, inc, ahead, nextId, faults>>
vars == <<local, ship, progress, bucket, fence, history>>

-----------------------------------------------------------------------------

NoImage == [inc |-> 0, wm |-> 0, ops |-> {}]
NoLane == [known |-> FALSE, series |-> 0, segs |-> 0, recs |-> <<>>]
FreshLane(series) == [NoLane EXCEPT !.known = TRUE, !.series = series]
NoManifest == [complete |-> FALSE, file |-> NoImage, lane |-> NoLane]
EmptyGen == [file |-> NoImage, segs |-> {}, manifest |-> NoManifest]

\* A shipper that has just claimed generation g: no bookkeeping at all.
Claimed(g) ==
  [gen |-> g, todo |-> <<>>, file |-> NoImage, fileSig |-> NoImage, lane |-> NoLane,
   baseline |-> FALSE, mdirty |-> FALSE, stat |-> NoImage, bytes |-> <<>>, fresh |-> FALSE]

Init ==
  /\ image = [inc |-> 1, wm |-> 0, ops |-> {}]
  /\ log = <<>> /\ logHere = FALSE /\ writer = "idle" /\ walSeq = 1
  /\ ship = Claimed(1) /\ progress = 0
  /\ bucket = [g \in 1..MaxGen |-> EmptyGen] /\ fence = 1
  /\ acked = {} /\ inc = 1 /\ ahead = FALSE /\ nextId = 1 /\ faults = 0

\* The graph an image and a log rebuild: replay skips what the watermark covers.
Recovered(img, recs) ==
  img.ops \cup { recs[i].id : i \in { j \in DOMAIN recs : recs[j].seq > img.wm } }

Disruption == faults < MaxFaults /\ faults' = faults + 1

-----------------------------------------------------------------------------
(* The context's own files, as the durability engine changes them *)

\* logged_write, up to its acknowledgement or the trim of a refused write.
AppendRecord ==
  /\ writer = "idle" /\ nextId <= MaxOps
  /\ log' = Append(log, [seq |-> walSeq, id |-> <<inc, nextId>>]) /\ logHere' = TRUE
  /\ writer' = "append"
  /\ nextId' = nextId + 1
  /\ UNCHANGED <<image, walSeq, ship, progress, bucket, fence, acked, inc, ahead, faults>>

Acknowledge ==
  /\ writer = "append"
  /\ acked' = acked \cup {[id |-> log[Len(log)].id, seq |-> walSeq]}
  /\ walSeq' = walSeq + 1
  /\ writer' = "idle"
  /\ UNCHANGED <<image, log, logHere, ship, progress, bucket, fence, inc, ahead, nextId, faults>>

Rollback ==
  /\ writer = "append"
  /\ log' = SubSeq(log, 1, Len(log) - 1)
  /\ writer' = "idle"
  /\ UNCHANGED <<image, logHere, walSeq, ship, progress, bucket, fence, history>>

\* A flush publishes the graph as of watermark n; writes may have landed since its
\* snapshot, and only an image that covers the whole log goes on to the reset.
MutFlushPublishes(n) ==
  /\ writer = "idle" /\ n > image.wm /\ n <= walSeq
  /\ image' = [image EXCEPT !.wm = n,
                 !.ops = Recovered(image, SelectSeq(log, LAMBDA r : r.seq <= n))]
  /\ writer' = IF n = walSeq THEN "reset" ELSE "idle"
  /\ UNCHANGED <<log, logHere, walSeq, ship, progress, bucket, fence, history>>
FlushPublishes(n) ==
  /\ writer = "idle" /\ n > image.wm /\ n < walSeq
  /\ image' = [image EXCEPT !.wm = n,
                 !.ops = Recovered(image, SelectSeq(log, LAMBDA r : r.seq <= n))]
  /\ writer' = IF n = walSeq - 1 THEN "reset" ELSE "idle"
  /\ UNCHANGED <<log, logHere, walSeq, ship, progress, bucket, fence, history>>

\* ShipProgress::allows_reset: the tail has been shipped, or it has waited too long.
AllowsReset == Len(log) >= DeferCap \/ progress >= image.wm

ResetLog ==
  /\ writer = "reset" /\ AllowsReset
  /\ log' = <<>>
  /\ ahead' = (ahead \/ \E i \in DOMAIN log : \A j \in DOMAIN ship.lane.recs :
                           ship.lane.recs[j] # log[i])
  /\ writer' = "idle"
  /\ UNCHANGED <<image, logHere, walSeq, ship, progress, bucket, fence, acked, inc, nextId, faults>>

DeferReset ==
  /\ writer = "reset" /\ ~AllowsReset
  /\ writer' = "idle"
  /\ UNCHANGED <<image, log, logHere, walSeq, ship, progress, bucket, fence, history>>

\* delete unlinks the image first, the log later.
DeleteImage ==
  /\ writer = "idle"
  /\ image' = NoImage
  /\ acked' = {}
  /\ writer' = "unlink"
  /\ UNCHANGED <<log, logHere, walSeq, ship, progress, bucket, fence, inc, ahead, nextId, faults>>

DeleteLog ==
  /\ writer = "unlink"
  /\ log' = <<>> /\ logHere' = FALSE
  /\ writer' = "gone"
  /\ UNCHANGED <<image, walSeq, ship, progress, bucket, fence, history>>

\* An import brings the id back.
Recreate ==
  /\ writer = "gone" /\ inc < MaxInc
  /\ inc' = inc + 1
  /\ image' = [inc |-> inc + 1, wm |-> 0, ops |-> {}]
  /\ walSeq' = 1
  /\ writer' = "idle"
  /\ UNCHANGED <<log, logHere, ship, progress, bucket, fence, acked, ahead, nextId, faults>>

\* The process dies and comes back: boot finishes a delete, the entry continues
\* from its files, and a new shipper claims the next generation.
Restart ==
  /\ fence < MaxGen /\ Disruption
  /\ fence' = fence + 1 /\ ship' = Claimed(fence + 1) /\ progress' = 0
  /\ IF writer = "unlink" THEN log' = <<>> /\ logHere' = FALSE ELSE UNCHANGED <<log, logHere>>
  /\ writer' = IF writer \in {"unlink", "gone"} THEN "gone" ELSE "idle"
  /\ walSeq' = IF writer = "append" THEN walSeq + 1 ELSE walSeq
  /\ UNCHANGED <<image, bucket, acked, inc, ahead, nextId>>

\* Another process claims the bucket.
ForeignClaim ==
  /\ fence < MaxGen /\ Disruption
  /\ fence' = fence + 1
  /\ UNCHANGED <<local, ship, progress, bucket, acked, inc, ahead, nextId>>

LocalStep ==
  \/ AppendRecord \/ Acknowledge \/ Rollback
  \/ (\E n \in 1..MaxOps : FlushPublishes(n))
  \/ ResetLog \/ DeferReset \/ DeleteImage \/ DeleteLog \/ Recreate

-----------------------------------------------------------------------------
(* Shipper::cycle: `todo' is what the cycle has left to do *)

Doing(task) == ship.todo # <<>> /\ Head(ship.todo) = task
Gen == bucket[ship.gen]

\* An object-store call that fails, with or without having taken effect, ends the
\* cycle; its bookkeeping stays as the steps before left it.
CallFails(landed) ==
  /\ Disruption
  /\ bucket' \in {bucket, [bucket EXCEPT ![ship.gen] = landed]}
  /\ UNCHANGED <<local, progress, fence, acked, inc, ahead, nextId>>
Aborted == [ship EXCEPT !.todo = <<>>, !.stat = NoImage, !.bytes = <<>>, !.fresh = FALSE]
Done == Tail(ship.todo)

\* scan: published files whose signature moved, names that vanished, the log lane.
Vanished ==
  (IF ship.fileSig # NoImage /\ image = NoImage THEN <<"retirefile">> ELSE <<>>)
    \o (IF ship.lane.known /\ ~logHere THEN <<"retirelane">> ELSE <<>>)
MutChanged == IF image # NoImage /\ image.wm # ship.fileSig.wm THEN <<"stat">> ELSE <<>>
Changed == IF image # NoImage /\ image # ship.fileSig THEN <<"stat">> ELSE <<>>
Lanes == IF logHere THEN <<"lane">> ELSE <<>>
Work == Vanished \o Changed \o Lanes

Scan ==
  /\ ship.todo = <<>>
  /\ ~ship.baseline \/ ship.mdirty \/ Work # <<>>
  /\ ship' = [ship EXCEPT !.todo = <<"fence">> \o Work \o <<"manifest">>]
  /\ UNCHANGED <<local, progress, bucket, fence, history>>

\* Nothing to ship, but a heartbeat is due: only the fence is looked at.
Heartbeat ==
  /\ ship.todo = <<>> /\ ship.baseline /\ ~ship.mdirty /\ Work = <<>>
  /\ ship' = [ship EXCEPT !.todo = <<"fence">>]
  /\ UNCHANGED <<local, progress, bucket, fence, history>>

\* A newer claimant stops this shipper for good.
FenceCheck ==
  /\ Doing("fence")
  /\ ship' = [ship EXCEPT !.todo = IF fence > ship.gen THEN <<"fenced">> ELSE Done]
  /\ UNCHANGED <<local, progress, bucket, fence, history>>

FenceCheckFails ==
  /\ Doing("fence") /\ CallFails(Gen)
  /\ ship' = Aborted

\* retire_file: the remote object first, the bookkeeping after it.
RetireFile ==
  /\ Doing("retirefile")
  /\ bucket' = [bucket EXCEPT ![ship.gen].file = NoImage]
  /\ ship' = [ship EXCEPT !.todo = Done, !.file = NoImage, !.fileSig = NoImage, !.mdirty = TRUE]
  /\ UNCHANGED <<local, progress, fence, history>>

RetireFileFails ==
  /\ Doing("retirefile") /\ CallFails([Gen EXCEPT !.file = NoImage])
  /\ ship' = Aborted

RetireLane ==
  /\ Doing("retirelane")
  /\ bucket' = [bucket EXCEPT ![ship.gen].segs = {}]
  /\ ship' = [ship EXCEPT !.todo = Done, !.lane = NoLane, !.mdirty = TRUE]
  /\ progress' = 0
  /\ UNCHANGED <<local, fence, history>>

\* delete_prefix stops at the first segment it cannot delete.
RetireLaneFails ==
  /\ Doing("retirelane")
  /\ \E rest \in SUBSET Gen.segs : CallFails([Gen EXCEPT !.segs = rest])
  /\ ship' = Aborted

\* ship_published: the signature is taken before the bytes are read; a file that
\* vanished in between fails the cycle.
StatFile ==
  /\ Doing("stat")
  /\ ship' = IF image = NoImage THEN Aborted
             ELSE [ship EXCEPT !.todo = <<"put">> \o Done, !.stat = image]
  /\ UNCHANGED <<local, progress, bucket, fence, history>>

MutShippedFile == [file |-> ship.stat, sig |-> image]
ShippedFile == [file |-> image, sig |-> ship.stat]

PutFile ==
  /\ Doing("put")
  /\ IF image = NoImage THEN ship' = Aborted /\ UNCHANGED bucket
     ELSE /\ bucket' = [bucket EXCEPT ![ship.gen].file = ShippedFile.file]
          /\ ship' = [ship EXCEPT !.todo = Done, !.file = ShippedFile.file,
                                  !.fileSig = ShippedFile.sig, !.stat = NoImage,
                                  !.mdirty = TRUE]
  /\ UNCHANGED <<local, progress, fence, history>>

PutFileFails ==
  /\ Doing("put") /\ image # NoImage /\ CallFails([Gen EXCEPT !.file = image])
  /\ ship' = Aborted

\* ship_lane: is what was shipped still literally the file's prefix?
MutPrefixIntact == Len(log) >= Len(ship.lane.recs)
PrefixIntact ==
  /\ Len(log) >= Len(ship.lane.recs)
  /\ SubSeq(log, 1, Len(ship.lane.recs)) = ship.lane.recs

\* On divergence the parent snapshot goes first, then a new series.
MutDiverged == <<"segment">>
Diverged == <<"parent", "segment">>

ReadLane ==
  /\ Doing("lane")
  /\ ship' =
       IF ~logHere \/ (ship.lane.known /\ ship.lane.recs = log) THEN [ship EXCEPT !.todo = Done]
       ELSE [ship EXCEPT !.bytes = log, !.fresh = ~PrefixIntact,
               !.todo = (IF PrefixIntact THEN <<"segment">> ELSE Diverged) \o Done]
  /\ UNCHANGED <<local, progress, bucket, fence, history>>

\* The snapshot is uploaded unless this very version was; without a local one the
\* remote one is an earlier incarnation's, and is retired.
ShipParent ==
  /\ Doing("parent")
  /\ ship' = [ship EXCEPT !.todo = (IF image = NoImage THEN <<"retirefile">>
                                     ELSE IF image = ship.fileSig THEN <<>> ELSE <<"stat">>) \o Done]
  /\ UNCHANGED <<local, progress, bucket, fence, history>>

\* The records read beyond the shipped prefix, as the series' next segment.
Cursor == IF ship.fresh THEN FreshLane(ship.lane.series + 1) ELSE ship.lane
Tailing == SubSeq(ship.bytes, Len(Cursor.recs) + 1, Len(ship.bytes))
Segment == [series |-> Cursor.series, seg |-> Cursor.segs, recs |-> Tailing]
WithSegment ==
  [Gen EXCEPT !.segs = { s \in @ : <<s.series, s.seg>> # <<Segment.series, Segment.seg>> }
                         \cup {Segment}]

ShippedLane ==
  [Cursor EXCEPT !.known = TRUE, !.recs = ship.bytes, !.segs = IF Tailing = <<>> THEN @ ELSE @ + 1]

PutSegment ==
  /\ Doing("segment")
  /\ ship' = [ship EXCEPT !.todo = Done, !.mdirty = @ \/ ship.fresh \/ Tailing # <<>>,
                          !.lane = ShippedLane, !.bytes = <<>>, !.fresh = FALSE]
  /\ IF Tailing = <<>> THEN UNCHANGED <<bucket, progress>>
     ELSE /\ bucket' = [bucket EXCEPT ![ship.gen] = WithSegment]
          /\ progress' = Tailing[Len(Tailing)].seq
  /\ UNCHANGED <<local, fence, history>>

PutSegmentFails ==
  /\ Doing("segment") /\ Tailing # <<>> /\ CallFails(WithSegment)
  /\ ship' = [Aborted EXCEPT !.mdirty = @ \/ ship.fresh]

\* The manifest describes the bookkeeping, once all of the cycle's uploads landed.
Manifest == [complete |-> TRUE, file |-> ship.file, lane |-> ship.lane]

PutManifest ==
  /\ Doing("manifest")
  /\ bucket' = IF ~ship.baseline \/ ship.mdirty
               THEN [bucket EXCEPT ![ship.gen].manifest = Manifest] ELSE bucket
  /\ ship' = [ship EXCEPT !.todo = Done, !.mdirty = FALSE, !.baseline = TRUE]
  /\ UNCHANGED <<local, progress, fence, history>>

MutPutManifestFails ==
  /\ Doing("manifest") /\ CallFails([Gen EXCEPT !.manifest = Manifest])
  /\ ship' = [Aborted EXCEPT !.mdirty = FALSE]
PutManifestFails ==
  /\ Doing("manifest") /\ CallFails([Gen EXCEPT !.manifest = Manifest])
  /\ ship' = Aborted

Cycle ==
  \/ Scan \/ FenceCheck \/ FenceCheckFails
  \/ RetireFile \/ RetireFileFails \/ RetireLane \/ RetireLaneFails
  \/ StatFile \/ PutFile \/ PutFileFails
  \/ ReadLane \/ ShipParent \/ PutSegment \/ PutSegmentFails
  \/ PutManifest \/ PutManifestFails

Next == LocalStep \/ Restart \/ ForeignClaim \/ Cycle \/ Heartbeat

Spec == Init /\ [][Next]_vars

\* The shipping task polls on an interval and a store call always comes back; a
\* write or delete that has begun runs on.
Fairness ==
  /\ WF_vars(Cycle)
  /\ WF_vars(Acknowledge \/ Rollback) /\ WF_vars(ResetLog \/ DeferReset) /\ WF_vars(DeleteLog)
FairSpec == Spec /\ Fairness

-----------------------------------------------------------------------------
(* Restore *)

\* newest_complete_generation, 0 when no baseline ever finished.
Completed == { g \in 1..MaxGen : bucket[g].manifest.complete }
NewestComplete ==
  IF Completed = {} THEN 0 ELSE CHOOSE g \in Completed : \A h \in Completed : h <= g

\* fetch_lane: segment names are derived, and the concatenation is verified.
SegmentRecs(b, series, k) ==
  LET s == { x \in b.segs : x.series = series /\ x.seg = k }
  IN IF s = {} THEN <<>> ELSE (CHOOSE x \in s : TRUE).recs
Assembled(b, lane) ==
  LET f[n \in 0..lane.segs] ==
        IF n = 0 THEN <<>> ELSE f[n - 1] \o SegmentRecs(b, lane.series, n - 1)
  IN f[lane.segs]

\* restore_into refuses what does not match the manifest byte for byte.
Verifies(b) ==
  /\ b.manifest.file # NoImage => b.file = b.manifest.file
  /\ b.manifest.lane.known => Assembled(b, b.manifest.lane) = b.manifest.lane.recs

Restorable == NewestComplete # 0 /\ Verifies(bucket[NewestComplete])

\* What the newest manifest promises to rebuild; without an image there is no context.
Promised(m) == IF m.file = NoImage THEN {} ELSE Recovered(m.file, m.lane.recs)
Restored == IF NewestComplete = 0 THEN {} ELSE Promised(bucket[NewestComplete].manifest)

-----------------------------------------------------------------------------
(* Properties *)

Ids(A) == { a.id : a \in A }

\* The types; no shipper holds a generation beyond the highest claimed one, and no
\* image's watermark covers a record number not yet given out.
TypeOK ==
  /\ writer \in {"idle", "append", "reset", "unlink", "gone"}
  /\ walSeq \in Nat \ {0} /\ logHere \in BOOLEAN /\ progress \in Nat /\ fence \in 1..MaxGen
  /\ ship.gen \in 1..fence
  /\ {ship.lane.series, ship.lane.segs} \subseteq Nat
  /\ image.wm < walSeq

\* Parent snapshot first: the watermark of the image a manifest names reaches the
\* first record of the series it names.  So a restore rebuilds a prefix of what was
\* acknowledged, never a later write without an earlier one.
RestoreGapless ==
  \A a, b \in acked : b.id \in Restored /\ a.seq < b.seq => a.id \in Restored

\* The newest manifest pairs one incarnation's image with another one's records: a
\* cycle scanned before a delete and read the log after the re-creation.
Mixed ==
  LET m == bucket[NewestComplete].manifest
  IN /\ NewestComplete # 0 /\ m.file # NoImage
     /\ \E i \in DOMAIN m.lane.recs : m.lane.recs[i].id[1] # m.file.inc

\* RestoreGapless as long as every record a reset discarded had been shipped, and but
\* for a mixed manifest, whose replay counts the records of one incarnation against the
\* watermark of another.
GaplessUnlessAhead == ahead \/ Mixed \/ RestoreGapless

\* A mixed manifest is not the last word: the next scan finds the new incarnation's
\* files, whatever their watermark, and a manifest of one incarnation follows.
MixedHeals == Mixed ~> (~Mixed \/ fence > ship.gen)

\* When a scan finds nothing to do, the bucket restores exactly what a local boot
\* would rebuild: no failed upload, aborted cycle, rollback or vanished file is
\* forgotten.
CaughtUp ==
  /\ ship.todo = <<>> /\ ship.baseline /\ ~ship.mdirty /\ Vanished \o Changed = <<>>
  /\ logHere => (ship.lane.known /\ ship.lane.recs = log)
CaughtUpRestores ==
  CaughtUp => Restorable /\ Restored = (IF image = NoImage THEN {} ELSE Recovered(image, log))

\* What the newest manifest once promised of the living context, every later manifest
\* promises too, a new generation's first one included, as long as every record a
\* reset discarded had been shipped.
PromisesKept == [][~ahead' => Restored \cap Ids(acked') \subseteq Restored']_vars

\* ship.rs: the existence of `complete' means "this generation restores whole".
CompleteRestores == NewestComplete # 0 => Restorable

\* Every acknowledged write of a context that is not deleted reaches the bucket,
\* unless another writer took it over.
AckedEventuallyShipped ==
  \A n \in 1..MaxOps :
    LET living == { x \in Ids(acked) : x[2] = n }
    IN (living # {}) ~> ((Restorable /\ living \subseteq Restored) \/ fence > ship.gen)

=============================================================================
