------------------------------- MODULE Replica -------------------------------
(***************************************************************************)
(* A read replica of one context: the tailer that polls the bucket, the    *)
(* hydrator it re-aims, the family's local files, and the requests that    *)
(* load the context from them at the same time.                            *)
(*                                                                         *)
(* An image is the sequence of operations it holds (its watermark is the   *)
(* length), a log lane the operations of consecutive numbers from `lo'.    *)
(* The writer and its shipper are abstracted to their effect on the bucket *)
(* (Shipping has their steps): the image object is replaced first, the     *)
(* lane's segments follow, the manifest last.  An object's content stands  *)
(* for its length and checksum.  The sidecar travels with the image.       *)
(***************************************************************************)
EXTENDS Integers, Sequences, SequencesExt

CONSTANTS
  Readers,     \* request threads
  Tailer,      \* the tailer thread
  Free,        \* the entry's lock is held by nobody
  Pinned,      \* is the context pinned?
  Rounds,      \* FETCH_REFRESH_ROUNDS
  Degraded,    \* may a boot find the bucket unreachable?
  Earlier,     \* bound: operations acknowledged before the replica starts
  MaxOps,      \* bound: acknowledged operations, over all histories
  MaxCycles,   \* bound: shipping cycles that upload something, a generation's first included
  MaxGen,      \* bound: generations
  MaxFaults    \* bound: failed bucket calls and crashes of the replica

ASSUME ReplicaConstants ==
  /\ {Rounds, Earlier, MaxOps, MaxCycles, MaxGen, MaxFaults} \subseteq Nat /\ MaxGen >= 1
  /\ {Pinned, Degraded} \subseteq BOOLEAN
  /\ Tailer \notin Readers /\ Free \notin Readers \cup {Tailer}

VARIABLES
  hist,    \* per generation: the operations its writer acknowledged, of the living incarnation
  past,    \* history: operation sequences of deleted incarnations
  acked,   \* history: operations acknowledged, over all histories
  cycles,  \* history: those cycles
  store,   \* per generation: image object, lane segments, sidecar, manifest; the shipper's cycle
  disk,    \* the replica's copy of the family
  record,  \* the replication record's hydrated_from, 0 when there is none
  hyd,     \* the hydrator: target, the family's StemState
  ent,     \* the registry entry
  lock,    \* holder of the entry's inner lock
  th,      \* per thread: program counter and locals
  tail,    \* the Tailer's own fields
  faults   \* history

upstream == <<hist, past, acked, cycles, store>>
vars == <<upstream, disk, record, hyd, ent, lock, th, tail, faults>>

Threads == Readers \cup {Tailer}
Gens == 1..MaxGen

-----------------------------------------------------------------------------
(* Files, manifests and what a load makes of them *)

NoImage == [here |-> FALSE, ops |-> <<>>]
Image(ops) == [here |-> TRUE, ops |-> ops]
NoLane == [series |-> 0, lo |-> 1, recs |-> <<>>]

\* FamilySig: what a manifest says of the family; no image, no context.
NoSig == [img |-> NoImage, lane |-> NoLane, meta |-> 0]
NoManifest == [stamp |-> 0, sig |-> NoSig]

\* replay_wal_guarded: records above the image's watermark, in order.
Loaded(img, lane) ==
  LET skip == Len(img.ops) + 1 - lane.lo
  IN img.ops \o SubSeq(lane.recs, IF skip > 0 THEN skip + 1 ELSE 1, Len(lane.recs))

EmptyStore == [img |-> NoImage, lane |-> NoLane, lanes |-> {}, meta |-> 0, read |-> NoLane,
               stage |-> 0, man |-> NoManifest]

Fault == faults < MaxFaults /\ faults' = faults + 1

Complete == { g \in Gens : store[g].man.stamp > 0 }
NewestComplete == CHOOSE g \in Complete : \A h \in Complete : h <= g

-----------------------------------------------------------------------------
(* The writer and its shipper *)

\* A cycle starts only while no newer claim fences it; one in progress runs on.
CanShip(g) ==
  /\ g \in Complete
  /\ store[g].stage > 0 \/ (g + 1 \notin Complete /\ cycles < MaxCycles)

\* The writer acknowledges operations at any time; the replica sees none of them before an
\* object that holds them is shipped, and here they are acknowledged with the first such.
Written(g, n) == hist[g] \o [i \in 1..(n - acked) |-> acked + i]
Acknowledge(g, n) == acked' = n /\ hist' = [hist EXCEPT ![g] = Written(g, n)]

\* A delete unlinks the family's files, an import creates the id again; neither waits for
\* the shipper.  Without operations the two are not told apart: the shipper may then find
\* the files gone, or an empty context.  (After its last cycle no delete reaches the bucket.)
Recreate(g) ==
  /\ CanShip(g) /\ hist[g] # <<>>
  /\ past' = past \cup {hist[g]} /\ hist' = [hist EXCEPT ![g] = <<>>]
  /\ UNCHANGED <<acked, cycles, store, disk, record, hyd, ent, lock, th, tail, faults>>

\* The stages of a cycle: what its scan found gone (1), what it found changed (2), then
\* the log; one that does not continue the shipped series is read (3), its snapshot made
\* current in the bucket (4), and its records go up (5).  Each file is what it is when it
\* is read, whatever the scan saw, and a stage may find nothing to do.
Puts(g, o) ==
  /\ store' = [store EXCEPT ![g] = o]
  /\ cycles' = IF store[g].stage = 0 /\ o.stage > 0 THEN cycles + 1 ELSE cycles
  /\ UNCHANGED <<past, disk, record, hyd, ent, lock, th, tail>>

\* retire_file, of an image: gone when the cycle scanned, or when a lane that diverged
\* asked for its snapshot.
RetireFile(g) ==
  /\ CanShip(g) /\ hist[g] = <<>>
  /\ (store[g].stage < 2 /\ store[g].img.here) \/ store[g].stage = 3
  /\ Puts(g, [store[g] EXCEPT !.img = NoImage, !.stage = IF @ = 3 THEN 4 ELSE 1])
  /\ UNCHANGED <<hist, acked, faults>>

\* ... of a log that is gone, or not yet created again: the lane and all its segments.
RetireLane(g) ==
  /\ CanShip(g) /\ hist[g] = <<>> /\ store[g].lane # NoLane /\ store[g].stage < 2
  /\ Puts(g, [store[g] EXCEPT !.lane = NoLane, !.lanes = {}, !.stage = 1])
  /\ UNCHANGED <<hist, acked, faults>>

\* Is the lane a stretch of the history?
Stretch(lane, h) ==
  /\ lane.lo - 1 + Len(lane.recs) <= Len(h)
  /\ \A i \in 1..Len(lane.recs) : lane.recs[i] = h[lane.lo - 1 + i]

\* The image of the living incarnation's first m operations reaches up to the log that
\* was read, and is no older than the one it replaces.
Reaches(g, h, m) ==
  /\ IsPrefix(store[g].img.ops, h) => m >= Len(store[g].img.ops)
  /\ store[g].stage = 3 /\ Stretch(store[g].read, h) => store[g].read.lo <= m + 1

\* ship_published: a flushed image and the sidecar take the place of the objects the
\* manifest names.
ShipImage(g) ==
  /\ CanShip(g) /\ store[g].stage \in {0, 1, 3}
  /\ \E n \in acked..MaxOps : \E m \in 0..Len(Written(g, n)) :
       /\ n = acked \/ m = Len(Written(g, n))
       /\ Reaches(g, Written(g, n), m)
       /\ Acknowledge(g, n)
       /\ Puts(g, [store[g] EXCEPT !.img = Image(SubSeq(Written(g, n), 1, m)), !.meta = @ + 1,
                                   !.stage = IF @ = 3 THEN 4 ELSE 2])
  /\ UNCHANGED faults

\* ship_lane reads whatever log there is: it begins where the last reset left it.  What
\* was shipped being literally its prefix, the rest goes up as the series' next segment.
LaneOf(series, lo, ops) ==
  LET recs == SubSeq(ops, lo, Len(ops))
  IN [series |-> series, lo |-> IF recs = <<>> THEN 1 ELSE lo, recs |-> recs]
Continues(old, l) == old.recs = <<>> \/ (l.lo = old.lo /\ IsPrefix(old.recs, l.recs))

ShipLane(g) ==
  /\ CanShip(g) /\ store[g].stage < 3
  /\ \E n \in acked..MaxOps : \E lo \in 1..(Len(Written(g, n)) + 1) :
       LET l == LaneOf(store[g].lane.series, lo, Written(g, n))
       IN /\ n = acked \/ l.recs # <<>>
          /\ l # store[g].lane /\ Continues(store[g].lane, l)
          /\ Acknowledge(g, n)
          /\ Puts(g, [store[g] EXCEPT !.lane = l, !.lanes = @ \cup {l}, !.stage = 5])
  /\ UNCHANGED faults

\* ... any other is a new series, and waits for its snapshot.
ReadLane(g) ==
  /\ CanShip(g) /\ store[g].stage < 3
  /\ \E n \in acked..MaxOps : \E lo \in 1..(Len(Written(g, n)) + 1) :
       LET l == LaneOf(store[g].lane.series + 1, lo, Written(g, n))
       IN /\ n = acked \/ l.recs # <<>>
          /\ ~Continues(store[g].lane, l)
          /\ Acknowledge(g, n)
          /\ Puts(g, [store[g] EXCEPT !.read = l, !.stage = 3])
  /\ UNCHANGED faults

SnapshotShipped(g) ==
  /\ store[g].img.here /\ IsPrefix(store[g].img.ops, hist[g])
  /\ Reaches(g, hist[g], Len(store[g].img.ops))

ShipSeries(g) ==
  /\ store[g].stage = 4 \/ (store[g].stage = 3 /\ SnapshotShipped(g))
  /\ Puts(g, [store[g] EXCEPT !.lane = store[g].read, !.lanes = @ \cup {store[g].read},
                              !.read = NoLane, !.stage = 5])
  /\ UNCHANGED <<hist, acked, faults>>

\* A bucket call that fails, or a file that vanished under an upload, ends the cycle.
CycleFails(g) ==
  /\ store[g].stage > 0 /\ Fault
  /\ Puts(g, [store[g] EXCEPT !.read = NoLane, !.stage = 0])
  /\ UNCHANGED <<hist, acked>>

\* The manifest describes what was shipped, at the end of a cycle.
Described(g) == [img |-> store[g].img, lane |-> store[g].lane, meta |-> store[g].meta]

ShipManifest(g) ==
  /\ g \in Complete /\ store[g].stage \notin {3, 4}
  /\ store[g].stage > 0 \/ Described(g) # store[g].man.sig
  /\ Puts(g, [store[g] EXCEPT !.man = [stamp |-> @.stamp + 1, sig |-> Described(g)], !.stage = 0])
  /\ UNCHANGED <<hist, acked, faults>>

\* An image and a lane are cut from one history, with no gap between them.
Histories == past \cup { hist[g] : g \in Gens }
CutFrom(img, lane, h) ==
  /\ Len(img.ops) <= Len(h) /\ \A i \in 1..Len(img.ops) : img.ops[i] = h[i]
  /\ lane.lo <= Len(img.ops) + 1 /\ Stretch(lane, h)
Whole(sig) == \E h \in Histories : CutFrom(sig.img, sig.lane, h)

\* A generation just completed.
Shipped(sig) ==
  [img |-> sig.img, lane |-> sig.lane, lanes |-> {sig.lane}, meta |-> sig.meta, read |-> NoLane,
   stage |-> 0, man |-> [stamp |-> 1, sig |-> sig]]

\* Another writer boots from the newest complete generation, claims the next one and
\* completes it with series of its own; what the deposed writer had not shipped is not
\* in it.  (Only of a manifest cut from one history.)
TakeOver ==
  LET g == NewestComplete
      s == [store[g].man.sig EXCEPT !.lane.series = 0]
  IN /\ g < MaxGen /\ s.img.here /\ Whole(s)
     /\ cycles < MaxCycles /\ cycles' = cycles + 1
     /\ hist' = [hist EXCEPT ![g + 1] = Loaded(s.img, s.lane)]
     /\ store' = [store EXCEPT ![g + 1] = Shipped(s)]
     /\ UNCHANGED <<past, acked, disk, record, hyd, ent, lock, th, tail, faults>>

Shipper(g) ==
  \/ RetireFile(g) \/ RetireLane(g) \/ ShipImage(g) \/ ShipLane(g) \/ ReadLane(g)
  \/ ShipSeries(g) \/ CycleFails(g) \/ ShipManifest(g)

Upstream == (\E g \in Gens : Recreate(g) \/ Shipper(g)) \/ TakeOver

-----------------------------------------------------------------------------
(* The hydrator *)

Idle == [pc |-> "idle", gen |-> 0, sig |-> NoSig, want |-> NoSig, round |-> 0, img |-> NoImage]
NoHydrator == [gen |-> 0, sig |-> NoSig, state |-> "absent", done |-> NoSig, drift |-> FALSE]
NoEntry == [reg |-> FALSE, hot |-> FALSE, ops |-> <<>>, meta |-> 0]
NewTailer == [gen |-> 0, stamp |-> 0, sig |-> NoSig, applied |-> <<0, 0>>,
              debt |-> FALSE, failed |-> FALSE, blind |-> FALSE]

Step(t, pc) == th' = [th EXCEPT ![t] = [th[t] EXCEPT !.pc = pc]]

\* Hydrator::new and retarget: what a manifest makes of the family's state.
StateUnder(sig) ==
  IF sig.img.here THEN IF hyd.state = "Done" /\ hyd.done = sig THEN "Done" ELSE "Pending"
  ELSE IF hyd.state = "absent" THEN "absent" ELSE "Vetoed"

\* ensure_context's first half: a settled family passes, a pending one is claimed
\* with a snapshot of the target; behind another caller's fetch everyone waits.
EnsureClaims(t) ==
  /\ th[t].pc = "ensure" /\ hyd.state = "Pending"
  /\ hyd' = [hyd EXCEPT !.state = "InFlight"]
  /\ th' = [th EXCEPT ![t] = [th[t] EXCEPT !.pc = "image", !.gen = hyd.gen, !.round = 0,
                                            !.sig = hyd.sig, !.want = hyd.sig]]
  /\ UNCHANGED <<upstream, disk, record, ent, lock, tail, faults>>

\* Where a caller goes on when ensure_context answers Ok: a load holds the entry's
\* lock, a passage first touch ends here, the tailer refreshes the entry.
Ensured(t) == IF lock = t THEN "readimg" ELSE IF t = Tailer THEN "refresh" ELSE "idle"

EnsurePasses(t) ==
  /\ th[t].pc = "ensure" /\ hyd.state \in {"absent", "Done", "Vetoed"}
  /\ Step(t, Ensured(t))
  /\ UNCHANGED <<upstream, disk, record, hyd, ent, lock, tail, faults>>

\* fetch_published_if_stale: local bytes that match are reused, the object is taken
\* when it matches the wanted one.
FetchImage(t) ==
  /\ th[t].pc = "image"
  /\ th[t].want.img \in {disk.img, store[th[t].gen].img}
  /\ disk' = [disk EXCEPT !.img = th[t].want.img, !.meta = th[t].want.meta]
  /\ th' = [th EXCEPT ![t] = [th[t] EXCEPT !.pc = "lane", !.round = 0]]
  /\ UNCHANGED <<upstream, record, hyd, ent, lock, tail, faults>>

\* fetch_lane_if_stale under ShippedExact: a local log that begins with the shipped
\* extent is cut to it, any other is replaced by the reassembled series.
LocalLaneMatches(want) ==
  want.recs = <<>> \/ (disk.lane.lo = want.lo /\ IsPrefix(want.recs, disk.lane.recs))
RemoteLaneMatches(g, want) ==
  \E l \in store[g].lanes : l.series = want.series /\ l.lo = want.lo /\ IsPrefix(want.recs, l.recs)

FetchLane(t) ==
  /\ th[t].pc = "lane"
  /\ LocalLaneMatches(th[t].want.lane) \/ RemoteLaneMatches(th[t].gen, th[t].want.lane)
  /\ disk' = [disk EXCEPT !.lane = th[t].want.lane]
  /\ Step(t, "settle")
  /\ UNCHANGED <<upstream, record, hyd, ent, lock, tail, faults>>

\* refreshed_extent: what does not match is judged against the generation's manifest
\* of now, a bounded number of times.
Mismatch(t) ==
  \/ th[t].pc = "image" /\ th[t].want.img \notin {disk.img, store[th[t].gen].img}
  \/ th[t].pc = "lane" /\ ~LocalLaneMatches(th[t].want.lane)
       /\ ~RemoteLaneMatches(th[t].gen, th[t].want.lane)
Refreshed(t) == store[th[t].gen].man.sig
Rot(t) == Mismatch(t) /\ (th[t].round >= Rounds \/ ~Refreshed(t).img.here)

RefreshExtent(t) ==
  /\ Mismatch(t) /\ ~Rot(t)
  /\ th' = [th EXCEPT ![t] = [th[t] EXCEPT !.round = @ + 1,
       !.want = IF th[t].pc = "image"
                THEN [th[t].want EXCEPT !.img = Refreshed(t).img, !.meta = Refreshed(t).meta]
                ELSE [th[t].want EXCEPT !.lane = Refreshed(t).lane]]]
  /\ UNCHANGED <<upstream, disk, record, hyd, ent, lock, tail, faults>>

\* ensure_context's last half: what landed is the snapshot's slice, and counts only
\* while that is the target's.
Settle(t) ==
  /\ th[t].pc = "settle"
  /\ hyd' = IF hyd.sig = th[t].sig THEN [hyd EXCEPT !.state = "Done", !.done = th[t].sig,
                                                                !.drift = th[t].want # th[t].sig]
            ELSE [hyd EXCEPT !.state = "Pending"]
  /\ th' = [th EXCEPT ![t] = [Idle EXCEPT !.pc = Ensured(t)]]
  /\ UNCHANGED <<upstream, disk, record, ent, lock, tail, faults>>

\* A fetch that fails puts the family back to Pending and wakes everyone; a load
\* gives up, the tailer notes the failure.
Unlocked(t) == IF lock = t THEN Free ELSE lock
Abandon(t) ==
  /\ th' = [th EXCEPT ![t] = [Idle EXCEPT !.pc = IF t = Tailer THEN "finish" ELSE "idle"]]
  /\ tail' = [tail EXCEPT !.failed = tail.failed \/ (t = Tailer /\ lock # t)]
  /\ lock' = Unlocked(t)

FetchFails(t) ==
  /\ \/ Rot(t) /\ UNCHANGED faults
     \/ th[t].pc \in {"image", "lane"} /\ Fault
  /\ hyd' = [hyd EXCEPT !.state = "Pending"]
  /\ Abandon(t)
  /\ UNCHANGED <<upstream, disk, record, ent>>

Ensure(t) ==
  \/ EnsureClaims(t) \/ EnsurePasses(t) \/ FetchImage(t) \/ FetchLane(t)
  \/ RefreshExtent(t) \/ Settle(t) \/ FetchFails(t)

-----------------------------------------------------------------------------
(* Requests *)

\* A read finds the context cold and loads it under the entry's lock (ensure_hot);
\* the quarantine an earlier failure left only delays it.
StartLoad(r) ==
  /\ th[r].pc = "idle" /\ ent.reg /\ ~ent.hot /\ lock = Free
  /\ lock' = r
  /\ Step(r, "ensure")
  /\ UNCHANGED <<upstream, disk, record, hyd, ent, tail, faults>>

\* entry_passages: a passage request hydrates the family without that lock (a settled
\* family answers at once).
Touch(r) ==
  /\ th[r].pc = "idle" /\ ent.reg /\ hyd.state \in {"Pending", "InFlight"}
  /\ Step(r, "ensure")
  /\ UNCHANGED <<upstream, disk, record, hyd, ent, lock, tail, faults>>

\* ensure_hot reads the image, then replays the log over it: two reads of the disk.
ReadImage(t) ==
  /\ th[t].pc = "readimg" /\ disk.img.here
  /\ th' = [th EXCEPT ![t] = [th[t] EXCEPT !.pc = "readlane", !.img = disk.img]]
  /\ UNCHANGED <<upstream, disk, record, hyd, ent, lock, tail, faults>>

ImageUnreadable(t) ==
  /\ th[t].pc = "readimg" /\ ~disk.img.here
  /\ Abandon(t)
  /\ UNCHANGED <<upstream, disk, record, hyd, ent, faults>>

ReplayLane(t) ==
  /\ th[t].pc = "readlane"
  /\ ent' = [ent EXCEPT !.hot = TRUE, !.ops = Loaded(th[t].img, disk.lane)]
  /\ lock' = Unlocked(t)
  /\ th' = [th EXCEPT ![t] = [Idle EXCEPT !.pc = IF t = Tailer THEN "finish" ELSE "idle"]]
  /\ UNCHANGED <<upstream, disk, record, hyd, tail, faults>>

Load(t) == ReadImage(t) \/ ImageUnreadable(t) \/ ReplayLane(t)

\* The budget sweep drops a loaded copy.
Evict ==
  /\ ent.hot /\ lock = Free /\ ~Pinned
  /\ ent' = [ent EXCEPT !.hot = FALSE, !.ops = <<>>]
  /\ UNCHANGED <<upstream, disk, record, hyd, lock, th, tail, faults>>

-----------------------------------------------------------------------------
(* Tailer::poll_once *)

\* The newest complete generation and its manifest's stamp; nothing to do when that
\* is what was applied last.
PollLooks ==
  /\ th[Tailer].pc = "idle" /\ Complete # {}
  /\ LET g == NewestComplete
     IN /\ <<g, store[g].man.stamp>> # tail.applied
        /\ tail' = [tail EXCEPT !.gen = g, !.stamp = store[g].man.stamp, !.failed = FALSE]
  /\ Step(Tailer, "manifest")
  /\ UNCHANGED <<upstream, disk, record, hyd, ent, lock, faults>>

\* The manifest is read after its stamp and may be a newer one.
PollReads ==
  /\ th[Tailer].pc = "manifest"
  /\ tail' = [tail EXCEPT !.sig = store[tail.gen].man.sig]
  /\ Step(Tailer, "retarget")
  /\ UNCHANGED <<upstream, disk, record, hyd, ent, lock, faults>>

\* What survives from one poll to the next.
Between == [NewTailer EXCEPT !.applied = tail.applied, !.debt = tail.debt, !.blind = tail.blind]

\* A poll that fails gives up where it is and keeps its debt.
PollFails ==
  /\ th[Tailer].pc \in {"manifest", "shared", "finish"} /\ Fault
  /\ Step(Tailer, "idle")
  /\ tail' = Between
  /\ UNCHANGED <<upstream, disk, record, hyd, ent, lock>>

\* retarget waits out a fetch in flight.  A family that moved goes back to Pending
\* and its refresh is owed from here on; one the manifest lost is vetoed.
Stale == tail.sig.img.here /\ ~(hyd.state = "Done" /\ hyd.done = tail.sig)
Vanished == ~tail.sig.img.here /\ hyd.state \notin {"absent", "Vetoed"}

MutOwed == Stale
Owed == ~Vanished /\ (tail.debt \/ Stale)

Retarget ==
  /\ th[Tailer].pc = "retarget" /\ hyd.state # "InFlight"
  /\ hyd' = [hyd EXCEPT !.gen = tail.gen, !.sig = tail.sig, !.state = StateUnder(tail.sig)]
  /\ tail' = [tail EXCEPT !.debt = Owed]
  /\ Step(Tailer, IF Vanished THEN "deregister" ELSE "shared")
  /\ UNCHANGED <<upstream, disk, record, ent, lock, faults>>

\* replica_deregister: out of the registry, tombstoned under its lock.
Deregister ==
  /\ th[Tailer].pc = "deregister" /\ lock = Free
  /\ ent' = NoEntry
  /\ Step(Tailer, "shared")
  /\ UNCHANGED <<upstream, disk, record, hyd, lock, tail, faults>>

\* hydrate_shared lands the sidecar and removes what the manifest does not carry.
NoFamily == [img |-> NoImage, lane |-> NoLane, meta |-> 0]
SharedLanding(g, sig) ==
  IF ~sig.img.here THEN {NoFamily}
  ELSE IF sig.meta \in {disk.meta, store[g].meta} THEN {[disk EXCEPT !.meta = sig.meta]}
  ELSE { [disk EXCEPT !.meta = m] : m \in {store[g].man.sig.meta} \cap {store[g].meta} }

\* ... then the whole debt is worked off, not only what this retarget reported: an
\* unknown context is registered cold, and its files are hydrated.
HydrateShared ==
  /\ th[Tailer].pc = "shared"
  /\ disk' \in SharedLanding(tail.gen, tail.sig)
  /\ ent' = IF tail.debt /\ ~ent.reg THEN [NoEntry EXCEPT !.reg = TRUE, !.meta = disk'.meta] ELSE ent
  /\ Step(Tailer, IF tail.debt THEN "ensure" ELSE "finish")
  /\ UNCHANGED <<upstream, record, hyd, lock, tail, faults>>

SharedRot ==
  /\ th[Tailer].pc = "shared" /\ SharedLanding(tail.gen, tail.sig) = {}
  /\ Step(Tailer, "idle")
  /\ tail' = Between
  /\ UNCHANGED <<upstream, disk, record, hyd, ent, lock, faults>>

\* replica_refresh: re-read the sidecar, drop the loaded copy, and load it again at
\* once when pinned.
MutRefresh ==
  /\ th[Tailer].pc = "refresh" /\ lock = Free
  /\ ent' = [ent EXCEPT !.meta = disk.meta]
  /\ tail' = [tail EXCEPT !.debt = FALSE]
  /\ lock' = IF Pinned THEN Tailer ELSE Free
  /\ Step(Tailer, IF Pinned THEN "ensure" ELSE "finish")
  /\ UNCHANGED <<upstream, disk, record, hyd, faults>>
Refresh ==
  /\ th[Tailer].pc = "refresh" /\ lock = Free
  /\ ent' = [ent EXCEPT !.meta = disk.meta, !.hot = FALSE, !.ops = <<>>]
  /\ tail' = [tail EXCEPT !.debt = FALSE]
  /\ lock' = IF Pinned THEN Tailer ELSE Free
  /\ Step(Tailer, IF Pinned THEN "ensure" ELSE "finish")
  /\ UNCHANGED <<upstream, disk, record, hyd, faults>>

\* Only a poll that landed whole advances the stamp, and the record on a switch of
\* generations.
PollEnds ==
  /\ th[Tailer].pc = "finish"
  /\ tail' = IF tail.failed THEN Between ELSE [Between EXCEPT !.applied = <<tail.gen, tail.stamp>>]
  /\ record' = IF ~tail.failed /\ tail.applied[1] # tail.gen THEN tail.gen ELSE record
  /\ Step(Tailer, "idle")
  /\ UNCHANGED <<upstream, disk, hyd, ent, lock, faults>>

Poll ==
  \/ PollLooks \/ PollReads \/ PollFails \/ Retarget \/ Deregister
  \/ HydrateShared \/ SharedRot \/ Refresh \/ PollEnds

-----------------------------------------------------------------------------
(* The replica's process *)

Crash ==
  /\ th[Tailer].pc # "down" /\ Fault
  /\ th' = [t \in Threads |-> IF t = Tailer THEN [Idle EXCEPT !.pc = "down"] ELSE Idle]
  /\ hyd' = NoHydrator /\ ent' = NoEntry /\ lock' = Free /\ tail' = NewTailer
  /\ UNCHANGED <<upstream, disk, record>>

\* prepare_replica lands the shared files before anything is served; the record
\* names the generation only then.
BootHydrates ==
  /\ th[Tailer].pc = "down" /\ Complete # {}
  /\ LET g == NewestComplete  sig == store[g].man.sig
     IN /\ disk' \in SharedLanding(g, sig)
        /\ hyd' = [NoHydrator EXCEPT !.gen = g, !.sig = sig, !.state = StateUnder(sig)]
        /\ ent' = [NoEntry EXCEPT !.reg = sig.img.here, !.meta = disk'.meta]
        /\ record' = g
  /\ Step(Tailer, "idle")
  /\ UNCHANGED <<upstream, lock, tail, faults>>

\* The bucket cannot be reached: a directory some hydration verified once is served
\* as it is, with no target.
BootDegraded ==
  /\ th[Tailer].pc = "down" /\ Degraded /\ record # 0 /\ disk # NoFamily
  /\ ent' = [NoEntry EXCEPT !.reg = disk.img.here, !.meta = disk.meta]
  /\ tail' = [NewTailer EXCEPT !.blind = TRUE]
  /\ Step(Tailer, "idle")
  /\ UNCHANGED <<upstream, disk, record, hyd, lock, faults>>

\* The first writer has shipped the image of the creation and a log of some length; the
\* replica's directory is new, or has the image and an older sidecar.
Init ==
  /\ acked \in 0..Earlier /\ past = {} /\ cycles = 0
  /\ hist = [g \in Gens |-> IF g = 1 THEN [i \in 1..acked |-> i] ELSE <<>>]
  /\ store = [g \in Gens |-> IF g > 1 THEN EmptyStore ELSE
               Shipped([img |-> Image(<<>>), lane |-> LaneOf(0, 1, hist[1]), meta |-> 1])]
  /\ disk \in {NoFamily, [NoFamily EXCEPT !.img = Image(<<>>)]}
  /\ record = IF disk = NoFamily THEN 0 ELSE 1
  /\ hyd = NoHydrator /\ ent = NoEntry /\ lock = Free /\ tail = NewTailer /\ faults = 0
  /\ th = [t \in Threads |-> IF t = Tailer THEN [Idle EXCEPT !.pc = "down"] ELSE Idle]

Next ==
  \/ Upstream
  \/ \E t \in Threads : Ensure(t) \/ Load(t)
  \/ \E r \in Readers : StartLoad(r) \/ Touch(r)
  \/ Evict
  \/ Poll \/ Crash \/ BootHydrates \/ BootDegraded

Spec == Init /\ [][Next]_vars

\* The tailer polls on an interval, a started call runs on and bucket calls return,
\* a shipping cycle that replaced an object ends with its manifest, a dead replica is
\* started again.  The locks are fair (parking_lot's), so a waiting tailer gets its turn
\* however many requests come by; nothing is assumed of those.
Fairness ==
  /\ WF_vars(Poll) /\ WF_vars(BootHydrates)
  /\ SF_vars(Retarget) /\ SF_vars(Deregister) /\ SF_vars(Refresh) /\ SF_vars(Ensure(Tailer))
  /\ \A t \in Threads : WF_vars(Ensure(t) \/ Load(t))
  /\ \A g \in Gens : WF_vars(ShipManifest(g)) /\ WF_vars(store[g].stage \in {3, 4} /\ Shipper(g))
FairSpec == Spec /\ Fairness

-----------------------------------------------------------------------------
(* Properties *)

Prefix(ops) == \E h \in Histories : IsPrefix(ops, h)

\* replica.rs: one context's reads are some exact prefix of the writer's acknowledged
\* history.
ReadsArePrefix == ent.hot => Prefix(ent.ops)

\* The same of every read served while no refresh of the context is owed and it is not
\* just being dropped: a copy loaded from files that changed between the load's two
\* reads never outlives the refresh.  (Except of a context a boot without the bucket
\* found on disk and no manifest since has named, and of files whose fetch took a
\* refreshed extent: an image and a lane of two incarnations may meet there.)
SteadyReadsArePrefix ==
  \/ tail.debt \/ th[Tailer].pc = "deregister"
  \/ (tail.blind /\ hyd.state = "absent") \/ (hyd.state = "Done" /\ hyd.drift)
  \/ ReadsArePrefix

\* ... of a manifest cut from one history.  The shipper may publish others for a cycle: the
\* image of a deleted incarnation beside the log of the next, or an image beside a log that
\* was reset past it (Shipping's Mixed and ahead); a replica serves what they describe.
DebtFreeReadsArePrefix == Whole(hyd.sig) => SteadyReadsArePrefix

\* When a poll finds its stamp applied, nothing of an earlier manifest is left: the
\* files, the entry's sidecar and the loaded copy are the manifest's, and a context
\* the manifest lost is gone, whatever failed, raced or was retried on the way.  (A
\* process that booted without the bucket has no families to miss, and a fetch that
\* took a refreshed extent landed more than it recorded: see DoneIsExact.)
AppliedMeansCurrent ==
  LET g == NewestComplete  sig == store[g].man.sig
  IN th[Tailer].pc = "idle" /\ Complete # {} /\ tail.applied = <<g, store[g].man.stamp>> =>
       IF sig.img.here
       THEN /\ ent.reg
            /\ hyd.drift \/ (ent.meta = sig.meta /\ disk = sig)
            /\ hyd.drift \/ ~ent.hot \/ ent.ops = Loaded(sig.img, sig.lane)
       ELSE ~ent.reg \/ tail.blind

\* hydrate.rs of the state Done: materialized and verified as this exact manifest slice.
DoneIsExact == hyd.state = "Done" => disk = hyd.done

\* The replica reaches the last manifest: no caller is left parked behind a fetch, no
\* failure or mismatch is final.
EventuallyApplied ==
  <>[](tail.applied = <<NewestComplete, store[NewestComplete].man.stamp>>)

=============================================================================
