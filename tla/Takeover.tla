------------------------------ MODULE Takeover ------------------------------
(***************************************************************************)
(* One bucket, several data directories: how a writer boots from what its  *)
(* predecessor shipped, hydrates the context family behind the requests it *)
(* already serves, claims a generation and crowns it with a manifest,      *)
(* while the predecessor may still be alive, and while any of them crashes *)
(* and starts again over its own old files.                                *)
(*                                                                         *)
(* A file's content stands for its length and checksum.  The files of a    *)
(* family are its image, its log and its deletion marker; the sidecar      *)
(* travels with the image.  Appends and flushes are single steps here      *)
(* (ContextStore has theirs), and so are one cycle's uploads before the    *)
(* manifest (Shipping has those).                                          *)
(***************************************************************************)
EXTENDS Integers, Sequences, FiniteSets, SequencesExt

CONSTANTS
  Dirs,        \* data directories
  First,       \* the one whose process created the bucket
  MaxOps,      \* bound: acknowledged writes
  MaxBoots,    \* bound: starts after the first one
  MaxEvents    \* bound: flushes, deletions, failed bucket calls and record writes

ASSUME TakeoverConstants ==
  First \in Dirs /\ {MaxOps, MaxBoots, MaxEvents} \subseteq Nat

VARIABLES
  disk,    \* per directory: the family's files
  record,  \* per directory: the replication record's claimed_generation
  proc,    \* per directory: its process, the hydrator and the registry entry
  ship,    \* per directory: the process's shipper
  bucket,  \* per generation: objects and manifest
  fence,   \* the highest claimed generation
  past,    \* history: per write, what the memory held when it was acknowledged
  base,    \* history: per directory, what the manifest it last hydrated from rebuilds
  fate,    \* history: per directory, has the family been deleted since: live, doomed, gone
  cut,     \* history: per directory, was its last hydration cut short?
  flaws,   \* history: the known disagreements that have occurred
  used     \* history: starts and events so far

history == <<past, base, fate, cut, flaws, used>>
vars == <<disk, record, proc, ship, bucket, fence, history>>

Gens == 1..(MaxBoots + 1)
NoRecord == -1    \* no record file; 0 stands for one without a claimed_generation

-----------------------------------------------------------------------------
(* Files, and what a load makes of them *)

NoImage == [here |-> FALSE, ops |-> <<>>, wm |-> 0]
NoLog == [here |-> FALSE, recs |-> <<>>]
NoFiles == [img |-> NoImage, log |-> NoLog, marker |-> FALSE]

\* replay_wal_guarded: records above the image's watermark, in order.
Loaded(f) ==
  LET above == SelectSeq(f.log.recs, LAMBDA r : r.n > f.img.wm)
  IN f.img.ops \o [i \in DOMAIN above |-> above[i].op]
LastNumber(f) ==
  IF f.log.recs = <<>> \/ Last(f.log.recs).n < f.img.wm THEN f.img.wm ELSE Last(f.log.recs).n

EmptyGen == [img |-> NoImage, lanes |-> {}, marker |-> FALSE, complete |-> FALSE, man |-> NoFiles]

Down == [pc |-> "down", tgt |-> 0, man |-> NoFiles, hyd |-> "none", fetched |-> FALSE,
         reg |-> FALSE]
NoShipper == [pc |-> "off", gen |-> 0, files |-> NoFiles, baseline |-> FALSE, mdirty |-> FALSE,
              todo |-> {}]

\* The first writer has claimed generation 1, written once and shipped it; its record
\* of the claim is best effort.
FirstFiles == [img |-> [here |-> TRUE, ops |-> <<>>, wm |-> 0],
               log |-> [here |-> TRUE, recs |-> << [n |-> 1, op |-> 1] >>], marker |-> FALSE]

Init ==
  /\ disk = [d \in Dirs |-> IF d = First THEN FirstFiles ELSE NoFiles]
  /\ record \in { [d \in Dirs |-> IF d = First THEN r ELSE NoRecord] : r \in {1, NoRecord} }
  /\ proc = [d \in Dirs |-> IF d # First THEN Down
               ELSE [Down EXCEPT !.pc = "up", !.reg = TRUE]]
  /\ ship = [d \in Dirs |-> IF d # First THEN NoShipper
               ELSE [NoShipper EXCEPT !.pc = "idle", !.gen = 1, !.files = FirstFiles,
                                      !.baseline = TRUE]]
  /\ bucket = [g \in Gens |-> IF g # 1 THEN EmptyGen
                 ELSE [img |-> FirstFiles.img, lanes |-> {FirstFiles.log.recs}, marker |-> FALSE,
                       complete |-> TRUE, man |-> FirstFiles]]
  /\ fence = 1
  /\ past = << <<>> >>
  /\ base = [d \in Dirs |-> [here |-> FALSE, ops |-> <<>>]]
  /\ fate = [d \in Dirs |-> "live"]
  /\ cut = [d \in Dirs |-> FALSE]
  /\ flaws = {}
  /\ used = [boots |-> 0, events |-> 0]

Limit == [boots |-> MaxBoots, events |-> MaxEvents]
Left(kind) == used[kind] < Limit[kind]
Use(kind) == Left(kind) /\ used' = [used EXCEPT ![kind] = @ + 1]
Event == Use("events")

\* Hydrator::drained: every family is done or vetoed.
Drained(d) == proc[d].hyd \in {"none", "done", "vetoed"}

Complete == { g \in Gens : bucket[g].complete }
NewestComplete == CHOOSE g \in Complete : \A h \in Complete : h <= g

-----------------------------------------------------------------------------
(* prepare: how the directory relates to the bucket *)

\* The newest fence is this directory's own claim: its disk is the lineage's tip.
WarmRestart(d) == record[d] = fence

\* Real data and no record: the directory is its own truth, bucket or no bucket.
LocalTruth(d) == record[d] = NoRecord /\ disk[d] # NoFiles

\* The manifest of the newest complete generation, which the directory then caches.
Target(d) == IF WarmRestart(d) \/ LocalTruth(d) THEN 0 ELSE NewestComplete
Manifest(g) == IF g = 0 THEN NoFiles ELSE bucket[g].man

\* hydrate_shared: files the manifest does not name go, the marker it names lands;
\* what the family itself needs stays as it is for now.
Shared(d) ==
  LET m == Manifest(Target(d))
  IN IF Target(d) = 0 THEN disk[d]
     ELSE [img |-> IF m.img.here THEN disk[d].img ELSE NoImage,
           log |-> IF m.log.here THEN disk[d].log ELSE NoLog,
           marker |-> m.marker]

\* The takeover guard refuses or lets pass on the age of a heartbeat, or on the
\* operator's word: any start may happen.
Starts(d) == proc[d].pc = "down" /\ Use("boots")

Inherits(d) ==
  LET m == Manifest(Target(d))
  IN /\ base' = IF Target(d) = 0 THEN base
                ELSE [base EXCEPT ![d] = [here |-> m.img.here, ops |-> Loaded(m)]]
     /\ flaws' = IF WarmRestart(d) /\ cut[d] THEN flaws \cup {"hollow"} ELSE flaws

\* scan_data_dir: a marker resumes its deletion, behind a veto.
Swept(files) == IF files.marker THEN NoFiles ELSE files

\* boot_with: what has an image is registered, and every stem of the hydrator.
Registered(hyd, files) == hyd # "none" \/ files.img.here

\* prepare, with the shared half of the hydration and both phases of the record, then
\* the boot.  The fill and the shipping task start.
Boot(d) ==
  LET g == Target(d)
      landed == Shared(d)
      hyd == IF ~Manifest(g).img.here THEN "none"
             ELSE IF landed.marker THEN "vetoed" ELSE "pending"
  IN /\ Starts(d) /\ Inherits(d)
     /\ landed.marker /\ g # 0 => bucket[g].marker \/ disk[d].marker
     /\ disk' = [disk EXCEPT ![d] = Swept(landed)]
     /\ record' = IF g = 0 THEN record ELSE [record EXCEPT ![d] = 0]
     /\ fate' = [fate EXCEPT ![d] = IF landed.marker THEN "gone" ELSE IF g = 0 THEN @ ELSE "live"]
     /\ cut' = [cut EXCEPT ![d] = IF g = 0 THEN @ ELSE FALSE]
     /\ proc' = [proc EXCEPT ![d] = [Down EXCEPT !.pc = "up", !.hyd = hyd,
                               !.tgt = IF hyd = "pending" THEN g ELSE 0,
                               !.man = IF hyd = "pending" THEN Manifest(g) ELSE NoFiles,
                               !.reg = Registered(hyd, Swept(landed))]]
     /\ ship' = [ship EXCEPT ![d].pc = "claim"]
     /\ UNCHANGED <<bucket, fence, past>>

\* A boot from the bucket that ends early: phase one of the record came first.
PhaseOne(r) == IF r = NoRecord THEN 0 ELSE r
BootDies(d) ==
  /\ Starts(d) /\ Target(d) # 0 /\ Inherits(d)
  /\ disk' = [disk EXCEPT ![d] = Shared(d)]
  /\ record' = [record EXCEPT ![d] = PhaseOne(@)]
  /\ fate' = [fate EXCEPT ![d] = "live"]
  /\ cut' = [cut EXCEPT ![d] = TRUE]
  /\ UNCHANGED <<proc, ship, bucket, fence, past>>

\* The process dies; files, record and bucket stay.
Crash(d) ==
  /\ proc[d].pc # "down" /\ Left("boots")
  /\ cut' = [cut EXCEPT ![d] = @ \/ ~Drained(d)]
  /\ proc' = [proc EXCEPT ![d] = Down]
  /\ ship' = [ship EXCEPT ![d] = NoShipper]
  /\ UNCHANGED <<disk, record, bucket, fence, past, base, fate, flaws, used>>

-----------------------------------------------------------------------------
(* The hydrator: ensure_context, by first touch or by the background fill *)

\* An extent the objects do not bear out is read again from the generation's manifest
\* (refreshed_extent); when that does not help, or no longer names the file, the
\* attempt ends and the family stays pending.
ImageServed(d, img) == img = disk[d].img \/ img = bucket[proc[d].tgt].img
WantedImages(d) ==
  LET m == proc[d].man.img  r == bucket[proc[d].tgt].man.img
  IN { i \in {IF ImageServed(d, m) THEN m ELSE r} : i.here /\ ImageServed(d, i) }

\* fetch_published_if_stale: matching local bytes are reused.
FetchImage(d) ==
  /\ proc[d].hyd = "pending"
  /\ \E img \in WantedImages(d) :
       /\ disk' = [disk EXCEPT ![d].img = img]
       /\ proc' = [proc EXCEPT ![d].hyd = "inflight", ![d].fetched = disk[d].img # img]
  /\ UNCHANGED <<record, ship, bucket, fence, history>>

\* fetch_lane_if_stale under KeepAckedTail: a log that begins with the shipped extent
\* keeps its own tail.
MutKeepsTail(local, shipped) == local.here /\ Len(local.recs) >= Len(shipped.recs)
KeepsTail(local, shipped) == local.here /\ IsPrefix(shipped.recs, local.recs)

LaneServed(d, lane) ==
  \/ KeepsTail(disk[d].log, lane)
  \/ lane.recs = <<>> \/ lane.recs \in bucket[proc[d].tgt].lanes
WantedLanes(d) ==
  LET m == proc[d].man.log  r == bucket[proc[d].tgt].man.log
  IN { l \in {IF LaneServed(d, m) THEN m ELSE r} : l.here /\ LaneServed(d, l) }

Landing(d, lane) == IF KeepsTail(disk[d].log, lane) THEN disk[d].log ELSE lane

\* The two ways this half is known to go wrong: an empty lane vouches for a local tail
\* beside an image from elsewhere, and an extent read again is newer than the image.
LaneFlaws(d, lane) ==
  (IF lane.recs = <<>> /\ proc[d].fetched /\ Landing(d, lane) # lane THEN {"grafted"} ELSE {})
    \cup (IF lane # proc[d].man.log THEN {"skewed"} ELSE {})

\* Done or vetoed: the target is not looked at again.
MutSettled(p, state) ==
  IF state = "vetoed" THEN p ELSE [Down EXCEPT !.pc = p.pc, !.reg = p.reg, !.hyd = state]
Settled(p, state) == [Down EXCEPT !.pc = p.pc, !.reg = p.reg, !.hyd = state]

FetchLane(d) ==
  /\ proc[d].hyd = "inflight"
  /\ IF ~proc[d].man.log.here THEN UNCHANGED <<disk, flaws>>
     ELSE \E lane \in WantedLanes(d) :
            /\ disk' = [disk EXCEPT ![d].log = Landing(d, lane)]
            /\ flaws' = flaws \cup LaneFlaws(d, lane)
  /\ proc' = [proc EXCEPT ![d] = Settled(@, "done")]
  /\ UNCHANGED <<record, ship, bucket, fence, past, base, fate, cut, used>>

\* A failed download, or no object that verifies: pending again, and the fill retries.
Unfetched(d, state) ==
  /\ proc[d].hyd = "inflight"
  /\ IF proc[d].man.log.here /\ WantedLanes(d) = {} THEN UNCHANGED used ELSE Event
  /\ proc' = [proc EXCEPT ![d].hyd = state, ![d].fetched = FALSE]
  /\ UNCHANGED <<disk, record, ship, bucket, fence, past, base, fate, cut, flaws>>
MutFetchFails(d) == Unfetched(d, "stranded")
FetchFails(d) == Unfetched(d, "pending")

-----------------------------------------------------------------------------
(* The family in use *)

\* A load waits for ensure_context; from then on only the process's own writes change
\* the files, and its memory is what they rebuild.
Servable(d) == proc[d].reg /\ proc[d].hyd \in {"none", "done"} /\ disk[d].img.here
Served(d) == Loaded(disk[d])

Write(d) ==
  /\ Servable(d) /\ Len(past) < MaxOps
  /\ disk' = [disk EXCEPT ![d].log = [here |-> TRUE,
                recs |-> Append(@.recs, [n |-> LastNumber(disk[d]) + 1, op |-> Len(past) + 1])]]
  /\ past' = Append(past, Served(d))
  /\ UNCHANGED <<record, proc, ship, bucket, fence, base, fate, cut, flaws, used>>

\* The image, and the log's reset if the shipper has reported its last record.
Shipped(d) == LET recs == ship[d].files.log.recs IN IF recs = <<>> THEN 0 ELSE Last(recs).n
Flush(d) ==
  LET n == LastNumber(disk[d])
  IN /\ Servable(d) /\ n > disk[d].img.wm /\ Event
     /\ disk' = [disk EXCEPT
          ![d].img = [here |-> TRUE, ops |-> Served(d), wm |-> n],
          ![d].log.recs = IF Shipped(d) >= n THEN <<>> ELSE @]
     /\ UNCHANGED <<record, proc, ship, bucket, fence, past, base, fate, cut, flaws>>

\* delete: unregistered, then the veto, which waits out a fetch in flight, and the
\* marker.
Vetoed(d) ==
  /\ proc' = [proc EXCEPT ![d] = [Settled(@, IF @.hyd = "none" THEN "none" ELSE "vetoed")
                                     EXCEPT !.reg = FALSE]]
  /\ disk' = [disk EXCEPT ![d].marker = TRUE]
  /\ fate' = [fate EXCEPT ![d] = "doomed"] /\ Event
  /\ UNCHANGED <<record, ship, bucket, fence, past, base, cut, flaws>>
Delete(d) == proc[d].reg /\ proc[d].hyd # "inflight" /\ Vetoed(d)

Unlink(d) ==
  /\ proc[d].pc = "up" /\ disk[d].marker
  /\ disk' = [disk EXCEPT ![d] = NoFiles]
  /\ fate' = [fate EXCEPT ![d] = "gone"]
  /\ UNCHANGED <<record, proc, ship, bucket, fence, past, base, cut, flaws, used>>

-----------------------------------------------------------------------------
(* Shipper::claim and cycle *)

\* newest_fence and the conditional create, bidding higher until one succeeds; then the
\* record, best effort.
Claim(d) ==
  /\ ship[d].pc = "claim"
  /\ fence' = fence + 1
  /\ \/ record' = [record EXCEPT ![d] = fence + 1] /\ UNCHANGED used
     \/ Event /\ UNCHANGED record
  /\ ship' = [ship EXCEPT ![d].pc = "idle", ![d].gen = fence + 1]
  /\ UNCHANGED <<disk, proc, bucket, past, base, fate, cut, flaws>>

\* scan: what differs from the shipper's bookkeeping, by file; a log is always listed.
Differs(d) == { f \in {"img", "log", "marker"} : disk[d][f] # ship[d].files[f] }

\* The hydrator is asked after the scan.  Once it has drained it stays so, and the
\* scan is part of the step that ships.
Scan(d) ==
  /\ ship[d].pc = "idle" /\ ~Drained(d) /\ Differs(d) # {}
  /\ ship' = [ship EXCEPT ![d].pc = "gate", ![d].todo =
               Differs(d) \cup (IF disk[d].log.here THEN {"log"} ELSE {})]
  /\ UNCHANGED <<disk, record, proc, bucket, fence, history>>

Ready(d) ==
  \/ ship[d].pc = "gate"
  \/ /\ ship[d].pc = "idle" /\ Drained(d)
     /\ Differs(d) # {} \/ ship[d].mdirty \/ ~ship[d].baseline

\* A newer claim stops a deposed shipper for good: work or a due heartbeat makes it look.
Fenced(d) ==
  /\ ship[d].pc \in {"idle", "gate"} /\ fence > ship[d].gen
  /\ ship' = [ship EXCEPT
       ![d] = [NoShipper EXCEPT !.pc = "fenced", !.files.log = ship[d].files.log]]
  /\ UNCHANGED <<disk, record, proc, bucket, fence, history>>

\* Vanished files are retired, changed ones shipped, the lane tailed; a lane that
\* diverged from what was shipped takes its parent image along.  A log gone since the
\* scan is left to the next one.
Todo(d) ==
  IF ship[d].pc = "gate" THEN { f \in ship[d].todo : f = "log" => disk[d].log.here }
  ELSE Differs(d)
Diverged(d) == "log" \in Todo(d) /\ ~IsPrefix(ship[d].files.log.recs, disk[d].log.recs)
Uploading(d) == Todo(d) \cup (IF Diverged(d) THEN {"img"} ELSE {})
Taken(d, names) ==
  [f \in DOMAIN NoFiles |-> IF f \in names THEN disk[d][f] ELSE ship[d].files[f]]
Landed(d, names) ==
  LET new == Taken(d, names)
  IN [bucket EXCEPT ![ship[d].gen].img = new.img, ![ship[d].gen].marker = new.marker,
        ![ship[d].gen].lanes = IF new.log.here THEN @ \cup {new.log.recs} ELSE {}]
\* A lane without a record does not make the manifest stale when it appears.
Outdates(new, old) ==
  \/ new.img # old.img \/ new.marker # old.marker
  \/ new.log.recs # old.log.recs \/ (old.log.here /\ ~new.log.here)
Uploaded(d, names) ==
  [ship[d] EXCEPT !.todo = {}, !.files = Taken(d, names),
                  !.mdirty = @ \/ Outdates(Taken(d, names), ship[d].files)]

\* put_manifest: never before the hydration has drained.
MutOwes(d, s) == ~s.baseline \/ s.mdirty
Owes(d, s) == (~s.baseline \/ s.mdirty) /\ Drained(d)

\* What landed after the scan and is not taken along: this manifest will not have it.
Missed(d) == Differs(d) \ Uploading(d)

\* ship_published finds nothing to read.
ImageVanished(d) == ship[d].pc = "gate" /\ "img" \in ship[d].todo /\ ~disk[d].img.here

Ship(d) ==
  /\ Ready(d) /\ fence = ship[d].gen
  /\ IF ImageVanished(d)
     THEN /\ ship' = [ship EXCEPT ![d].pc = "idle", ![d].todo = {}]
          /\ UNCHANGED <<bucket, flaws>>
     ELSE LET s == Uploaded(d, Uploading(d))
          IN /\ bucket' = Landed(d, Uploading(d))
             /\ ship' = [ship EXCEPT ![d] =
                           [s EXCEPT !.pc = IF Owes(d, s) THEN "manifest" ELSE "idle"]]
             /\ flaws' = IF Owes(d, s) /\ Missed(d) # {} THEN flaws \cup {"early"} ELSE flaws
  /\ UNCHANGED <<disk, record, proc, fence, past, base, fate, cut, used>>

\* The call for one file fails; those before it have landed.
ShipFails(d) ==
  /\ Ready(d) /\ fence = ship[d].gen /\ ~ImageVanished(d) /\ Event
  /\ LET names == Uploading(d) \ {"log"}
     IN /\ names # {} /\ bucket' = Landed(d, names)
        /\ ship' = [ship EXCEPT ![d] = [Uploaded(d, names) EXCEPT !.pc = "idle"]]
  /\ UNCHANGED <<disk, record, proc, fence, past, base, fate, cut, flaws>>

Published(d) ==
  [bucket EXCEPT ![ship[d].gen].complete = TRUE, ![ship[d].gen].man = ship[d].files]

PutManifest(d) ==
  /\ ship[d].pc = "manifest"
  /\ bucket' = Published(d)
  /\ ship' = [ship EXCEPT ![d].pc = "idle", ![d].baseline = TRUE, ![d].mdirty = FALSE]
  /\ UNCHANGED <<disk, record, proc, fence, history>>

\* A put that reports failure may have taken effect.
PutManifestFails(d) ==
  /\ ship[d].pc = "manifest" /\ Event
  /\ bucket' \in {bucket, Published(d)}
  /\ ship' = [ship EXCEPT ![d].pc = "idle"]
  /\ UNCHANGED <<disk, record, proc, fence, past, base, fate, cut, flaws>>

-----------------------------------------------------------------------------

Hydration(d) == FetchImage(d) \/ FetchLane(d) \/ FetchFails(d)
Cycle(d) ==
  \/ Claim(d) \/ Scan(d) \/ Fenced(d) \/ Ship(d) \/ ShipFails(d)
  \/ PutManifest(d) \/ PutManifestFails(d)

Background(d) == Hydration(d) \/ Unlink(d) \/ Cycle(d)
Next ==
  \E d \in Dirs : \/ Boot(d) \/ BootDies(d) \/ Crash(d)
                  \/ Write(d) \/ Flush(d) \/ Delete(d) \/ Background(d)

Spec == Init /\ [][Next]_vars

-----------------------------------------------------------------------------
(* Properties *)

IsHistory(ops) == \A i \in DOMAIN ops : past[ops[i]] = SubSeq(ops, 1, i - 1)

\* What a process serves is one history: each write stands on exactly what its writer
\* had acknowledged before it.  No takeover mixes the tail of a deposed writer with
\* its successor's records, leaves a gap or applies a record twice.
MixesNothing == \A d \in Dirs : Servable(d) => IsHistory(Served(d))
ServedIsAHistory == flaws = {} => MixesNothing

\* The manifest gate: the manifest a directory publishes rebuilds what it inherited,
\* unless the family was deleted there.
Keeps(d) ==
  ship[d].pc = "manifest" /\ base[d].here /\ fate[d] = "live"
    => ship[d].files.img.here /\ IsPrefix(base[d].ops, Loaded(ship[d].files))
CrownedWhole == \A d \in Dirs : Keeps(d)

\* The same, while none of the known disagreements has occurred.
CrownKeepsLineage == flaws = {} => CrownedWhole

\* A deleted family stays deleted in its directory until the directory is hydrated from
\* the bucket anew: no fetch still due lands it again, no restart over the directory's
\* own files brings it back, and no request is served from it.
VetoHolds ==
  \A d \in Dirs : fate[d] = "gone" => ~disk[d].img.here /\ ~disk[d].log.here /\ ~Servable(d)

\* The family's objects are what some manifest of their generation says.
Fetchable(d) ==
  /\ proc[d].hyd = "pending" => WantedImages(d) # {}
  /\ proc[d].hyd = "inflight" /\ proc[d].man.log.here => WantedLanes(d) # {}

\* A process with nothing left to do in the background has had its own generation
\* crowned, and the manifest is up to date with its files: no failed call, no fetch in
\* flight and no veto leaves a family, a cycle or a caller waiting for good.  Excepted
\* are a fenced shipper, and objects that their generation's manifest disowns.
IdleIsCrowned ==
  \A d \in Dirs :
    proc[d].pc = "up" /\ ~ENABLED Background(d) /\ ship[d].pc # "fenced" /\ Fetchable(d)
      => ship[d].baseline /\ ~Outdates(disk[d], bucket[ship[d].gen].man)

=============================================================================
