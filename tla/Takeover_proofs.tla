--------------------------- MODULE Takeover_proofs ---------------------------
(***************************************************************************)
(* Proofs about Takeover, for any number of data directories, starts,      *)
(* writes and failures.                                                    *)
(***************************************************************************)
EXTENDS Takeover, TLAPS

\* The part of the types that the argument needs: which directories and which fields
\* there are.
Shape ==
  /\ DOMAIN disk = Dirs /\ DOMAIN proc = Dirs /\ DOMAIN fate = Dirs
  /\ \A d \in Dirs :
       /\ DOMAIN disk[d] = DOMAIN NoFiles
       /\ DOMAIN proc[d] = DOMAIN Down

Fetches(d) == proc[d].hyd \in {"pending", "inflight"}

\* No family whose deletion marker is on disk has a fetch due or in flight: a delete
\* vetoes it before it writes the marker, and a boot that finds one never aims the
\* hydrator at the family.
MarkedIsVetoed == \A d \in Dirs : disk[d].marker => ~Fetches(d)

\* A family deleted to the end has neither image nor log, and nothing will fetch them.
GoneIsBare ==
  \A d \in Dirs : fate[d] = "gone" => ~disk[d].img.here /\ ~disk[d].log.here /\ ~Fetches(d)

\* A dead process fetches nothing.
DownIsIdle == \A d \in Dirs : proc[d].pc = "down" => ~Fetches(d)

IInv == Shape /\ MarkedIsVetoed /\ GoneIsBare /\ DownIsIdle

-----------------------------------------------------------------------------

LEMMA InitIInv == Init => IInv
BY DEF Init, IInv, Shape, MarkedIsVetoed, GoneIsBare, DownIsIdle, Fetches, NoFiles, NoLog, NoImage,
       FirstFiles, Down

\* A step that leaves every directory but d alone and d as GoneIsBare wants it.
LEMMA StepIInv ==
  ASSUME NEW d \in Dirs, IInv,
         DOMAIN disk' = Dirs, DOMAIN proc' = Dirs, DOMAIN fate' = Dirs,
         \A e \in Dirs : e # d => disk'[e] = disk[e] /\ proc'[e] = proc[e] /\ fate'[e] = fate[e],
         DOMAIN disk'[d] = DOMAIN NoFiles,
         DOMAIN proc'[d] = DOMAIN Down,
         proc'[d].pc = "down" => proc'[d].hyd \notin {"pending", "inflight"},
         disk'[d].marker => proc'[d].hyd \notin {"pending", "inflight"},
         fate'[d] = "gone" => /\ ~disk'[d].img.here /\ ~disk'[d].log.here
                              /\ proc'[d].hyd \notin {"pending", "inflight"}
  PROVE  IInv'
<1> SUFFICES ASSUME NEW e \in Dirs
             PROVE  /\ DOMAIN disk'[e] = DOMAIN NoFiles
                    /\ DOMAIN proc'[e] = DOMAIN Down
                    /\ proc'[e].pc = "down" => ~(proc'[e].hyd \in {"pending", "inflight"})
                    /\ disk'[e].marker => ~(proc'[e].hyd \in {"pending", "inflight"})
                    /\ fate'[e] = "gone" => /\ ~disk'[e].img.here /\ ~disk'[e].log.here
                                            /\ ~(proc'[e].hyd \in {"pending", "inflight"})
  BY DEF IInv, Shape, MarkedIsVetoed, GoneIsBare, DownIsIdle, Fetches
<1>1. CASE e = d
  BY <1>1
<1>2. CASE e # d
  BY <1>2 DEF IInv, Shape, MarkedIsVetoed, GoneIsBare, DownIsIdle, Fetches
<1> QED BY <1>1, <1>2

\* The files a start finds, and what it makes of them.
LEMMA SharedShape ==
  ASSUME NEW d \in Dirs, IInv
  PROVE  /\ DOMAIN Shared(d) = DOMAIN NoFiles
         /\ Target(d) = 0 => Shared(d) = disk[d]
<1>1. Target(d) = 0 => Shared(d) = disk[d]
  BY DEF Shared
<1>2. CASE Target(d) = 0
  BY <1>1, <1>2 DEF IInv, Shape
<1>3. CASE Target(d) # 0
  BY <1>3 DEF Shared, NoFiles, NoLog, IInv, Shape
<1> QED BY <1>1, <1>2, <1>3

LEMMA BootIInv == ASSUME NEW d \in Dirs, IInv, Boot(d) PROVE IInv'
<1> DEFINE g == Target(d)
           landed == Shared(d)
           hyd == IF ~Manifest(g).img.here THEN "none"
                  ELSE IF landed.marker THEN "vetoed" ELSE "pending"
           up == [Down EXCEPT !.pc = "up", !.hyd = hyd,
                               !.tgt = IF hyd = "pending" THEN g ELSE 0,
                               !.man = IF hyd = "pending" THEN Manifest(g) ELSE NoFiles,
                               !.reg = Registered(hyd, Swept(landed))]
<1>1. /\ disk' = [disk EXCEPT ![d] = Swept(landed)]
      /\ fate' = [fate EXCEPT ![d] = IF landed.marker THEN "gone" ELSE IF g = 0 THEN @ ELSE "live"]
      /\ proc' = [proc EXCEPT ![d] = up]
  BY DEF Boot
<1>2. /\ DOMAIN landed = DOMAIN NoFiles
      /\ g = 0 => landed = disk[d]
  BY SharedShape
<1>3. g = 0 => hyd = "none"
  BY DEF Manifest, NoFiles, NoImage
<1>4. /\ DOMAIN up = DOMAIN Down /\ up.hyd = hyd /\ up.pc = "up"
      /\ landed.marker => hyd \in {"none", "vetoed"}
      /\ hyd \in {"none", "vetoed", "pending"}
  BY DEF Down
<1> HIDE DEF up, hyd, landed, g
<1>5. /\ DOMAIN Swept(landed) = DOMAIN NoFiles
      /\ landed.marker => Swept(landed) = NoFiles
      /\ ~landed.marker => Swept(landed) = landed
  BY <1>2 DEF Swept, NoFiles
<1>6. ~NoFiles.marker /\ ~NoFiles.img.here /\ ~NoFiles.log.here
  BY DEF NoFiles, NoImage, NoLog
<1>7. /\ DOMAIN disk' = Dirs /\ DOMAIN proc' = Dirs /\ DOMAIN fate' = Dirs
      /\ \A e \in Dirs : e # d => disk'[e] = disk[e] /\ proc'[e] = proc[e] /\ fate'[e] = fate[e]
      /\ disk'[d] = Swept(landed) /\ proc'[d] = up
      /\ fate'[d] = IF landed.marker THEN "gone" ELSE IF g = 0 THEN fate[d] ELSE "live"
  BY <1>1 DEF IInv, Shape
<1>8. disk'[d].marker => proc'[d].hyd \notin {"pending", "inflight"}
  BY <1>4, <1>5, <1>6, <1>7
<1>9. ASSUME fate'[d] = "gone"
      PROVE  /\ ~disk'[d].img.here /\ ~disk'[d].log.here
             /\ proc'[d].hyd \notin {"pending", "inflight"}
  <2>1. CASE landed.marker
    BY <2>1, <1>4, <1>5, <1>6, <1>7
  <2>2. CASE ~landed.marker
    <3>1. g = 0 /\ fate[d] = "gone"
      BY <2>2, <1>7, <1>9
    <3>2. disk'[d] = disk[d] /\ proc'[d].hyd = "none"
      BY <3>1, <2>2, <1>2, <1>3, <1>4, <1>5, <1>7
    <3> QED BY <3>1, <3>2 DEF IInv, GoneIsBare
  <2> QED BY <2>1, <2>2
<1> QED BY <1>4, <1>5, <1>7, <1>8, <1>9, StepIInv

LEMMA BootDiesIInv == ASSUME NEW d \in Dirs, IInv, BootDies(d) PROVE IInv'
<1>1. /\ disk' = [disk EXCEPT ![d] = Shared(d)]
      /\ fate' = [fate EXCEPT ![d] = "live"]
      /\ proc' = proc /\ proc[d].pc = "down"
  BY DEF BootDies, Starts
<1>2. DOMAIN Shared(d) = DOMAIN NoFiles
  BY SharedShape
<1>3. ~Fetches(d)
  BY <1>1 DEF IInv, DownIsIdle
<1> QED BY <1>1, <1>2, <1>3, StepIInv DEF IInv, Shape, Fetches

LEMMA CrashIInv == ASSUME NEW d \in Dirs, IInv, Crash(d) PROVE IInv'
<1>1. proc' = [proc EXCEPT ![d] = Down] /\ disk' = disk /\ fate' = fate
  BY DEF Crash
<1>2. Down.hyd = "none"
  BY DEF Down
<1> QED BY <1>1, <1>2, StepIInv DEF IInv, Shape, GoneIsBare

\* A fetch is under way only where nothing was deleted, and nothing deletes meanwhile.
LEMMA FetchImageIInv == ASSUME NEW d \in Dirs, IInv, FetchImage(d) PROVE IInv'
<1>1. PICK img \in WantedImages(d) :
        /\ disk' = [disk EXCEPT ![d].img = img]
        /\ proc' = [proc EXCEPT ![d].hyd = "inflight", ![d].fetched = disk[d].img # img]
  BY DEF FetchImage
<1>2. fate' = fate /\ Fetches(d) /\ proc[d].hyd = "pending"
  BY DEF FetchImage, Fetches, history
<1>3. ~disk[d].marker /\ fate[d] # "gone" /\ proc[d].pc # "down"
  BY <1>2 DEF IInv, MarkedIsVetoed, GoneIsBare, DownIsIdle
<1>4. /\ DOMAIN disk'[d] = DOMAIN NoFiles
      /\ disk'[d].marker = disk[d].marker
      /\ DOMAIN proc'[d] = DOMAIN Down /\ proc'[d].pc = proc[d].pc
  BY <1>1 DEF IInv, Shape, NoFiles, Down
<1>5. /\ DOMAIN disk' = Dirs /\ DOMAIN proc' = Dirs /\ DOMAIN fate' = Dirs
      /\ \A e \in Dirs : e # d => disk'[e] = disk[e] /\ proc'[e] = proc[e] /\ fate'[e] = fate[e]
  BY <1>1, <1>2 DEF IInv, Shape
<1> QED BY <1>2, <1>3, <1>4, <1>5, StepIInv

LEMMA FetchLaneIInv == ASSUME NEW d \in Dirs, IInv, FetchLane(d) PROVE IInv'
<1>1. fate' = fate /\ Fetches(d)
  BY DEF FetchLane, Fetches
<1>2. ~disk[d].marker /\ fate[d] # "gone" /\ proc[d].pc # "down"
  BY <1>1 DEF IInv, MarkedIsVetoed, GoneIsBare, DownIsIdle
<1>3. /\ DOMAIN proc' = Dirs /\ \A e \in Dirs : e # d => proc'[e] = proc[e]
      /\ DOMAIN proc'[d] = DOMAIN Down /\ proc'[d].hyd = "done"
  BY DEF FetchLane, Settled, IInv, Shape, Down
<1>4. /\ DOMAIN disk' = Dirs /\ \A e \in Dirs : e # d => disk'[e] = disk[e]
      /\ DOMAIN disk'[d] = DOMAIN NoFiles
  <2>1. CASE disk' = disk
    BY <2>1 DEF IInv, Shape
  <2>2. ASSUME NEW lane \in WantedLanes(d), disk' = [disk EXCEPT ![d].log = Landing(d, lane)]
        PROVE  /\ DOMAIN disk' = Dirs /\ \A e \in Dirs : e # d => disk'[e] = disk[e]
               /\ DOMAIN disk'[d] = DOMAIN NoFiles
    BY <2>2 DEF IInv, Shape, NoFiles
  <2> QED BY <2>1, <2>2 DEF FetchLane
<1> QED BY <1>1, <1>2, <1>3, <1>4, StepIInv DEF IInv, Shape

LEMMA FetchFailsIInv == ASSUME NEW d \in Dirs, IInv, FetchFails(d) PROVE IInv'
<1>1. /\ fate' = fate /\ disk' = disk /\ Fetches(d)
      /\ proc' = [proc EXCEPT ![d].hyd = "pending", ![d].fetched = FALSE]
  BY DEF FetchFails, Unfetched, Fetches
<1>2. ~disk[d].marker /\ fate[d] # "gone" /\ proc[d].pc # "down"
  BY <1>1 DEF IInv, MarkedIsVetoed, GoneIsBare, DownIsIdle
<1>3. /\ DOMAIN proc' = Dirs /\ \A e \in Dirs : e # d => proc'[e] = proc[e]
      /\ DOMAIN proc'[d] = DOMAIN Down /\ proc'[d].pc = proc[d].pc
  BY <1>1 DEF IInv, Shape, Down
<1> QED BY <1>1, <1>2, <1>3, StepIInv DEF IInv, Shape

\* Only a family that is there is written to.
LEMMA UseIInv == ASSUME NEW d \in Dirs, IInv, Write(d) \/ Flush(d) PROVE IInv'
<1>1. /\ fate' = fate /\ proc' = proc /\ disk[d].img.here
      /\ proc[d].hyd \in {"none", "done"}
  BY DEF Write, Flush, Servable
<1>2. fate[d] # "gone"
  BY <1>1 DEF IInv, GoneIsBare
<1>3. /\ DOMAIN disk' = Dirs /\ \A e \in Dirs : e # d => disk'[e] = disk[e]
      /\ DOMAIN disk'[d] = DOMAIN NoFiles
  BY DEF Write, Flush, IInv, Shape, NoFiles
<1> QED BY <1>1, <1>2, <1>3, StepIInv DEF IInv, Shape

LEMMA DeleteIInv == ASSUME NEW d \in Dirs, IInv, Delete(d) PROVE IInv'
<1>1. /\ proc[d].hyd # "inflight"
      /\ proc' = [proc EXCEPT ![d] = [Settled(@, IF @.hyd = "none" THEN "none" ELSE "vetoed")
                                        EXCEPT !.reg = FALSE]]
      /\ disk' = [disk EXCEPT ![d].marker = TRUE]
      /\ fate' = [fate EXCEPT ![d] = "doomed"]
  BY DEF Delete, Vetoed
<1>2. /\ DOMAIN proc' = Dirs /\ \A e \in Dirs : e # d => proc'[e] = proc[e]
      /\ DOMAIN proc'[d] = DOMAIN Down /\ proc'[d].hyd \in {"none", "vetoed"}
  BY <1>1 DEF IInv, Shape, Down, Settled
<1>3. /\ DOMAIN disk' = Dirs /\ \A e \in Dirs : e # d => disk'[e] = disk[e]
      /\ DOMAIN disk'[d] = DOMAIN NoFiles
      /\ DOMAIN fate' = Dirs /\ \A e \in Dirs : e # d => fate'[e] = fate[e]
      /\ fate'[d] = "doomed"
  BY <1>1 DEF IInv, Shape, NoFiles
<1> QED BY <1>2, <1>3, StepIInv

LEMMA UnlinkIInv == ASSUME NEW d \in Dirs, IInv, Unlink(d) PROVE IInv'
<1>1. /\ disk[d].marker /\ proc' = proc
      /\ disk' = [disk EXCEPT ![d] = NoFiles] /\ fate' = [fate EXCEPT ![d] = "gone"]
  BY DEF Unlink
<1>2. ~Fetches(d)
  BY <1>1 DEF IInv, MarkedIsVetoed
<1>3. ~NoFiles.marker /\ ~NoFiles.img.here /\ ~NoFiles.log.here
  BY DEF NoFiles, NoImage, NoLog
<1> QED BY <1>1, <1>2, <1>3, StepIInv DEF IInv, Shape, Fetches

\* The shipper only reads the directory.
LEMMA CycleIInv == ASSUME NEW d \in Dirs, IInv, Cycle(d) PROVE IInv'
<1>1. disk' = disk /\ proc' = proc /\ fate' = fate
  BY DEF Cycle, Claim, Scan, Fenced, Ship, ShipFails, PutManifest, PutManifestFails, history
<1> QED BY <1>1 DEF IInv, Shape, MarkedIsVetoed, GoneIsBare, DownIsIdle, Fetches

LEMMA NextIInv == IInv /\ [Next]_vars => IInv'
<1> SUFFICES ASSUME IInv, [Next]_vars PROVE IInv'
  OBVIOUS
<1>1. CASE UNCHANGED vars
  BY <1>1 DEF vars, history, IInv, Shape, MarkedIsVetoed, GoneIsBare, DownIsIdle, Fetches
<1>2. ASSUME NEW d \in Dirs,
             \/ Boot(d) \/ BootDies(d) \/ Crash(d)
             \/ Write(d) \/ Flush(d) \/ Delete(d) \/ Background(d)
      PROVE  IInv'
  <2>1. CASE Background(d)
    BY <2>1, FetchImageIInv, FetchLaneIInv, FetchFailsIInv, UnlinkIInv, CycleIInv
       DEF Background, Hydration
  <2> QED BY <1>2, <2>1, BootIInv, BootDiesIInv, CrashIInv, UseIInv, DeleteIInv
<1> QED BY <1>1, <1>2 DEF Next

-----------------------------------------------------------------------------

\* A delete that has run to its end in a directory is not undone there, whatever was
\* still being fetched, however often the process dies and starts again, and whoever
\* else ships to the bucket: until the directory is hydrated anew it holds neither
\* image nor log and serves nothing.
THEOREM DeletedStaysDeleted == Spec => []VetoHolds
<1>1. IInv => VetoHolds
  BY DEF IInv, GoneIsBare, VetoHolds, Servable
<1> QED BY InitIInv, NextIInv, <1>1, PTL DEF Spec

=============================================================================
