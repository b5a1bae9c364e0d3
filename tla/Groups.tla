------------------------------- MODULE Groups -------------------------------
(***************************************************************************)
(* Groups: named bundles of contexts and of other groups, one file each.   *)
(* Every operation runs under one lock and is a handful of file steps; the *)
(* process may die between any two, and a step may fail.  A rename is made *)
(* durable by a marker that boot resumes; everything else relies on boot's *)
(* reconciliation, which drops what dangles or nests illegally.            *)
(*                                                                         *)
(* A failing directory sync after a landed rename is outside the model, as *)
(* it is outside the repository's own fault injection (storage.rs).        *)
(***************************************************************************)
EXTENDS Integers, FiniteSets, FiniteSetsExt

CONSTANTS
  Names,       \* group names; integers stand for their order in the maps
  Contexts,    \* context ids
  MaxDepth,    \* MAX_GROUP_DEPTH
  MaxMembers,  \* MAX_GROUP_MEMBERS: the cap on each of a record's two sets
  MaxBatch,    \* bound: records of one restore
  MaxFaults,   \* bound: file operations that fail
  MaxCrashes   \* bound: crashes and restarts

ASSUME GroupConstants ==
  /\ Names \subseteq Nat \ {0} /\ IsFiniteSet(Names)
  /\ {MaxDepth, MaxMembers, MaxBatch, MaxFaults, MaxCrashes} \subseteq Nat

VARIABLES
  mem,      \* the groups map: a function on the registered names
  files,    \* the {stem}.group files
  markers,  \* the {stem}.grouprenaming files: from |-> to
  live,     \* contexts in the registry
  kept,     \* contexts a boot would register
  op,       \* the holder of the groups lock and what it has left to do
  drop,     \* the context delete in flight
  faults,   \* history
  crashes,  \* history
  loose,    \* history: has a name whose last change is still owed to the disk been taken
            \* again, a deleted group's file stayed, or boot's repair of a nesting a cut
            \* restore left not been written?
  cut       \* history: "cut" once a restore stopped partway, "deep" once one was begun
            \* over a map that an earlier cut one had left past the depth cap

disk == <<files, markers, kept>>
vars == <<mem, disk, live, op, drop, faults, crashes, loose, cut>>

-----------------------------------------------------------------------------
(* Maps of groups *)

Capped(S) == { s \in SUBSET S : Cardinality(s) <= MaxMembers }
Record == [ctxs : Capped(Contexts), kids : Capped(Names)]   \* check_member_caps
Maps == UNION { [D -> Record] : D \in SUBSET Names }
None == [n \in {} |-> n]

Only(f, D) == [n \in DOMAIN f \cap D |-> f[n]]
Less(f, D) == Only(f, DOMAIN f \ D)
Put(f, n, v) == [k \in DOMAIN f \cup {n} |-> IF k = n THEN v ELSE f[k]]
Overlay(f, g) == [k \in DOMAIN f \cup DOMAIN g |-> IF k \in DOMAIN g THEN g[k] ELSE f[k]]
MapKids(m, F(_)) == [n \in DOMAIN m |-> [m[n] EXCEPT !.kids = F(@)]]

\* chain_depth's walk over the child sets alone: the groups a chain of len groups hangs
\* from.  A cycle has chains of any length, and a name without a record ends one.
Kids(m) == [n \in DOMAIN m |-> m[n].kids]
Chains(kids, len) ==
  LET c[k \in 1..len] ==
        IF k = 1 THEN DOMAIN kids
        ELSE LET below == c[k - 1] IN { n \in DOMAIN kids : kids[n] \cap below # {} }
  IN c[len]

\* validate_nesting, tabulated once for every collection: no cycle and no chain past
\* the cap.  nesting_depths is its memo.
Nestings ==
  { kids \in UNION { [D -> SUBSET Names] : D \in SUBSET Names } : Chains(kids, MaxDepth + 1) = {} }
Nested(m) == Kids(m) \in Nestings
Acyclic(m) == Chains(Kids(m), Cardinality(Names) + 1) = {}
Depth(m, n) == Max({ k \in 1..MaxDepth : n \in Chains(Kids(m), k) })

\* repair_nesting: rebuild the child sets edge by edge, in order, without what the
\* validator refuses.
Repair(m) ==
  LET width == Max(Names) + 1
      With(acc, p, c) == [acc EXCEPT ![p].kids = @ \cup {c}]
      built[k \in 0..(width * width)] ==   \* the edge <<p, c>> is the (p * width + c)th
        IF k = 0 THEN MapKids(m, LAMBDA s : {})
        ELSE LET p == (k - 1) \div width  c == (k - 1) % width
                 so == built[k - 1]
             IN IF p \in DOMAIN m /\ c \in m[p].kids /\ Nested(With(so, p, c))
                THEN With(so, p, c) ELSE so
  IN IF Nested(m) THEN m ELSE built[width * width]

\* reconcile_groups: drop members that are not contexts and children that are not
\* groups, then repair what remains.
Reconcile(m, ctxs) ==
  Repair([n \in DOMAIN m |-> [ctxs |-> m[n].ctxs \cap ctxs, kids |-> m[n].kids \cap DOMAIN m]])

\* One group's name changed, and in the child sets that held it.
Moved(m, from, to) ==
  IF from \in DOMAIN m THEN Put(Less(m, {from}), to, m[from]) ELSE m
Renames(s, from, to) == IF from \in s THEN (s \ {from}) \cup {to} ELSE s
Renamed(m, from, to) == MapKids(Moved(m, from, to), LAMBDA s : Renames(s, from, to))

\* resume_rename_markers: markers that share an endpoint are left to the operator.
Ends(f) == {f, markers[f]}
Resumable == { f \in DOMAIN markers : \A g \in DOMAIN markers \ {f} : Ends(f) \cap Ends(g) = {} }

\* A map once every resumable rename is done: the file moved if it was there, the
\* children carried along if the destination then is.
Resumed(m) ==
  LET moved == FoldSet(LAMBDA f, acc : Moved(acc, f, markers[f]), m, Resumable)
      landed == { f \in Resumable : markers[f] \in DOMAIN moved }
  IN FoldSet(LAMBDA f, acc : MapKids(acc, LAMBDA s : Renames(s, f, markers[f])), moved, landed)

\* What a boot that meets no failure makes of the disk as it is.
Recovered(ctxs) == Reconcile(Resumed(files), ctxs)

\* sweep_stale_rename_markers: the markers at this name's stem or aimed at it.
StaleMarkers(n) == { f \in DOMAIN markers : n \in Ends(f) }

\* Is a change of this name still owed to the disk: a marker that waits for a boot, or a
\* child set whose removal of it was not written?
Owed(n) ==
  \/ StaleMarkers(n) # {}
  \/ \E p \in DOMAIN files \cap DOMAIN mem : n \in files[p].kids \ mem[p].kids

-----------------------------------------------------------------------------
(* Operations *)

Idle ==
  [pc |-> "idle", name |-> 0, to |-> 0, todo |-> {}, ok |-> TRUE,
   recs |-> None, was |-> None, left |-> {}, stuck |-> {}]
Down == [Idle EXCEPT !.pc = "down"]
Free == op.pc = "idle"

\* A file operation works, or fails and is counted.
Works == UNCHANGED faults
Fails == faults < MaxFaults /\ faults' = faults + 1

\* create_group and update_group check that every new member is there.
MutAdmits(m, rec, standing) == rec.kids \ standing.kids \subseteq DOMAIN m
Admits(m, rec, standing) ==
  /\ rec.ctxs \ standing.ctxs \subseteq live
  /\ rec.kids \ standing.kids \subseteq DOMAIN m
NoRecord == [ctxs |-> {}, kids |-> {}]

\* create_group abandons the markers that name it, then validates and writes.
Create(n, rec) ==
  /\ Free /\ n \notin DOMAIN mem /\ Admits(mem, rec, NoRecord)
  /\ op' = [Idle EXCEPT !.pc = "create", !.name = n, !.recs = Put(None, n, rec)]
  /\ loose' = (loose \/ Owed(n))
  /\ UNCHANGED <<mem, disk, live, drop, faults, crashes, cut>>

CreateSweeps ==
  /\ op.pc = "create" /\ StaleMarkers(op.name) # {}
  /\ \/ /\ Works /\ markers' = Less(markers, StaleMarkers(op.name)) /\ UNCHANGED op
     \/ /\ Fails /\ op' = Idle
        /\ \E gone \in SUBSET StaleMarkers(op.name) :
             gone # StaleMarkers(op.name) /\ markers' = Less(markers, gone)
  /\ UNCHANGED <<mem, files, kept, live, drop, crashes, loose, cut>>

CreateCommits ==
  /\ op.pc = "create" /\ StaleMarkers(op.name) = {}
  /\ op' = Idle
  /\ LET grown == Overlay(mem, op.recs)
     IN \/ Works /\ Nested(grown) /\ mem' = grown /\ files' = Overlay(files, op.recs)
        \/ Works /\ ~Nested(grown) /\ UNCHANGED <<mem, files>>
        \/ Fails /\ Nested(grown) /\ UNCHANGED <<mem, files>>
  /\ UNCHANGED <<markers, kept, live, drop, crashes, loose, cut>>

\* update_group: a delta judged and written whole; a refusal or a failure leaves no trace.
Update(n, rec) ==
  /\ Free /\ n \in DOMAIN mem /\ rec # mem[n] /\ Admits(mem, rec, mem[n])
  /\ Nested(Put(mem, n, rec))
  /\ \/ Works /\ mem' = Put(mem, n, rec) /\ files' = Put(files, n, rec)
     \/ Fails /\ UNCHANGED <<mem, files>>
  /\ UNCHANGED <<markers, kept, live, op, drop, crashes, loose, cut>>

\* sweep_membership and rename_in_membership write the touched records one by one; a
\* failure is remembered and passed over.
RewriteOne ==
  /\ op.todo # {} /\ op.pc \in {"delete", "rename", "sweep", "rewrite", "reconcile"}
  /\ LET n == Min(op.todo)
     IN \/ /\ Works /\ files' = Put(files, n, mem[n]) /\ op' = [op EXCEPT !.todo = @ \ {n}]
           /\ UNCHANGED loose
        \/ /\ Fails /\ op' = [op EXCEPT !.todo = @ \ {n}, !.ok = FALSE] /\ UNCHANGED files
           /\ loose' = (loose \/ (op.pc = "reconcile" /\ ~Nested(files)))
  /\ UNCHANGED <<mem, markers, kept, live, drop, crashes, cut>>

\* delete_group: out of the map and out of its parents, then the unlink.
Delete(n) ==
  /\ Free /\ n \in DOMAIN mem
  /\ LET rest == Less(mem, {n})
         parents == { p \in DOMAIN rest : n \in rest[p].kids }
     IN /\ mem' = MapKids(rest, LAMBDA s : s \ {n})
        /\ op' = [Idle EXCEPT !.pc = "delete", !.name = n, !.todo = parents]
  /\ UNCHANGED <<disk, live, drop, faults, crashes, loose, cut>>

DeleteUnlinks ==
  /\ op.pc = "delete" /\ op.todo = {}
  /\ op' = Idle
  /\ \/ Works /\ files' = Less(files, {op.name}) /\ UNCHANGED loose
     \/ Fails /\ loose' = TRUE /\ UNCHANGED files
  /\ UNCHANGED <<mem, markers, kept, live, drop, crashes, cut>>

\* rename_group: the marker is durable before the file moves.
RenameMarks(from, to) ==
  /\ Free /\ from \in DOMAIN mem /\ to \notin DOMAIN mem
  /\ \/ /\ Works /\ markers' = Put(markers, from, to)
        /\ op' = [Idle EXCEPT !.pc = "move", !.name = from, !.to = to, !.was = mem]
        /\ loose' = (loose \/ Owed(to) \/ StaleMarkers(from) # {})
     \/ Fails /\ UNCHANGED <<markers, op, loose>>
  /\ UNCHANGED <<mem, files, kept, live, drop, crashes, cut>>

\* A failed move withdraws the marker, as well as it can.
RenameMoves ==
  /\ op.pc = "move"
  /\ \/ /\ Works /\ files' = Moved(files, op.name, op.to)
        /\ mem' = Renamed(mem, op.name, op.to)
        /\ op' = [op EXCEPT !.pc = "rename",
                            !.todo = { p \in DOMAIN mem' : op.to \in mem'[p].kids }]
        /\ UNCHANGED markers
     \/ Fails /\ op' = Idle /\ markers' = Less(markers, {op.name}) /\ UNCHANGED <<mem, files>>
     \/ /\ faults + 1 < MaxFaults /\ faults' = faults + 2
        /\ op' = Idle /\ UNCHANGED <<mem, files, markers>>
  /\ UNCHANGED <<kept, live, drop, crashes, loose, cut>>

\* retire_rename_marker: only once every parent is written.
MutRetire(from) ==
  \/ Works /\ markers' = Less(markers, {from})
  \/ Fails /\ UNCHANGED markers
Retire(from) ==
  \/ op.ok /\ Works /\ markers' = Less(markers, {from})
  \/ op.ok /\ Fails /\ UNCHANGED markers
  \/ ~op.ok /\ Works /\ UNCHANGED markers

RenameEnds ==
  /\ op.pc = "rename" /\ op.todo = {}
  /\ Retire(op.name) /\ op' = Idle
  /\ UNCHANGED <<mem, files, kept, live, drop, crashes, loose, cut>>

\* restore_groups: the whole set is judged first.
Stopped == IF cut = "deep" THEN cut ELSE "cut"
Restore(recs) ==
  /\ Free
  /\ \A n \in DOMAIN recs : /\ recs[n].ctxs \subseteq live
                            /\ recs[n].kids \subseteq DOMAIN mem \cup DOMAIN recs
  /\ Nested(Overlay(mem, recs))
  /\ op' = [Idle EXCEPT !.pc = "restore", !.recs = recs]
  /\ cut' = IF Nested(mem) THEN cut ELSE "deep"
  /\ UNCHANGED <<mem, disk, live, drop, faults, crashes, loose>>

\* Kahn's order: a record waits for those of the batch that drop it from the children
\* they had; of the others the one of least depth in the resulting map goes first.  The
\* place in the request breaks ties: any.  The order is fixed up front, but what it
\* asks of the records still to land (op.recs) can be read off the map as it is.
Waits(n) ==
  { p \in DOMAIN op.recs \cap DOMAIN mem : n \in mem[p].kids /\ n \notin op.recs[p].kids }
MutLandsNext(n) == n \in DOMAIN op.recs /\ Waits(n) = {}
LandsNext(n) ==
  LET all == Overlay(mem, op.recs)  ready == { r \in DOMAIN op.recs : Waits(r) = {} }
  IN n \in ready /\ \A r \in ready : Depth(all, n) <= Depth(all, r)

\* A name the restore brings abandons the markers that name it; a standing one does not.
RestoreSweeps(n) ==
  /\ n \notin DOMAIN mem /\ StaleMarkers(n) # {}
  /\ loose' = TRUE
  /\ \/ Works /\ markers' = Less(markers, StaleMarkers(n)) /\ UNCHANGED <<op, cut>>
     \/ /\ Fails /\ op' = Idle /\ cut' = Stopped
        /\ \E gone \in SUBSET StaleMarkers(n) :
             gone # StaleMarkers(n) /\ markers' = Less(markers, gone)
  /\ UNCHANGED <<mem, files, kept, live, drop, crashes>>

Stands(n) == n \in DOMAIN mem /\ mem[n] = op.recs[n]
RestoreWrites(n) ==
  /\ n \in DOMAIN mem \/ StaleMarkers(n) = {}
  /\ \/ /\ Works /\ mem' = Put(mem, n, op.recs[n])
        /\ files' = IF Stands(n) THEN files ELSE Put(files, n, op.recs[n])
        /\ op' = IF DOMAIN op.recs = {n} THEN Idle ELSE [op EXCEPT !.recs = Less(@, {n})]
        /\ loose' = (loose \/ (n \notin DOMAIN mem /\ Owed(n)))
        /\ UNCHANGED cut
     \/ /\ ~Stands(n) /\ Fails /\ op' = Idle /\ cut' = Stopped
        /\ UNCHANGED <<mem, files, loose>>
  /\ UNCHANGED <<markers, kept, live, drop, crashes>>

\* The request's deadline passes between two records.
RestoreExpires ==
  /\ op.pc = "restore" /\ op' = Idle /\ cut' = Stopped
  /\ UNCHANGED <<mem, disk, live, drop, faults, crashes, loose>>

RestoreStep ==
  /\ op.pc = "restore"
  /\ \E n \in DOMAIN op.recs : LandsNext(n) /\ (RestoreSweeps(n) \/ RestoreWrites(n))

-----------------------------------------------------------------------------
(* A context's delete, and boot *)

NoDrop == [pc |-> "idle", ctx |-> {}]
Serving == op.pc \notin {"down", "resume", "rewrite", "reconcile"}

\* AppState::delete: out of the registry, the deletion marker, the groups, the files.
DropContext(c) ==
  /\ Serving /\ drop = NoDrop /\ c \in live
  /\ live' = live \ {c} /\ drop' = [pc |-> "mark", ctx |-> {c}]
  /\ UNCHANGED <<mem, disk, op, faults, crashes, loose, cut>>

DropMarks ==
  /\ drop.pc = "mark" /\ drop' = [drop EXCEPT !.pc = "sweep"]
  /\ \/ Works /\ kept' = kept \ drop.ctx
     \/ Fails /\ UNCHANGED kept
  /\ UNCHANGED <<mem, files, markers, live, op, crashes, loose, cut>>

\* sweep_context_from_groups waits for the groups lock.
DropSweeps ==
  /\ drop.pc = "sweep" /\ Free
  /\ mem' = [n \in DOMAIN mem |-> [mem[n] EXCEPT !.ctxs = @ \ drop.ctx]]
  /\ op' = [Idle EXCEPT !.pc = "sweep", !.todo = { n \in DOMAIN mem : mem[n].ctxs \cap drop.ctx # {} }]
  /\ UNCHANGED <<disk, live, drop, faults, crashes, loose, cut>>

DropEnds ==
  /\ op.pc = "sweep" /\ op.todo = {}
  /\ op' = Idle /\ drop' = NoDrop /\ kept' = kept \ drop.ctx
  /\ UNCHANGED <<mem, files, markers, live, faults, crashes, loose, cut>>

Crash ==
  /\ op.pc # "down" /\ crashes < MaxCrashes /\ crashes' = crashes + 1
  /\ op' = Down /\ mem' = None /\ live' = {} /\ drop' = NoDrop
  /\ UNCHANGED <<disk, faults, loose, cut>>

\* scan_groups: every unfinished rename's file first, then the listing.
Boot ==
  /\ op.pc = "down"
  /\ live' = kept
  /\ op' = [Idle EXCEPT !.pc = "resume", !.todo = Resumable, !.left = Resumable]
  /\ UNCHANGED <<mem, disk, drop, faults, crashes, loose, cut>>

BootMoves ==
  /\ op.pc = "resume" /\ op.todo # {}
  /\ LET f == Min(op.todo)
     IN \/ Works /\ files' = Moved(files, f, markers[f]) /\ op' = [op EXCEPT !.todo = @ \ {f}]
        \/ /\ f \in DOMAIN files /\ Fails /\ UNCHANGED files
           /\ op' = [op EXCEPT !.todo = @ \ {f}, !.stuck = @ \cup {f}]
  /\ UNCHANGED <<mem, markers, kept, live, drop, crashes, loose, cut>>

BootLists ==
  /\ op.pc = "resume" /\ op.todo = {}
  /\ mem' = files /\ op' = [op EXCEPT !.pc = "rewrite"]
  /\ UNCHANGED <<disk, live, drop, faults, crashes, loose, cut>>

\* A rename that landed has its children carried over before anything is reconciled.
BootRenames ==
  /\ op.pc = "rewrite" /\ op.name = 0 /\ op.left # {}
  /\ LET f == Min(op.left)
         touched == { p \in DOMAIN mem : f \in mem[p].kids /\ markers[f] \in DOMAIN mem }
     IN /\ op' = [op EXCEPT !.name = f, !.todo = touched, !.ok = TRUE]
        /\ mem' = [n \in DOMAIN mem |-> IF n \in touched
                     THEN [mem[n] EXCEPT !.kids = Renames(@, f, markers[f])] ELSE mem[n]]
  /\ UNCHANGED <<disk, live, drop, faults, crashes, loose, cut>>

MutBootRetires ==
  /\ op.pc = "rewrite" /\ op.name # 0 /\ op.todo = {}
  /\ Retire(op.name)
  /\ op' = [op EXCEPT !.name = 0, !.left = @ \ {op.name}]
  /\ UNCHANGED <<mem, files, kept, live, drop, crashes, loose, cut>>
BootRetires ==
  /\ op.pc = "rewrite" /\ op.name # 0 /\ op.todo = {}
  /\ IF op.name \in op.stuck THEN Works /\ UNCHANGED markers ELSE Retire(op.name)
  /\ op' = [op EXCEPT !.name = 0, !.left = @ \ {op.name}]
  /\ UNCHANGED <<mem, files, kept, live, drop, crashes, loose, cut>>

BootReconciles ==
  /\ op.pc = "rewrite" /\ op.name = 0 /\ op.left = {}
  /\ mem' = Reconcile(mem, live)
  /\ op' = [op EXCEPT !.pc = "reconcile", !.todo = { n \in DOMAIN mem : mem'[n] # mem[n] }]
  /\ UNCHANGED <<disk, live, drop, faults, crashes, loose, cut>>

BootEnds ==
  /\ op.pc = "reconcile" /\ op.todo = {} /\ op' = Idle
  /\ UNCHANGED <<mem, disk, live, drop, faults, crashes, loose, cut>>

-----------------------------------------------------------------------------

Closed(m) == \A n \in DOMAIN m : m[n].kids \subseteq DOMAIN m

\* A server at rest over any collection the operations allow.
Init ==
  /\ mem \in { m \in Maps : Closed(m) /\ Nested(m) }
  /\ files = mem /\ markers = None /\ live = Contexts /\ kept = Contexts
  /\ op = Idle /\ drop = NoDrop /\ faults = 0 /\ crashes = 0 /\ loose = FALSE /\ cut = "no"

Batches == UNION { [D -> Record] : D \in { E \in SUBSET Names : Cardinality(E) \in 1..MaxBatch } }

Next ==
  \/ Free /\ \E n \in Names, rec \in Record : Create(n, rec) \/ Update(n, rec)
  \/ CreateSweeps \/ CreateCommits
  \/ RewriteOne
  \/ \E n \in Names : Delete(n)
  \/ DeleteUnlinks
  \/ \E from, to \in Names : RenameMarks(from, to)
  \/ RenameMoves \/ RenameEnds
  \/ Free /\ \E recs \in Batches : Restore(recs)
  \/ RestoreStep \/ RestoreExpires
  \/ \E c \in Contexts : DropContext(c)
  \/ DropMarks \/ DropSweeps \/ DropEnds
  \/ Crash \/ Boot \/ BootMoves \/ BootLists \/ BootRenames \/ BootRetires
  \/ BootReconciles \/ BootEnds

Spec == Init /\ [][Next]_vars

-----------------------------------------------------------------------------
(* Properties *)

\* boot.rs: a group names only live groups, acyclically, within the depth cap, from the
\* first request on.  Also while a restore is landing its records and after it stopped
\* partway, where the depth may be exceeded (see DepthHolds); once a further restore is
\* begun over such a map, its partial landings may even close a cycle (see StaysAcyclic).
NestingHolds ==
  op.pc \in {"idle", "create", "restore"} =>
    /\ Closed(mem)
    /\ cut = "deep" \/ Acyclic(mem)
    /\ cut # "no" \/ op.pc = "restore" \/ Nested(mem)

\* ... and only live contexts, but for one whose delete has yet to reach the groups.
MembersLive ==
  op.pc \in {"idle", "create", "restore"} =>
    \A n \in DOMAIN mem : mem[n].ctxs \subseteq live \cup drop.ctx

\* A crash anywhere loses nothing a client was told and does nothing by halves: at rest
\* the disk recovers to the memory (with the renames boot still has to finish done), a
\* rename recovers whole from the moment its marker is down, and a delete disturbs no
\* other group.  (But for the context whose delete is under way.)
RestartsTell ==
  LET ctxs == kept \ drop.ctx
      Told(m) == Reconcile(Resumed(m), ctxs)
      gone == {op.name} \cup (IF op.name \in DOMAIN markers THEN {markers[op.name]} ELSE {})
      others == MapKids(Less(Recovered(ctxs), gone), LAMBDA s : s \ gone)
  IN loose \/
       /\ op.pc \in {"idle", "create", "restore", "sweep"} /\ Nested(mem) =>
            Recovered(ctxs) = Told(mem)
       /\ op.pc \in {"move", "rename"} /\ Nested(op.was) =>
            Recovered(ctxs) = Told(Renamed(op.was, op.name, op.to))
       /\ op.pc = "delete" /\ Nested(Resumed(files)) => others = Told(mem)

\* No step of a boot changes what a boot makes of the disk, whichever of its writes
\* failed: a crash during recovery costs nothing.
BootIsIdempotent == [][~Serving /\ ~loose => Recovered(kept)' = Recovered(kept)]_vars

\* restore_groups: "The standing map is already acyclic (every prior write validated
\* it)".
StaysAcyclic == op.pc = "idle" => Acyclic(mem)

\* groups.rs: no chain of more than MAX_GROUP_DEPTH groups, whatever lands.
DepthHolds == op.pc = "idle" => Nested(mem)

=============================================================================
