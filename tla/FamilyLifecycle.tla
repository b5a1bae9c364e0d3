--------------------------- MODULE FamilyLifecycle ---------------------------
(***************************************************************************)
(* The life of one context id's file family: the import header's           *)
(* create_if_absent, logged writes, delete with its durable marker, and    *)
(* the boot scan that resumes deletions and registers what it finds.       *)
(*                                                                         *)
(* The id can be created again after a delete (an import brings its own    *)
(* id), so every creation draws a generation number, and a file is the     *)
(* generation that wrote it.  Three files stand for the ten of the family: *)
(* the image `ctx' (unlinked first, keys existence at boot), the sidecar   *)
(* `meta' and the log `wal' (unlinked later).                              *)
(***************************************************************************)
EXTENDS Integers, Sequences, FiniteSets

CONSTANTS
  Importers,   \* threads that call create_if_absent for the id
  Deleters,    \* threads that call delete for the id
  Faults,      \* kinds of failure this instance explores
  MaxFaults,   \* bound: failures per behaviour
  MaxCrashes,  \* bound: crashes
  MaxGen,      \* bound: creations of the id
  Recreate     \* when the id is imported again: "confirmed" once a delete of it has
               \* returned and left no marker, "returned" once it has returned, "always"

FaultKinds == {"meta", "ctx", "marker", "unlink", "unmark", "bootunlink", "bootunmark"}

ASSUME LifecycleConstants ==
  /\ Faults \subseteq FaultKinds
  /\ {MaxFaults, MaxCrashes, MaxGen} \subseteq Nat
  /\ MaxGen >= 1 /\ Recreate \in {"confirmed", "returned", "always"}
  /\ Importers \cap Deleters = {}

VARIABLES
  phase,     \* of the process: down, scan (boot's second pass), up
  reg,       \* the registry: the generation registered under the id, 0 for none
  tombs,     \* generations whose entry is Slot::Deleted
  pending,   \* is the id in pending_creates?
  ctx,       \* the image file: its generation, 0 when absent
  meta,      \* the sidecar file, likewise
  wal,       \* the log file: the generations whose records it holds
  marker,    \* does the .deleted marker exist?
  pc,        \* every thread's position
  gen,       \* per thread: the generation it creates or deletes
  missed,    \* per deleter: did an unlink fail?
  lastGen,   \* history: generations drawn so far
  created,   \* history: generations whose create was acknowledged
  written,   \* history: generations with an acknowledged write
  deleting,  \* history: generations a delete took out of the registry
  deleted,   \* history: generations whose delete returned, marker on disk or family gone
  faults,    \* history
  crashes    \* history

files == <<ctx, meta, wal, marker>>
memory == <<phase, reg, tombs, pending>>
locals == <<pc, gen, missed>>
history == <<lastGen, created, written, deleting, deleted, faults, crashes>>
vars == <<files, memory, locals, history>>

Threads == Importers \cup Deleters

Init ==
  /\ phase = "up" /\ reg = 0 /\ tombs = {} /\ pending = FALSE
  /\ ctx = 0 /\ meta = 0 /\ wal = {} /\ marker = FALSE
  /\ pc = [t \in Threads |-> "idle"] /\ gen = [t \in Threads |-> 0]
  /\ missed = [t \in Threads |-> FALSE]
  /\ lastGen = 0 /\ created = {} /\ written = {} /\ deleting = {} /\ deleted = {}
  /\ faults = 0 /\ crashes = 0

At(t, p) == phase = "up" /\ pc[t] = p
Goto(t, p) == pc' = [pc EXCEPT ![t] = p]
Fault(kind) == kind \in Faults /\ faults < MaxFaults /\ faults' = faults + 1

\* Either the step works, or a failure of this kind is charged.
Outcome(kind, ok, failed) == (ok /\ UNCHANGED faults) \/ (Fault(kind) /\ failed)

-----------------------------------------------------------------------------
(* create_if_absent *)

\* Which imports of the id this instance explores.
Importable ==
  \/ Recreate = "always" \/ deleting = {}
  \/ /\ \A t \in Deleters : pc[t] = "idle"
     /\ Recreate = "confirmed" => deleting \subseteq deleted /\ ~marker

\* Registry check and reservation are one critical section.  A registered or
\* reserved id answers Ok(false), which changes nothing.
MutReserve(t) ==
  /\ At(t, "idle") /\ reg = 0
  /\ lastGen < MaxGen /\ Importable
  /\ pending' = TRUE
  /\ lastGen' = lastGen + 1
  /\ gen' = [gen EXCEPT ![t] = lastGen + 1]
  /\ Goto(t, "check")
  /\ UNCHANGED <<files, phase, reg, tombs, missed, created, written, deleting, deleted, faults, crashes>>
Reserve(t) ==
  /\ At(t, "idle") /\ reg = 0 /\ ~pending
  /\ lastGen < MaxGen /\ Importable
  /\ pending' = TRUE
  /\ lastGen' = lastGen + 1
  /\ gen' = [gen EXCEPT ![t] = lastGen + 1]
  /\ Goto(t, "check")
  /\ UNCHANGED <<files, phase, reg, tombs, missed, created, written, deleting, deleted, faults, crashes>>

\* An image nobody registered refuses the create.
CheckImage(t) ==
  /\ At(t, "check")
  /\ pending' = (ctx = 0)
  /\ Goto(t, IF ctx = 0 THEN "meta" ELSE "idle")
  /\ UNCHANGED <<files, phase, reg, tombs, gen, missed, history>>

\* create_files: save_files lands the sidecar, then the image.  A failed write may
\* have replaced the file before the directory sync failed.
MutCreateMeta(t) ==
  /\ At(t, "meta")
  /\ Outcome("meta", meta' = gen[t], UNCHANGED meta)
  /\ Goto(t, "ctx")
  /\ UNCHANGED <<ctx, wal, marker, memory, gen, missed,
                 lastGen, created, written, deleting, deleted, crashes>>
CreateMeta(t) ==
  /\ At(t, "meta")
  /\ Outcome("meta",
       meta' = gen[t] /\ Goto(t, "ctx") /\ UNCHANGED pending,
       meta' \in {meta, gen[t]} /\ Goto(t, "idle") /\ pending' = FALSE)
  /\ UNCHANGED <<ctx, wal, marker, phase, reg, tombs, gen, missed,
                 lastGen, created, written, deleting, deleted, crashes>>

CreateImage(t) ==
  /\ At(t, "ctx")
  /\ Outcome("ctx",
       ctx' = gen[t] /\ Goto(t, "register") /\ UNCHANGED pending,
       ctx' \in {ctx, gen[t]} /\ Goto(t, "idle") /\ pending' = FALSE)
  /\ UNCHANGED <<meta, wal, marker, phase, reg, tombs, gen, missed,
                 lastGen, created, written, deleting, deleted, crashes>>

\* The entry is registered, the reservation dropped, the caller answered.
Register(t) ==
  /\ At(t, "register")
  /\ reg' = gen[t] /\ pending' = FALSE
  /\ created' = created \cup {gen[t]}
  /\ Goto(t, "idle")
  /\ UNCHANGED <<files, phase, tombs, gen, missed, lastGen, written, deleting, deleted, faults, crashes>>

\* A logged write through a live entry, whether or not a delete has meanwhile
\* unregistered it; the tombstone stops it.
MutWrite(g) ==
  /\ phase = "up" /\ g \in {reg} \cup { gen[t] : t \in Deleters } /\ g # 0
  /\ wal' = wal \cup {g}
  /\ written' = written \cup {g}
  /\ UNCHANGED <<ctx, meta, marker, memory, locals, lastGen, created, deleting, deleted, faults, crashes>>
Write(g) ==
  /\ phase = "up" /\ g \in {reg} \cup { gen[t] : t \in Deleters } /\ g # 0
  /\ g \notin tombs
  /\ wal' = wal \cup {g}
  /\ written' = written \cup {g}
  /\ UNCHANGED <<ctx, meta, marker, memory, locals, lastGen, created, deleting, deleted, faults, crashes>>

-----------------------------------------------------------------------------
(* delete *)

Unregister(t) ==
  /\ At(t, "idle") /\ reg # 0
  /\ gen' = [gen EXCEPT ![t] = reg]
  /\ missed' = [missed EXCEPT ![t] = FALSE]
  /\ deleting' = deleting \cup {reg}
  /\ reg' = 0
  /\ Goto(t, "tombstone")
  /\ UNCHANGED <<files, phase, tombs, pending, lastGen, created, written, deleted, faults, crashes>>

Tombstone(t) ==
  /\ At(t, "tombstone")
  /\ tombs' = tombs \cup {gen[t]}
  /\ Goto(t, "marker")
  /\ UNCHANGED <<files, phase, reg, pending, gen, missed, history>>

\* Written before the first unlink; a failure is only warned about.
WriteMarker(t) ==
  /\ At(t, "marker")
  /\ Outcome("marker", marker' = TRUE, marker' \in {marker, TRUE})
  /\ Goto(t, "unlinkctx")
  /\ UNCHANGED <<ctx, meta, wal, memory, gen, missed,
                 lastGen, created, written, deleting, deleted, crashes>>

\* The unlinks address the stem: they remove whatever generation is there.
UnlinkImage(t) ==
  /\ At(t, "unlinkctx")
  /\ Outcome("unlink", ctx' = 0 /\ UNCHANGED missed,
                       ctx # 0 /\ UNCHANGED ctx /\ missed' = [missed EXCEPT ![t] = TRUE])
  /\ Goto(t, "unlinkmeta")
  /\ UNCHANGED <<meta, wal, marker, memory, gen, lastGen, created, written, deleting, deleted, crashes>>

UnlinkMeta(t) ==
  /\ At(t, "unlinkmeta")
  /\ Outcome("unlink", meta' = 0 /\ UNCHANGED missed,
                       meta # 0 /\ UNCHANGED meta /\ missed' = [missed EXCEPT ![t] = TRUE])
  /\ Goto(t, "unlinkwal")
  /\ UNCHANGED <<ctx, wal, marker, memory, gen, lastGen, created, written, deleting, deleted, crashes>>

UnlinkWal(t) ==
  /\ At(t, "unlinkwal")
  /\ Outcome("unlink", wal' = {} /\ UNCHANGED missed,
                       wal # {} /\ UNCHANGED wal /\ missed' = [missed EXCEPT ![t] = TRUE])
  /\ Goto(t, "unmark")
  /\ UNCHANGED <<ctx, meta, marker, memory, gen, lastGen, created, written, deleting, deleted, crashes>>

\* The marker leaves only after every unlink worked; then the caller is answered.
MutUnmark(t) ==
  /\ At(t, "unmark")
  /\ marker' = FALSE /\ UNCHANGED faults
  /\ deleted' = IF missed[t] /\ ~marker THEN deleted ELSE deleted \cup {gen[t]}
  /\ gen' = [gen EXCEPT ![t] = 0]
  /\ Goto(t, "idle")
  /\ UNCHANGED <<ctx, meta, wal, memory, missed, lastGen, created, written, deleting, crashes>>
Unmark(t) ==
  /\ At(t, "unmark")
  /\ IF missed[t] THEN UNCHANGED <<marker, faults>>
     ELSE Outcome("unmark", marker' = FALSE, UNCHANGED marker)
  /\ deleted' = IF missed[t] /\ ~marker THEN deleted ELSE deleted \cup {gen[t]}
  /\ gen' = [gen EXCEPT ![t] = 0]
  /\ Goto(t, "idle")
  /\ UNCHANGED <<ctx, meta, wal, memory, missed, lastGen, created, written, deleting, crashes>>

-----------------------------------------------------------------------------
(* Crash and boot *)

Crash ==
  /\ phase # "down" /\ crashes < MaxCrashes
  /\ crashes' = crashes + 1
  /\ phase' = "down" /\ reg' = 0 /\ tombs' = {} /\ pending' = FALSE
  /\ pc' = [t \in Threads |-> "idle"] /\ gen' = [t \in Threads |-> 0]
  /\ missed' = [t \in Threads |-> FALSE]
  /\ UNCHANGED <<files, lastGen, created, written, deleting, deleted, faults>>

\* scan_data_dir's first pass: unlink the family of a marked stem, quietly, then
\* the marker.  `held' are the files whose unlink fails, or which a crash inside
\* the pass leaves together with the marker.
BootResume ==
  /\ phase = "down" /\ marker
  /\ \E held \in SUBSET {"ctx", "meta", "wal"} :
       /\ ctx' = IF "ctx" \in held THEN ctx ELSE 0
       /\ meta' = IF "meta" \in held THEN meta ELSE 0
       /\ wal' = IF "wal" \in held THEN wal ELSE {}
       /\ \/ held = {} /\ marker' = FALSE /\ phase' = "scan" /\ UNCHANGED <<faults, crashes>>
          \/ held # {} /\ Fault("bootunlink") /\ marker' = FALSE /\ phase' = "scan"
             /\ UNCHANGED crashes
          \/ held = {} /\ Fault("bootunmark") /\ phase' = "scan" /\ UNCHANGED <<marker, crashes>>
          \/ crashes < MaxCrashes /\ crashes' = crashes + 1 /\ UNCHANGED <<marker, phase, faults>>
  /\ UNCHANGED <<reg, tombs, pending, locals, lastGen, created, written, deleting, deleted>>

BootUnmarked ==
  /\ phase = "down" /\ ~marker
  /\ phase' = "scan"
  /\ UNCHANGED <<files, reg, tombs, pending, locals, history>>

\* Its second pass: whatever image is there is registered, described by its sidecar.
MutBootScan ==
  /\ phase = "scan"
  /\ phase' = "up" /\ reg' = IF ctx = 0 THEN 0 ELSE lastGen + 1
  /\ UNCHANGED <<files, tombs, pending, locals, history>>
BootScan ==
  /\ phase = "scan"
  /\ phase' = "up" /\ reg' = ctx
  /\ UNCHANGED <<files, tombs, pending, locals, history>>

-----------------------------------------------------------------------------

\* A lookup, a create of a taken id, a delete of an unknown one: answered from the
\* registry, nothing changes.
Lookup == phase = "up" /\ UNCHANGED vars

Create(t) == Reserve(t) \/ CheckImage(t) \/ CreateMeta(t) \/ CreateImage(t) \/ Register(t)
Delete(t) ==
  \/ Unregister(t) \/ Tombstone(t) \/ WriteMarker(t)
  \/ UnlinkImage(t) \/ UnlinkMeta(t) \/ UnlinkWal(t) \/ Unmark(t)

Next ==
  \/ \E t \in Importers : Create(t)
  \/ \E t \in Deleters : Delete(t)
  \/ \E g \in 1..MaxGen : Write(g)
  \/ Lookup \/ Crash \/ BootResume \/ BootUnmarked \/ BootScan

Spec == Init /\ [][Next]_vars

-----------------------------------------------------------------------------
(* Properties *)

Gens == 0..MaxGen
Steps == {"idle", "check", "meta", "ctx", "register", "tombstone", "marker",
          "unlinkctx", "unlinkmeta", "unlinkwal", "unmark"}

\* Every variable has the shape the code's types give it.
TypeOK ==
  /\ phase \in {"down", "scan", "up"} /\ reg \in Gens /\ tombs \subseteq Gens /\ pending \in BOOLEAN
  /\ ctx \in Gens /\ meta \in Gens /\ wal \subseteq Gens /\ marker \in BOOLEAN
  /\ pc \in [Threads -> Steps] /\ gen \in [Threads -> Gens]
  /\ missed \in [Threads -> BOOLEAN]
  /\ lastGen \in Gens
  /\ {created, written, deleting, deleted} \subseteq SUBSET Gens
  /\ faults \in Nat /\ crashes \in Nat

\* A context the API reported gone is never registered again, by any crash or by a
\* boot over files a failed unlink left behind (the .deleted marker's purpose).
NoResurrection == reg \notin deleted

\* A context whose creation was acknowledged, and which nobody deleted, keeps its
\* image and sidecar, with no deletion marker beside them, so that it is registered
\* now or by the next boot.
CreatedSurvives ==
  \A g \in created \ deleting : ctx = g /\ meta = g /\ ~marker /\ (phase = "up" => reg = g)

\* Its acknowledged writes stay in the log, and a load replays no records of an
\* earlier context with the same id.
LogIsItsOwn ==
  \A g \in created \ deleting : wal \subseteq {g} /\ (g \in written => g \in wal)

\* The boot scan never meets an image without the sidecar that goes with it, unless
\* a deletion got that far.
ImageHasSidecar == ctx # 0 /\ ctx \notin deleting => meta = ctx

=============================================================================
