----------------------- MODULE FamilyLifecycle_proofs -----------------------
(***************************************************************************)
(* Proofs about FamilyLifecycle, for any importers and deleters, any       *)
(* number of faults, crashes and re-creations, when an id is imported      *)
(* again only once its delete has returned and left no marker              *)
(* (Recreate = "confirmed").                                               *)
(***************************************************************************)
EXTENDS FamilyLifecycle, TLAPS

Busy(t) == pc[t] # "idle"

\* Every thread is somewhere in its own operation; only a deleter in flight holds
\* a generation to delete.
Places ==
  /\ \A t \in Importers : pc[t] \in {"idle", "check", "meta", "ctx", "register"}
  /\ \A t \in Deleters :
       /\ pc[t] \in {"idle", "tombstone", "marker", "unlinkctx", "unlinkmeta", "unlinkwal", "unmark"}
       /\ ~Busy(t) => gen[t] = 0
  /\ phase # "up" => reg = 0 /\ \A t \in Threads : ~Busy(t)

\* Generations are drawn in order, and a delete returns only after it began.
Drawn ==
  /\ created \subseteq 1..lastGen /\ written \subseteq 1..lastGen /\ deleting \subseteq 1..lastGen
  /\ wal \subseteq 1..lastGen /\ deleted \subseteq deleting
  /\ reg \in 0..lastGen /\ ctx \in 0..lastGen

\* A create in flight is alone: the reservation keeps other creates out and the
\* empty registry keeps deletes out.  It finds no trace of an earlier generation.
Creating ==
  \A t \in Importers : Busy(t) =>
    /\ pending /\ reg = 0 /\ ~marker /\ deleting \subseteq deleted
    /\ \A d \in Threads : d # t => ~Busy(d)
    /\ gen[t] \in 1..lastGen /\ gen[t] \notin created \cup written \cup deleting \cup wal
    /\ pc[t] \in {"meta", "ctx"} => ctx = 0
    /\ pc[t] \in {"ctx", "register"} => meta = gen[t]
    /\ pc[t] = "register" => ctx = gen[t]

\* So is a delete: the entry it took out of the registry was the only one, and the
\* image, if any, is that entry's.
Deletes ==
  \A t \in Deleters : Busy(t) =>
    /\ reg = 0 /\ gen[t] \in deleting /\ ctx \in {0, gen[t]}
    /\ \A d \in Threads : d # t => ~Busy(d)

\* A marker stands beside nothing but the leftovers of a delete.
Marked ==
  marker => /\ deleting # {} /\ reg = 0 /\ (ctx = 0 \/ ctx \in deleting)
            /\ phase = "scan" => ctx = 0

\* The registry describes the image on disk, and the log holds records of the
\* image's generation and of deleted ones.
Described ==
  /\ reg # 0 => ctx = reg
  /\ \A g \in wal : g \in deleting \/ g = ctx

Control == /\ TypeOK /\ Places /\ Drawn /\ Creating /\ Deletes /\ Marked /\ Described
           /\ CreatedSurvives /\ ImageHasSidecar

\* What a delete has done by the time it has come this far.
Swept ==
  \A t \in Deleters :
    /\ Busy(t) => gen[t] \notin deleted
    /\ Busy(t) /\ pc[t] # "tombstone" => gen[t] \in tombs
    /\ pc[t] \in {"unlinkmeta", "unlinkwal", "unmark"} /\ ~missed[t] => ctx = 0
    /\ pc[t] = "unmark" /\ ~missed[t] => wal = {}

\* What is left of a context whose delete returned is marked.
LeftoversMarked ==
  /\ ctx \in deleted => marker
  /\ wal \cap deleted # {} => marker

Gone == Swept /\ LeftoversMarked /\ NoResurrection /\ LogIsItsOwn

-----------------------------------------------------------------------------
(* Type correctness, in three parts *)

Flags == pending \in BOOLEAN /\ marker \in BOOLEAN /\ missed \in [Threads -> BOOLEAN]

Sets ==
  /\ phase \in {"down", "scan", "up"} /\ tombs \subseteq Gens /\ wal \subseteq Gens
  /\ pc \in [Threads -> Steps]
  /\ {created, written, deleting, deleted} \subseteq SUBSET Gens

Numbers ==
  /\ reg \in Gens /\ ctx \in Gens /\ meta \in Gens /\ lastGen \in Gens
  /\ gen \in [Threads -> Gens]
  /\ faults \in Nat /\ crashes \in Nat

LEMMA Parts == TypeOK <=> Flags /\ Sets /\ Numbers
BY DEF TypeOK, Flags, Sets, Numbers

LEMMA PartsNext == TypeOK' <=> Flags' /\ Sets' /\ Numbers'
BY DEF TypeOK, Flags, Sets, Numbers

LEMMA FlagsStep == ASSUME Flags, Sets, Numbers, [Next]_vars PROVE Flags'
<1> USE LifecycleConstants DEF Flags, Threads, At, Goto, Fault, Outcome,
      files, memory, locals, history, vars
<1>1. ASSUME NEW t \in Importers, Reserve(t) PROVE Flags'
  BY <1>1 DEF Reserve
<1>2. ASSUME NEW t \in Importers, CheckImage(t) PROVE Flags'
  BY <1>2 DEF CheckImage
<1>3. ASSUME NEW t \in Importers, CreateMeta(t) PROVE Flags'
  BY <1>3 DEF CreateMeta
<1>4. ASSUME NEW t \in Importers, CreateImage(t) PROVE Flags'
  BY <1>4 DEF CreateImage
<1>5. ASSUME NEW t \in Importers, Register(t) PROVE Flags'
  BY <1>5 DEF Register
<1>6. ASSUME NEW t \in Deleters, Unregister(t) PROVE Flags'
  BY <1>6 DEF Unregister
<1>7. ASSUME NEW t \in Deleters, Tombstone(t) PROVE Flags'
  BY <1>7 DEF Tombstone
<1>8. ASSUME NEW t \in Deleters, WriteMarker(t) PROVE Flags'
  BY <1>8 DEF WriteMarker
<1>9. ASSUME NEW t \in Deleters, UnlinkImage(t) PROVE Flags'
  BY <1>9 DEF UnlinkImage
<1>10. ASSUME NEW t \in Deleters, UnlinkMeta(t) PROVE Flags'
  BY <1>10 DEF UnlinkMeta
<1>11. ASSUME NEW t \in Deleters, UnlinkWal(t) PROVE Flags'
  BY <1>11 DEF UnlinkWal
<1>12. ASSUME NEW t \in Deleters, Unmark(t) PROVE Flags'
  BY <1>12 DEF Unmark
<1>13. ASSUME NEW g \in 1..MaxGen, Write(g) PROVE Flags'
  BY <1>13 DEF Write
<1>14. CASE Crash
  BY <1>14 DEF Crash
<1>15. CASE BootResume
  BY <1>15 DEF BootResume
<1>16. CASE BootUnmarked
  BY <1>16 DEF BootUnmarked
<1>17. CASE BootScan
  BY <1>17 DEF BootScan
<1>18. CASE Lookup \/ UNCHANGED vars
  BY <1>18 DEF Lookup
<1> QED BY <1>1, <1>2, <1>3, <1>4, <1>5, <1>6, <1>7, <1>8, <1>9, <1>10, <1>11, <1>12,
  <1>13, <1>14, <1>15, <1>16, <1>17, <1>18 DEF Next, Create, Delete

LEMMA SetsStep == ASSUME Flags, Sets, Numbers, [Next]_vars PROVE Sets'
<1> USE LifecycleConstants DEF Sets, Threads, Gens, Steps, At, Goto, Fault, Outcome,
      files, memory, locals, history, vars
<1>1. ASSUME NEW t \in Importers, Reserve(t) PROVE Sets'
  BY <1>1 DEF Reserve, Numbers
<1>2. ASSUME NEW t \in Importers, CheckImage(t) PROVE Sets'
  BY <1>2 DEF CheckImage, Numbers
<1>3. ASSUME NEW t \in Importers, CreateMeta(t) PROVE Sets'
  BY <1>3 DEF CreateMeta, Numbers
<1>4. ASSUME NEW t \in Importers, CreateImage(t) PROVE Sets'
  BY <1>4 DEF CreateImage, Numbers
<1>5. ASSUME NEW t \in Importers, Register(t) PROVE Sets'
  BY <1>5 DEF Register, Numbers
<1>6. ASSUME NEW t \in Deleters, Unregister(t) PROVE Sets'
  BY <1>6 DEF Unregister, Numbers
<1>7. ASSUME NEW t \in Deleters, Tombstone(t) PROVE Sets'
  BY <1>7 DEF Tombstone, Numbers
<1>8. ASSUME NEW t \in Deleters, WriteMarker(t) PROVE Sets'
  BY <1>8 DEF WriteMarker, Numbers
<1>9. ASSUME NEW t \in Deleters, UnlinkImage(t) PROVE Sets'
  BY <1>9 DEF UnlinkImage, Numbers
<1>10. ASSUME NEW t \in Deleters, UnlinkMeta(t) PROVE Sets'
  BY <1>10 DEF UnlinkMeta, Numbers
<1>11. ASSUME NEW t \in Deleters, UnlinkWal(t) PROVE Sets'
  BY <1>11 DEF UnlinkWal, Numbers
<1>12. ASSUME NEW t \in Deleters, Unmark(t) PROVE Sets'
  BY <1>12 DEF Unmark, Numbers
<1>13. ASSUME NEW g \in 1..MaxGen, Write(g) PROVE Sets'
  BY <1>13 DEF Write, Numbers
<1>14. CASE Crash
  BY <1>14 DEF Crash, Numbers
<1>15. CASE BootResume
  BY <1>15 DEF BootResume, Numbers
<1>16. CASE BootUnmarked
  BY <1>16 DEF BootUnmarked, Numbers
<1>17. CASE BootScan
  BY <1>17 DEF BootScan, Numbers
<1>18. CASE Lookup \/ UNCHANGED vars
  BY <1>18 DEF Lookup
<1> QED BY <1>1, <1>2, <1>3, <1>4, <1>5, <1>6, <1>7, <1>8, <1>9, <1>10, <1>11, <1>12,
  <1>13, <1>14, <1>15, <1>16, <1>17, <1>18 DEF Next, Create, Delete

LEMMA NumbersStep == ASSUME Flags, Sets, Numbers, [Next]_vars PROVE Numbers'
<1> USE LifecycleConstants DEF Numbers, Threads, Gens, At, Goto, Fault, Outcome,
      files, memory, locals, history, vars
<1>1. ASSUME NEW t \in Importers, Reserve(t) PROVE Numbers'
  BY <1>1 DEF Reserve, Sets
<1>2. ASSUME NEW t \in Importers, CheckImage(t) PROVE Numbers'
  BY <1>2 DEF CheckImage, Sets
<1>3. ASSUME NEW t \in Importers, CreateMeta(t) PROVE Numbers'
  BY <1>3 DEF CreateMeta, Sets
<1>4. ASSUME NEW t \in Importers, CreateImage(t) PROVE Numbers'
  BY <1>4 DEF CreateImage, Sets
<1>5. ASSUME NEW t \in Importers, Register(t) PROVE Numbers'
  BY <1>5 DEF Register, Sets
<1>6. ASSUME NEW t \in Deleters, Unregister(t) PROVE Numbers'
  BY <1>6 DEF Unregister, Sets
<1>7. ASSUME NEW t \in Deleters, Tombstone(t) PROVE Numbers'
  BY <1>7 DEF Tombstone, Sets
<1>8. ASSUME NEW t \in Deleters, WriteMarker(t) PROVE Numbers'
  <2>1. UNCHANGED <<ctx, meta, reg, lastGen, gen, crashes>>
    BY <1>8 DEF WriteMarker
  <2>2. faults' \in {faults, faults + 1}
    BY <1>8 DEF WriteMarker
  <2> QED BY <2>1, <2>2
<1>9. ASSUME NEW t \in Deleters, UnlinkImage(t) PROVE Numbers'
  BY <1>9 DEF UnlinkImage, Sets
<1>10. ASSUME NEW t \in Deleters, UnlinkMeta(t) PROVE Numbers'
  BY <1>10 DEF UnlinkMeta, Sets
<1>11. ASSUME NEW t \in Deleters, UnlinkWal(t) PROVE Numbers'
  BY <1>11 DEF UnlinkWal, Sets
<1>12. ASSUME NEW t \in Deleters, Unmark(t) PROVE Numbers'
  BY <1>12 DEF Unmark, Sets
<1>13. ASSUME NEW g \in 1..MaxGen, Write(g) PROVE Numbers'
  BY <1>13 DEF Write, Sets
<1>14. CASE Crash
  BY <1>14 DEF Crash, Sets
<1>15. CASE BootResume
  <2>1. ctx' \in {ctx, 0} /\ meta' \in {meta, 0} /\ UNCHANGED <<reg, lastGen, gen>>
    BY <1>15 DEF BootResume
  <2>2. faults' \in {faults, faults + 1} /\ crashes' \in {crashes, crashes + 1}
    BY <1>15 DEF BootResume
  <2> QED BY <2>1, <2>2
<1>16. CASE BootUnmarked
  BY <1>16 DEF BootUnmarked, Sets
<1>17. CASE BootScan
  BY <1>17 DEF BootScan, Sets
<1>18. CASE Lookup \/ UNCHANGED vars
  BY <1>18 DEF Lookup
<1> QED BY <1>1, <1>2, <1>3, <1>4, <1>5, <1>6, <1>7, <1>8, <1>9, <1>10, <1>11, <1>12,
  <1>13, <1>14, <1>15, <1>16, <1>17, <1>18 DEF Next, Create, Delete

LEMMA TypeStep == ASSUME TypeOK, [Next]_vars PROVE TypeOK'
BY Parts, PartsNext, FlagsStep, SetsStep, NumbersStep

-----------------------------------------------------------------------------
(* Creates and deletes are alone, whatever fails *)

\* The reservation and the registry keep every create and every delete of the id
\* apart, so each finds only the files its own generation left.
LEMMA ControlStep ==
  ASSUME Recreate = "confirmed", Control, [Next]_vars
  PROVE  Control'
<1>0. TypeOK'
  BY TypeStep DEF Control
<1> USE <1>0, LifecycleConstants DEF Control, TypeOK, Gens, Steps, Threads, At, Goto,
      Fault, Outcome, files, memory, locals, history, vars, Busy, Places, Drawn, Creating,
      Deletes, Marked, Described, CreatedSurvives, ImageHasSidecar
<1>1. ASSUME NEW t \in Importers, Reserve(t) PROVE Control'
  <2>1. Places'
    BY <1>1 DEF Reserve, Importable
  <2>2. Drawn'
    BY <1>1 DEF Reserve, Importable
  <2>3. Creating'
    <3>1. /\ \A d \in Threads : ~Busy(d)
          /\ ~marker /\ deleting \subseteq deleted
      BY <1>1 DEF Reserve, Importable
    <3>2. /\ gen' = [gen EXCEPT ![t] = lastGen + 1] /\ lastGen' = lastGen + 1 /\ pending'
          /\ pc' = [pc EXCEPT ![t] = "check"] /\ reg = 0
          /\ UNCHANGED <<ctx, meta, wal, marker, reg, created, written, deleting, deleted>>
      BY <1>1 DEF Reserve
    <3>3. gen'[t] = lastGen + 1 /\ pc'[t] = "check"
      BY <3>2
    <3>4. \A d \in Threads : d # t => ~(Busy(d)')
      BY <3>1, <3>2
    <3>5. lastGen + 1 \notin created \cup written \cup deleting \cup wal
      OBVIOUS
    <3> HIDE <1>0, LifecycleConstants DEF Control, TypeOK, Places, Drawn, Creating, Deletes, Marked,
          Described, CreatedSurvives, ImageHasSidecar
    <3>6. lastGen + 1 \in 1..(lastGen + 1)
      BY DEF Control, TypeOK
    <3> QED BY <3>1, <3>2, <3>3, <3>4, <3>5, <3>6 DEF Creating
  <2>4. Deletes'
    BY <1>1 DEF Reserve, Importable
  <2>5. Marked'
    BY <1>1 DEF Reserve, Importable
  <2>6. Described'
    BY <1>1 DEF Reserve, Importable
  <2>7. CreatedSurvives'
    BY <1>1 DEF Reserve, Importable
  <2>8. ImageHasSidecar'
    BY <1>1 DEF Reserve, Importable
  <2> QED BY <2>1, <2>2, <2>3, <2>4, <2>5, <2>6, <2>7, <2>8
<1>2. ASSUME NEW t \in Importers, CheckImage(t) PROVE Control'
  BY <1>2 DEF CheckImage
<1>3. ASSUME NEW t \in Importers, CreateMeta(t) PROVE Control'
  BY <1>3 DEF CreateMeta
<1>4. ASSUME NEW t \in Importers, CreateImage(t) PROVE Control'
  BY <1>4 DEF CreateImage
<1>5. ASSUME NEW t \in Importers, Register(t) PROVE Control'
  BY <1>5 DEF Register
<1>6. ASSUME NEW t \in Deleters, Unregister(t) PROVE Control'
  BY <1>6 DEF Unregister
<1>7. ASSUME NEW t \in Deleters, Tombstone(t) PROVE Control'
  BY <1>7 DEF Tombstone
<1>8. ASSUME NEW t \in Deleters, WriteMarker(t) PROVE Control'
  BY <1>8 DEF WriteMarker
<1>9. ASSUME NEW t \in Deleters, UnlinkImage(t) PROVE Control'
  BY <1>9 DEF UnlinkImage
<1>10. ASSUME NEW t \in Deleters, UnlinkMeta(t) PROVE Control'
  BY <1>10 DEF UnlinkMeta
<1>11. ASSUME NEW t \in Deleters, UnlinkWal(t) PROVE Control'
  BY <1>11 DEF UnlinkWal
<1>12. ASSUME NEW t \in Deleters, Unmark(t) PROVE Control'
  <2>1. Places'
    BY <1>12 DEF Unmark
  <2>2. Drawn'
    <3>1. /\ UNCHANGED <<created, written, deleting, wal, reg, ctx, lastGen>>
          /\ deleted' \in {deleted, deleted \cup {gen[t]}}
      BY <1>12 DEF Unmark
    <3>2. gen[t] \in deleting
      BY <1>12 DEF Unmark
    <3> QED BY <3>1, <3>2
  <2>3. Creating'
    BY <1>12 DEF Unmark
  <2>4. Deletes'
    BY <1>12 DEF Unmark
  <2>5. Marked'
    BY <1>12 DEF Unmark
  <2>6. Described'
    BY <1>12 DEF Unmark
  <2>7. CreatedSurvives'
    BY <1>12 DEF Unmark
  <2>8. ImageHasSidecar'
    BY <1>12 DEF Unmark
  <2> QED BY <2>1, <2>2, <2>3, <2>4, <2>5, <2>6, <2>7, <2>8
<1>13. ASSUME NEW g \in 1..MaxGen, Write(g) PROVE Control'
  BY <1>13 DEF Write
<1>14. CASE Crash
  BY <1>14 DEF Crash
<1>15. CASE BootResume
  <2>1. Places'
    BY <1>15 DEF BootResume
  <2>2. Drawn'
    BY <1>15 DEF BootResume
  <2>3. Creating'
    BY <1>15 DEF BootResume
  <2>4. Deletes'
    BY <1>15 DEF BootResume
  <2>5. Marked'
    BY <1>15 DEF BootResume
  <2>6. Described'
    BY <1>15 DEF BootResume
  <2>7. CreatedSurvives'
    BY <1>15 DEF BootResume
  <2>8. ImageHasSidecar'
    BY <1>15 DEF BootResume
  <2> QED BY <2>1, <2>2, <2>3, <2>4, <2>5, <2>6, <2>7, <2>8
<1>16. CASE BootUnmarked
  BY <1>16 DEF BootUnmarked
<1>17. CASE BootScan
  BY <1>17 DEF BootScan
<1>18. CASE Lookup \/ UNCHANGED vars
  BY <1>18 DEF Lookup
<1> QED BY <1>1, <1>2, <1>3, <1>4, <1>5, <1>6, <1>7, <1>8, <1>9, <1>10, <1>11, <1>12,
  <1>13, <1>14, <1>15, <1>16, <1>17, <1>18 DEF Next, Create, Delete

-----------------------------------------------------------------------------
(* What a delete leaves behind is marked *)

\* When the boot sweep's unlinks work, every leftover of a context whose delete has
\* returned keeps its marker until a boot has removed it.
LEMMA GoneStep ==
  ASSUME Recreate = "confirmed", "bootunlink" \notin Faults, Control, Gone, [Next]_vars
  PROVE  Gone'
<1>0. TypeOK'
  BY TypeStep DEF Control
<1> USE <1>0, LifecycleConstants DEF Control, Gone, Swept, LeftoversMarked, NoResurrection, LogIsItsOwn, TypeOK, Gens, Steps, Threads, At, Goto,
      Fault, Outcome, files, memory, locals, history, vars, Busy, Places, Drawn, Creating,
      Deletes, Marked, Described, CreatedSurvives, ImageHasSidecar
<1>1. ASSUME NEW t \in Importers, Reserve(t) PROVE Gone'
  BY <1>1 DEF Reserve, Importable
<1>2. ASSUME NEW t \in Importers, CheckImage(t) PROVE Gone'
  BY <1>2 DEF CheckImage
<1>3. ASSUME NEW t \in Importers, CreateMeta(t) PROVE Gone'
  BY <1>3 DEF CreateMeta
<1>4. ASSUME NEW t \in Importers, CreateImage(t) PROVE Gone'
  BY <1>4 DEF CreateImage
<1>5. ASSUME NEW t \in Importers, Register(t) PROVE Gone'
  BY <1>5 DEF Register
<1>6. ASSUME NEW t \in Deleters, Unregister(t) PROVE Gone'
  BY <1>6 DEF Unregister
<1>7. ASSUME NEW t \in Deleters, Tombstone(t) PROVE Gone'
  BY <1>7 DEF Tombstone
<1>8. ASSUME NEW t \in Deleters, WriteMarker(t) PROVE Gone'
  BY <1>8 DEF WriteMarker
<1>9. ASSUME NEW t \in Deleters, UnlinkImage(t) PROVE Gone'
  BY <1>9 DEF UnlinkImage
<1>10. ASSUME NEW t \in Deleters, UnlinkMeta(t) PROVE Gone'
  BY <1>10 DEF UnlinkMeta
<1>11. ASSUME NEW t \in Deleters, UnlinkWal(t) PROVE Gone'
  <2>1. Swept'
    BY <1>11 DEF UnlinkWal
  <2>2. LeftoversMarked'
    <3>1. wal' \in {wal, {}} /\ UNCHANGED <<ctx, deleted, marker>>
      BY <1>11 DEF UnlinkWal
    <3> QED BY <3>1
  <2>3. NoResurrection'
    BY <1>11 DEF UnlinkWal
  <2>4. LogIsItsOwn'
    BY <1>11 DEF UnlinkWal
  <2> QED BY <2>1, <2>2, <2>3, <2>4
<1>12. ASSUME NEW t \in Deleters, Unmark(t) PROVE Gone'
  BY <1>12 DEF Unmark
<1>13. ASSUME NEW g \in 1..MaxGen, Write(g) PROVE Gone'
  BY <1>13 DEF Write
<1>14. CASE Crash
  BY <1>14 DEF Crash
<1>15. CASE BootResume
  <2>1. Swept'
    BY <1>15 DEF BootResume
  <2>2. LeftoversMarked'
    <3>1. deleted' = deleted /\ 0 \notin deleted
      BY <1>15 DEF BootResume
    <3>2. marker' \/ (ctx' = 0 /\ wal' = {})
      BY <1>15 DEF BootResume
    <3>3. ASSUME marker' PROVE LeftoversMarked'
      BY <3>3
    <3>4. ASSUME ctx' = 0, wal' = {} PROVE LeftoversMarked'
      BY <3>1, <3>4 DEF LeftoversMarked
    <3> QED BY <3>2, <3>3, <3>4
  <2>3. NoResurrection'
    BY <1>15 DEF BootResume
  <2>4. LogIsItsOwn'
    BY <1>15 DEF BootResume
  <2> QED BY <2>1, <2>2, <2>3, <2>4
<1>16. CASE BootUnmarked
  BY <1>16 DEF BootUnmarked
<1>17. CASE BootScan
  BY <1>17 DEF BootScan
<1>18. CASE Lookup \/ UNCHANGED vars
  BY <1>18 DEF Lookup
<1> QED BY <1>1, <1>2, <1>3, <1>4, <1>5, <1>6, <1>7, <1>8, <1>9, <1>10, <1>11, <1>12,
  <1>13, <1>14, <1>15, <1>16, <1>17, <1>18 DEF Next, Create, Delete

-----------------------------------------------------------------------------
(* The theorems *)

LEMMA Start == Init => Control /\ Gone
<1> SUFFICES ASSUME Init PROVE Control /\ Gone
  OBVIOUS
<1> USE LifecycleConstants DEF Init, Threads, Gens
<1>1. Flags
  BY DEF Flags
<1>2. Sets
  BY DEF Sets, Steps
<1>3. Numbers
  BY DEF Numbers
<1>4. Places /\ Drawn /\ Creating /\ Deletes /\ Marked /\ Described
  BY DEF Places, Busy, Drawn, Creating, Deletes, Marked, Described
<1>5. CreatedSurvives /\ ImageHasSidecar /\ NoResurrection /\ LogIsItsOwn
  BY DEF CreatedSurvives, ImageHasSidecar, NoResurrection, LogIsItsOwn
<1>6. Swept /\ LeftoversMarked
  BY DEF Swept, Busy, LeftoversMarked
<1> QED BY <1>1, <1>2, <1>3, <1>4, <1>5, <1>6, Parts DEF Control, Gone

\* The control invariant of the first two theorems.
LEMMA Controlled ==
  ASSUME Recreate = "confirmed"
  PROVE  Spec => []Control
<1>1. Init => Control
  BY Start
<1>2. Control /\ [Next]_vars => Control'
  BY ControlStep
<1> QED BY <1>1, <1>2, PTL DEF Spec

\* The inductive invariant of the other two.
LEMMA LeftoversStay ==
  ASSUME Recreate = "confirmed", "bootunlink" \notin Faults
  PROVE  Spec => []Gone
<1>1. Init => Gone
  BY Start
<1>2. Control /\ Gone /\ [Next]_vars => Gone'
  BY GoneStep
<1>3. Spec => []Control
  BY Controlled
<1> QED BY <1>1, <1>2, <1>3, PTL DEF Spec

\* create_if_absent: an acknowledged context nobody deleted keeps its image and its
\* sidecar, without a deletion marker, and is registered whenever the server is up,
\* through any number of crashes, failed writes and failed deletes of earlier
\* contexts of its id.
THEOREM CreatedNeverLost ==
  ASSUME Recreate = "confirmed"
  PROVE  Spec => []CreatedSurvives
<1>1. Control => CreatedSurvives
  BY DEF Control
<1> QED BY <1>1, Controlled, PTL

\* save_files: the boot scan never finds an image without the sidecar that goes with
\* it unless a delete got that far.
THEOREM SidecarFirst ==
  ASSUME Recreate = "confirmed"
  PROVE  Spec => []ImageHasSidecar
<1>1. Control => ImageHasSidecar
  BY DEF Control
<1> QED BY <1>1, Controlled, PTL

\* delete and scan_data_dir: a context whose delete has returned is never registered
\* again, when the boot sweep's own unlinks work (it drops the marker even when they
\* fail; the configuration boot_unlink shows what happens then).
THEOREM DeletedNeverReturns ==
  ASSUME Recreate = "confirmed", "bootunlink" \notin Faults
  PROVE  Spec => []NoResurrection
<1>1. Gone => NoResurrection
  BY DEF Gone
<1> QED BY <1>1, LeftoversStay, PTL

\* A context created under a used id replays none of its predecessors' records, and
\* its own acknowledged writes stay in the log, under the same condition.
THEOREM LogNeverMixed ==
  ASSUME Recreate = "confirmed", "bootunlink" \notin Faults
  PROVE  Spec => []LogIsItsOwn
<1>1. Gone => LogIsItsOwn
  BY DEF Gone
<1> QED BY <1>1, LeftoversStay, PTL
=============================================================================
