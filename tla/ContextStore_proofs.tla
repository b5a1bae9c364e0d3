------------------------ MODULE ContextStore_proofs ------------------------
(***************************************************************************)
(* Proofs about ContextStore, for every set of threads and batches, every  *)
(* combination and number of faults and every bound.                       *)
(***************************************************************************)
EXTENDS ContextStore, TLAPS, FiniteSetTheorems, SequenceTheorems, WellFoundedInduction

-----------------------------------------------------------------------------
(* The data *)

LEMMA RecordsOfType ==
  ASSUME NEW first \in Nat, NEW base \in Nat, NEW batch \in Seq(BOOLEAN)
  PROVE  RecordsOf(first, base, batch) \in Seq(Record)
<1>1. Len(batch) \in Nat /\ \A i \in 1..Len(batch) : batch[i] \in BOOLEAN
  BY LenProperties, ElementOfSeq
<1>2. \A i \in 1..Len(batch) :
        [seq |-> first + i - 1, id |-> base + i - 1, ok |-> batch[i]] \in Record
  BY <1>1 DEF Record
<1>3. RecordsOf(first, base, batch) \in [1..Len(batch) -> Record]
  BY <1>2 DEF RecordsOf
<1> QED
  BY <1>1, <1>3, SeqDef

LEMMA LogType ==
  ASSUME NEW s \in Seq(Record)
  PROVE  /\ Len(s) \in Nat /\ DOMAIN s = 1..Len(s)
         /\ \A i \in 1..Len(s) : s[i].seq \in Nat /\ s[i].id \in Nat
<1>1. Len(s) \in Nat /\ DOMAIN s = 1..Len(s)
  BY LenProperties
<1>2. \A i \in 1..Len(s) : s[i] \in Record
  BY ElementOfSeq
<1> QED
  BY <1>1, <1>2 DEF Record

LEMMA SubSeqType ==
  ASSUME NEW S, NEW s \in Seq(S), NEW k \in Nat, k <= Len(s)
  PROVE  SubSeq(s, 1, k) \in Seq(S)
<1>1. \A i \in 1..k : s[i] \in S
  BY ElementOfSeq, LenProperties
<1> QED
  BY <1>1, SubSeqProperties

LEMMA AppendLogType ==
  ASSUME NEW d \in Disk, NEW recs \in Seq(Record), NEW tail \in Tails
  PROVE  /\ AppendLog(d, recs, tail) \in Disk
         /\ AppendLog(d, recs, tail).present = d.present
<1>1. d.log \o recs \in Seq(Record)
  BY ConcatProperties DEF Disk
<1>2. Len(d.log) + 1 \in Nat
  BY LenProperties DEF Disk
<1> QED
  BY <1>1, <1>2 DEF AppendLog, Disk

LEMMA PartialAppendsType ==
  ASSUME NEW d \in Disk, NEW recs \in Seq(Record), NEW e \in PartialAppends(d, recs)
  PROVE  e \in Disk /\ e.present = d.present
<1>1. PICK k \in 0..Len(recs), tail \in Tails : e = AppendLog(d, SubSeq(recs, 1, k), tail)
  BY DEF PartialAppends
<1>2. SubSeq(recs, 1, k) \in Seq(Record)
  BY SubSeqType, LenProperties
<1> QED
  BY <1>1, <1>2, AppendLogType

LEMMA TruncateToType ==
  ASSUME NEW d \in Disk, NEW len \in Nat, Truncatable(d, len)
  PROVE  TruncateTo(d, len) \in Disk /\ TruncateTo(d, len).present = d.present
<1>1. SubSeq(d.log, 1, len) \in Seq(Record)
  BY SubSeqType DEF Disk, Truncatable
<1> QED
  BY <1>1 DEF TruncateTo, Disk, Tails

LEMMA ResetType ==
  ASSUME NEW d \in Disk
  PROVE  /\ TruncateTo(d, 0) \in Disk /\ TruncateTo(d, 0).present = d.present
         /\ TruncateTo(d, 0).log = <<>>
<1>1. Truncatable(d, 0)
  BY LenProperties DEF Truncatable, Disk
<1>2. SubSeq(d.log, 1, 0) = <<>>
  BY SubSeqEmpty
<1> QED
  BY <1>1, <1>2, TruncateToType DEF TruncateTo, Disk

LEMMA RecoveredType ==
  ASSUME NEW d \in Disk
  PROVE  Recovered(d) \in SUBSET Nat
<1>1. d.log \in Seq(Record) /\ d.image \in Image
  BY DEF Disk
<1>2. \A i \in DOMAIN d.log : d.log[i].id \in Nat
  BY <1>1, LogType
<1> QED
  BY <1>1, <1>2 DEF Recovered, Replayable, Winning, Image

\* The next write's number: the highest seq exists, because the log is finite.
LEMMA NatMin ==
  ASSUME NEW T \in SUBSET Nat, T # {}
  PROVE  \E x \in T : \A y \in T : x <= y
<1>1. PICK x \in T : \A y \in T : ~(<<y, x>> \in OpToRel(<, Nat))
  BY NatLessThanWellFounded, WFMin
<1>2. \A y \in T : ~(y < x)
  BY <1>1 DEF OpToRel
<1> QED
  BY <1>2

LEMMA UpperBound ==
  ASSUME NEW a \in Nat, NEW b \in Nat
  PROVE  \E m \in Nat : m >= a /\ m >= b
<1>1. MaxOf(a, b) \in Nat /\ MaxOf(a, b) >= a /\ MaxOf(a, b) >= b
  BY DEF MaxOf
<1> QED BY <1>1

LEMMA SeqsBounded ==
  ASSUME NEW s \in Seq(Record)
  PROVE  \E n \in Nat : \A i \in 1..Len(s) : s[i].seq <= n
<1> DEFINE Bounded(k) == \E n \in Nat : \A i \in 1..k : s[i].seq <= n
           T == { k \in Nat : k <= Len(s) /\ ~Bounded(k) }
<1>1. Len(s) \in Nat /\ \A i \in 1..Len(s) : s[i].seq \in Nat
  BY LogType
<1>2. SUFFICES ASSUME T # {} PROVE FALSE
  <2>1. ASSUME T = {} PROVE Bounded(Len(s))
    <3>1. Len(s) \notin T
      BY <2>1
    <3> HIDE DEF Bounded
    <3> QED BY <1>1, <3>1
  <2> QED BY <2>1
<1>3. PICK k \in T : \A y \in T : k <= y
  BY <1>2, NatMin
<1>4. k # 0
  BY <1>3
<1>5. k - 1 \in Nat /\ k - 1 \notin T
  <2>1. k \in Nat /\ k - 1 < k
    BY <1>3
  <2> HIDE DEF T
  <2> QED BY <2>1, <1>3, <1>4
<1>6. PICK n \in Nat : \A i \in 1..(k-1) : s[i].seq <= n
  BY <1>1, <1>3, <1>5
<1>7. s[k].seq \in Nat
  BY <1>1, <1>3, <1>4
<1> HIDE DEF T
<1>8. k \in Nat
  BY <1>3 DEF T
<1>9. PICK m \in Nat : m >= n /\ m >= s[k].seq
  BY <1>7, UpperBound
<1>10. \A i \in 1..k : s[i].seq <= m
  <2> TAKE i \in 1..k
  <2>1. CASE i = k
    BY <2>1, <1>9, <1>7
  <2>2. CASE i # k
    <3>1. i \in 1..(k-1) /\ s[i].seq \in Nat
      BY <2>2, <1>1, <1>3, <1>8 DEF T
    <3>2. s[i].seq <= n
      BY <3>1, <1>6
    <3> QED BY <3>1, <3>2, <1>9
  <2> QED BY <2>1, <2>2
<1> QED
  BY <1>10, <1>3 DEF T

LEMMA TopSeqIs ==
  ASSUME NEW d \in Disk
  PROVE  /\ Seqs(d) \subseteq Nat /\ d.image.wm \in Seqs(d)
         /\ TopSeq(d) \in Seqs(d) /\ \A y \in Seqs(d) : y <= TopSeq(d)
<1> DEFINE U == { n \in Nat : \A m \in Seqs(d) : m <= n }
<1>1. d.log \in Seq(Record) /\ d.image.wm \in Nat
  BY DEF Disk, Image
<1>2. DOMAIN d.log = 1..Len(d.log) /\ \A i \in 1..Len(d.log) : d.log[i].seq \in Nat
  BY <1>1, LogType
<1>3. Seqs(d) \subseteq Nat /\ d.image.wm \in Seqs(d)
  BY <1>1, <1>2 DEF Seqs
<1>4. PICK n \in Nat : \A i \in 1..Len(d.log) : d.log[i].seq <= n
  BY <1>1, SeqsBounded
<1>6. PICK m \in Nat : m >= n /\ m >= d.image.wm
  BY <1>1, UpperBound
<1>7. \A x \in Seqs(d) : x <= m
  <2> TAKE x \in Seqs(d)
  <2>1. CASE x = d.image.wm
    BY <2>1, <1>6
  <2>2. CASE \E i \in 1..Len(d.log) : x = d.log[i].seq
    BY <2>2, <1>2, <1>4, <1>6
  <2> QED BY <2>1, <2>2, <1>2 DEF Seqs
<1>8. U # {}
  BY <1>7
<1>9. PICK u \in U : \A y \in U : u <= y
  BY <1>8, NatMin
<1>10. u \in Seqs(d)
  <2>1. SUFFICES ASSUME u \notin Seqs(d) PROVE FALSE
    OBVIOUS
  <2>2. \A x \in Seqs(d) : x <= u /\ x # u /\ x \in Nat
    BY <2>1, <1>3
  <2>3. u - 1 \in Nat /\ \A x \in Seqs(d) : x <= u - 1
    BY <2>2, <1>3
  <2> QED BY <2>3, <1>9
<1>11. \E x \in Seqs(d) : \A y \in Seqs(d) : y <= x
  BY <1>10
<1>12. TopSeq(d) \in Seqs(d) /\ \A y \in Seqs(d) : y <= TopSeq(d)
  BY <1>11 DEF TopSeq
<1> QED BY <1>3, <1>12

LEMMA TopSeqType ==
  ASSUME NEW d \in Disk
  PROVE  /\ TopSeq(d) \in Nat /\ d.image.wm <= TopSeq(d)
         /\ \A i \in DOMAIN d.log : d.log[i].seq <= TopSeq(d)
<1>1. \A i \in DOMAIN d.log : d.log[i].seq \in Seqs(d)
  BY DEF Seqs
<1> QED BY <1>1, TopSeqIs

LEMMA LandedType ==
  ASSUME NEW batch \in Seq(BOOLEAN)
  PROVE  Landed(batch) \in Nat /\ Landed(batch) <= Len(batch)
<1> DEFINE L == { i \in DOMAIN batch : \A j \in 1..i : batch[j] }
<1>1. Len(batch) \in Nat /\ L \in SUBSET (1..Len(batch))
  BY LenProperties
<1>2. IsFiniteSet(1..Len(batch)) /\ Cardinality(1..Len(batch)) = Len(batch)
  BY <1>1, FS_Interval
<1>3. IsFiniteSet(L) /\ Cardinality(L) <= Len(batch)
  BY <1>1, <1>2, FS_Subset
<1> QED
  BY <1>3, FS_CardinalityType DEF Landed

LEMMA IdsType ==
  ASSUME NEW base \in Nat, NEW n \in Int
  PROVE  Ids(base, n) \in SUBSET Nat
BY DEF Ids

-----------------------------------------------------------------------------
(* Types.  A batch's applied prefix is part of the batch, or Prefix would not *)
(* be a sequence of records; and the writer numbers from 1, or the sequence   *)
(* number it restores after a failed trim would not be one.                   *)

WritePCs == {"append", "retrim", "operate", "trim", "reappend"}
LocalsOK(w) == w.landed <= Len(w.batch) /\ (w.pc \in WritePCs => w.first # 0)
WriterOK == \A t \in Threads : LocalsOK(th[t])
TypeInv == TypeOK /\ WriterOK

ThreadsOK == th \in [Threads -> Thread] /\ WriterOK
HistoryOK == acked \in SUBSET Nat /\ refused \in SUBSET Nat /\ exposed \in SUBSET Nat

LEMMA IdleType == Idle \in Thread /\ LocalsOK(Idle)
<1>1. <<>> \in Seq(BOOLEAN) /\ Len(<<>>) = 0
  BY EmptySeq
<1> QED
  BY <1>1 DEF Idle, Thread, PCs, Conts, NoSnapshot, Snapshot, LocalsOK, WritePCs

LEMMA SetThread ==
  ASSUME TypeInv, NEW t \in Threads, NEW w \in Thread, LocalsOK(w),
         th' = [th EXCEPT ![t] = w]
  PROVE  ThreadsOK'
BY DEF TypeInv, TypeOK, WriterOK, ThreadsOK

LEMMA SnapType ==
  ASSUME TypeInv, NEW t \in Threads
  PROVE  /\ th[t] \in Thread /\ LocalsOK(th[t])
         /\ th[t].snap.exposed \in SUBSET Nat /\ th[t].snap.ops \in SUBSET Nat
         /\ th[t].snap.wm \in Nat /\ th[t].snap.rev \in Nat
<1>1. th[t] \in Thread /\ LocalsOK(th[t])
  BY DEF TypeInv, TypeOK, WriterOK
<1>2. th[t].snap \in Snapshot
  BY <1>1 DEF Thread
<1> QED
  BY <1>1, <1>2 DEF Snapshot

LEMMA GotoType ==
  ASSUME TypeInv, NEW t \in Threads, NEW pc \in PCs,
         pc \in WritePCs => th[t].pc \in WritePCs, Goto(t, pc)
  PROVE  ThreadsOK'
<1> DEFINE w == [th[t] EXCEPT !.pc = pc]
<1>1. w \in Thread /\ LocalsOK(w)
  BY SnapType DEF Thread, LocalsOK
<1>2. th' = [th EXCEPT ![t] = w]
  BY DEF Goto
<1> QED BY <1>1, <1>2, SetThread

\* A writer hands over to the recovery flush.
LEMMA ToFlushType ==
  ASSUME TypeInv, NEW t \in Threads, NEW n \in Nat, n <= Len(th[t].batch),
         th' = [th EXCEPT ![t] = [th[t] EXCEPT !.pc = "flush", !.cont = "write", !.landed = n]]
  PROVE  ThreadsOK'
<1> DEFINE w == [th[t] EXCEPT !.pc = "flush", !.cont = "write", !.landed = n]
<1>1. w \in Thread /\ LocalsOK(w)
  BY SnapType DEF Thread, LocalsOK, PCs, Conts, WritePCs
<1> QED BY <1>1, SetThread

LEMMA AnswerType ==
  ASSUME TypeInv, NEW t \in Threads, NEW landed \in Nat, landed <= Len(th[t].batch),
         NEW missed \in BOOLEAN, Answer(t, landed, missed)
  PROVE  ThreadsOK' /\ HistoryOK'
<1>1. th[t].base \in Nat /\ th[t].batch \in Seq(BOOLEAN)
  BY SnapType DEF Thread
<1>2. Len(th[t].batch) \in Nat
  BY <1>1, LenProperties
<1>3. /\ Ids(th[t].base, landed) \in SUBSET Nat
      /\ Ids(th[t].base + landed, Len(th[t].batch) - landed) \in SUBSET Nat
      /\ Ids(th[t].base, Len(th[t].batch)) \in SUBSET Nat
  BY <1>1, <1>2 DEF Ids
<1>4. HistoryOK'
  BY <1>3 DEF Answer, HistoryOK, TypeInv, TypeOK
<1>5. ThreadsOK'
  BY IdleType, SetThread DEF Answer
<1> QED BY <1>4, <1>5

LEMMA FlushReturnsType ==
  ASSUME TypeInv, NEW t \in Threads, NEW ok \in BOOLEAN, FlushReturns(t, ok)
  PROVE  ThreadsOK' /\ HistoryOK'
<1>1. CASE th[t].cont = "write"
  <2>1. th[t].landed \in Nat /\ th[t].landed <= Len(th[t].batch)
    BY SnapType DEF Thread, LocalsOK
  <2>2. Answer(t, th[t].landed, ~ok)
    BY <1>1 DEF FlushReturns
  <2> QED BY <2>1, <2>2, AnswerType
<1>2. CASE th[t].cont # "write"
  <2> DEFINE w == IF th[t].cont = "evict" THEN [Idle EXCEPT !.pc = "evict"] ELSE Idle
  <2>1. w \in Thread /\ LocalsOK(w)
    BY IdleType DEF Thread, PCs, LocalsOK, WritePCs
  <2>2. th' = [th EXCEPT ![t] = w]
    BY <1>2 DEF FlushReturns, TypeInv, TypeOK
  <2>3. HistoryOK'
    BY <1>2 DEF FlushReturns, HistoryOK, TypeInv, TypeOK
  <2> QED BY <2>1, <2>2, <2>3, SetThread
<1> QED BY <1>1, <1>2

LEMMA LoadedType ==
  ASSUME TypeInv, Loadable
  PROVE  LoadedEntry \in Entry /\ HealedDisk \in Disk
<1>1. entry \in Entry /\ disk \in Disk
  BY DEF TypeInv, TypeOK
<1>2. Recovered(disk) \in SUBSET Nat /\ TopSeq(disk) \in Nat /\ Len(disk.log) \in Nat
  BY <1>1, RecoveredType, TopSeqType, LogType DEF Disk
<1>3. HealedDisk \in Disk
  BY <1>1 DEF HealedDisk, Heal, Disk, Tails
<1>4. CASE entry.slot = "Hot"
  BY <1>1, <1>3, <1>4 DEF LoadedEntry
<1>5. CASE entry.slot # "Hot"
  <2>1. entry.rev \in Nat
    BY <1>1 DEF Entry
  <2>2. MaxOf(entry.rev, TopSeq(disk)) \in Nat /\ TopSeq(disk) + 1 \in Nat \ {0}
    BY <2>1, <1>2 DEF MaxOf
  <2> QED BY <1>1, <1>2, <1>3, <1>5, <2>2 DEF LoadedEntry, Entry
<1> QED BY <1>4, <1>5

\* What each kind of step leaves to show.
RestOK ==
  /\ dirty \in BOOLEAN /\ flushing \in BOOLEAN /\ lock \in Threads \cup {Free}
  /\ nextId \in Nat \ {0} /\ faults \in Nat /\ crashes \in Nat

LEMMA Parts ==
  ASSUME TypeInv
  PROVE  entry \in Entry /\ disk \in Disk /\ ThreadsOK /\ HistoryOK /\ RestOK
BY DEF TypeInv, TypeOK, ThreadsOK, HistoryOK, RestOK

LEMMA PartsNext ==
  ASSUME entry' \in Entry, disk' \in Disk, ThreadsOK', HistoryOK', RestOK'
  PROVE  TypeInv'
BY DEF TypeInv, TypeOK, ThreadsOK, HistoryOK, RestOK

LEMMA WriterType ==
  ASSUME TypeInv, NEW t \in Threads
  PROVE  /\ RecordsOf(th[t].first, th[t].base, th[t].batch) \in Seq(Record)
         /\ Prefix(th[t]) \in Seq(Record)
         /\ Len(th[t].batch) \in Nat /\ th[t].len \in Nat /\ th[t].base \in Nat
         /\ th[t].landed \in Nat /\ th[t].landed <= Len(th[t].batch)
<1>1. /\ th[t].first \in Nat /\ th[t].base \in Nat /\ th[t].batch \in Seq(BOOLEAN)
      /\ th[t].landed \in Nat /\ th[t].landed <= Len(th[t].batch) /\ th[t].len \in Nat
  BY SnapType DEF Thread, LocalsOK
<1>2. SubSeq(th[t].batch, 1, th[t].landed) \in Seq(BOOLEAN)
  BY <1>1, SubSeqType
<1> QED
  BY <1>1, <1>2, RecordsOfType, LenProperties DEF Prefix

\* An entry whose log bookkeeping moved.
LEMMA EntryWal ==
  ASSUME entry \in Entry, NEW bytes \in Nat, NEW seq \in Nat, seq # 0,
         entry' = [entry EXCEPT !.walBytes = bytes, !.walSeq = seq]
  PROVE  entry' \in Entry
BY DEF Entry

LEMMA WriteStepType ==
  ASSUME TypeInv, NEW t \in Threads, WriteStep(t)
  PROVE  TypeInv'
<1>0. entry \in Entry /\ disk \in Disk /\ ThreadsOK /\ HistoryOK /\ RestOK
  BY Parts
<1>w. /\ RecordsOf(th[t].first, th[t].base, th[t].batch) \in Seq(Record)
      /\ Prefix(th[t]) \in Seq(Record)
      /\ Len(th[t].batch) \in Nat /\ th[t].len \in Nat /\ th[t].base \in Nat
      /\ th[t].landed \in Nat /\ th[t].landed <= Len(th[t].batch)
  BY WriterType
<1>n. 0 \in Nat /\ 0 <= Len(th[t].batch)
  BY <1>w
<1>e. entry.walBytes \in Nat /\ entry.walSeq \in Nat \ {0} /\ entry.rev \in Nat
  BY <1>0 DEF Entry
<1>1. CASE AppendOk(t)
  <2>1. disk' \in Disk
    BY <1>0, <1>1, <1>w, AppendLogType DEF AppendOk, Tails
  <2>2. entry' \in Entry
    <3>1. /\ entry.walBytes + Len(th[t].batch) \in Nat
          /\ entry.walSeq + Len(th[t].batch) \in Nat /\ entry.walSeq + Len(th[t].batch) # 0
      BY <1>e, <1>w
    <3> QED BY <1>0, <1>1, <3>1, EntryWal DEF AppendOk
  <2>3. ThreadsOK'
    BY <1>1, GotoType DEF AppendOk, PCs, WritePCs, At
  <2>4. HistoryOK' /\ RestOK'
    BY <1>0, <1>1 DEF AppendOk, HistoryOK, RestOK, history
  <2> QED BY <2>1, <2>2, <2>3, <2>4, PartsNext
<1>2. CASE AppendFails(t)
  <2>1. disk' \in Disk
    BY <1>0, <1>2, <1>w, PartialAppendsType DEF AppendFails
  <2>2. ThreadsOK'
    BY <1>2, GotoType DEF AppendFails, PCs, WritePCs, At
  <2>3. entry' \in Entry /\ HistoryOK' /\ RestOK'
    BY <1>0, <1>2 DEF AppendFails, HistoryOK, RestOK, Fault
  <2> QED BY <2>1, <2>2, <2>3, PartsNext
<1>3. CASE RetrimOk(t)
  <2>1. disk' \in Disk
    BY <1>0, <1>3, <1>w, TruncateToType DEF RetrimOk
  <2>2. Answer(t, 0, FALSE)
    BY <1>3 DEF RetrimOk
  <2>3. ThreadsOK' /\ HistoryOK'
    BY <2>2, <1>n, AnswerType
  <2>4. entry' \in Entry /\ RestOK'
    BY <1>0, <1>3 DEF RetrimOk, RestOK
  <2> QED BY <2>1, <2>3, <2>4, PartsNext
<1>4. CASE RetrimFails(t)
  <2>1. th' = [th EXCEPT ![t] = [th[t] EXCEPT !.pc = "flush", !.cont = "write", !.landed = 0]]
    BY <1>0, <1>4 DEF RetrimFails, ThreadsOK
  <2>2. ThreadsOK'
    BY <2>1, <1>n, ToFlushType
  <2>3. entry' \in Entry /\ disk' \in Disk /\ HistoryOK' /\ RestOK'
    BY <1>0, <1>4 DEF RetrimFails, HistoryOK, RestOK, Fault, NoFault
  <2> QED BY <2>2, <2>3, PartsNext
<1>5. CASE Operate(t)
  <2> DEFINE n == Landed(th[t].batch)
  <2>1. n \in Nat /\ n <= Len(th[t].batch)
    BY LandedType, SnapType DEF Thread
  <2>2. Ids(th[t].base, n) \in SUBSET Nat
    BY <1>w, <2>1, IdsType
  <2>3. entry' \in Entry
    <3>1. entry' = [entry EXCEPT !.graph = @ \cup Ids(th[t].base, n), !.rev = Revised(n)]
      BY <1>5 DEF Operate
    <3>2. Revised(n) \in Nat
      BY <1>e, <2>1 DEF Revised
    <3> HIDE DEF n
    <3> QED BY <1>0, <2>2, <3>1, <3>2 DEF Entry
  <2>4. ThreadsOK' /\ HistoryOK'
    <3>1. CASE MustTrim(th[t], n)
      <4>1. th' = [th EXCEPT ![t].pc = "trim", ![t].landed = n] /\ UNCHANGED <<acked, refused, exposed>>
        BY <1>5, <3>1 DEF Operate
      <4>2. th[t].pc \in WritePCs /\ th[t] \in Thread /\ LocalsOK(th[t])
        BY <1>5, SnapType DEF Operate, At, WritePCs
      <4> HIDE DEF n
      <4> DEFINE w == [th[t] EXCEPT !.pc = "trim", !.landed = n]
      <4>3. w \in Thread /\ LocalsOK(w)
        BY <4>2, <2>1 DEF Thread, PCs, LocalsOK
      <4>4. th' = [th EXCEPT ![t] = w]
        BY <4>1, <1>0 DEF ThreadsOK
      <4>5. ThreadsOK'
        BY <4>3, <4>4, SetThread
      <4> QED BY <1>0, <4>1, <4>5 DEF HistoryOK
    <3>2. CASE ~MustTrim(th[t], n)
      BY <1>5, <3>2, <2>1, AnswerType DEF Operate
    <3> QED BY <3>1, <3>2
  <2>5. RestOK' /\ UNCHANGED disk
    BY <1>0, <1>5 DEF Operate, RestOK
  <2> QED BY <1>0, <2>3, <2>4, <2>5, PartsNext
<1>6. CASE OperatePanics(t)
  <2>1. entry' \in Entry
    BY <1>0, <1>6 DEF OperatePanics, Entry
  <2>2. ThreadsOK'
    BY <1>6, IdleType, SetThread DEF OperatePanics
  <2>3. disk' \in Disk /\ HistoryOK' /\ RestOK'
    BY <1>0, <1>6 DEF OperatePanics, HistoryOK, RestOK, Fault
  <2> QED BY <2>1, <2>2, <2>3, PartsNext
<1>7. CASE TrimOk(t)
  <2>1. disk' \in Disk
    BY <1>0, <1>7, <1>w, TruncateToType DEF TrimOk
  <2>2. ThreadsOK'
    BY <1>7, GotoType DEF TrimOk, PCs, At, WritePCs
  <2>3. entry' \in Entry /\ HistoryOK' /\ RestOK'
    BY <1>0, <1>7 DEF TrimOk, HistoryOK, RestOK, history
  <2> QED BY <2>1, <2>2, <2>3, PartsNext
<1>8. CASE TrimFails(t)
  <2>1. th' = [th EXCEPT ![t] = [th[t] EXCEPT !.pc = "flush", !.cont = "write",
                                              !.landed = th[t].landed]]
    BY <1>0, <1>8 DEF TrimFails, ThreadsOK, Thread
  <2>2. ThreadsOK'
    BY <2>1, <1>w, ToFlushType
  <2>3. entry' \in Entry /\ disk' \in Disk /\ HistoryOK' /\ RestOK'
    BY <1>0, <1>8 DEF TrimFails, HistoryOK, RestOK, Fault, NoFault
  <2> QED BY <2>2, <2>3, PartsNext
<1>9. CASE ReappendOk(t)
  <2>1. disk' \in Disk
    BY <1>0, <1>9, <1>w, AppendLogType DEF ReappendOk, Tails
  <2>2. /\ th[t].len + th[t].landed \in Nat
        /\ th[t].first + th[t].landed \in Nat /\ th[t].first + th[t].landed # 0
    BY <1>9, <1>w, SnapType DEF ReappendOk, At, WritePCs, LocalsOK, Thread
  <2>3. entry' \in Entry
    BY <1>0, <1>9, <2>2, EntryWal DEF ReappendOk
  <2>4. ThreadsOK' /\ HistoryOK'
    BY <1>9, <1>w, AnswerType DEF ReappendOk
  <2>5. RestOK'
    BY <1>0, <1>9 DEF ReappendOk, RestOK
  <2> QED BY <2>1, <2>3, <2>4, <2>5, PartsNext
<1>10. CASE ReappendFails(t)
  <2>1. disk' \in Disk
    BY <1>0, <1>10, <1>w, PartialAppendsType DEF ReappendFails
  <2>2. th[t].first \in Nat /\ th[t].first # 0
    BY <1>10, SnapType DEF ReappendFails, At, WritePCs, LocalsOK, Thread
  <2>3. entry' \in Entry
    BY <1>0, <1>10, <1>w, <2>2, EntryWal DEF ReappendFails
  <2>4. th' = [th EXCEPT ![t] = [th[t] EXCEPT !.pc = "flush", !.cont = "write",
                                              !.landed = th[t].landed]]
    BY <1>0, <1>10 DEF ReappendFails, ThreadsOK, Thread
  <2>5. ThreadsOK'
    BY <2>4, <1>w, ToFlushType
  <2>6. HistoryOK' /\ RestOK'
    BY <1>0, <1>10 DEF ReappendFails, HistoryOK, RestOK, Fault
  <2> QED BY <2>1, <2>3, <2>5, <2>6, PartsNext
<1> QED
  BY <1>1, <1>2, <1>3, <1>4, <1>5, <1>6, <1>7, <1>8, <1>9, <1>10 DEF WriteStep

LEMMA WatermarkType ==
  ASSUME entry \in Entry
  PROVE  Watermark \in Nat
BY DEF Entry, Watermark

LEMMA PublishType ==
  ASSUME NEW d \in Disk, NEW ops \in SUBSET Nat, NEW wm \in Nat
  PROVE  Publish(d, ops, wm) \in Disk
BY DEF Publish, Disk, Image

LEMMA SidecarType ==
  ASSUME NEW d \in Disk, NEW rev \in Nat
  PROVE  [d EXCEPT !.rev = rev] \in Disk
BY DEF Disk

LEMMA TruncateWalType ==
  ASSUME entry \in Entry, disk \in Disk, faults \in Nat, TruncateWal
  PROVE  entry' \in Entry /\ disk' \in Disk /\ faults' \in Nat
<1>1. [entry EXCEPT !.walBytes = 0] \in Entry
  BY DEF Entry
<1> QED
  BY <1>1, ResetType DEF TruncateWal, Fault, NoFault

LEMMA FaultType ==
  ASSUME faults \in Nat, NEW kind, Fault(kind)
  PROVE  faults' \in Nat
BY DEF Fault

LEMMA FlushStepType ==
  ASSUME TypeInv, NEW t \in Threads, FlushStep(t)
  PROVE  TypeInv'
<1>0. entry \in Entry /\ disk \in Disk /\ ThreadsOK /\ HistoryOK /\ RestOK
  BY Parts
<1>s. /\ th[t].snap.ops \in SUBSET Nat /\ th[t].snap.wm \in Nat /\ th[t].snap.rev \in Nat
  BY SnapType
<1>p. /\ Publish(disk, th[t].snap.ops, th[t].snap.wm) \in Disk
      /\ [disk EXCEPT !.rev = th[t].snap.rev] \in Disk
  BY <1>0, <1>s, PublishType, SidecarType
<1>1. CASE FlushEntry(t)
  <2>1. ThreadsOK' /\ HistoryOK'
    <3>1. CASE dirty
      BY <1>0, <1>1, <3>1, GotoType DEF FlushEntry, PCs, WritePCs, HistoryOK
    <3>2. CASE ~dirty
      BY <1>1, <3>2, FlushReturnsType DEF FlushEntry
    <3> QED BY <3>1, <3>2
  <2>2. entry' \in Entry /\ disk' \in Disk /\ RestOK'
    BY <1>0, <1>1 DEF FlushEntry, RestOK
  <2> QED BY <2>1, <2>2, PartsNext
<1>2. CASE ClaimLost(t)
  <2>1. ThreadsOK' /\ HistoryOK'
    BY <1>2, FlushReturnsType DEF ClaimLost
  <2>2. entry' \in Entry /\ disk' \in Disk /\ RestOK'
    BY <1>0, <1>2 DEF ClaimLost, RestOK
  <2> QED BY <2>1, <2>2, PartsNext
<1>3. CASE Claim(t)
  <2> DEFINE snap == [ops |-> entry.graph, wm |-> Watermark, gen |-> entry.gen,
                      rev |-> entry.rev, exposed |-> exposed]
             w == [th[t] EXCEPT !.pc = "stage", !.snap = snap]
  <2>1. snap \in Snapshot
    BY <1>0, WatermarkType DEF Snapshot, Entry, HistoryOK
  <2>2. w \in Thread /\ LocalsOK(w)
    <3> HIDE DEF snap
    <3> QED BY <2>1, SnapType DEF Thread, PCs, LocalsOK, WritePCs
  <2>3. th' = [th EXCEPT ![t] = w]
    BY <1>0, <1>3 DEF Claim, ThreadsOK
  <2>4. ThreadsOK'
    <3> HIDE DEF w
    <3> QED BY <2>2, <2>3, SetThread
  <2>5. entry' \in Entry /\ disk' \in Disk /\ HistoryOK' /\ RestOK'
    BY <1>0, <1>3 DEF Claim, HistoryOK, RestOK, history
  <2> QED BY <2>4, <2>5, PartsNext
<1>4. CASE StageOk(t)
  <2>1. ThreadsOK'
    BY <1>4, GotoType DEF StageOk, PCs, WritePCs
  <2>2. entry' \in Entry /\ disk' \in Disk /\ HistoryOK' /\ RestOK'
    BY <1>0, <1>4 DEF StageOk, HistoryOK, RestOK, history
  <2> QED BY <2>1, <2>2, PartsNext
<1>5. CASE StageFails(t)
  <2>1. ThreadsOK' /\ HistoryOK'
    BY <1>5, FlushReturnsType DEF StageFails
  <2>2. entry' \in Entry /\ disk' \in Disk /\ RestOK'
    BY <1>0, <1>5, FaultType DEF StageFails, RestOK
  <2> QED BY <2>1, <2>2, PartsNext
<1>6. CASE PublishBacksOff(t)
  <2>1. ThreadsOK' /\ HistoryOK'
    BY <1>6, FlushReturnsType DEF PublishBacksOff
  <2>2. entry' \in Entry /\ disk' \in Disk /\ RestOK'
    BY <1>0, <1>6 DEF PublishBacksOff, RestOK
  <2> QED BY <2>1, <2>2, PartsNext
<1>7. CASE PublishMeta(t)
  <2>1. ThreadsOK'
    BY <1>7, GotoType DEF PublishMeta, PCs, WritePCs
  <2>2. entry' \in Entry /\ disk' \in Disk /\ HistoryOK' /\ RestOK'
    BY <1>0, <1>p, <1>7 DEF PublishMeta, HistoryOK, RestOK, history
  <2> QED BY <2>1, <2>2, PartsNext
<1>8. CASE PublishMetaFails(t)
  <2>1. ThreadsOK' /\ HistoryOK'
    BY <1>8, FlushReturnsType DEF PublishMetaFails
  <2>2. entry' \in Entry /\ disk' \in Disk
    BY <1>0, <1>p, <1>8 DEF PublishMetaFails
  <2>3. RestOK'
    BY <1>0, <1>8, FaultType DEF PublishMetaFails, RestOK
  <2> QED BY <2>1, <2>2, <2>3, PartsNext
<1>9. CASE CommitOk(t)
  <2>1. ThreadsOK' /\ HistoryOK'
    <3>1. CASE CoversLog(t)
      BY <1>0, <1>9, <3>1, GotoType DEF CommitOk, PCs, WritePCs, HistoryOK
    <3>2. CASE ~CoversLog(t)
      BY <1>9, <3>2, FlushReturnsType DEF CommitOk
    <3> QED BY <3>1, <3>2
  <2>2. entry' \in Entry /\ disk' \in Disk /\ RestOK'
    BY <1>0, <1>p, <1>9 DEF CommitOk, RestOK
  <2> QED BY <2>1, <2>2, PartsNext
<1>10. CASE CommitFails(t)
  <2>1. ThreadsOK' /\ HistoryOK'
    BY <1>10, FlushReturnsType DEF CommitFails
  <2>2. entry' \in Entry /\ disk' \in Disk
    BY <1>0, <1>p, <1>10 DEF CommitFails
  <2>3. RestOK'
    BY <1>0, <1>10, FaultType DEF CommitFails, RestOK
  <2> QED BY <2>1, <2>2, <2>3, PartsNext
<1>11. CASE FlushTruncates(t)
  <2>1. ThreadsOK' /\ HistoryOK'
    BY <1>11, FlushReturnsType DEF FlushTruncates
  <2>2. entry' \in Entry /\ disk' \in Disk /\ faults' \in Nat
    BY <1>0, <1>11, TruncateWalType DEF FlushTruncates, RestOK
  <2>3. RestOK'
    BY <1>0, <1>11, <2>2 DEF FlushTruncates, RestOK
  <2> QED BY <2>1, <2>2, <2>3, PartsNext
<1> QED
  BY <1>1, <1>2, <1>3, <1>4, <1>5, <1>6, <1>7, <1>8, <1>9, <1>10, <1>11 DEF FlushStep

LEMMA EvictStepType ==
  ASSUME TypeInv, NEW t \in Threads, EvictStep(t) \/ Unlink(t)
  PROVE  TypeInv'
<1>0. entry \in Entry /\ disk \in Disk /\ ThreadsOK /\ HistoryOK /\ RestOK
  BY Parts
<1>c. ColdEntry \in Entry
  <2>1. entry.gen + 1 \in Nat
    BY <1>0 DEF Entry
  <2> QED BY <1>0, <2>1 DEF ColdEntry, Entry
<1>p. Publish(disk, entry.graph, Watermark) \in Disk /\ [disk EXCEPT !.rev = entry.rev] \in Disk
  BY <1>0, PublishType, SidecarType, WatermarkType DEF Entry
<1>1. CASE EvictClean(t)
  <2>1. ThreadsOK'
    BY <1>1, IdleType, SetThread DEF EvictClean
  <2>2. entry' \in Entry /\ disk' \in Disk /\ HistoryOK' /\ RestOK'
    BY <1>0, <1>c, <1>1 DEF EvictClean, HistoryOK, RestOK, history
  <2> QED BY <2>1, <2>2, PartsNext
<1>2. CASE EvictMeta(t)
  <2>1. ThreadsOK'
    BY <1>2, GotoType DEF EvictMeta, PCs, WritePCs
  <2>2. entry' \in Entry /\ disk' \in Disk /\ HistoryOK' /\ RestOK'
    BY <1>0, <1>p, <1>2 DEF EvictMeta, HistoryOK, RestOK, history
  <2> QED BY <2>1, <2>2, PartsNext
<1>3. CASE EvictMetaFails(t)
  <2>1. ThreadsOK'
    BY <1>3, IdleType, SetThread DEF EvictMetaFails
  <2>2. entry' \in Entry /\ disk' \in Disk /\ HistoryOK' /\ RestOK'
    BY <1>0, <1>p, <1>3 DEF EvictMetaFails, HistoryOK, RestOK, Fault
  <2> QED BY <2>1, <2>2, PartsNext
<1>4. CASE EvictCommit(t)
  <2>1. ThreadsOK'
    BY <1>4, GotoType DEF EvictCommit, PCs, WritePCs
  <2>2. entry' \in Entry /\ disk' \in Disk /\ HistoryOK' /\ RestOK'
    BY <1>0, <1>p, <1>4 DEF EvictCommit, HistoryOK, RestOK, history
  <2> QED BY <2>1, <2>2, PartsNext
<1>5. CASE EvictCommitFails(t)
  <2>1. ThreadsOK'
    BY <1>5, IdleType, SetThread DEF EvictCommitFails
  <2>2. entry' \in Entry /\ disk' \in Disk /\ HistoryOK' /\ RestOK'
    BY <1>0, <1>p, <1>5 DEF EvictCommitFails, HistoryOK, RestOK, Fault
  <2> QED BY <2>1, <2>2, PartsNext
<1>6. CASE EvictTruncates(t)
  <2>1. ThreadsOK'
    BY <1>6, GotoType DEF EvictTruncates, PCs, WritePCs
  <2>2. entry' \in Entry /\ disk' \in Disk /\ faults' \in Nat
    BY <1>0, <1>6, TruncateWalType DEF EvictTruncates, RestOK
  <2>3. HistoryOK' /\ RestOK'
    BY <1>0, <1>6, <2>2 DEF EvictTruncates, HistoryOK, RestOK
  <2> QED BY <2>1, <2>2, <2>3, PartsNext
<1>7. CASE EvictCools(t)
  <2>1. ThreadsOK'
    BY <1>7, IdleType, SetThread DEF EvictCools
  <2>2. entry' \in Entry /\ disk' \in Disk /\ HistoryOK' /\ RestOK'
    BY <1>0, <1>c, <1>7 DEF EvictCools, HistoryOK, RestOK, history
  <2> QED BY <2>1, <2>2, PartsNext
<1>8. CASE Unlink(t)
  <2>1. ThreadsOK'
    BY <1>8, IdleType, SetThread DEF Unlink
  <2>2. [TruncateTo(disk, 0) EXCEPT !.present = FALSE] \in Disk
    <3>1. TruncateTo(disk, 0) \in Disk
      BY <1>0, ResetType
    <3> QED BY <3>1 DEF Disk
  <2>3. entry' \in Entry /\ disk' \in Disk /\ HistoryOK' /\ RestOK'
    BY <1>0, <1>8, <2>2 DEF Unlink, HistoryOK, RestOK, history
  <2> QED BY <2>1, <2>3, PartsNext
<1>9. CASE EvictPinned(t)
  <2>1. ThreadsOK'
    BY <1>9, IdleType, SetThread DEF EvictPinned
  <2>2. entry' \in Entry /\ disk' \in Disk /\ HistoryOK' /\ RestOK'
    BY <1>0, <1>9 DEF EvictPinned, HistoryOK, RestOK, history
  <2> QED BY <2>1, <2>2, PartsNext
<1> QED
  BY <1>1, <1>2, <1>3, <1>4, <1>5, <1>6, <1>7, <1>8, <1>9 DEF EvictStep

LEMMA CallType ==
  ASSUME TypeInv, NEW t \in Threads, Call(t)
  PROVE  TypeInv'
<1>0. entry \in Entry /\ disk \in Disk /\ ThreadsOK /\ HistoryOK /\ RestOK
  BY Parts
<1>b. \A b \in Batches : b \in Seq(BOOLEAN) /\ Len(b) \in Nat
  BY ConstantsOK, LenProperties
<1>1. CASE Read(t)
  <2>1. entry' \in Entry /\ disk' \in Disk
    BY <1>1, LoadedType DEF Read
  <2>2. ThreadsOK' /\ HistoryOK' /\ RestOK'
    BY <1>0, <1>1 DEF Read, ThreadsOK, WriterOK, HistoryOK, RestOK, history
  <2> QED BY <2>1, <2>2, PartsNext
<1>2. CASE ReadDeleted(t)
  <2>1. ThreadsOK' /\ HistoryOK' /\ RestOK' /\ entry' \in Entry /\ disk' \in Disk
    BY <1>0, <1>2 DEF ReadDeleted, vars, ThreadsOK, WriterOK, HistoryOK, RestOK, history
  <2> QED BY <2>1, PartsNext
<1>3. CASE LoadFails(t)
  <2>1. entry' \in Entry /\ disk' \in Disk
    BY <1>0, <1>3 DEF LoadFails, Entry
  <2>2. ThreadsOK' /\ HistoryOK' /\ RestOK'
    BY <1>0, <1>3 DEF LoadFails, ThreadsOK, WriterOK, HistoryOK, RestOK, Fault, NoFault
  <2> QED BY <2>1, <2>2, PartsNext
<1>4. CASE RefuseWrite(t)
  <2>1. PICK b \in Batches :
          /\ Loadable /\ entry' = LoadedEntry /\ disk' = HealedDisk
          /\ refused' = refused \cup Ids(nextId, Len(b)) /\ nextId' = nextId + Len(b)
          /\ UNCHANGED <<dirty, flushing, lock, th, acked, exposed, faults, crashes>>
    BY <1>4 DEF RefuseWrite
  <2>2. entry' \in Entry /\ disk' \in Disk
    BY <2>1, LoadedType
  <2>3. Ids(nextId, Len(b)) \in SUBSET Nat /\ nextId + Len(b) \in Nat \ {0}
    BY <1>0, <1>b DEF RestOK, Ids
  <2>4. ThreadsOK' /\ HistoryOK' /\ RestOK'
    BY <1>0, <2>1, <2>3 DEF ThreadsOK, WriterOK, HistoryOK, RestOK
  <2> QED BY <2>2, <2>4, PartsNext
<1>5. CASE BeginWrite(t)
  <2>1. PICK b \in Batches :
          /\ Loadable /\ entry' = LoadedEntry /\ disk' = HealedDisk /\ lock' = t
          /\ th' = [th EXCEPT ![t] =
                     [Idle EXCEPT !.pc = IF WalEnabled THEN "append" ELSE "operate",
                                  !.batch = b, !.base = nextId, !.first = LoadedEntry.walSeq,
                                  !.len = LoadedEntry.walBytes]]
          /\ nextId' = nextId + Len(b)
          /\ UNCHANGED <<dirty, flushing, acked, refused, exposed, faults, crashes>>
    BY <1>5 DEF BeginWrite
  <2>2. LoadedEntry \in Entry /\ HealedDisk \in Disk
    BY <2>1, LoadedType
  <2>3. LoadedEntry.walSeq \in Nat \ {0} /\ LoadedEntry.walBytes \in Nat
    BY <2>2 DEF Entry
  <2>4. nextId \in Nat /\ nextId + Len(b) \in Nat \ {0}
    BY <1>0, <1>b DEF RestOK
  <2> DEFINE w == [Idle EXCEPT !.pc = IF WalEnabled THEN "append" ELSE "operate",
                               !.batch = b, !.base = nextId, !.first = LoadedEntry.walSeq,
                               !.len = LoadedEntry.walBytes]
  <2>5. w \in Thread
    BY <1>b, <2>3, <2>4, IdleType DEF Thread, PCs
  <2>6. LocalsOK(w)
    <3>1. w.landed = 0 /\ w.batch = b /\ w.first = LoadedEntry.walSeq
      BY IdleType DEF Idle
    <3> HIDE DEF w
    <3> QED BY <1>b, <2>3, <3>1 DEF LocalsOK
  <2>7. ThreadsOK'
    <3> HIDE DEF w
    <3>1. th' = [th EXCEPT ![t] = w]
      BY <2>1 DEF w
    <3> QED BY <2>5, <2>6, <3>1, SetThread
  <2>8. HistoryOK' /\ RestOK'
    BY <1>0, <2>1, <2>4 DEF HistoryOK, RestOK
  <2> QED BY <2>1, <2>2, <2>7, <2>8, PartsNext
<1>6. CASE Tick(t)
  <2>1. ThreadsOK'
    BY <1>6, GotoType DEF Tick, PCs, WritePCs
  <2>2. entry' \in Entry /\ disk' \in Disk /\ HistoryOK' /\ RestOK'
    BY <1>0, <1>6 DEF Tick, HistoryOK, RestOK, history
  <2> QED BY <2>1, <2>2, PartsNext
<1>7. CASE EvictStarts(t)
  <2> DEFINE w == [th[t] EXCEPT !.pc = "flush", !.cont = "evict"]
  <2>1. w \in Thread /\ LocalsOK(w)
    BY SnapType DEF Thread, LocalsOK, PCs, Conts, WritePCs
  <2>2. th' = [th EXCEPT ![t] = w]
    BY <1>0, <1>7 DEF EvictStarts, ThreadsOK
  <2>3. ThreadsOK'
    BY <2>1, <2>2, SetThread
  <2>4. entry' \in Entry /\ disk' \in Disk /\ HistoryOK' /\ RestOK'
    BY <1>0, <1>7 DEF EvictStarts, HistoryOK, RestOK, history
  <2> QED BY <2>3, <2>4, PartsNext
<1>8. CASE Compact(t)
  <2>1. LoadedEntry \in Entry /\ HealedDisk \in Disk
    BY <1>8, LoadedType DEF Compact
  <2>2. LoadedEntry.gen + 1 \in Nat
    BY <2>1 DEF Entry
  <2>3. [LoadedEntry EXCEPT !.gen = @ + 1] \in Entry
    BY <2>1, <2>2 DEF Entry
  <2>4. ThreadsOK'
    BY <1>8, GotoType DEF Compact, PCs, WritePCs
  <2>5. HistoryOK' /\ RestOK'
    BY <1>0, <1>8 DEF Compact, HistoryOK, RestOK, history
  <2> QED BY <1>8, <2>1, <2>3, <2>4, <2>5, PartsNext DEF Compact
<1>9. CASE Delete(t)
  <2>1. entry' \in Entry
    BY <1>0, <1>9 DEF Delete, Entry
  <2>2. ThreadsOK'
    BY <1>9, GotoType DEF Delete, PCs, WritePCs
  <2>3. disk' \in Disk /\ HistoryOK' /\ RestOK'
    BY <1>0, <1>9 DEF Delete, HistoryOK, RestOK, history
  <2> QED BY <2>1, <2>2, <2>3, PartsNext
<1> QED
  BY <1>1, <1>2, <1>3, <1>4, <1>5, <1>6, <1>7, <1>8, <1>9 DEF Call

LEMMA CrashDisksType ==
  ASSUME TypeInv, NEW d \in CrashDisks
  PROVE  d \in Disk /\ d.present = disk.present
<1>1. disk \in Disk
  BY Parts
<1>2. CASE d = disk
  BY <1>1, <1>2
<1>3. CASE \E t \in Threads :
              d \in PartialAppends(disk, RecordsOf(th[t].first, th[t].base, th[t].batch))
  BY <1>1, <1>3, WriterType, PartialAppendsType
<1>4. CASE \E t \in Threads : d \in PartialAppends(disk, Prefix(th[t]))
  BY <1>1, <1>4, WriterType, PartialAppendsType
<1> DEFINE Appends(t) == PartialAppends(disk, RecordsOf(th[t].first, th[t].base, th[t].batch))
           Reappends(t) == PartialAppends(disk, Prefix(th[t]))
           A == { u \in Threads : At(u, "append") }
           R == { u \in Threads : At(u, "reappend") }
<1>5. PICK S \in {{disk}} \cup { Appends(t) : t \in A } \cup { Reappends(t) : t \in R } : d \in S
  BY DEF CrashDisks
<1>6. A \subseteq Threads /\ R \subseteq Threads
  OBVIOUS
<1> HIDE DEF Appends, Reappends, A, R
<1>7. d = disk \/ (\E t \in Threads : d \in Appends(t)) \/ (\E t \in Threads : d \in Reappends(t))
  BY <1>5, <1>6
<1> QED BY <1>2, <1>3, <1>4, <1>7 DEF Appends, Reappends

LEMMA CrashType ==
  ASSUME TypeInv, Crash
  PROVE  TypeInv'
<1>0. entry \in Entry /\ disk \in Disk /\ ThreadsOK /\ HistoryOK /\ RestOK
  BY Parts
<1>1. disk' \in Disk
  BY CrashDisksType DEF Crash
<1>2. Len(disk'.log) \in Nat
  BY <1>1, LogType DEF Disk
<1>3. entry' \in Entry
  BY <1>0, <1>2 DEF Crash, Entry, Disk
<1>4. ThreadsOK'
  BY IdleType DEF Crash, ThreadsOK, WriterOK
<1>5. HistoryOK'
  BY <1>0 DEF Crash, HistoryOK
<1>6. dirty' = FALSE /\ flushing' = FALSE /\ lock' = Free
  BY DEF Crash
<1>7. nextId' \in Nat \ {0} /\ faults' \in Nat /\ crashes' \in Nat
  BY <1>0 DEF Crash, RestOK
<1>8. RestOK'
  BY <1>6, <1>7 DEF RestOK
<1> QED BY <1>1, <1>3, <1>4, <1>5, <1>8, PartsNext

LEMMA TypeInit == Init => TypeInv
<1> SUFFICES ASSUME Init PROVE TypeInv
  OBVIOUS
<1>1. <<>> \in Seq(Record)
  BY EmptySeq
<1>2. disk \in Disk
  BY <1>1 DEF Init, Disk, Image, Tails
<1>3. entry \in Entry
  BY DEF Init, Entry
<1>4. ThreadsOK
  BY IdleType DEF Init, ThreadsOK, WriterOK
<1>5. HistoryOK
  BY DEF Init, HistoryOK
<1>6. nextId \in Nat \ {0} /\ faults \in Nat /\ crashes \in Nat
  BY DEF Init
<1>7. dirty = FALSE /\ flushing = FALSE /\ lock = Free
  BY DEF Init
<1>8. RestOK
  BY <1>6, <1>7 DEF RestOK
<1> QED BY <1>2, <1>3, <1>4, <1>5, <1>8 DEF TypeInv, TypeOK, ThreadsOK, HistoryOK, RestOK

LEMMA TypeStep == TypeInv /\ [Next]_vars => TypeInv'
<1> SUFFICES ASSUME TypeInv, [Next]_vars PROVE TypeInv'
  OBVIOUS
<1>0. entry \in Entry /\ disk \in Disk /\ ThreadsOK /\ HistoryOK /\ RestOK
  BY Parts
<1>1. CASE \E t \in Threads : Continue(t)
  BY <1>1, WriteStepType, FlushStepType, EvictStepType DEF Continue
<1>2. CASE \E t \in Threads : Call(t)
  BY <1>2, CallType
<1>3. CASE QuarantineLapses
  <2>1. entry' \in Entry /\ disk' \in Disk
    BY <1>0, <1>3 DEF QuarantineLapses, Entry
  <2>2. ThreadsOK' /\ HistoryOK' /\ RestOK'
    BY <1>0, <1>3 DEF QuarantineLapses, ThreadsOK, WriterOK, HistoryOK, RestOK, history
  <2> QED BY <2>1, <2>2, PartsNext
<1>4. CASE Crash
  BY <1>4, CrashType
<1>5. CASE UNCHANGED vars
  <2>1. ThreadsOK' /\ HistoryOK' /\ RestOK' /\ entry' \in Entry /\ disk' \in Disk
    BY <1>0, <1>5 DEF vars, ThreadsOK, WriterOK, HistoryOK, RestOK, history
  <2> QED BY <2>1, PartsNext
<1> QED BY <1>1, <1>2, <1>3, <1>4, <1>5 DEF Next

\* Every variable keeps its type in every behaviour; in particular the log stays
\* a sequence of records and no sequence number, watermark or length underflows,
\* whatever faults and crashes interrupt the writes, flushes and evictions.
THEOREM TypeCorrect == Spec => []TypeOK
<1>1. TypeInv => TypeOK
  BY DEF TypeInv
<1> QED
  BY <1>1, TypeInit, TypeStep, PTL DEF Spec

-----------------------------------------------------------------------------
(* Control: who holds the entry's lock, and who has a flush in flight.  Both *)
(* depend on the program counters alone.                                     *)

LockPCs == {"append", "retrim", "operate", "trim", "reappend", "commit", "truncate",
            "evcommit", "evtruncate", "evcool"}
LockHeld == \A t \in Threads : th[t].pc \in LockPCs <=> lock = t
Control == LockHeld /\ FlushExclusive

FlightPCs == {"stage", "publish", "commit", "truncate"}

PcStep(t, p) == \A u \in Threads : th'[u].pc = IF u = t THEN p ELSE th[u].pc

NoNewUnlink == \A u \in Threads : th'[u].pc = "unlink" => th[u].pc = "unlink"

LEMMA GotoPc ==
  ASSUME TypeInv, NEW t \in Threads, NEW p, Goto(t, p)
  PROVE  PcStep(t, p)
BY DEF TypeInv, TypeOK, Thread, Goto, PcStep

LEMMA AnswerPc ==
  ASSUME TypeInv, NEW t \in Threads, NEW landed, NEW missed, Answer(t, landed, missed)
  PROVE  PcStep(t, "idle")
BY DEF TypeInv, TypeOK, Answer, PcStep, Idle

LEMMA FlushReturnsPc ==
  ASSUME TypeInv, NEW t \in Threads, NEW ok, FlushReturns(t, ok)
  PROVE  \E p \in {"idle", "evict"} : PcStep(t, p)
<1>1. CASE th[t].cont = "write"
  BY <1>1, AnswerPc DEF FlushReturns
<1>2. CASE th[t].cont = "evict"
  <2>1. PcStep(t, "evict")
    BY <1>2 DEF FlushReturns, TypeInv, TypeOK, PcStep, Idle
  <2> QED BY <2>1
<1>3. CASE th[t].cont \notin {"write", "evict"}
  <2>1. PcStep(t, "idle")
    BY <1>3 DEF FlushReturns, TypeInv, TypeOK, PcStep, Idle
  <2> QED BY <2>1
<1> QED BY <1>1, <1>2, <1>3

\* The three ways a step may treat the lock ...
LEMMA LockKept ==
  ASSUME LockHeld, NEW t \in Threads, NEW p, PcStep(t, p), lock' = lock,
         p \in LockPCs <=> th[t].pc \in LockPCs
  PROVE  LockHeld'
BY DEF LockHeld, PcStep

LEMMA LockTaken ==
  ASSUME LockHeld, NEW t \in Threads, NEW p, PcStep(t, p), lock = Free, lock' = t,
         p \in LockPCs
  PROVE  LockHeld'
BY FreeIsNoThread DEF LockHeld, PcStep

LEMMA LockDropped ==
  ASSUME LockHeld, NEW t \in Threads, NEW p, PcStep(t, p), th[t].pc \in LockPCs,
         lock' = Free, p \notin LockPCs
  PROVE  LockHeld'
BY FreeIsNoThread DEF LockHeld, PcStep

\* ... and the `flushing' flag.
LEMMA FlightKept ==
  ASSUME FlushExclusive, NEW t \in Threads, NEW p, PcStep(t, p), flushing' = flushing,
         p \in FlightPCs <=> th[t].pc \in FlightPCs
  PROVE  FlushExclusive'
<1>1. \A u \in Threads : InFlight(u)' <=> InFlight(u)
  BY DEF PcStep, InFlight, FlightPCs
<1> QED BY <1>1 DEF FlushExclusive

LEMMA FlightTaken ==
  ASSUME FlushExclusive, NEW t \in Threads, NEW p, PcStep(t, p), flushing = FALSE,
         flushing' = TRUE, p \in FlightPCs
  PROVE  FlushExclusive'
<1>1. \A u \in Threads : InFlight(u)' <=> u = t
  BY DEF PcStep, InFlight, FlightPCs, FlushExclusive
<1> QED BY <1>1 DEF FlushExclusive

LEMMA FlightDropped ==
  ASSUME FlushExclusive, NEW t \in Threads, NEW p, PcStep(t, p), th[t].pc \in FlightPCs,
         flushing' = FALSE, p \notin FlightPCs
  PROVE  FlushExclusive'
<1>1. \A u \in Threads : ~InFlight(u)'
  BY DEF PcStep, InFlight, FlightPCs, FlushExclusive
<1> QED BY <1>1 DEF FlushExclusive

LEMMA WriteStepControl ==
  ASSUME TypeInv, Control, NEW t \in Threads, WriteStep(t)
  PROVE  Control' /\ NoNewUnlink
<1>1. CASE AppendOk(t)
  <2>1. PcStep(t, "operate")
    BY <1>1, GotoPc DEF AppendOk
  <2>2. lock' = lock /\ flushing' = flushing /\ th[t].pc = "append"
    BY <1>1 DEF AppendOk, At
  <2>3. LockHeld'
    BY <2>1, <2>2, LockKept DEF Control, LockPCs
  <2>4. FlushExclusive'
    BY <2>1, <2>2, FlightKept DEF Control, FlightPCs
  <2>5. NoNewUnlink
    BY <2>1 DEF PcStep, NoNewUnlink
  <2> QED BY <2>3, <2>4, <2>5 DEF Control
<1>2. CASE AppendFails(t)
  <2>1. PcStep(t, "retrim")
    BY <1>2, GotoPc DEF AppendFails
  <2>2. lock' = lock /\ flushing' = flushing /\ th[t].pc = "append"
    BY <1>2 DEF AppendFails, At
  <2>3. LockHeld'
    BY <2>1, <2>2, LockKept DEF Control, LockPCs
  <2>4. FlushExclusive'
    BY <2>1, <2>2, FlightKept DEF Control, FlightPCs
  <2>5. NoNewUnlink
    BY <2>1 DEF PcStep, NoNewUnlink
  <2> QED BY <2>3, <2>4, <2>5 DEF Control
<1>3. CASE RetrimOk(t)
  <2>1. PcStep(t, "idle")
    BY <1>3, AnswerPc DEF RetrimOk
  <2>2. lock' = Free /\ flushing' = flushing /\ th[t].pc = "retrim"
    BY <1>3 DEF RetrimOk, At
  <2>3. LockHeld'
    BY <2>1, <2>2, LockDropped DEF Control, LockPCs
  <2>4. FlushExclusive'
    BY <2>1, <2>2, FlightKept DEF Control, FlightPCs
  <2>5. NoNewUnlink
    BY <2>1 DEF PcStep, NoNewUnlink
  <2> QED BY <2>3, <2>4, <2>5 DEF Control
<1>4. CASE RetrimFails(t)
  <2>1. PcStep(t, "flush")
    BY <1>4 DEF RetrimFails, PcStep, TypeInv, TypeOK, Thread
  <2>2. lock' = Free /\ flushing' = flushing /\ th[t].pc = "retrim"
    BY <1>4 DEF RetrimFails, At
  <2>3. LockHeld'
    BY <2>1, <2>2, LockDropped DEF Control, LockPCs
  <2>4. FlushExclusive'
    BY <2>1, <2>2, FlightKept DEF Control, FlightPCs
  <2>5. NoNewUnlink
    BY <2>1 DEF PcStep, NoNewUnlink
  <2> QED BY <2>3, <2>4, <2>5 DEF Control
<1>5. CASE Operate(t)
  <2>0. th[t].pc = "operate"
    BY <1>5 DEF Operate, At
  <2>1. CASE MustTrim(th[t], Landed(th[t].batch))
    <3>1. PcStep(t, "trim")
      BY <1>5, <2>1 DEF Operate, PcStep, TypeInv, TypeOK, Thread
    <3>2. lock' = lock /\ flushing' = flushing
      BY <1>5, <2>1 DEF Operate
    <3>3. LockHeld'
      BY <2>0, <3>1, <3>2, LockKept DEF Control, LockPCs
    <3>4. FlushExclusive'
      BY <2>0, <3>1, <3>2, FlightKept DEF Control, FlightPCs
    <3>5. NoNewUnlink
      BY <3>1 DEF PcStep, NoNewUnlink
    <3> QED BY <3>3, <3>4, <3>5 DEF Control
  <2>2. CASE ~MustTrim(th[t], Landed(th[t].batch))
    <3>1. PcStep(t, "idle")
      BY <1>5, <2>2, AnswerPc DEF Operate
    <3>2. lock' = Free /\ flushing' = flushing
      BY <1>5, <2>2 DEF Operate
    <3>3. LockHeld'
      BY <2>0, <3>1, <3>2, LockDropped DEF Control, LockPCs
    <3>4. FlushExclusive'
      BY <2>0, <3>1, <3>2, FlightKept DEF Control, FlightPCs
    <3>5. NoNewUnlink
      BY <3>1 DEF PcStep, NoNewUnlink
    <3> QED BY <3>3, <3>4, <3>5 DEF Control
  <2> QED BY <2>1, <2>2
<1>6. CASE OperatePanics(t)
  <2>1. PcStep(t, "idle")
    BY <1>6 DEF OperatePanics, PcStep, TypeInv, TypeOK, Idle
  <2>2. lock' = Free /\ flushing' = flushing /\ th[t].pc = "operate"
    BY <1>6 DEF OperatePanics, At
  <2>3. LockHeld'
    BY <2>1, <2>2, LockDropped DEF Control, LockPCs
  <2>4. FlushExclusive'
    BY <2>1, <2>2, FlightKept DEF Control, FlightPCs
  <2>5. NoNewUnlink
    BY <2>1 DEF PcStep, NoNewUnlink
  <2> QED BY <2>3, <2>4, <2>5 DEF Control
<1>7. CASE TrimOk(t)
  <2>1. PcStep(t, "reappend")
    BY <1>7, GotoPc DEF TrimOk
  <2>2. lock' = lock /\ flushing' = flushing /\ th[t].pc = "trim"
    BY <1>7 DEF TrimOk, At
  <2>3. LockHeld'
    BY <2>1, <2>2, LockKept DEF Control, LockPCs
  <2>4. FlushExclusive'
    BY <2>1, <2>2, FlightKept DEF Control, FlightPCs
  <2>5. NoNewUnlink
    BY <2>1 DEF PcStep, NoNewUnlink
  <2> QED BY <2>3, <2>4, <2>5 DEF Control
<1>8. CASE TrimFails(t)
  <2>1. PcStep(t, "flush")
    BY <1>8 DEF TrimFails, PcStep, TypeInv, TypeOK, Thread
  <2>2. lock' = Free /\ flushing' = flushing /\ th[t].pc = "trim"
    BY <1>8 DEF TrimFails, At
  <2>3. LockHeld'
    BY <2>1, <2>2, LockDropped DEF Control, LockPCs
  <2>4. FlushExclusive'
    BY <2>1, <2>2, FlightKept DEF Control, FlightPCs
  <2>5. NoNewUnlink
    BY <2>1 DEF PcStep, NoNewUnlink
  <2> QED BY <2>3, <2>4, <2>5 DEF Control
<1>9. CASE ReappendOk(t)
  <2>1. PcStep(t, "idle")
    BY <1>9, AnswerPc DEF ReappendOk
  <2>2. lock' = Free /\ flushing' = flushing /\ th[t].pc = "reappend"
    BY <1>9 DEF ReappendOk, At
  <2>3. LockHeld'
    BY <2>1, <2>2, LockDropped DEF Control, LockPCs
  <2>4. FlushExclusive'
    BY <2>1, <2>2, FlightKept DEF Control, FlightPCs
  <2>5. NoNewUnlink
    BY <2>1 DEF PcStep, NoNewUnlink
  <2> QED BY <2>3, <2>4, <2>5 DEF Control
<1>10. CASE ReappendFails(t)
  <2>1. PcStep(t, "flush")
    BY <1>10 DEF ReappendFails, PcStep, TypeInv, TypeOK, Thread
  <2>2. lock' = Free /\ flushing' = flushing /\ th[t].pc = "reappend"
    BY <1>10 DEF ReappendFails, At
  <2>3. LockHeld'
    BY <2>1, <2>2, LockDropped DEF Control, LockPCs
  <2>4. FlushExclusive'
    BY <2>1, <2>2, FlightKept DEF Control, FlightPCs
  <2>5. NoNewUnlink
    BY <2>1 DEF PcStep, NoNewUnlink
  <2> QED BY <2>3, <2>4, <2>5 DEF Control
<1> QED
  BY <1>1, <1>2, <1>3, <1>4, <1>5, <1>6, <1>7, <1>8, <1>9, <1>10 DEF WriteStep

LEMMA FlushStepControl ==
  ASSUME TypeInv, Control, NEW t \in Threads, FlushStep(t)
  PROVE  Control' /\ NoNewUnlink
<1>1. CASE FlushEntry(t)
  <2>0. th[t].pc = "flush"
    BY <1>1 DEF FlushEntry, At
  <2>1. CASE dirty
    <3>1. PcStep(t, "claim")
      BY <1>1, <2>1, GotoPc DEF FlushEntry
    <3>2. lock' = lock /\ flushing' = flushing
      BY <1>1, <2>1 DEF FlushEntry
    <3>3. LockHeld'
      BY <2>0, <3>1, <3>2, LockKept DEF Control, LockPCs
    <3>4. FlushExclusive'
      BY <2>0, <3>1, <3>2, FlightKept DEF Control, FlightPCs
    <3>5. NoNewUnlink
      BY <3>1 DEF PcStep, NoNewUnlink
    <3> QED BY <3>3, <3>4, <3>5 DEF Control
  <2>2. CASE ~dirty
    <3>1. PICK p \in {"idle", "evict"} : PcStep(t, p)
      BY <1>1, <2>2, FlushReturnsPc DEF FlushEntry
    <3>2. lock' = lock /\ flushing' = flushing
      BY <1>1, <2>2 DEF FlushEntry
    <3>3. LockHeld'
      BY <2>0, <3>1, <3>2, LockKept DEF Control, LockPCs
    <3>4. FlushExclusive'
      BY <2>0, <3>1, <3>2, FlightKept DEF Control, FlightPCs
    <3>5. NoNewUnlink
      BY <3>1 DEF PcStep, NoNewUnlink
    <3> QED BY <3>3, <3>4, <3>5 DEF Control
  <2> QED BY <2>1, <2>2
<1>2. CASE ClaimLost(t)
  <2>1. PICK p \in {"idle", "evict"} : PcStep(t, p)
    BY <1>2, FlushReturnsPc DEF ClaimLost
  <2>2. lock' = lock /\ flushing' = flushing /\ th[t].pc = "claim"
    BY <1>2, <2>1 DEF ClaimLost, At
  <2>3. LockHeld'
    BY <2>1, <2>2, LockKept DEF Control, LockPCs
  <2>4. FlushExclusive'
    BY <2>1, <2>2, FlightKept DEF Control, FlightPCs
  <2>5. NoNewUnlink
    BY <2>1 DEF PcStep, NoNewUnlink
  <2> QED BY <2>3, <2>4, <2>5 DEF Control
<1>3. CASE Claim(t)
  <2>1. PcStep(t, "stage")
    BY <1>3 DEF Claim, PcStep, TypeInv, TypeOK, Thread
  <2>2. lock' = lock /\ flushing = FALSE /\ flushing' = TRUE /\ th[t].pc = "claim"
    BY <1>3, Parts DEF Claim, At, FlushFree, RestOK
  <2>3. LockHeld'
    BY <2>1, <2>2, LockKept DEF Control, LockPCs
  <2>4. FlushExclusive'
    BY <2>1, <2>2, FlightTaken DEF Control, FlightPCs
  <2>5. NoNewUnlink
    BY <2>1 DEF PcStep, NoNewUnlink
  <2> QED BY <2>3, <2>4, <2>5 DEF Control
<1>4. CASE StageOk(t)
  <2>1. PcStep(t, "publish")
    BY <1>4, GotoPc DEF StageOk
  <2>2. lock' = lock /\ flushing' = flushing /\ th[t].pc = "stage"
    BY <1>4 DEF StageOk, At
  <2>3. LockHeld'
    BY <2>1, <2>2, LockKept DEF Control, LockPCs
  <2>4. FlushExclusive'
    BY <2>1, <2>2, FlightKept DEF Control, FlightPCs
  <2>5. NoNewUnlink
    BY <2>1 DEF PcStep, NoNewUnlink
  <2> QED BY <2>3, <2>4, <2>5 DEF Control
<1>5. CASE StageFails(t)
  <2>1. PICK p \in {"idle", "evict"} : PcStep(t, p)
    BY <1>5, FlushReturnsPc DEF StageFails
  <2>2. lock' = lock /\ flushing' = FALSE /\ th[t].pc = "stage"
    BY <1>5, <2>1 DEF StageFails, At
  <2>3. LockHeld'
    BY <2>1, <2>2, LockKept DEF Control, LockPCs
  <2>4. FlushExclusive'
    BY <2>1, <2>2, FlightDropped DEF Control, FlightPCs
  <2>5. NoNewUnlink
    BY <2>1 DEF PcStep, NoNewUnlink
  <2> QED BY <2>3, <2>4, <2>5 DEF Control
<1>6. CASE PublishBacksOff(t)
  <2>1. PICK p \in {"idle", "evict"} : PcStep(t, p)
    BY <1>6, FlushReturnsPc DEF PublishBacksOff
  <2>2. lock' = lock /\ flushing' = FALSE /\ th[t].pc = "publish"
    BY <1>6, <2>1 DEF PublishBacksOff, At
  <2>3. LockHeld'
    BY <2>1, <2>2, LockKept DEF Control, LockPCs
  <2>4. FlushExclusive'
    BY <2>1, <2>2, FlightDropped DEF Control, FlightPCs
  <2>5. NoNewUnlink
    BY <2>1 DEF PcStep, NoNewUnlink
  <2> QED BY <2>3, <2>4, <2>5 DEF Control
<1>7. CASE PublishMeta(t)
  <2>1. PcStep(t, "commit")
    BY <1>7, GotoPc DEF PublishMeta
  <2>2. lock = Free /\ lock' = t /\ flushing' = flushing /\ th[t].pc = "publish"
    BY <1>7 DEF PublishMeta, At
  <2>3. LockHeld'
    BY <2>1, <2>2, LockTaken DEF Control, LockPCs
  <2>4. FlushExclusive'
    BY <2>1, <2>2, FlightKept DEF Control, FlightPCs
  <2>5. NoNewUnlink
    BY <2>1 DEF PcStep, NoNewUnlink
  <2> QED BY <2>3, <2>4, <2>5 DEF Control
<1>8. CASE PublishMetaFails(t)
  <2>1. PICK p \in {"idle", "evict"} : PcStep(t, p)
    BY <1>8, FlushReturnsPc DEF PublishMetaFails
  <2>2. lock' = lock /\ flushing' = FALSE /\ th[t].pc = "publish"
    BY <1>8, <2>1 DEF PublishMetaFails, At
  <2>3. LockHeld'
    BY <2>1, <2>2, LockKept DEF Control, LockPCs
  <2>4. FlushExclusive'
    BY <2>1, <2>2, FlightDropped DEF Control, FlightPCs
  <2>5. NoNewUnlink
    BY <2>1 DEF PcStep, NoNewUnlink
  <2> QED BY <2>3, <2>4, <2>5 DEF Control
<1>9. CASE CommitOk(t)
  <2>0. th[t].pc = "commit"
    BY <1>9 DEF CommitOk, At
  <2>1. CASE CoversLog(t)
    <3>1. PcStep(t, "truncate")
      BY <1>9, <2>1, GotoPc DEF CommitOk
    <3>2. lock' = lock /\ flushing' = flushing
      BY <1>9, <2>1 DEF CommitOk
    <3>3. LockHeld'
      BY <2>0, <3>1, <3>2, LockKept DEF Control, LockPCs
    <3>4. FlushExclusive'
      BY <2>0, <3>1, <3>2, FlightKept DEF Control, FlightPCs
    <3>5. NoNewUnlink
      BY <3>1 DEF PcStep, NoNewUnlink
    <3> QED BY <3>3, <3>4, <3>5 DEF Control
  <2>2. CASE ~CoversLog(t)
    <3>1. PICK p \in {"idle", "evict"} : PcStep(t, p)
      BY <1>9, <2>2, FlushReturnsPc DEF CommitOk
    <3>2. lock' = Free /\ flushing' = FALSE
      BY <1>9, <2>2 DEF CommitOk
    <3>3. LockHeld'
      BY <2>0, <3>1, <3>2, LockDropped DEF Control, LockPCs
    <3>4. FlushExclusive'
      BY <2>0, <3>1, <3>2, FlightDropped DEF Control, FlightPCs
    <3>5. NoNewUnlink
      BY <3>1 DEF PcStep, NoNewUnlink
    <3> QED BY <3>3, <3>4, <3>5 DEF Control
  <2> QED BY <2>1, <2>2
<1>10. CASE CommitFails(t)
  <2>1. PICK p \in {"idle", "evict"} : PcStep(t, p)
    BY <1>10, FlushReturnsPc DEF CommitFails
  <2>2. lock' = Free /\ flushing' = FALSE /\ th[t].pc = "commit"
    BY <1>10, <2>1 DEF CommitFails, At
  <2>3. LockHeld'
    BY <2>1, <2>2, LockDropped DEF Control, LockPCs
  <2>4. FlushExclusive'
    BY <2>1, <2>2, FlightDropped DEF Control, FlightPCs
  <2>5. NoNewUnlink
    BY <2>1 DEF PcStep, NoNewUnlink
  <2> QED BY <2>3, <2>4, <2>5 DEF Control
<1>11. CASE FlushTruncates(t)
  <2>1. PICK p \in {"idle", "evict"} : PcStep(t, p)
    BY <1>11, FlushReturnsPc DEF FlushTruncates
  <2>2. lock' = Free /\ flushing' = FALSE /\ th[t].pc = "truncate"
    BY <1>11, <2>1 DEF FlushTruncates, At
  <2>3. LockHeld'
    BY <2>1, <2>2, LockDropped DEF Control, LockPCs
  <2>4. FlushExclusive'
    BY <2>1, <2>2, FlightDropped DEF Control, FlightPCs
  <2>5. NoNewUnlink
    BY <2>1 DEF PcStep, NoNewUnlink
  <2> QED BY <2>3, <2>4, <2>5 DEF Control
<1> QED
  BY <1>1, <1>2, <1>3, <1>4, <1>5, <1>6, <1>7, <1>8, <1>9, <1>10, <1>11 DEF FlushStep

LEMMA EvictStepControl ==
  ASSUME TypeInv, Control, NEW t \in Threads, EvictStep(t) \/ Unlink(t)
  PROVE  Control' /\ NoNewUnlink
<1>1. CASE EvictPinned(t)
  <2>1. PcStep(t, "idle")
    BY <1>1 DEF EvictPinned, PcStep, TypeInv, TypeOK, Idle
  <2>2. lock' = lock /\ flushing' = flushing /\ th[t].pc = "evict"
    BY <1>1 DEF EvictPinned, At
  <2>3. LockHeld'
    BY <2>1, <2>2, LockKept DEF Control, LockPCs
  <2>4. FlushExclusive'
    BY <2>1, <2>2, FlightKept DEF Control, FlightPCs
  <2>5. NoNewUnlink
    BY <2>1 DEF PcStep, NoNewUnlink
  <2> QED BY <2>3, <2>4, <2>5 DEF Control
<1>2. CASE EvictClean(t)
  <2>1. PcStep(t, "idle")
    BY <1>2 DEF EvictClean, PcStep, TypeInv, TypeOK, Idle
  <2>2. lock' = lock /\ flushing' = flushing /\ th[t].pc = "evict"
    BY <1>2 DEF EvictClean, At
  <2>3. LockHeld'
    BY <2>1, <2>2, LockKept DEF Control, LockPCs
  <2>4. FlushExclusive'
    BY <2>1, <2>2, FlightKept DEF Control, FlightPCs
  <2>5. NoNewUnlink
    BY <2>1 DEF PcStep, NoNewUnlink
  <2> QED BY <2>3, <2>4, <2>5 DEF Control
<1>3. CASE EvictMeta(t)
  <2>1. PcStep(t, "evcommit")
    BY <1>3, GotoPc DEF EvictMeta
  <2>2. lock = Free /\ lock' = t /\ flushing' = flushing /\ th[t].pc = "evict"
    BY <1>3 DEF EvictMeta, At
  <2>3. LockHeld'
    BY <2>1, <2>2, LockTaken DEF Control, LockPCs
  <2>4. FlushExclusive'
    BY <2>1, <2>2, FlightKept DEF Control, FlightPCs
  <2>5. NoNewUnlink
    BY <2>1 DEF PcStep, NoNewUnlink
  <2> QED BY <2>3, <2>4, <2>5 DEF Control
<1>4. CASE EvictMetaFails(t)
  <2>1. PcStep(t, "idle")
    BY <1>4 DEF EvictMetaFails, PcStep, TypeInv, TypeOK, Idle
  <2>2. lock' = lock /\ flushing' = flushing /\ th[t].pc = "evict"
    BY <1>4 DEF EvictMetaFails, At
  <2>3. LockHeld'
    BY <2>1, <2>2, LockKept DEF Control, LockPCs
  <2>4. FlushExclusive'
    BY <2>1, <2>2, FlightKept DEF Control, FlightPCs
  <2>5. NoNewUnlink
    BY <2>1 DEF PcStep, NoNewUnlink
  <2> QED BY <2>3, <2>4, <2>5 DEF Control
<1>5. CASE EvictCommit(t)
  <2>1. PcStep(t, "evtruncate")
    BY <1>5, GotoPc DEF EvictCommit
  <2>2. lock' = lock /\ flushing' = flushing /\ th[t].pc = "evcommit"
    BY <1>5 DEF EvictCommit, At
  <2>3. LockHeld'
    BY <2>1, <2>2, LockKept DEF Control, LockPCs
  <2>4. FlushExclusive'
    BY <2>1, <2>2, FlightKept DEF Control, FlightPCs
  <2>5. NoNewUnlink
    BY <2>1 DEF PcStep, NoNewUnlink
  <2> QED BY <2>3, <2>4, <2>5 DEF Control
<1>6. CASE EvictCommitFails(t)
  <2>1. PcStep(t, "idle")
    BY <1>6 DEF EvictCommitFails, PcStep, TypeInv, TypeOK, Idle
  <2>2. lock' = Free /\ flushing' = flushing /\ th[t].pc = "evcommit"
    BY <1>6 DEF EvictCommitFails, At
  <2>3. LockHeld'
    BY <2>1, <2>2, LockDropped DEF Control, LockPCs
  <2>4. FlushExclusive'
    BY <2>1, <2>2, FlightKept DEF Control, FlightPCs
  <2>5. NoNewUnlink
    BY <2>1 DEF PcStep, NoNewUnlink
  <2> QED BY <2>3, <2>4, <2>5 DEF Control
<1>7. CASE EvictTruncates(t)
  <2>1. PcStep(t, "evcool")
    BY <1>7, GotoPc DEF EvictTruncates
  <2>2. lock' = lock /\ flushing' = flushing /\ th[t].pc = "evtruncate"
    BY <1>7 DEF EvictTruncates, At
  <2>3. LockHeld'
    BY <2>1, <2>2, LockKept DEF Control, LockPCs
  <2>4. FlushExclusive'
    BY <2>1, <2>2, FlightKept DEF Control, FlightPCs
  <2>5. NoNewUnlink
    BY <2>1 DEF PcStep, NoNewUnlink
  <2> QED BY <2>3, <2>4, <2>5 DEF Control
<1>8. CASE EvictCools(t)
  <2>1. PcStep(t, "idle")
    BY <1>8 DEF EvictCools, PcStep, TypeInv, TypeOK, Idle
  <2>2. lock' = Free /\ flushing' = flushing /\ th[t].pc = "evcool"
    BY <1>8 DEF EvictCools, At
  <2>3. LockHeld'
    BY <2>1, <2>2, LockDropped DEF Control, LockPCs
  <2>4. FlushExclusive'
    BY <2>1, <2>2, FlightKept DEF Control, FlightPCs
  <2>5. NoNewUnlink
    BY <2>1 DEF PcStep, NoNewUnlink
  <2> QED BY <2>3, <2>4, <2>5 DEF Control
<1>9. CASE Unlink(t)
  <2>1. PcStep(t, "idle")
    BY <1>9 DEF Unlink, PcStep, TypeInv, TypeOK, Idle
  <2>2. lock' = lock /\ flushing' = flushing /\ th[t].pc = "unlink"
    BY <1>9 DEF Unlink, At
  <2>3. LockHeld'
    BY <2>1, <2>2, LockKept DEF Control, LockPCs
  <2>4. FlushExclusive'
    BY <2>1, <2>2, FlightKept DEF Control, FlightPCs
  <2>5. NoNewUnlink
    BY <2>1 DEF PcStep, NoNewUnlink
  <2> QED BY <2>3, <2>4, <2>5 DEF Control
<1> QED
  BY <1>1, <1>2, <1>3, <1>4, <1>5, <1>6, <1>7, <1>8, <1>9 DEF EvictStep

LEMMA SameControl ==
  ASSUME Control, UNCHANGED <<flushing, lock, th>>
  PROVE  Control' /\ NoNewUnlink
BY DEF Control, LockHeld, FlushExclusive, InFlight, NoNewUnlink

LEMMA CallControl ==
  ASSUME TypeInv, Control, NEW t \in Threads, Call(t)
  PROVE  Control' /\ (NoNewUnlink \/ Delete(t))
<1>1. CASE Read(t)
  BY <1>1, SameControl DEF Read, vars
<1>2. CASE ReadDeleted(t)
  BY <1>2, SameControl DEF ReadDeleted, vars
<1>3. CASE LoadFails(t)
  BY <1>3, SameControl DEF LoadFails, vars
<1>4. CASE RefuseWrite(t)
  BY <1>4, SameControl DEF RefuseWrite, vars
<1>5. CASE BeginWrite(t)
  <2>1. PICK p \in {"append", "operate"} : PcStep(t, p)
    BY <1>5 DEF BeginWrite, PcStep, TypeInv, TypeOK, Idle
  <2>2. lock = Free /\ lock' = t /\ flushing' = flushing /\ th[t].pc = "idle"
    BY <1>5 DEF BeginWrite, At
  <2>3. LockHeld'
    BY <2>1, <2>2, LockTaken DEF Control, LockPCs
  <2>4. FlushExclusive'
    BY <2>1, <2>2, FlightKept DEF Control, FlightPCs
  <2>5. NoNewUnlink
    BY <2>1 DEF PcStep, NoNewUnlink
  <2> QED BY <2>3, <2>4, <2>5 DEF Control
<1>6. CASE Tick(t)
  <2>1. PcStep(t, "claim")
    BY <1>6, GotoPc DEF Tick
  <2>2. lock' = lock /\ flushing' = flushing /\ th[t].pc = "idle"
    BY <1>6 DEF Tick, At
  <2>3. LockHeld'
    BY <2>1, <2>2, LockKept DEF Control, LockPCs
  <2>4. FlushExclusive'
    BY <2>1, <2>2, FlightKept DEF Control, FlightPCs
  <2>5. NoNewUnlink
    BY <2>1 DEF PcStep, NoNewUnlink
  <2> QED BY <2>3, <2>4, <2>5 DEF Control
<1>7. CASE EvictStarts(t)
  <2>1. PcStep(t, "flush")
    BY <1>7 DEF EvictStarts, PcStep, TypeInv, TypeOK, Thread
  <2>2. lock' = lock /\ flushing' = flushing /\ th[t].pc = "idle"
    BY <1>7 DEF EvictStarts, At
  <2>3. LockHeld'
    BY <2>1, <2>2, LockKept DEF Control, LockPCs
  <2>4. FlushExclusive'
    BY <2>1, <2>2, FlightKept DEF Control, FlightPCs
  <2>5. NoNewUnlink
    BY <2>1 DEF PcStep, NoNewUnlink
  <2> QED BY <2>3, <2>4, <2>5 DEF Control
<1>8. CASE Compact(t)
  <2>1. PcStep(t, "flush")
    BY <1>8, GotoPc DEF Compact
  <2>2. lock' = lock /\ flushing' = flushing /\ th[t].pc = "idle"
    BY <1>8 DEF Compact, At
  <2>3. LockHeld'
    BY <2>1, <2>2, LockKept DEF Control, LockPCs
  <2>4. FlushExclusive'
    BY <2>1, <2>2, FlightKept DEF Control, FlightPCs
  <2>5. NoNewUnlink
    BY <2>1 DEF PcStep, NoNewUnlink
  <2> QED BY <2>3, <2>4, <2>5 DEF Control
<1>9. CASE Delete(t)
  <2>1. PcStep(t, "unlink")
    BY <1>9, GotoPc DEF Delete
  <2>2. lock' = lock /\ flushing' = flushing /\ th[t].pc = "idle"
    BY <1>9 DEF Delete, At
  <2>3. LockHeld'
    BY <2>1, <2>2, LockKept DEF Control, LockPCs
  <2>4. FlushExclusive'
    BY <2>1, <2>2, FlightKept DEF Control, FlightPCs
  <2> QED BY <2>3, <2>4, <1>9 DEF Control
<1> QED
  BY <1>1, <1>2, <1>3, <1>4, <1>5, <1>6, <1>7, <1>8, <1>9 DEF Call

LEMMA ControlInit == Init => Control
BY FreeIsNoThread DEF Init, Control, LockHeld, FlushExclusive, InFlight, Idle, LockPCs

LEMMA ControlStep == TypeInv /\ Control /\ [Next]_vars => Control'
<1> SUFFICES ASSUME TypeInv, Control, [Next]_vars PROVE Control'
  OBVIOUS
<1>1. CASE \E t \in Threads : Continue(t)
  BY <1>1, WriteStepControl, FlushStepControl, EvictStepControl DEF Continue
<1>2. CASE \E t \in Threads : Call(t)
  BY <1>2, CallControl
<1>3. CASE QuarantineLapses
  BY <1>3, SameControl DEF QuarantineLapses
<1>4. CASE Crash
  BY <1>4, FreeIsNoThread
     DEF Crash, Control, LockHeld, FlushExclusive, InFlight, Idle, LockPCs
<1>5. CASE UNCHANGED vars
  BY <1>5, SameControl DEF vars
<1> QED BY <1>1, <1>2, <1>3, <1>4, <1>5 DEF Next

\* flush_entry's claim: whatever writes, evictions, compactions, deletes, faults and
\* crashes interleave, at most one thread is between claiming a flush and publishing
\* it, and the `flushing' flag that evict_entry reads says exactly whether one is.
THEOREM FlushesExclude == Spec => []FlushExclusive
<1>1. Control => FlushExclusive
  BY DEF Control
<1>2. Init => TypeInv /\ Control
  BY TypeInit, ControlInit
<1>3. TypeInv /\ Control /\ [Next]_vars => TypeInv' /\ Control'
  BY TypeStep, ControlStep
<1> QED
  BY <1>1, <1>2, <1>3, PTL DEF Spec

-----------------------------------------------------------------------------
(* The tombstone.  Once the files are unlinked the slot is Deleted, a Deleted *)
(* slot is never locked, and every step that writes a file needs the lock or  *)
(* a slot that is not Deleted.                                                *)

Tombstoned ==
  /\ ~disk.present => entry.slot = "Deleted"
  /\ entry.slot = "Deleted" => lock = Free
  /\ \A t \in Threads : th[t].pc = "unlink" => entry.slot = "Deleted"

IInv == TypeInv /\ Control /\ Tombstoned

\* A step of a live context that leaves it live.
Living == entry.slot # "Deleted" /\ entry'.slot # "Deleted" /\ disk'.present = TRUE

\* A step that touches neither the slot nor the files.
Aside == entry'.slot = entry.slot /\ disk' = disk /\ lock' = lock

LEMMA LiveWhileLocked ==
  ASSUME Control, Tombstoned, TypeInv, NEW t \in Threads, th[t].pc \in LockPCs
  PROVE  entry.slot # "Deleted" /\ disk.present = TRUE
<1>1. lock = t /\ lock # Free
  BY FreeIsNoThread DEF Control, LockHeld
<1>2. disk.present \in BOOLEAN
  BY Parts DEF Disk
<1> QED BY <1>1, <1>2 DEF Tombstoned

LEMMA LiveWhileLoadable ==
  ASSUME TypeInv, Tombstoned, Loadable
  PROVE  /\ entry.slot # "Deleted" /\ disk.present = TRUE
         /\ LoadedEntry.slot = "Hot" /\ HealedDisk.present = TRUE
<1>1. disk.present \in BOOLEAN /\ entry \in Entry /\ disk \in Disk
  BY Parts DEF Disk
<1>2. entry.slot # "Deleted" /\ disk.present = TRUE
  BY <1>1 DEF Tombstoned, Loadable
<1>3. LoadedEntry.slot = "Hot"
  BY <1>1 DEF LoadedEntry, Entry
<1>4. HealedDisk.present = TRUE
  BY <1>1, <1>2 DEF HealedDisk, Heal, Disk
<1> QED BY <1>2, <1>3, <1>4

LEMMA TruncateWalKeeps ==
  ASSUME TypeInv, TruncateWal
  PROVE  entry'.slot = entry.slot /\ disk'.present = disk.present
<1>1. entry \in Entry /\ disk \in Disk
  BY Parts
<1> QED
  BY <1>1, ResetType DEF TruncateWal, Entry

LEMMA PublishPresent ==
  ASSUME NEW d \in Disk, NEW ops, NEW wm
  PROVE  Publish(d, ops, wm).present = TRUE
BY DEF Publish, Disk

LEMMA WriteStepKind ==
  ASSUME IInv, NEW t \in Threads, WriteStep(t)
  PROVE  Living
<1>0. TypeInv /\ Control /\ Tombstoned /\ entry \in Entry /\ disk \in Disk
  BY Parts DEF IInv
<1>1. CASE AppendOk(t)
  <2>1. entry.slot # "Deleted" /\ disk.present = TRUE
    BY <1>0, <1>1, LiveWhileLocked DEF AppendOk, At, LockPCs
  <2>2. disk'.present = TRUE
    BY <1>0, <1>1, <2>1, WriterType, AppendLogType DEF AppendOk, Tails
  <2> QED BY <1>0, <1>1, <2>1, <2>2 DEF AppendOk, Living, Entry
<1>2. CASE AppendFails(t)
  <2>1. entry.slot # "Deleted" /\ disk.present = TRUE
    BY <1>0, <1>2, LiveWhileLocked DEF AppendFails, At, LockPCs
  <2>2. disk'.present = TRUE
    BY <1>0, <1>2, <2>1, WriterType, PartialAppendsType DEF AppendFails
  <2> QED BY <1>0, <1>2, <2>1, <2>2 DEF AppendFails, Living, Entry
<1>3. CASE RetrimOk(t)
  <2>1. entry.slot # "Deleted" /\ disk.present = TRUE
    BY <1>0, <1>3, LiveWhileLocked DEF RetrimOk, At, LockPCs
  <2>2. disk'.present = TRUE
    BY <1>0, <1>3, <2>1, WriterType, TruncateToType DEF RetrimOk
  <2> QED BY <1>0, <1>3, <2>1, <2>2 DEF RetrimOk, Living, Entry
<1>4. CASE RetrimFails(t)
  <2>1. entry.slot # "Deleted" /\ disk.present = TRUE
    BY <1>0, <1>4, LiveWhileLocked DEF RetrimFails, At, LockPCs
  <2> QED BY <1>0, <1>4, <2>1 DEF RetrimFails, Living, Entry
<1>5. CASE Operate(t)
  <2>1. entry.slot # "Deleted" /\ disk.present = TRUE
    BY <1>0, <1>5, LiveWhileLocked DEF Operate, At, LockPCs
  <2> QED BY <1>0, <1>5, <2>1 DEF Operate, Living, Entry
<1>6. CASE OperatePanics(t)
  <2>1. entry.slot # "Deleted" /\ disk.present = TRUE
    BY <1>0, <1>6, LiveWhileLocked DEF OperatePanics, At, LockPCs
  <2> QED BY <1>0, <1>6, <2>1 DEF OperatePanics, Living, Entry
<1>7. CASE TrimOk(t)
  <2>1. entry.slot # "Deleted" /\ disk.present = TRUE
    BY <1>0, <1>7, LiveWhileLocked DEF TrimOk, At, LockPCs
  <2>2. disk'.present = TRUE
    BY <1>0, <1>7, <2>1, WriterType, TruncateToType DEF TrimOk
  <2> QED BY <1>0, <1>7, <2>1, <2>2 DEF TrimOk, Living, Entry
<1>8. CASE TrimFails(t)
  <2>1. entry.slot # "Deleted" /\ disk.present = TRUE
    BY <1>0, <1>8, LiveWhileLocked DEF TrimFails, At, LockPCs
  <2> QED BY <1>0, <1>8, <2>1 DEF TrimFails, Living, Entry
<1>9. CASE ReappendOk(t)
  <2>1. entry.slot # "Deleted" /\ disk.present = TRUE
    BY <1>0, <1>9, LiveWhileLocked DEF ReappendOk, At, LockPCs
  <2>2. disk'.present = TRUE
    BY <1>0, <1>9, <2>1, WriterType, AppendLogType DEF ReappendOk, Tails
  <2> QED BY <1>0, <1>9, <2>1, <2>2 DEF ReappendOk, Living, Entry
<1>10. CASE ReappendFails(t)
  <2>1. entry.slot # "Deleted" /\ disk.present = TRUE
    BY <1>0, <1>10, LiveWhileLocked DEF ReappendFails, At, LockPCs
  <2>2. disk'.present = TRUE
    BY <1>0, <1>10, <2>1, WriterType, PartialAppendsType DEF ReappendFails
  <2> QED BY <1>0, <1>10, <2>1, <2>2 DEF ReappendFails, Living, Entry
<1> QED
  BY <1>1, <1>2, <1>3, <1>4, <1>5, <1>6, <1>7, <1>8, <1>9, <1>10 DEF WriteStep

LEMMA FlushStepKind ==
  ASSUME IInv, NEW t \in Threads, FlushStep(t)
  PROVE  Living \/ Aside
<1>0. TypeInv /\ Control /\ Tombstoned /\ entry \in Entry /\ disk \in Disk
  BY Parts DEF IInv
<1>1. CASE FlushEntry(t)
  BY <1>0, <1>1 DEF FlushEntry, Aside
<1>2. CASE ClaimLost(t)
  BY <1>0, <1>2 DEF ClaimLost, Aside
<1>3. CASE Claim(t)
  BY <1>0, <1>3 DEF Claim, Aside
<1>4. CASE StageOk(t)
  BY <1>0, <1>4 DEF StageOk, Aside
<1>5. CASE StageFails(t)
  BY <1>0, <1>5 DEF StageFails, Aside
<1>6. CASE PublishBacksOff(t)
  BY <1>0, <1>6 DEF PublishBacksOff, Aside
<1>7. CASE PublishMeta(t)
  <2>1. entry.slot = "Hot" /\ disk.present = TRUE
    BY <1>0, <1>7 DEF PublishMeta, StillCurrent, Tombstoned, Disk
  <2>2. disk'.present = TRUE
    BY <1>0, <1>7, <2>1, PublishPresent DEF PublishMeta, Disk
  <2> QED BY <1>0, <1>7, <2>1, <2>2 DEF PublishMeta, Living
<1>8. CASE PublishMetaFails(t)
  <2>1. entry.slot = "Hot" /\ disk.present = TRUE
    BY <1>0, <1>8 DEF PublishMetaFails, StillCurrent, Tombstoned, Disk
  <2>2. disk'.present = TRUE
    BY <1>0, <1>8, <2>1, PublishPresent DEF PublishMetaFails, Disk
  <2> QED BY <1>0, <1>8, <2>1, <2>2 DEF PublishMetaFails, Living
<1>9. CASE CommitOk(t)
  <2>1. entry.slot # "Deleted" /\ disk.present = TRUE
    BY <1>0, <1>9, LiveWhileLocked DEF CommitOk, At, LockPCs
  <2>2. disk'.present = TRUE
    BY <1>0, <1>9, <2>1, PublishPresent DEF CommitOk
  <2> QED BY <1>0, <1>9, <2>1, <2>2 DEF CommitOk, Living, Entry
<1>10. CASE CommitFails(t)
  <2>1. entry.slot # "Deleted" /\ disk.present = TRUE
    BY <1>0, <1>10, LiveWhileLocked DEF CommitFails, At, LockPCs
  <2>2. disk'.present = TRUE
    BY <1>0, <1>10, <2>1, PublishPresent DEF CommitFails
  <2> QED BY <1>0, <1>10, <2>1, <2>2 DEF CommitFails, Living, Entry
<1>11. CASE FlushTruncates(t)
  <2>1. entry.slot # "Deleted" /\ disk.present = TRUE
    BY <1>0, <1>11, LiveWhileLocked DEF FlushTruncates, At, LockPCs
  <2> QED BY <1>0, <1>11, <2>1, TruncateWalKeeps DEF FlushTruncates, Living
<1> QED
  BY <1>1, <1>2, <1>3, <1>4, <1>5, <1>6, <1>7, <1>8, <1>9, <1>10, <1>11 DEF FlushStep

LEMMA EvictStepKind ==
  ASSUME IInv, NEW t \in Threads, EvictStep(t)
  PROVE  Living \/ Aside
<1>0. TypeInv /\ Control /\ Tombstoned /\ entry \in Entry /\ disk \in Disk
  BY Parts DEF IInv
<1>1. CASE EvictPinned(t)
  BY <1>0, <1>1 DEF EvictPinned, Aside
<1>2. CASE EvictClean(t)
  <2>1. CASE entry.slot = "Hot"
    BY <1>0, <1>2, <2>1 DEF EvictClean, ColdEntry, Living, Tombstoned, Entry, Disk
  <2>2. CASE entry.slot # "Hot"
    BY <1>2, <2>2 DEF EvictClean, Aside
  <2> QED BY <2>1, <2>2
<1>3. CASE EvictMeta(t)
  <2>1. entry.slot = "Hot" /\ disk.present = TRUE
    BY <1>0, <1>3 DEF EvictMeta, Tombstoned, Disk
  <2>2. disk'.present = TRUE
    BY <1>0, <1>3, <2>1, PublishPresent DEF EvictMeta, Disk
  <2> QED BY <1>0, <1>3, <2>1, <2>2 DEF EvictMeta, Living
<1>4. CASE EvictMetaFails(t)
  <2>1. entry.slot = "Hot" /\ disk.present = TRUE
    BY <1>0, <1>4 DEF EvictMetaFails, Tombstoned, Disk
  <2>2. disk'.present = TRUE
    BY <1>0, <1>4, <2>1, PublishPresent DEF EvictMetaFails, Disk
  <2> QED BY <1>0, <1>4, <2>1, <2>2 DEF EvictMetaFails, Living
<1>5. CASE EvictCommit(t)
  <2>1. entry.slot # "Deleted" /\ disk.present = TRUE
    BY <1>0, <1>5, LiveWhileLocked DEF EvictCommit, At, LockPCs
  <2>2. disk'.present = TRUE
    BY <1>0, <1>5, <2>1, PublishPresent DEF EvictCommit
  <2> QED BY <1>0, <1>5, <2>1, <2>2 DEF EvictCommit, Living, Entry
<1>6. CASE EvictCommitFails(t)
  <2>1. entry.slot # "Deleted" /\ disk.present = TRUE
    BY <1>0, <1>6, LiveWhileLocked DEF EvictCommitFails, At, LockPCs
  <2>2. disk'.present = TRUE
    BY <1>0, <1>6, <2>1, PublishPresent DEF EvictCommitFails
  <2> QED BY <1>0, <1>6, <2>1, <2>2 DEF EvictCommitFails, Living, Entry
<1>7. CASE EvictTruncates(t)
  <2>1. entry.slot # "Deleted" /\ disk.present = TRUE
    BY <1>0, <1>7, LiveWhileLocked DEF EvictTruncates, At, LockPCs
  <2> QED BY <1>0, <1>7, <2>1, TruncateWalKeeps DEF EvictTruncates, Living
<1>8. CASE EvictCools(t)
  <2>1. entry.slot # "Deleted" /\ disk.present = TRUE
    BY <1>0, <1>8, LiveWhileLocked DEF EvictCools, At, LockPCs
  <2> QED BY <1>0, <1>8, <2>1 DEF EvictCools, Living, Entry, ColdEntry
<1> QED
  BY <1>1, <1>2, <1>3, <1>4, <1>5, <1>6, <1>7, <1>8 DEF EvictStep

LEMMA CallKind ==
  ASSUME IInv, NEW t \in Threads, Call(t)
  PROVE  Living \/ Aside \/ Delete(t)
<1>0. TypeInv /\ Control /\ Tombstoned /\ entry \in Entry /\ disk \in Disk
  BY Parts DEF IInv
<1>1. CASE Read(t)
  BY <1>0, <1>1, LiveWhileLoadable DEF Read, Living
<1>2. CASE ReadDeleted(t)
  BY <1>0, <1>2 DEF ReadDeleted, Aside, vars
<1>3. CASE LoadFails(t)
  BY <1>0, <1>3 DEF LoadFails, Aside, Entry
<1>4. CASE RefuseWrite(t)
  BY <1>0, <1>4, LiveWhileLoadable DEF RefuseWrite, Living
<1>5. CASE BeginWrite(t)
  BY <1>0, <1>5, LiveWhileLoadable DEF BeginWrite, Living
<1>6. CASE Tick(t)
  BY <1>0, <1>6 DEF Tick, Aside
<1>7. CASE EvictStarts(t)
  BY <1>0, <1>7 DEF EvictStarts, Aside
<1>8. CASE Compact(t)
  <2>1. LoadedEntry \in Entry
    BY <1>0, <1>8, LoadedType DEF Compact
  <2>2. entry'.slot = LoadedEntry.slot
    BY <1>8, <2>1 DEF Compact, Entry
  <2> QED BY <1>0, <1>8, <2>2, LiveWhileLoadable DEF Compact, Living
<1>9. CASE Delete(t)
  BY <1>9
<1> QED
  BY <1>1, <1>2, <1>3, <1>4, <1>5, <1>6, <1>7, <1>8, <1>9 DEF Call

LEMMA KindTomb ==
  ASSUME Tombstoned, Living \/ Aside, NoNewUnlink
  PROVE  Tombstoned'
BY DEF Tombstoned, Living, Aside, NoNewUnlink

LEMMA TombInit == Init => Tombstoned
BY DEF Init, Tombstoned, Idle

LEMMA TombStep == IInv /\ [Next]_vars => Tombstoned'
<1> SUFFICES ASSUME IInv, [Next]_vars PROVE Tombstoned'
  OBVIOUS
<1>0. TypeInv /\ Control /\ Tombstoned /\ entry \in Entry /\ disk \in Disk /\ ThreadsOK
  BY Parts DEF IInv
<1>1. ASSUME NEW t \in Threads, WriteStep(t) \/ FlushStep(t) \/ EvictStep(t) PROVE Tombstoned'
  BY <1>0, <1>1, WriteStepKind, FlushStepKind, EvictStepKind,
     WriteStepControl, FlushStepControl, EvictStepControl, KindTomb
<1>2. ASSUME NEW t \in Threads, Unlink(t) PROVE Tombstoned'
  <2>1. entry.slot = "Deleted" /\ UNCHANGED <<entry, lock>>
    BY <1>0, <1>2 DEF Unlink, At, Tombstoned
  <2> QED BY <1>0, <2>1 DEF Tombstoned
<1>3. ASSUME NEW t \in Threads, Call(t), ~Delete(t) PROVE Tombstoned'
  BY <1>0, <1>3, CallKind, CallControl, KindTomb
<1>4. ASSUME NEW t \in Threads, Delete(t) PROVE Tombstoned'
  <2>1. entry'.slot = "Deleted" /\ lock' = Free
    BY <1>0, <1>4 DEF Delete, Entry
  <2> QED BY <2>1 DEF Tombstoned
<1>5. CASE QuarantineLapses
  <2>1. Aside
    BY <1>0, <1>5 DEF QuarantineLapses, Aside, Entry
  <2>2. NoNewUnlink
    BY <1>5 DEF QuarantineLapses, NoNewUnlink
  <2> QED BY <1>0, <2>1, <2>2, KindTomb
<1>6. CASE Crash
  <2>1. disk'.present = TRUE /\ entry'.slot = "Cold"
    BY <1>0, <1>6, CrashDisksType DEF Crash, Disk
  <2>2. \A t \in Threads : th'[t].pc = "idle"
    BY <1>6 DEF Crash, Idle
  <2> QED BY <2>1, <2>2 DEF Tombstoned
<1>7. CASE UNCHANGED vars
  BY <1>0, <1>7 DEF vars, Tombstoned
<1> QED
  BY <1>1, <1>2, <1>3, <1>4, <1>5, <1>6, <1>7 DEF Next, Continue

\* The inductive invariant of the three theorems.
LEMMA Inductive == Spec => []IInv
<1>1. Init => IInv
  BY TypeInit, ControlInit, TombInit DEF IInv
<1>2. IInv /\ [Next]_vars => IInv'
  BY TypeStep, ControlStep, TombStep DEF IInv
<1> QED
  BY <1>1, <1>2, PTL DEF Spec

\* delete's tombstone: once the files are unlinked no flush, eviction, compaction or
\* write that was under way brings any of them back.
THEOREM DeleteIsFinal == Spec => DeletedStaysGone
<1> DEFINE A == ~disk.present => ~disk'.present /\ disk'.log = <<>>
<1>1. IInv /\ [Next]_vars => [A]_disk
  <2> SUFFICES ASSUME IInv, [Next]_vars, disk' # disk, ~disk.present
               PROVE  ~disk'.present /\ disk'.log = <<>>
    OBVIOUS
  <2>0. TypeInv /\ Control /\ Tombstoned /\ disk \in Disk
    BY Parts DEF IInv
  <2>1. entry.slot = "Deleted"
    BY <2>0 DEF Tombstoned
  <2>2. ~Living /\ ~Aside
    BY <2>1 DEF Living, Aside
  <2>3. ASSUME NEW t \in Threads, Unlink(t) PROVE ~disk'.present /\ disk'.log = <<>>
    <3>1. TruncateTo(disk, 0) \in Disk /\ TruncateTo(disk, 0).log = <<>>
      BY <2>0, ResetType
    <3> QED BY <2>3, <3>1 DEF Unlink, Disk
  <2>4. ASSUME NEW t \in Threads, Delete(t) PROVE FALSE
    BY <2>1, <2>4 DEF Delete
  <2>5. ~Crash /\ ~QuarantineLapses
    BY DEF Crash, QuarantineLapses
  <2>6. disk' = disk => FALSE
    OBVIOUS
  <2>7. ~UNCHANGED vars
    BY DEF vars
  <2>8. \A t \in Threads : ~WriteStep(t) /\ ~FlushStep(t) /\ ~EvictStep(t) /\ ~Call(t)
    BY <2>2, <2>4, WriteStepKind, FlushStepKind, EvictStepKind, CallKind
  <2> QED BY <2>3, <2>5, <2>7, <2>8 DEF Next, Continue
<1>2. []IInv /\ [][Next]_vars => [][A]_disk
  BY <1>1, PTL
<1>3. DeletedStaysGone <=> [][A]_disk
  BY DEF DeletedStaysGone
<1> QED
  BY <1>2, <1>3, Inductive, PTL DEF Spec

-----------------------------------------------------------------------------
(***************************************************************************)
(* Acknowledged means durable: what the log, the image and the memory      *)
(* hold, for every set of threads and batches, any number of crashes and   *)
(* any number of the faults that the log's own rollbacks survive (Sound).  *)
(***************************************************************************)

\* The log is on.  A reset that reports an error left the file as it was; the applied
\* prefix of a batch can be logged again after its trim; and of the two rollbacks of a
\* failed append (append_batch's own, and logged_write's retry) at most one fails.  Each
\* of the failures left out breaks one of the theorems below: after any of them wal_bytes
\* or the log disagrees with what the next write takes the file to be.
Sound ==
  /\ WalEnabled /\ Faults \cap {"releak", "reappend", "resetsync"} = {}
  /\ ~({"leak", "trim"} \subseteq Faults)

-----------------------------------------------------------------------------
(* Logs, and snapshots beside them: the image, or what a flush has taken.  *)

Sorted(log) == \A i, j \in DOMAIN log : i < j => log[i].seq < log[j].seq
Below(log, n) == \A i \in DOMAIN log : log[i].seq < n
Older(log, b) == \A i \in DOMAIN log : log[i].id < b
Lacks(log, a) == \A i \in DOMAIN log : log[i].id # a

\* A replay on top of a snapshot with watermark wm would apply operation a.
Replays(log, a, wm) == \E i \in DOMAIN log : log[i].ok /\ log[i].id = a /\ log[i].seq > wm

\* Snapshot and replay together hold all of S ...
Covers(log, s, S) == \A a \in S : a \in s.ops \/ Replays(log, a, s.wm)

\* ... and the replay repeats nothing that the snapshot contains.
Apart(log, s) == \A i \in DOMAIN log : log[i].seq > s.wm => log[i].id \notin s.ops

\* new is old followed by the first k records of a batch.
Grown(new, old, first, base, batch, k) ==
  /\ Len(new) = Len(old) + k
  /\ \A i \in 1..Len(old) : new[i] = old[i]
  /\ \A i \in 1..k : new[Len(old) + i] = [seq |-> first + i - 1, id |-> base + i - 1, ok |-> batch[i]]

\* new is the beginning of old.
Begins(new, old) == Len(new) <= Len(old) /\ \A i \in 1..Len(new) : new[i] = old[i]

LEMMA RecoveredSays ==
  ASSUME NEW d \in Disk, Sorted(d.log)
  PROVE  \A a : a \in Recovered(d) <=> a \in d.image.ops \/ Replays(d.log, a, d.image.wm)
<1>1. d.log \in Seq(Record)
  BY DEF Disk
<1>2. DOMAIN d.log = 1..Len(d.log) /\ Len(d.log) \in Nat
      /\ \A i \in 1..Len(d.log) : d.log[i].seq \in Nat
  BY <1>1, LogType
<1>3. Winning(d.log) = DOMAIN d.log
  BY <1>2 DEF Winning, Sorted
<1> QED BY <1>3 DEF Recovered, Replayable, Replays

\* recs are the first k records of a batch.
Batched(recs, first, base, batch, k) ==
  /\ recs \in Seq(Record) /\ Len(recs) = k
  /\ \A i \in 1..k : recs[i] = [seq |-> first + i - 1, id |-> base + i - 1, ok |-> batch[i]]

LEMMA RecordsBatched ==
  ASSUME NEW first \in Nat, NEW base \in Nat, NEW batch \in Seq(BOOLEAN), NEW k \in 0..Len(batch)
  PROVE  /\ Batched(SubSeq(RecordsOf(first, base, batch), 1, k), first, base, batch, k)
         /\ Batched(RecordsOf(first, base, batch), first, base, batch, Len(batch))
         /\ Batched(RecordsOf(first, base, SubSeq(batch, 1, k)), first, base, batch, k)
<1> DEFINE all == RecordsOf(first, base, batch)
<1>1. Len(batch) \in Nat /\ \A i \in 1..Len(batch) : batch[i] \in BOOLEAN
  BY LenProperties, ElementOfSeq
<1>2. Batched(all, first, base, batch, Len(batch))
  <2>1. all \in Seq(Record)
    BY RecordsOfType
  <2>2. Len(all) = Len(batch)
    BY <1>1 DEF RecordsOf
  <2>3. \A i \in 1..Len(batch) :
          all[i] = [seq |-> first + i - 1, id |-> base + i - 1, ok |-> batch[i]]
    BY DEF RecordsOf
  <2> HIDE DEF all
  <2> QED BY <2>1, <2>2, <2>3 DEF Batched
<1>3. Batched(SubSeq(all, 1, k), first, base, batch, k)
  <2> HIDE DEF all
  <2>1. \A i \in 1..k : i \in 1..Len(batch) /\ all[i] \in Record
    BY <1>1, <1>2, ElementOfSeq DEF Batched
  <2>2. SubSeq(all, 1, k) \in Seq(Record) /\ Len(SubSeq(all, 1, k)) = k
        /\ \A i \in 1..k : SubSeq(all, 1, k)[i] = all[i]
    BY <1>1, <2>1, SubSeqProperties
  <2> QED BY <1>2, <2>1, <2>2 DEF Batched
<1>4. Batched(RecordsOf(first, base, SubSeq(batch, 1, k)), first, base, batch, k)
  <2> DEFINE b == SubSeq(batch, 1, k)
  <2>1. b \in Seq(BOOLEAN) /\ Len(b) = k /\ \A i \in 1..k : b[i] = batch[i]
    BY <1>1, SubSeqProperties
  <2> HIDE DEF b
  <2>2. RecordsOf(first, base, b) \in Seq(Record)
    BY <2>1, RecordsOfType
  <2>3. Batched(RecordsOf(first, base, b), first, base, batch, k)
    BY <1>1, <2>1, <2>2 DEF RecordsOf, Batched
  <2> QED BY <2>3 DEF b
<1> QED BY <1>2, <1>3, <1>4

LEMMA ConcatAt ==
  ASSUME NEW log \in Seq(Record), NEW first \in Nat, NEW base \in Nat, NEW batch, NEW k \in Nat,
         NEW recs, Batched(recs, first, base, batch, k)
  PROVE  log \o recs \in Seq(Record) /\ Grown(log \o recs, log, first, base, batch, k)
<1> DEFINE c == log \o recs
<1>1. Len(log) \in Nat /\ recs \in Seq(Record) /\ Len(recs) = k
  BY LenProperties DEF Batched
<1>2. c \in Seq(Record) /\ Len(c) = Len(log) + k
  BY <1>1, ConcatProperties
<1>3. \A i \in 1..Len(log) : c[i] = log[i]
  BY <1>1, <1>2, ConcatProperties
<1>4. \A i \in 1..k : c[Len(log) + i] = recs[i]
  BY <1>1, <1>2, ConcatProperties
<1> HIDE DEF c
<1>5. c \in Seq(Record) /\ Grown(c, log, first, base, batch, k)
  BY <1>2, <1>3, <1>4 DEF Grown, Batched
<1> QED BY <1>5 DEF c

\* What an append, whole or cut short, leaves of a log that ended cleanly.
LEMMA AppendGrows ==
  ASSUME NEW d \in Disk, d.tail = "clean", d.fused = 0, NEW tail \in Tails,
         NEW first \in Nat, NEW base \in Nat, NEW batch, NEW k \in Nat,
         NEW recs, Batched(recs, first, base, batch, k), NEW e, e = AppendLog(d, recs, tail)
  PROVE  /\ e \in Disk /\ e.image = d.image /\ e.fused = 0 /\ e.present = d.present /\ e.tail = tail
         /\ Grown(e.log, d.log, first, base, batch, k)
<1>1. d.log \in Seq(Record) /\ recs \in Seq(Record)
  BY DEF Disk, Batched
<1>2. e \in Disk /\ e.present = d.present
  BY <1>1, AppendLogType
<1>3. e.image = d.image /\ e.fused = 0 /\ e.tail = tail /\ e.log = d.log \o recs
  <2>1. CASE recs = <<>> /\ tail = "clean"
    BY <1>1, <2>1, ConcatEmptySeq DEF AppendLog, Disk
  <2>2. CASE ~(recs = <<>> /\ tail = "clean")
    BY <2>2 DEF AppendLog, Disk
  <2> QED BY <2>1, <2>2
<1>4. Grown(e.log, d.log, first, base, batch, k)
  <2>1. Grown(d.log \o recs, d.log, first, base, batch, k)
    BY <1>1, ConcatAt
  <2> QED BY <2>1, <1>3
<1> QED BY <1>2, <1>3, <1>4

\* What is known of a log carries over to the longer one ...
LEMMA GrownKeeps ==
  ASSUME NEW log \in Seq(Record), NEW new \in Seq(Record),
         NEW first \in Nat, NEW base \in Nat, NEW batch, NEW k \in Nat,
         Grown(new, log, first, base, batch, k), Sorted(log), Below(log, first)
  PROVE  /\ Sorted(new) /\ Below(new, first + k)
         /\ \A b \in Int : Older(log, b) /\ base + k <= b => Older(new, b)
         /\ \A a : Lacks(log, a) /\ a \notin Ids(base, k) => Lacks(new, a)
         /\ \A s, S : Covers(log, s, S) => Covers(new, s, S)
         /\ \A s : Apart(log, s) /\ (\A a \in s.ops : a < base) => Apart(new, s)
<1>1. /\ DOMAIN log = 1..Len(log) /\ DOMAIN new = 1..Len(new) /\ Len(log) \in Nat /\ Len(new) \in Nat
      /\ \A i \in 1..Len(log) : log[i].seq \in Nat /\ log[i].id \in Nat
  BY LogType
<1>2. /\ Len(new) = Len(log) + k
      /\ \A i \in 1..Len(log) : new[i] = log[i]
  BY DEF Grown
<1>3. ASSUME NEW i \in 1..Len(new), i > Len(log)
      PROVE  /\ i - Len(log) \in 1..k
             /\ new[i].seq = first + (i - Len(log)) - 1 /\ new[i].id = base + (i - Len(log)) - 1
  <2>1. i - Len(log) \in 1..k /\ Len(log) + (i - Len(log)) = i
    BY <1>1, <1>2, <1>3
  <2>2. new[Len(log) + (i - Len(log))] =
          [seq |-> first + (i - Len(log)) - 1, id |-> base + (i - Len(log)) - 1, ok |-> batch[i - Len(log)]]
    BY <2>1 DEF Grown
  <2> QED BY <2>1, <2>2
<1>4. ASSUME NEW i \in 1..Len(new), i <= Len(log)
      PROVE  i \in 1..Len(log) /\ new[i] = log[i]
  BY <1>1, <1>2, <1>4
<1>5. Below(new, first + k)
  BY <1>1, <1>3, <1>4 DEF Below
<1>6. Sorted(new)
  <2> SUFFICES ASSUME NEW i \in 1..Len(new), NEW j \in 1..Len(new), i < j
               PROVE  new[i].seq < new[j].seq
    BY <1>1 DEF Sorted
  <2>1. CASE j <= Len(log)
    <3>1. i \in 1..Len(log) /\ j \in 1..Len(log) /\ new[i] = log[i] /\ new[j] = log[j]
      BY <1>1, <1>4, <2>1
    <3> QED BY <1>1, <3>1 DEF Sorted
  <2>2. CASE i <= Len(log) /\ j > Len(log)
    <3>1. i \in 1..Len(log) /\ new[i] = log[i] /\ log[i].seq \in Nat /\ log[i].seq < first
      BY <1>1, <1>4, <2>2 DEF Below
    <3>2. new[j].seq = first + (j - Len(log)) - 1 /\ j - Len(log) \in 1..k
      BY <1>3, <2>2
    <3> QED BY <3>1, <3>2
  <2>3. CASE i > Len(log)
    <3>1. j > Len(log)
      BY <1>1, <2>3
    <3>2. /\ new[i].seq = first + (i - Len(log)) - 1 /\ new[j].seq = first + (j - Len(log)) - 1
      BY <1>3, <2>3, <3>1
    <3> QED BY <1>1, <3>2
  <2> QED BY <1>1, <2>1, <2>2, <2>3
<1>7. \A b \in Int : Older(log, b) /\ base + k <= b => Older(new, b)
  <2> SUFFICES ASSUME NEW b \in Int, Older(log, b), base + k <= b, NEW i \in 1..Len(new)
               PROVE  new[i].id < b
    BY <1>1 DEF Older
  <2>1. CASE i <= Len(log)
    <3>1. i \in 1..Len(log) /\ new[i] = log[i]
      BY <1>4, <2>1
    <3> QED BY <1>1, <3>1 DEF Older
  <2>2. CASE i > Len(log)
    <3>1. new[i].id = base + (i - Len(log)) - 1 /\ i - Len(log) \in 1..k
      BY <1>3, <2>2
    <3> QED BY <1>1, <3>1
  <2> QED BY <1>1, <2>1, <2>2
<1>8. \A a : Lacks(log, a) /\ a \notin Ids(base, k) => Lacks(new, a)
  <2> SUFFICES ASSUME NEW a, Lacks(log, a), a \notin Ids(base, k), NEW i \in 1..Len(new)
               PROVE  new[i].id # a
    BY <1>1 DEF Lacks
  <2>1. CASE i <= Len(log)
    <3>1. i \in 1..Len(log) /\ new[i] = log[i]
      BY <1>4, <2>1
    <3> QED BY <1>1, <3>1 DEF Lacks
  <2>2. CASE i > Len(log)
    <3>1. new[i].id = base + (i - Len(log)) - 1 /\ i - Len(log) \in 1..k
      BY <1>3, <2>2
    <3>2. new[i].id \in Ids(base, k)
      BY <1>1, <3>1 DEF Ids
    <3> QED BY <3>2
  <2> QED BY <1>1, <2>1, <2>2
<1>9. \A s, S : Covers(log, s, S) => Covers(new, s, S)
  <2>1. \A i \in DOMAIN log : i \in DOMAIN new /\ new[i] = log[i]
    BY <1>1, <1>2
  <2> QED BY <2>1 DEF Covers, Replays
<1>10. \A s : Apart(log, s) /\ (\A a \in s.ops : a < base) => Apart(new, s)
  <2> SUFFICES ASSUME NEW s, Apart(log, s), \A a \in s.ops : a < base,
                      NEW i \in 1..Len(new), new[i].seq > s.wm, new[i].id \in s.ops
               PROVE  FALSE
    BY <1>1 DEF Apart
  <2>1. CASE i <= Len(log)
    <3>1. i \in 1..Len(log) /\ new[i] = log[i]
      BY <1>4, <2>1
    <3> QED BY <1>1, <3>1 DEF Apart
  <2>2. CASE i > Len(log)
    <3>1. new[i].id = base + (i - Len(log)) - 1 /\ i - Len(log) \in 1..k
      BY <1>3, <2>2
    <3>2. new[i].id < base
      OBVIOUS
    <3> QED BY <3>1, <3>2
  <2> QED BY <1>1, <2>1, <2>2
<1> QED BY <1>5, <1>6, <1>7, <1>8, <1>9, <1>10

\* ... which a replay from below then applies.
LEMMA GrownReplays ==
  ASSUME NEW log \in Seq(Record), NEW new \in Seq(Record),
         NEW first \in Nat, NEW base \in Nat, NEW batch, NEW k \in Nat,
         Grown(new, log, first, base, batch, k),
         NEW n \in 0..k, \A i \in 1..n : batch[i] = TRUE, NEW wm \in Nat, wm < first
  PROVE  \A a \in Ids(base, n) : Replays(new, a, wm)
<1>1. /\ DOMAIN new = 1..Len(new) /\ Len(log) \in Nat /\ Len(new) = Len(log) + k
  BY LogType DEF Grown
<1>2. ASSUME NEW a \in Ids(base, n) PROVE Replays(new, a, wm)
  <2>1. a - base + 1 \in 1..n /\ a - base + 1 \in 1..k /\ Len(log) + (a - base + 1) \in DOMAIN new
    BY <1>1 DEF Ids
  <2>2. new[Len(log) + (a - base + 1)] =
          [seq |-> first + (a - base + 1) - 1, id |-> base + (a - base + 1) - 1, ok |-> batch[a - base + 1]]
    BY <2>1 DEF Grown
  <2>3. first + (a - base + 1) - 1 > wm /\ base + (a - base + 1) - 1 = a /\ batch[a - base + 1] = TRUE
    <3>1. a \in Int
      BY DEF Ids
    <3> QED BY <2>1, <3>1
  <2> QED BY <2>1, <2>2, <2>3 DEF Replays
<1> QED BY <1>2

\* A beginning of a log.
LEMMA BeginsKeeps ==
  ASSUME NEW log \in Seq(Record), NEW new \in Seq(Record), Begins(new, log)
  PROVE  /\ Sorted(log) => Sorted(new)
         /\ \A n : Below(log, n) => Below(new, n)
         /\ \A b : Older(log, b) => Older(new, b)
         /\ \A a : Lacks(log, a) => Lacks(new, a)
         /\ \A s : Apart(log, s) => Apart(new, s)
<1>1. DOMAIN log = 1..Len(log) /\ DOMAIN new = 1..Len(new) /\ Len(log) \in Nat /\ Len(new) \in Nat
  BY LogType
<1>2. \A i \in DOMAIN new : i \in DOMAIN log /\ new[i] = log[i]
  BY <1>1 DEF Begins
<1> QED BY <1>2 DEF Sorted, Below, Older, Lacks, Apart

\* The trim takes back what the batch appended and loses nothing else.
LEMMA TrimKeeps ==
  ASSUME NEW old \in Seq(Record), NEW log \in Seq(Record),
         NEW first \in Nat, NEW base \in Nat, NEW batch, NEW k \in Nat,
         Grown(log, old, first, base, batch, k),
         NEW s, NEW S, Covers(log, s, S), \A a \in S : a \in Int /\ a < base
  PROVE  Covers(old, s, S)
<1>1. DOMAIN log = 1..Len(log) /\ DOMAIN old = 1..Len(old) /\ Len(log) \in Nat /\ Len(old) \in Nat
  BY LogType
<1>2. Len(log) = Len(old) + k
  BY DEF Grown
<1>3. ASSUME NEW a \in S, Replays(log, a, s.wm) PROVE Replays(old, a, s.wm)
  <2>1. PICK i \in DOMAIN log : log[i].ok /\ log[i].id = a /\ log[i].seq > s.wm
    BY <1>3 DEF Replays
  <2>2. i <= Len(old)
    <3>1. SUFFICES ASSUME i > Len(old) PROVE FALSE
      BY <1>1
    <3>2. i - Len(old) \in 1..k /\ Len(old) + (i - Len(old)) = i
      BY <1>1, <1>2, <3>1
    <3>3. log[Len(old) + (i - Len(old))] =
            [seq |-> first + (i - Len(old)) - 1, id |-> base + (i - Len(old)) - 1, ok |-> batch[i - Len(old)]]
      BY <3>2 DEF Grown
    <3>4. log[i].id = base + (i - Len(old)) - 1
      BY <3>2, <3>3
    <3> QED BY <2>1, <3>2, <3>4
  <2>3. i \in DOMAIN old /\ log[i] = old[i]
    BY <1>1, <2>2 DEF Grown
  <2> QED BY <2>1, <2>3 DEF Replays
<1> QED BY <1>3 DEF Covers

\* A snapshot at or above the whole log needs no replay.
LEMMA CoversAll ==
  ASSUME NEW log \in Seq(Record), NEW s, s.wm \in Nat, NEW S, Covers(log, s, S),
         Below(log, s.wm + 1)
  PROVE  S \subseteq s.ops
<1>1. DOMAIN log = 1..Len(log) /\ \A i \in 1..Len(log) : log[i].seq \in Nat
  BY LogType
<1> QED BY <1>1 DEF Covers, Replays, Below

LEMMA CoversMore ==
  ASSUME NEW log, NEW s, NEW S, NEW T, Covers(log, s, S), T \subseteq S
  PROVE  Covers(log, s, T)
BY DEF Covers

LEMMA EmptyLog ==
  /\ Sorted(<<>>) /\ \A s : Apart(<<>>, s) /\ \A n : Below(<<>>, n) /\ \A a : Lacks(<<>>, a)
  /\ \A b : Older(<<>>, b) /\ Len(<<>>) = 0 /\ \A s, S : S \subseteq s.ops => Covers(<<>>, s, S)
BY DEF Sorted, Apart, Below, Lacks, Older, Covers

\* apply_in_order: what landed was accepted, operation by operation.
LEMMA LandedSays ==
  ASSUME NEW batch \in Seq(BOOLEAN)
  PROVE  \A i \in 1..Landed(batch) : batch[i] = TRUE
<1> DEFINE L == { i \in DOMAIN batch : \A j \in 1..i : batch[j] }
           R == { n \in Nat : n <= Len(batch) /\ ~(n + 1 \in L) }
<1>1. Len(batch) \in Nat /\ DOMAIN batch = 1..Len(batch) /\ \A i \in 1..Len(batch) : batch[i] \in BOOLEAN
  BY LenProperties, ElementOfSeq
<1>2. Len(batch) \in R
  BY <1>1
<1>3. PICK n \in R : \A m \in R : n <= m
  <2>1. R \in SUBSET Nat /\ R # {}
    BY <1>2
  <2> HIDE DEF R
  <2> QED BY <2>1, NatMin
<1>4. n \in Nat /\ n <= Len(batch) /\ n + 1 \notin L
  BY <1>3
<1>5. \A i \in 1..n : i \in L
  <2> TAKE i \in 1..n
  <2>1. i - 1 \in Nat /\ i - 1 <= Len(batch) /\ i - 1 < n /\ (i - 1) + 1 = i
    BY <1>1, <1>4
  <2>2. i - 1 \notin R
    <3> HIDE DEF R
    <3> QED BY <2>1, <1>3, <1>4
  <2> QED BY <2>1, <2>2
<1>6. \A i \in L : i \in 1..n
  <2> TAKE i \in L
  <2>1. i \in 1..Len(batch) /\ \A j \in 1..i : batch[j]
    BY <1>1
  <2>2. SUFFICES ASSUME i > n PROVE FALSE
    BY <2>1, <1>4
  <2>3. n + 1 \in 1..Len(batch) /\ \A j \in 1..(n + 1) : j \in 1..i
    BY <1>1, <1>4, <2>1, <2>2
  <2> QED BY <1>1, <1>4, <2>1, <2>3
<1>7. L = 1..n
  <2> HIDE DEF L
  <2> QED BY <1>5, <1>6
<1>8. Landed(batch) = n
  <2>1. Landed(batch) = Cardinality(1..n)
    BY <1>7 DEF Landed
  <2>2. Cardinality(1..n) = n
    BY <1>4, FS_Interval
  <2> QED BY <2>1, <2>2
<1> QED
  <2> TAKE i \in 1..Landed(batch)
  <2>1. i \in L /\ i \in 1..i
    BY <1>4, <1>5, <1>8
  <2>2. batch[i] /\ i \in 1..Len(batch)
    BY <1>1, <2>1
  <2> QED BY <1>1, <2>2

\* truncate_to, within the file.
LEMMA TruncateBegins ==
  ASSUME NEW d \in Disk, d.fused = 0, NEW n \in Nat, n <= Len(d.log)
  PROVE  LET e == TruncateTo(d, n)
         IN /\ e \in Disk /\ e.image = d.image /\ e.fused = 0 /\ e.present = d.present
            /\ e.tail = "clean" /\ e.log = SubSeq(d.log, 1, n)
<1>1. Truncatable(d, n)
  BY DEF Truncatable
<1> QED BY <1>1, TruncateToType DEF TruncateTo, Disk

LEMMA SubSeqBegins ==
  ASSUME NEW log \in Seq(Record), NEW n \in Nat, n <= Len(log)
  PROVE  /\ SubSeq(log, 1, n) \in Seq(Record) /\ Len(SubSeq(log, 1, n)) = n
         /\ Begins(SubSeq(log, 1, n), log)
         /\ n = Len(log) => SubSeq(log, 1, n) = log
         /\ n = 0 => SubSeq(log, 1, n) = <<>>
<1>1. Len(log) \in Nat /\ \A i \in 1..n : log[i] \in Record
  BY LenProperties, ElementOfSeq
<1>2. /\ SubSeq(log, 1, n) \in Seq(Record) /\ Len(SubSeq(log, 1, n)) = n
      /\ \A i \in 1..n : SubSeq(log, 1, n)[i] = log[i]
  BY <1>1, SubSeqProperties
<1>3. n = Len(log) => SubSeq(log, 1, n) = log
  BY <1>2, SeqEqual
<1>4. n = 0 => SubSeq(log, 1, n) = <<>>
  BY SubSeqEmpty
<1> QED BY <1>2, <1>3, <1>4 DEF Begins

LEMMA GrownFrom ==
  ASSUME NEW log \in Seq(Record), NEW new \in Seq(Record),
         NEW first, NEW base, NEW batch, NEW k \in Nat, Grown(new, log, first, base, batch, k)
  PROVE  Len(log) <= Len(new) /\ SubSeq(new, 1, Len(log)) = log
<1>1. Len(log) \in Nat /\ Len(new) \in Nat /\ Len(new) = Len(log) + k
      /\ \A i \in 1..Len(log) : new[i] = log[i]
  BY LenProperties DEF Grown
<1>2. Len(log) <= Len(new)
  BY <1>1
<1>3. /\ SubSeq(new, 1, Len(log)) \in Seq(Record) /\ Len(SubSeq(new, 1, Len(log))) = Len(log)
      /\ \A i \in 1..Len(log) : SubSeq(new, 1, Len(log))[i] = new[i]
  BY <1>1, <1>2, SubSeqBegins DEF Begins
<1> QED BY <1>1, <1>2, <1>3, SeqEqual

-----------------------------------------------------------------------------
(* The invariant *)

Writing(t) == th[t].pc \in WritePCs

\* What clients were told succeeded, or will be once the recovery flush has returned;
\* and what they were or will be told anything about.
Promised ==
  { a \in Nat : \/ a \in acked
                \/ \E t \in Threads : th[t].cont = "write" /\ a \in Ids(th[t].base, th[t].landed) }
Told ==
  { a \in Nat : \/ a \in acked \/ a \in refused
                \/ \E t \in Threads : th[t].cont = "write" /\ a \in Ids(th[t].base, Len(th[t].batch)) }

\* The log decodes, in the order of its numbers, and repeats nothing of the image.
LogOK == disk.fused = 0 /\ Sorted(disk.log) /\ Apart(disk.log, disk.image)

\* An operation drawn before the batch being written, if any.
Earlier(a) == a < nextId /\ \A t \in Threads : Writing(t) => a < th[t].base
Drawn ==
  /\ \A a \in disk.image.ops : Earlier(a)
  /\ \A a \in Told : Earlier(a)
  /\ \A t \in Threads : \A a \in th[t].snap.ops : Earlier(a)
  /\ \A a \in entry.graph : a < nextId
  /\ Older(disk.log, nextId)

\* Acknowledged means replayable.
Kept == disk.present => Covers(disk.log, disk.image, Promised)

\* A hot entry has it all in memory, and numbers its next record above everything.
Warm ==
  entry.slot = "Hot" =>
    /\ disk.tail = "clean" \/ ("leak" \in Faults /\ \E t \in Threads : th[t].pc = "retrim")
    /\ Promised \subseteq entry.graph /\ disk.image.wm < entry.walSeq
    /\ (\A t \in Threads : ~Writing(t)) =>
          Below(disk.log, entry.walSeq) /\ entry.walBytes = Len(disk.log)

\* The batch being written: the log before it, and the log with it.
Begun(w) == SubSeq(disk.log, 1, w.len)
WriterIs(w) ==
  /\ entry.slot = "Hot" /\ nextId = w.base + Len(w.batch) /\ disk.image.wm < w.first
  /\ w.cont = "idle" /\ w.len <= Len(disk.log) /\ Len(w.batch) > 0
  /\ Below(Begun(w), w.first) /\ Older(Begun(w), w.base)
  /\ w.pc \in {"append", "reappend"} \/ (w.pc = "retrim" /\ "leak" \notin Faults) => Len(disk.log) = w.len
  /\ w.pc \in {"operate", "trim"} => Grown(disk.log, Begun(w), w.first, w.base, w.batch, Len(w.batch))
  /\ w.pc = "retrim" => \E k \in 0..Len(w.batch) : Grown(disk.log, Begun(w), w.first, w.base, w.batch, k)
  /\ IF w.pc \in {"append", "retrim"}
     THEN entry.walSeq = w.first /\ entry.walBytes = w.len
     ELSE entry.walSeq = w.first + Len(w.batch) /\ entry.walBytes = w.len + Len(w.batch)
  /\ w.pc \in {"append", "retrim", "operate"} => \A a \in entry.graph : a < w.base
  /\ w.pc \in {"trim", "reappend"} =>
       /\ w.landed = Landed(w.batch) /\ Ids(w.base, w.landed) \subseteq entry.graph
       /\ \A a \in entry.graph : a < w.base + w.landed
Writers == \A t \in Threads : Writing(t) => WriterIs(th[t])

\* The snapshot of a flush in flight, as long as it may still be published: no eviction
\* or compaction has replaced the graph it was taken from, and none that holds the lock
\* is past its own publication.
Publishable(s) ==
  entry.slot # "Deleted" /\ s.gen = entry.gen /\ \A e \in Threads : th[e].pc # "evcool"
FlightIs(w) ==
  LET s == w.snap IN
  /\ s.gen <= entry.gen
  /\ Publishable(s) =>
       /\ Covers(disk.log, s, Promised) /\ Apart(disk.log, s)
       /\ entry.slot = "Hot" =>
            s.wm < entry.walSeq /\ \A u \in Threads : Writing(u) => s.wm < th[u].first
       /\ entry.slot = "Cold" => ~Below(disk.log, s.wm + 1)
  /\ w.pc \in {"commit", "truncate"} => entry.slot = "Hot" /\ s.gen = entry.gen
  /\ w.pc = "truncate" =>
       disk.image.ops = s.ops /\ disk.image.wm = s.wm /\ entry.walSeq = s.wm + 1
Flights == \A t \in Threads : InFlight(t) => FlightIs(th[t])

\* An eviction that saves under the lock.
EvictIs(w) ==
  /\ w.pc \in {"evcommit", "evtruncate", "evcool"} => entry.slot = "Hot"
  /\ w.pc = "evtruncate" => disk.image.ops = entry.graph /\ disk.image.wm = entry.walSeq - 1
Evictions == \A t \in Threads : EvictIs(th[t])

\* While trims work, what a client was told failed is nowhere.
Absent(a) ==
  /\ a \notin entry.graph /\ a \notin disk.image.ops /\ Lacks(disk.log, a)
  /\ \A t \in Threads : a \notin th[t].snap.ops
Unlogged ==
  "trim" \notin Faults =>
    (\A t \in Threads : th[t].cont # "write") /\ \A a \in refused : Absent(a)

DInv == LogOK /\ Drawn /\ Kept /\ Warm /\ Writers /\ Flights /\ Evictions /\ Unlogged

-----------------------------------------------------------------------------
(* Steps that leave log, image and memory alone *)

Others(t) == \A u \in Threads : u # t => th'[u] = th[u]

SameEntry ==
  /\ entry'.slot = entry.slot /\ entry'.graph = entry.graph /\ entry'.walSeq = entry.walSeq
  /\ entry'.walBytes = entry.walBytes /\ entry'.gen = entry.gen
SameDisk ==
  /\ disk'.image = disk.image /\ disk'.log = disk.log /\ disk'.tail = disk.tail
  /\ disk'.fused = disk.fused /\ disk'.present = disk.present

LEMMA SameStep ==
  ASSUME IInv, DInv, NEW t \in Threads, SameEntry, SameDisk, nextId' = nextId, Others(t),
         th[t].pc # "evcool", th'[t].pc \notin {"evtruncate", "evcool"},
         th[t].pc = "retrim" => disk.tail = "clean",
         th'[t].pc = "evcommit" => entry.slot = "Hot",
         Promised' \subseteq Promised,
         \A a \in Told' : a \in Told \/ (a < nextId /\ \A u \in Threads : th'[u].pc \notin WritePCs),
         Writing(t) /\ th'[t].pc \notin WritePCs =>
           Below(disk.log, entry.walSeq) /\ entry.walBytes = Len(disk.log),
         th'[t].pc \in WritePCs =>
           Writing(t) /\ th'[t].base = th[t].base /\ th'[t].first = th[t].first /\ WriterIs(th[t])',
         \A a \in th'[t].snap.ops : Earlier(a)' /\ ("trim" \notin Faults => a \notin refused'),
         InFlight(t)' => FlightIs(th[t])',
         "trim" \notin Faults =>
           th'[t].cont # "write" /\ \A a \in refused' : a \in refused \/ Absent(a)
  PROVE  DInv'
<1> USE DEF SameEntry, SameDisk
<1>w. \A u \in Threads : Writing(u)' => Writing(u) /\ th'[u].base = th[u].base /\ th'[u].first = th[u].first
  BY DEF Others, Writing
<1>e. \A a : Earlier(a) => Earlier(a)'
  BY <1>w DEF Earlier
<1>1. LogOK'
  BY DEF DInv, LogOK
<1>2. Drawn'
  <2>1. \A a \in disk'.image.ops : Earlier(a)'
    BY <1>e DEF DInv, Drawn
  <2>2. \A a \in Told' : Earlier(a)'
    BY <1>e DEF DInv, Drawn, Earlier, Writing
  <2>3. \A u \in Threads : \A a \in th'[u].snap.ops : Earlier(a)'
    BY <1>e DEF DInv, Drawn, Others
  <2> QED BY <2>1, <2>2, <2>3 DEF DInv, Drawn
<1>3. Kept'
  BY CoversMore DEF DInv, Kept
<1>4. Warm'
  BY DEF DInv, Warm, Writing, Others
<1>5. Writers'
  BY DEF DInv, Writers, WriterIs, Writing, Others, Begun
<1>6. Flights'
  <2> SUFFICES ASSUME NEW u \in Threads, u # t, InFlight(u)' PROVE FlightIs(th[u])'
    BY DEF Flights
  <2>1. FlightIs(th[u]) /\ th'[u] = th[u]
    BY DEF DInv, Flights, InFlight, Others
  <2>2. Publishable(th[u].snap)' => Publishable(th[u].snap)
    BY DEF Publishable, Others
  <2>3. Covers(disk.log, th[u].snap, Promised) => Covers(disk'.log, th[u].snap, Promised')
    BY CoversMore
  <2> QED BY <1>w, <2>1, <2>2, <2>3 DEF FlightIs
<1>7. Evictions'
  BY DEF DInv, Evictions, EvictIs, Others
<1>8. Unlogged'
  BY DEF DInv, Unlogged, Absent, Others
<1> QED BY <1>1, <1>2, <1>3, <1>4, <1>5, <1>6, <1>7, <1>8 DEF DInv

\* What the calls that move a thread do to it.
LEMMA GotoSays ==
  ASSUME IInv, NEW t \in Threads, NEW p, Goto(t, p)
  PROVE  /\ Others(t) /\ th'[t].pc = p
         /\ th'[t].cont = th[t].cont /\ th'[t].batch = th[t].batch /\ th'[t].base = th[t].base
         /\ th'[t].first = th[t].first /\ th'[t].len = th[t].len /\ th'[t].landed = th[t].landed
         /\ th'[t].snap = th[t].snap
<1>1. th \in [Threads -> Thread]
  BY DEF IInv, TypeInv, TypeOK
<1> QED BY <1>1 DEF Goto, Others, Thread

\* Promises depend on the threads that wait for a recovery flush.
LEMMA SamePromises ==
  ASSUME NEW t \in Threads, Others(t), acked' = acked, refused' = refused,
         th'[t].cont = "write" => /\ th[t].cont = "write" /\ th'[t].base = th[t].base
                                  /\ th'[t].landed = th[t].landed /\ th'[t].batch = th[t].batch
  PROVE  Promised' \subseteq Promised /\ Told' \subseteq Told
BY DEF Promised, Told, Others

LEMMA AnswerSays ==
  ASSUME IInv, NEW t \in Threads, NEW n \in Nat, n <= Len(th[t].batch), NEW missed, Answer(t, n, missed)
  PROVE  /\ Others(t) /\ th'[t] = Idle
         /\ \A a \in Promised' : a \in Promised \/ a \in Ids(th[t].base, n)
         /\ \A a \in Told' : a \in Told \/ a \in Ids(th[t].base, Len(th[t].batch))
         /\ \A a \in refused' : a \in refused \/ (a >= th[t].base + n /\ a < th[t].base + Len(th[t].batch))
<1>1. th \in [Threads -> Thread] /\ th[t].base \in Nat /\ Len(th[t].batch) \in Nat
  <2>1. th[t].batch \in Seq(BOOLEAN) /\ th[t].base \in Nat /\ th \in [Threads -> Thread]
    BY DEF IInv, TypeInv, TypeOK, Thread
  <2> QED BY <2>1, LenProperties
<1>2. Others(t) /\ th'[t] = Idle
  BY <1>1 DEF Answer, Others
<1>3. Idle.cont = "idle"
  BY DEF Idle
<1>4. /\ acked' = acked \cup Ids(th[t].base, n)
      /\ refused' = refused \cup Ids(th[t].base + n, Len(th[t].batch) - n)
  BY DEF Answer
<1>5. \A a \in Promised' : a \in Promised \/ a \in Ids(th[t].base, n)
  BY <1>2, <1>3, <1>4 DEF Promised, Others
<1>6. \A a : a \in Ids(th[t].base, n) \/ a \in Ids(th[t].base + n, Len(th[t].batch) - n)
               => a \in Ids(th[t].base, Len(th[t].batch))
  BY <1>1 DEF Ids
<1>7. \A a \in Told' : a \in Told \/ a \in Ids(th[t].base, Len(th[t].batch))
  BY <1>2, <1>3, <1>4, <1>6 DEF Told, Others
<1>8. \A a \in refused' : a \in refused \/ (a >= th[t].base + n /\ a < th[t].base + Len(th[t].batch))
  BY <1>1, <1>4 DEF Ids
<1> QED BY <1>2, <1>5, <1>7, <1>8

\* flush_entry returns: a writer's promise becomes an acknowledgement.
LEMMA ReturnsSays ==
  ASSUME IInv, NEW t \in Threads, NEW ok \in BOOLEAN, FlushReturns(t, ok)
  PROVE  /\ Others(t) /\ th'[t].pc \in {"idle", "evict"} /\ th'[t].cont = "idle"
         /\ th'[t].snap = NoSnapshot
         /\ Promised' \subseteq Promised /\ Told' \subseteq Told
         /\ th[t].cont # "write" => refused' = refused
<1>0. th \in [Threads -> Thread] /\ th[t].base \in Nat /\ Len(th[t].batch) \in Nat
      /\ th[t].landed \in Nat /\ th[t].landed <= Len(th[t].batch)
  <2>1. th[t].batch \in Seq(BOOLEAN) /\ th[t].base \in Nat /\ th \in [Threads -> Thread]
        /\ th[t].landed \in Nat /\ th[t].landed <= Len(th[t].batch)
    BY DEF IInv, TypeInv, TypeOK, Thread, WriterOK, LocalsOK
  <2> QED BY <2>1, LenProperties
<1>i. Idle.pc = "idle" /\ Idle.cont = "idle" /\ Idle.snap = NoSnapshot
  BY DEF Idle
<1>1. CASE th[t].cont = "write"
  <2>1. Answer(t, th[t].landed, ~ok)
    BY <1>1 DEF FlushReturns
  <2>2. /\ Others(t) /\ th'[t] = Idle
        /\ \A a \in Promised' : a \in Promised \/ a \in Ids(th[t].base, th[t].landed)
        /\ \A a \in Told' : a \in Told \/ a \in Ids(th[t].base, Len(th[t].batch))
    BY <1>0, <2>1, AnswerSays
  <2>3. \A a \in Ids(th[t].base, th[t].landed) : a \in Promised
    BY <1>0, <1>1, IdsType DEF Promised
  <2>4. \A a \in Ids(th[t].base, Len(th[t].batch)) : a \in Told
    BY <1>0, <1>1, IdsType DEF Told
  <2> QED BY <1>1, <1>i, <2>2, <2>3, <2>4
<1>2. CASE th[t].cont # "write"
  <2>1. /\ acked' = acked /\ refused' = refused
        /\ th' = [th EXCEPT ![t] = IF @.cont = "evict" THEN [Idle EXCEPT !.pc = "evict"] ELSE Idle]
    BY <1>2 DEF FlushReturns
  <2>2. /\ Others(t) /\ th'[t].pc \in {"idle", "evict"} /\ th'[t].cont = "idle"
        /\ th'[t].snap = NoSnapshot
    BY <1>0, <1>i, <2>1 DEF Others, Idle
  <2>3. Promised' \subseteq Promised /\ Told' \subseteq Told
    BY <2>1, <2>2, SamePromises
  <2> QED BY <2>1, <2>2, <2>3
<1> QED BY <1>1, <1>2

LEMMA NoSnapshotEmpty == NoSnapshot.ops = {}
BY DEF NoSnapshot

\* A flush that goes on with the snapshot it has.
LEMMA FlightStays ==
  ASSUME IInv, DInv, NEW t \in Threads, SameEntry, SameDisk, Others(t), Promised' \subseteq Promised,
         InFlight(t), th'[t].snap = th[t].snap, th'[t].pc \in {"stage", "publish", "commit"},
         th'[t].pc = "commit" => entry.slot = "Hot" /\ th[t].snap.gen = entry.gen
  PROVE  FlightIs(th[t])'
<1>1. FlightIs(th[t]) /\ th[t].pc # "evcool"
  BY DEF DInv, Flights, InFlight
<1>2. Publishable(th[t].snap)' => Publishable(th[t].snap)
  BY <1>1 DEF Publishable, Others, SameEntry
<1>3. Covers(disk.log, th[t].snap, Promised) => Covers(disk'.log, th[t].snap, Promised')
  BY CoversMore DEF SameDisk
<1>4. \A u \in Threads : Writing(u)' => Writing(u) /\ th'[u].first = th[u].first
  BY DEF Writing, Others, WritePCs
<1> QED BY <1>1, <1>2, <1>3, <1>4 DEF FlightIs, SameEntry, SameDisk

\* A step of a thread that is not writing, ends a flush or goes on with it, and leaves
\* log, image and memory as they are.
LEMMA QuietStep ==
  ASSUME IInv, DInv, NEW t \in Threads, SameEntry, SameDisk, nextId' = nextId, Others(t),
         ~Writing(t), th[t].pc # "evcool", th'[t].pc \notin WritePCs \cup {"truncate", "evtruncate", "evcool"},
         th'[t].pc = "evcommit" => entry.slot = "Hot",
         th'[t].pc = "commit" => entry.slot = "Hot" /\ th[t].snap.gen = entry.gen,
         InFlight(t)' => InFlight(t) /\ th'[t].snap = th[t].snap,
         th'[t].snap = th[t].snap \/ th'[t].snap = NoSnapshot,
         Promised' \subseteq Promised, Told' \subseteq Told,
         th'[t].cont = "write" => th[t].cont = "write",
         "trim" \notin Faults => refused' = refused
  PROVE  DInv'
<1>1. \A u \in Threads : Writing(u)' => Writing(u) /\ th'[u].base = th[u].base
  BY DEF Writing, Others
<1>2. \A a \in th'[t].snap.ops : Earlier(a)' /\ ("trim" \notin Faults => a \notin refused')
  <2> SUFFICES ASSUME NEW a \in th[t].snap.ops
               PROVE  Earlier(a)' /\ ("trim" \notin Faults => a \notin refused')
    BY NoSnapshotEmpty
  <2>1. Earlier(a)'
    BY <1>1 DEF DInv, Drawn, Earlier
  <2> QED BY <2>1 DEF DInv, Unlogged, Absent
<1>3. InFlight(t)' => FlightIs(th[t])'
  BY FlightStays DEF InFlight
<1>4. "trim" \notin Faults => th'[t].cont # "write" /\ \A a \in refused' : a \in refused \/ Absent(a)
  BY DEF DInv, Unlogged
<1>5. th[t].pc # "retrim"
  BY DEF Writing, WritePCs
<1> QED BY <1>2, <1>3, <1>4, <1>5, SameStep DEF Writing

LEMMA StutterStep ==
  ASSUME DInv, SameEntry, SameDisk, th' = th, nextId' = nextId, acked' = acked, refused' = refused
  PROVE  DInv'
<1>1. Promised' = Promised /\ Told' = Told
  BY DEF Promised, Told
<1>2. \A t \in Threads : Writing(t)' = Writing(t) /\ InFlight(t)' = InFlight(t)
  BY DEF Writing, InFlight
<1>3. \A a : Earlier(a)' = Earlier(a)
  BY <1>2 DEF Earlier
<1>4. LogOK' /\ Drawn' /\ Kept' /\ Warm'
  BY <1>1, <1>2, <1>3 DEF DInv, LogOK, Drawn, Kept, Warm, SameEntry, SameDisk
<1>5. Writers'
  BY <1>2 DEF DInv, Writers, WriterIs, Begun, SameEntry, SameDisk
<1>6. Flights'
  BY <1>1, <1>2 DEF DInv, Flights, FlightIs, Publishable, SameEntry, SameDisk
<1>7. Evictions' /\ Unlogged'
  BY DEF DInv, Evictions, EvictIs, Unlogged, Absent, SameEntry, SameDisk
<1> QED BY <1>4, <1>5, <1>6, <1>7 DEF DInv

LEMMA Unwritten ==
  ASSUME IInv, lock = Free
  PROVE  \A t \in Threads : th[t].pc \notin LockPCs /\ ~Writing(t)
BY FreeIsNoThread DEF IInv, Control, LockHeld, LockPCs, Writing, WritePCs

\* The sidecar's revision is no part of what is recovered.
LEMMA SidecarSame ==
  ASSUME disk \in Disk, NEW r, disk' = [disk EXCEPT !.rev = r]
  PROVE  SameDisk
BY DEF Disk, SameDisk

LEMMA QuietActions ==
  ASSUME IInv, DInv, NEW t \in Threads,
         \/ Tick(t) \/ FlushEntry(t) \/ ClaimLost(t) \/ StageOk(t) \/ StageFails(t)
         \/ PublishBacksOff(t) \/ PublishMeta(t) \/ PublishMetaFails(t)
         \/ EvictStarts(t) \/ EvictPinned(t) \/ EvictMeta(t) \/ EvictMetaFails(t)
  PROVE  DInv'
<1>0. th \in [Threads -> Thread] /\ entry \in Entry /\ disk \in Disk
  BY DEF IInv, TypeInv, TypeOK
<1>s. UNCHANGED <<entry, disk>> => SameEntry /\ SameDisk
  BY DEF SameEntry, SameDisk
<1>i. Idle.pc = "idle" /\ Idle.cont = "idle" /\ Idle.snap = NoSnapshot
  BY DEF Idle
<1>r. ASSUME NEW ok \in BOOLEAN, FlushReturns(t, ok), SameEntry, SameDisk, nextId' = nextId,
             ~Writing(t), th[t].pc # "evcool"
      PROVE  DInv'
  <2>1. /\ Others(t) /\ th'[t].pc \in {"idle", "evict"} /\ th'[t].cont = "idle"
        /\ th'[t].snap = NoSnapshot
        /\ Promised' \subseteq Promised /\ Told' \subseteq Told
        /\ th[t].cont # "write" => refused' = refused
    BY <1>r, ReturnsSays
  <2>2. "trim" \notin Faults => refused' = refused
    BY <2>1 DEF DInv, Unlogged
  <2>3. ~InFlight(t)'
    BY <2>1 DEF InFlight
  <2> QED BY <1>r, <2>1, <2>2, <2>3, QuietStep DEF WritePCs
<1>g. ASSUME NEW p, Goto(t, p), SameEntry, SameDisk, nextId' = nextId, acked' = acked, refused' = refused,
             ~Writing(t), th[t].pc # "evcool", p \notin WritePCs \cup {"truncate", "evtruncate", "evcool"},
             p = "evcommit" => entry.slot = "Hot",
             p = "commit" => entry.slot = "Hot" /\ th[t].snap.gen = entry.gen,
             p \in FlightPCs => InFlight(t)
      PROVE  DInv'
  <2>1. /\ Others(t) /\ th'[t].pc = p /\ th'[t].cont = th[t].cont /\ th'[t].batch = th[t].batch
        /\ th'[t].base = th[t].base /\ th'[t].landed = th[t].landed /\ th'[t].snap = th[t].snap
    BY <1>g, GotoSays
  <2>2. Promised' \subseteq Promised /\ Told' \subseteq Told
    BY <1>g, <2>1, SamePromises
  <2>3. InFlight(t)' => InFlight(t)
    BY <1>g, <2>1 DEF InFlight, FlightPCs
  <2> QED BY <1>g, <2>1, <2>2, <2>3, QuietStep
<1>m. ASSUME NEW w, th' = [th EXCEPT ![t] = w], w.pc \in {"idle", "flush"}, w.cont # "write",
             w.snap = th[t].snap \/ w.snap = NoSnapshot,
             SameEntry, SameDisk, nextId' = nextId, acked' = acked, refused' = refused,
             ~Writing(t), th[t].pc # "evcool"
      PROVE  DInv'
  <2>1. Others(t) /\ th'[t] = w
    BY <1>0, <1>m DEF Others
  <2>2. Promised' \subseteq Promised /\ Told' \subseteq Told
    BY <1>m, <2>1, SamePromises
  <2>3. ~InFlight(t)'
    BY <1>m, <2>1 DEF InFlight
  <2> QED BY <1>m, <2>1, <2>2, <2>3, QuietStep DEF WritePCs
<1>1. CASE Tick(t)
  BY <1>1, <1>g, <1>s DEF Tick, At, history, Writing, WritePCs, FlightPCs
<1>2. CASE FlushEntry(t)
  <2>1. UNCHANGED <<entry, disk, nextId>> /\ th[t].pc = "flush"
    BY <1>2 DEF FlushEntry, At
  <2>2. CASE dirty
    BY <1>2, <2>1, <2>2, <1>g, <1>s DEF FlushEntry, Writing, WritePCs, FlightPCs
  <2>3. CASE ~dirty
    BY <1>2, <2>1, <2>3, <1>r, <1>s DEF FlushEntry, Writing, WritePCs
  <2> QED BY <2>2, <2>3
<1>3. CASE ClaimLost(t)
  BY <1>3, <1>r, <1>s DEF ClaimLost, At, Writing, WritePCs
<1>4. CASE StageOk(t)
  BY <1>4, <1>g, <1>s DEF StageOk, At, history, Writing, WritePCs, InFlight
<1>5. CASE StageFails(t)
  BY <1>5, <1>r, <1>s DEF StageFails, At, Writing, WritePCs
<1>6. CASE PublishBacksOff(t)
  BY <1>6, <1>r, <1>s DEF PublishBacksOff, At, Writing, WritePCs
<1>7. CASE PublishMeta(t)
  <2>1. /\ th[t].pc = "publish" /\ Goto(t, "commit") /\ UNCHANGED <<entry, nextId, acked, refused>>
        /\ entry.slot = "Hot" /\ entry.gen = th[t].snap.gen
        /\ disk' = [disk EXCEPT !.rev = th[t].snap.rev]
    BY <1>7 DEF PublishMeta, At, StillCurrent, history
  <2>2. SameEntry /\ SameDisk
    BY <1>0, <2>1, SidecarSame DEF SameEntry
  <2> QED BY <2>1, <2>2, <1>g DEF Writing, WritePCs, InFlight
<1>8. CASE PublishMetaFails(t)
  <2>1. /\ th[t].pc = "publish" /\ FlushReturns(t, FALSE) /\ UNCHANGED <<entry, nextId>>
        /\ (disk' = disk \/ disk' = [disk EXCEPT !.rev = th[t].snap.rev])
    BY <1>8 DEF PublishMetaFails, At
  <2>2. SameEntry /\ SameDisk
    BY <1>0, <2>1, <1>s, SidecarSame DEF SameEntry
  <2> QED BY <2>1, <2>2, <1>r DEF Writing, WritePCs
<1>9. CASE EvictStarts(t)
  <2> DEFINE w == [th[t] EXCEPT !.pc = "flush", !.cont = "evict"]
  <2>1. th' = [th EXCEPT ![t] = w] /\ th[t].pc = "idle" /\ UNCHANGED <<entry, disk, nextId, acked, refused>>
    BY <1>0, <1>9 DEF EvictStarts, At, history
  <2>2. w.pc = "flush" /\ w.cont = "evict" /\ w.snap = th[t].snap
    BY <1>0 DEF Thread
  <2> HIDE DEF w
  <2> QED BY <2>1, <2>2, <1>m, <1>s DEF Writing, WritePCs
<1>10. CASE EvictPinned(t)
  BY <1>10, <1>i, <1>m, <1>s DEF EvictPinned, At, history, Writing, WritePCs
<1>11. CASE EvictMeta(t)
  <2>1. /\ th[t].pc = "evict" /\ Goto(t, "evcommit") /\ UNCHANGED <<entry, nextId, acked, refused>>
        /\ entry.slot = "Hot" /\ disk' = [disk EXCEPT !.rev = entry.rev]
    BY <1>11 DEF EvictMeta, At, history
  <2>2. SameEntry /\ SameDisk
    BY <1>0, <2>1, SidecarSame DEF SameEntry
  <2> QED BY <2>1, <2>2, <1>g DEF Writing, WritePCs, FlightPCs
<1>12. CASE EvictMetaFails(t)
  <2>1. /\ th[t].pc = "evict" /\ th' = [th EXCEPT ![t] = Idle] /\ UNCHANGED <<entry, nextId, acked, refused>>
        /\ (disk' = disk \/ disk' = [disk EXCEPT !.rev = entry.rev])
    BY <1>12 DEF EvictMetaFails, At
  <2>2. SameEntry /\ SameDisk
    BY <1>0, <2>1, <1>s, SidecarSame DEF SameEntry
  <2> QED BY <2>1, <2>2, <1>i, <1>m DEF Writing, WritePCs
<1> QED BY <1>1, <1>2, <1>3, <1>4, <1>5, <1>6, <1>7, <1>8, <1>9, <1>10, <1>11, <1>12

LEMMA StutterActions ==
  ASSUME IInv, DInv, UNCHANGED vars \/ QuarantineLapses \/ \E t \in Threads : ReadDeleted(t) \/ LoadFails(t)
  PROVE  DInv'
<1>0. entry \in Entry
  BY DEF IInv, TypeInv, TypeOK
<1>1. UNCHANGED <<disk, th, nextId, acked, refused>>
  BY DEF vars, history, QuarantineLapses, ReadDeleted, LoadFails
<1>2. entry' = entry \/ \E q : entry' = [entry EXCEPT !.quarantined = q]
  BY DEF vars, QuarantineLapses, ReadDeleted, LoadFails
<1>3. SameEntry
  BY <1>0, <1>2 DEF SameEntry, Entry
<1>4. SameDisk
  BY <1>1 DEF SameDisk
<1> QED BY <1>1, <1>3, <1>4, StutterStep

\* The snapshot a flush takes under the lock.
LEMMA ClaimKeeps ==
  ASSUME IInv, DInv, NEW t \in Threads, Claim(t)
  PROVE  DInv'
<1> DEFINE s == [ops |-> entry.graph, wm |-> Watermark, gen |-> entry.gen, rev |-> entry.rev, exposed |-> exposed]
           w == [th[t] EXCEPT !.pc = "stage", !.snap = s]
<1>0. th \in [Threads -> Thread] /\ th[t] \in Thread /\ entry \in Entry /\ disk \in Disk
  BY DEF IInv, TypeInv, TypeOK
<1>1. /\ UNCHANGED <<entry, disk, nextId, acked, refused>> /\ th[t].pc = "claim" /\ lock = Free
      /\ entry.slot = "Hot" /\ th' = [th EXCEPT ![t] = w]
  BY <1>0 DEF Claim, At, history
<1>2. w.pc = "stage" /\ w.snap = s /\ w.cont = th[t].cont /\ w.base = th[t].base
      /\ w.landed = th[t].landed /\ w.batch = th[t].batch
  BY <1>0 DEF Thread
<1>3. s.ops = entry.graph /\ s.wm = entry.walSeq - 1 /\ s.gen = entry.gen
  BY DEF Watermark
<1> HIDE DEF s, w
<1>4. Others(t) /\ th'[t] = w
  BY <1>0, <1>1 DEF Others
<1>5. Promised' \subseteq Promised /\ Told' \subseteq Told
  BY <1>1, <1>2, <1>4, SamePromises
<1>6. \A u \in Threads : ~Writing(u) /\ th[u].pc \notin LockPCs
  BY <1>1, Unwritten
<1>7. \A u \in Threads : ~Writing(u)'
  BY <1>2, <1>4, <1>6 DEF Others, Writing, WritePCs
<1>8. SameEntry /\ SameDisk
  BY <1>1 DEF SameEntry, SameDisk
<1>9. entry.walSeq \in Nat /\ entry.gen \in Nat /\ disk.log \in Seq(Record)
  BY <1>0 DEF Entry, Disk
<1>10. Below(disk.log, entry.walSeq) /\ Promised \subseteq entry.graph
  BY <1>1, <1>6 DEF DInv, Warm
<1>11. FlightIs(th[t])'
  <2>1. Covers(disk'.log, s, Promised')
    BY <1>1, <1>3, <1>5, <1>10 DEF Covers
  <2>2. Apart(disk'.log, s)
    <3>1. \A i \in DOMAIN disk.log : disk.log[i].seq \in Nat /\ disk.log[i].seq < entry.walSeq
      BY <1>9, <1>10, LogType DEF Below
    <3> QED BY <1>1, <1>3, <1>9, <3>1 DEF Apart
  <2>3. s.gen <= entry'.gen /\ s.wm < entry'.walSeq /\ entry'.slot = "Hot"
    BY <1>1, <1>3, <1>9
  <2> QED BY <1>2, <1>4, <1>7, <2>1, <2>2, <2>3 DEF FlightIs
<1>12. \A a \in th'[t].snap.ops : Earlier(a)' /\ ("trim" \notin Faults => a \notin refused')
  <2> SUFFICES ASSUME NEW a \in entry.graph PROVE Earlier(a)' /\ ("trim" \notin Faults => a \notin refused')
    BY <1>2, <1>3, <1>4
  <2>1. Earlier(a)'
    BY <1>1, <1>7 DEF DInv, Drawn, Earlier
  <2> QED BY <2>1, <1>1 DEF DInv, Unlogged, Absent
<1>13. "trim" \notin Faults => th'[t].cont # "write" /\ \A a \in refused' : a \in refused \/ Absent(a)
  BY <1>1, <1>2, <1>4 DEF DInv, Unlogged
<1> QED BY <1>1, <1>2, <1>4, <1>5, <1>6, <1>8, <1>11, <1>12, <1>13, SameStep DEF WritePCs

-----------------------------------------------------------------------------
(* logged_write *)

LEMMA WriterFacts ==
  ASSUME IInv, DInv, NEW t \in Threads, Writing(t)
  PROVE  /\ WriterIs(th[t]) /\ disk \in Disk /\ entry \in Entry /\ disk.log \in Seq(Record)
         /\ th[t].pc # "retrim" \/ "leak" \notin Faults => disk.tail = "clean"
         /\ th[t].base \in Nat /\ th[t].first \in Nat /\ th[t].len \in Nat /\ th[t].landed \in Nat
         /\ th[t].batch \in Seq(BOOLEAN) /\ Len(th[t].batch) \in Nat /\ th[t].landed <= Len(th[t].batch)
         /\ th \in [Threads -> Thread] /\ disk.present = TRUE
         /\ \A u \in Threads : u # t => th[u].pc \notin LockPCs /\ ~Writing(u)
         /\ Begun(th[t]) \in Seq(Record) /\ Len(Begun(th[t])) = th[t].len /\ Begins(Begun(th[t]), disk.log)
         /\ th[t].pc \in {"append", "reappend"} \/ (th[t].pc = "retrim" /\ "leak" \notin Faults) =>
              Begun(th[t]) = disk.log
<1>1. th \in [Threads -> Thread] /\ th[t] \in Thread /\ disk \in Disk /\ entry \in Entry
      /\ th[t].landed <= Len(th[t].batch)
  BY DEF IInv, TypeInv, TypeOK, WriterOK, LocalsOK
<1>2. /\ th[t].base \in Nat /\ th[t].first \in Nat /\ th[t].len \in Nat /\ th[t].landed \in Nat
      /\ th[t].batch \in Seq(BOOLEAN) /\ disk.log \in Seq(Record)
  BY <1>1 DEF Thread, Disk
<1>3. Len(th[t].batch) \in Nat
  BY <1>2, LenProperties
<1>4. WriterIs(th[t])
  BY DEF DInv, Writers
<1>6. th[t].pc \in LockPCs /\ \A u \in Threads : th[u].pc \in WritePCs => th[u].pc \in LockPCs
  BY DEF Writing, WritePCs, LockPCs
<1>7. \A u \in Threads : u # t => th[u].pc \notin LockPCs /\ ~Writing(u)
  BY <1>6 DEF IInv, Control, LockHeld, Writing
<1>5. th[t].pc # "retrim" \/ "leak" \notin Faults => disk.tail = "clean"
  BY <1>4, <1>7 DEF DInv, Warm, WriterIs, LockPCs
<1>8. disk.present = TRUE
  BY <1>6, LiveWhileLocked DEF IInv
<1>9. th[t].len <= Len(disk.log)
  BY <1>4 DEF WriterIs
<1>10. th[t].pc \in {"append", "reappend"} \/ (th[t].pc = "retrim" /\ "leak" \notin Faults) =>
         th[t].len = Len(disk.log)
  BY <1>4 DEF WriterIs
<1>11. /\ Begun(th[t]) \in Seq(Record) /\ Len(Begun(th[t])) = th[t].len /\ Begins(Begun(th[t]), disk.log)
       /\ th[t].pc \in {"append", "reappend"} \/ (th[t].pc = "retrim" /\ "leak" \notin Faults) =>
            Begun(th[t]) = disk.log
  BY <1>2, <1>9, <1>10, SubSeqBegins DEF Begun
<1> QED BY <1>1, <1>2, <1>3, <1>4, <1>5, <1>7, <1>8, <1>11

\* Nobody has heard of the operations of the batch being written.
LEMMA BatchIsNew ==
  ASSUME DInv, NEW t \in Threads, Writing(t), th[t].base \in Nat, NEW a \in Int, a >= th[t].base
  PROVE  /\ a \notin disk.image.ops /\ a \notin Told
         /\ \A u \in Threads : a \notin th[u].snap.ops
BY DEF DInv, Drawn, Earlier

\* The rollback is given up: then trims fail, and so the append had left nothing behind.
LEMMA RetrimFailsKeeps ==
  ASSUME Sound, IInv, DInv, NEW t \in Threads, RetrimFails(t)
  PROVE  DInv'
<1> DEFINE w == [th[t] EXCEPT !.pc = "flush", !.cont = "write", !.landed = 0]
<1>1. th[t].pc = "retrim" /\ UNCHANGED <<entry, nextId, disk, acked, refused>>
  BY DEF RetrimFails, At
<1>2. Writing(t)
  BY <1>1 DEF Writing, WritePCs
<1>3. /\ "trim" \in Faults /\ "leak" \notin Faults
  <2>1. Truncatable(disk, th[t].len)
    BY <1>2, WriterFacts DEF WriterIs, Truncatable
  <2>2. "trim" \in Faults
    BY <2>1 DEF RetrimFails, Fault
  <2> QED BY <2>2 DEF Sound
<1>4. /\ WriterIs(th[t]) /\ disk.log \in Seq(Record) /\ disk.tail = "clean"
      /\ th[t].base \in Nat /\ Len(th[t].batch) \in Nat /\ th \in [Threads -> Thread] /\ th[t] \in Thread
      /\ \A u \in Threads : u # t => th[u].pc \notin LockPCs /\ ~Writing(u)
      /\ Begun(th[t]) = disk.log
  BY <1>1, <1>2, <1>3, WriterFacts
<1>5. /\ nextId = th[t].base + Len(th[t].batch)
      /\ Below(disk.log, entry.walSeq) /\ entry.walBytes = Len(disk.log)
  BY <1>1, <1>3, <1>4 DEF WriterIs
<1>6. SameEntry /\ SameDisk
  BY <1>1 DEF SameEntry, SameDisk
<1>7. (\A a \in Ids(th[t].base, Len(th[t].batch)) : a < nextId) /\ Ids(th[t].base, 0) = {}
  BY <1>4, <1>5 DEF Ids
<1>8. w.pc = "flush" /\ w.cont = "write" /\ w.landed = 0 /\ w.snap = th[t].snap /\ w.base = th[t].base
      /\ w.batch = th[t].batch
  BY <1>4 DEF Thread
<1>9. Others(t) /\ th'[t] = w
  BY <1>4 DEF RetrimFails, Others
<1> HIDE DEF w
<1>10. Promised' \subseteq Promised
  BY <1>1, <1>7, <1>8, <1>9 DEF Promised, Others
<1>11. \A u \in Threads : th'[u].pc \notin WritePCs
  BY <1>4, <1>8, <1>9 DEF Others, Writing, WritePCs
<1>12. \A a \in Told' : a \in Told \/ (a < nextId /\ \A u \in Threads : th'[u].pc \notin WritePCs)
  <2>1. \A a \in Told' : a \in Told \/ a \in Ids(th[t].base, Len(th[t].batch))
    BY <1>1, <1>8, <1>9 DEF Told, Others
  <2> QED BY <1>7, <1>11, <2>1
<1>13. \A a \in th'[t].snap.ops : Earlier(a)'
  BY <1>1, <1>8, <1>9, <1>11 DEF DInv, Drawn, Earlier, Writing
<1>14. ~InFlight(t)'
  BY <1>8, <1>9 DEF InFlight
<1> QED BY <1>1, <1>3, <1>4, <1>5, <1>6, <1>8, <1>9, <1>10, <1>11, <1>12, <1>13, <1>14, SameStep DEF WritePCs

\* A step of the writer: it may extend or trim the log, apply to the graph and answer.
LEMMA WriterStep ==
  ASSUME IInv, DInv, NEW t \in Threads, Writing(t), nextId' = nextId, Others(t),
         entry'.slot = "Hot", entry'.gen = entry.gen,
         entry'.walSeq \in Nat, th[t].first <= entry'.walSeq,
         disk'.image = disk.image, disk'.fused = 0,
         disk'.tail = "clean" \/ ("leak" \in Faults /\ th'[t].pc = "retrim"),
         Sorted(disk'.log), Older(disk'.log, nextId),
         \A s : Apart(disk.log, s) /\ (\A a \in s.ops : a < th[t].base) => Apart(disk'.log, s),
         \A s : s.wm \in Nat /\ s.wm < th[t].first /\ Covers(disk.log, s, Promised)
                  => Covers(disk'.log, s, Promised'),
         Promised' \subseteq entry'.graph, \A a \in entry'.graph : a < nextId,
         \A a \in Told' : a \in Told \/ (a < nextId /\ th'[t].pc \notin WritePCs),
         th'[t].pc \in WritePCs \cup {"idle", "flush"},
         th'[t].pc \in WritePCs =>
           th'[t].base = th[t].base /\ th'[t].first = th[t].first /\ WriterIs(th[t])',
         th'[t].pc \notin WritePCs =>
           Below(disk'.log, entry'.walSeq) /\ entry'.walBytes = Len(disk'.log),
         th'[t].snap = th[t].snap \/ th'[t].snap = NoSnapshot,
         "trim" \notin Faults =>
           /\ th'[t].cont # "write"
           /\ \A a \in refused' : /\ a \notin entry'.graph /\ Lacks(disk'.log, a)
                                  /\ a \in refused \/ (a \in Int /\ a >= th[t].base)
  PROVE  DInv'
<1>0. /\ WriterIs(th[t]) /\ th[t].first \in Nat /\ th[t].base \in Nat /\ th \in [Threads -> Thread]
      /\ disk \in Disk /\ entry \in Entry
      /\ \A u \in Threads : u # t => th[u].pc \notin LockPCs /\ ~Writing(u)
  BY WriterFacts
<1>p. th'[t].pc \notin {"evcommit", "evtruncate", "evcool", "stage", "publish", "commit", "truncate"}
  BY DEF WritePCs
<1>w. \A u \in Threads : Writing(u)' => u = t /\ th'[u].base = th[u].base /\ th'[u].first = th[u].first
  BY <1>0 DEF Others, Writing
<1>e. \A a : Earlier(a) => Earlier(a)'
  BY <1>w DEF Earlier
<1>s. \A u \in Threads : \A a \in th'[u].snap.ops : a \in th[u].snap.ops
  BY NoSnapshotEmpty DEF Others
<1>i. disk.image.wm \in Nat /\ disk.image.wm < th[t].first
  BY <1>0 DEF Disk, Image, WriterIs
<1>1. LogOK'
  <2>1. \A a \in disk.image.ops : a < th[t].base
    BY DEF DInv, Drawn, Earlier
  <2> QED BY <2>1 DEF DInv, LogOK
<1>2. Drawn'
  <2>1. \A a \in disk'.image.ops : Earlier(a)'
    BY <1>e DEF DInv, Drawn
  <2>2. \A a \in Told' : Earlier(a)'
    BY <1>e, <1>w DEF DInv, Drawn, Earlier, Writing
  <2>3. \A u \in Threads : \A a \in th'[u].snap.ops : Earlier(a)'
    BY <1>e, <1>s DEF DInv, Drawn
  <2> QED BY <2>1, <2>2, <2>3 DEF Drawn
<1>3. Kept'
  <2>1. Covers(disk.log, disk.image, Promised)
    BY WriterFacts DEF DInv, Kept
  <2> QED BY <1>i, <2>1 DEF Kept
<1>4. Warm'
  <2>1. disk'.image.wm < entry'.walSeq
    BY <1>0, <1>i
  <2> QED BY <2>1 DEF Warm, Writing
<1>5. Writers'
  BY <1>w DEF Writers, Writing
<1>6. Flights'
  <2> SUFFICES ASSUME NEW u \in Threads, InFlight(u)' PROVE FlightIs(th[u])'
    BY DEF Flights
  <2>1. u # t /\ th'[u] = th[u] /\ InFlight(u)
    BY <1>p DEF InFlight, Others
  <2>2. FlightIs(th[u]) /\ th[u].pc \notin {"commit", "truncate"}
    BY <1>0, <2>1 DEF DInv, Flights, LockPCs
  <2>3. th[u].snap.wm \in Nat
    <3>1. th[u] \in Thread
      BY <1>0
    <3> QED BY <3>1 DEF Thread, Snapshot
  <2>4. Publishable(th[u].snap)' => Publishable(th[u].snap)
    <3>1. entry.slot = "Hot"
      BY <1>0 DEF WriterIs
    <3>2. \A e \in Threads : th[e].pc # "evcool"
      BY <1>0 DEF LockPCs, Writing, WritePCs
    <3> QED BY <2>1, <3>1, <3>2 DEF Publishable
  <2>5. ASSUME Publishable(th[u].snap)
        PROVE  /\ Covers(disk'.log, th[u].snap, Promised') /\ Apart(disk'.log, th[u].snap)
               /\ th[u].snap.wm < th[t].first
    <3>1. entry.slot = "Hot"
      BY <1>0 DEF WriterIs
    <3>2. /\ Covers(disk.log, th[u].snap, Promised) /\ Apart(disk.log, th[u].snap)
          /\ th[u].snap.wm < th[t].first
      BY <2>2, <2>5, <3>1 DEF FlightIs
    <3>3. \A a \in th[u].snap.ops : a < th[t].base
      BY DEF DInv, Drawn, Earlier
    <3> QED BY <2>3, <3>2, <3>3
  <2>6. Publishable(th[u].snap) => th[u].snap.wm < entry'.walSeq /\ \A v \in Threads : Writing(v)' => th[u].snap.wm < th'[v].first
    BY <1>0, <1>w, <2>3, <2>5
  <2>7. th[u].snap.gen <= entry'.gen
    BY <2>2 DEF FlightIs
  <2> QED BY <2>1, <2>2, <2>4, <2>5, <2>6, <2>7 DEF FlightIs
<1>7. Evictions'
  <2> SUFFICES ASSUME NEW u \in Threads PROVE th'[u].pc \notin {"evcommit", "evtruncate", "evcool"}
    BY DEF Evictions, EvictIs
  <2> QED BY <1>0, <1>p DEF Others, LockPCs
<1>8. Unlogged'
  <2> SUFFICES ASSUME "trim" \notin Faults, NEW a \in refused' PROVE Absent(a)'
    BY DEF DInv, Unlogged, Others
  <2>1. a \notin disk.image.ops /\ \A u \in Threads : a \notin th[u].snap.ops
    BY <1>0, BatchIsNew DEF DInv, Unlogged, Absent
  <2> QED BY <1>s, <2>1 DEF Absent
<1> QED BY <1>1, <1>2, <1>3, <1>4, <1>5, <1>6, <1>7, <1>8 DEF DInv

\* What has been answered or promised was drawn before the batch being written.
LEMMA ToldBefore ==
  ASSUME IInv, DInv, NEW t \in Threads, Writing(t)
  PROVE  /\ \A a \in refused : a \in Nat /\ a < th[t].base
         /\ \A a \in Promised : a \in Nat /\ a < th[t].base
<1>1. refused \in SUBSET Nat
  BY DEF IInv, TypeInv, TypeOK
<1>2. \A a \in refused : a \in Told
  BY <1>1 DEF Told
<1>3. \A a \in Promised : a \in Nat /\ a \in Told
  <2> TAKE a \in Promised
  <2>1. a \in Nat /\ (a \in acked \/ \E u \in Threads : th[u].cont = "write" /\ a \in Ids(th[u].base, th[u].landed))
    BY DEF Promised
  <2>2. ASSUME NEW u \in Threads, a \in Ids(th[u].base, th[u].landed) PROVE a \in Ids(th[u].base, Len(th[u].batch))
    BY <2>2, WriterType DEF IInv, Ids
  <2> QED BY <2>1, <2>2 DEF Told
<1> QED BY <1>1, <1>2, <1>3 DEF DInv, Drawn, Earlier

\* The log with the whole batch in it.
LEMMA FullLog ==
  ASSUME IInv, DInv, NEW t \in Threads, th[t].pc \in {"operate", "trim"}
  PROVE  /\ Writing(t)
         /\ Grown(disk.log, Begun(th[t]), th[t].first, th[t].base, th[t].batch, Len(th[t].batch))
         /\ Sorted(disk.log) /\ Below(disk.log, entry.walSeq) /\ entry.walBytes = Len(disk.log)
         /\ \A wm \in Nat : \A n \in 0..Landed(th[t].batch) :
              wm < th[t].first => \A a \in Ids(th[t].base, n) : Replays(disk.log, a, wm)
<1>1. Writing(t)
  BY DEF Writing, WritePCs
<1>2. /\ WriterIs(th[t]) /\ disk.log \in Seq(Record) /\ th[t].base \in Nat /\ th[t].first \in Nat
      /\ th[t].len \in Nat /\ th[t].batch \in Seq(BOOLEAN) /\ Len(th[t].batch) \in Nat
      /\ Begun(th[t]) \in Seq(Record) /\ Len(Begun(th[t])) = th[t].len /\ Begins(Begun(th[t]), disk.log)
  BY <1>1, WriterFacts
<1>3. /\ Grown(disk.log, Begun(th[t]), th[t].first, th[t].base, th[t].batch, Len(th[t].batch))
      /\ Below(Begun(th[t]), th[t].first)
      /\ entry.walSeq = th[t].first + Len(th[t].batch) /\ entry.walBytes = th[t].len + Len(th[t].batch)
  BY <1>2 DEF WriterIs
<1>4. Sorted(disk.log)
  BY DEF DInv, LogOK
<1>5. Sorted(Begun(th[t]))
  BY <1>2, <1>4, BeginsKeeps
<1>6. Below(disk.log, entry.walSeq)
  BY <1>2, <1>3, <1>5, GrownKeeps
<1>7. entry.walBytes = Len(disk.log)
  BY <1>2, <1>3 DEF Grown
<1>8. ASSUME NEW wm \in Nat, NEW n \in 0..Landed(th[t].batch), wm < th[t].first
      PROVE  \A a \in Ids(th[t].base, n) : Replays(disk.log, a, wm)
  <2>1. Landed(th[t].batch) \in Nat /\ Landed(th[t].batch) <= Len(th[t].batch)
        /\ \A i \in 1..Landed(th[t].batch) : th[t].batch[i] = TRUE
    BY <1>2, LandedType, LandedSays
  <2>2. n \in 0..Len(th[t].batch) /\ \A i \in 1..n : th[t].batch[i] = TRUE
    BY <1>2, <2>1
  <2> QED BY <1>2, <1>3, <1>8, <2>2, GrownReplays
<1> QED BY <1>1, <1>3, <1>4, <1>6, <1>7, <1>8

\* The rollback is retried: the log is again what it was before the batch.
LEMMA RetrimOkKeeps ==
  ASSUME Sound, IInv, DInv, NEW t \in Threads, RetrimOk(t)
  PROVE  DInv'
<1>1. th[t].pc = "retrim" /\ Answer(t, 0, FALSE) /\ UNCHANGED <<entry, nextId>>
      /\ disk' = TruncateTo(disk, th[t].len)
  BY DEF RetrimOk, At
<1>2. Writing(t)
  BY <1>1 DEF Writing, WritePCs
<1>3. /\ WriterIs(th[t]) /\ disk \in Disk /\ entry \in Entry /\ disk.log \in Seq(Record)
      /\ th[t].base \in Nat /\ th[t].first \in Nat /\ th[t].len \in Nat /\ Len(th[t].batch) \in Nat
      /\ Begun(th[t]) \in Seq(Record) /\ Len(Begun(th[t])) = th[t].len /\ Begins(Begun(th[t]), disk.log)
  BY <1>2, WriterFacts
<1>4. /\ entry.slot = "Hot" /\ nextId = th[t].base + Len(th[t].batch) /\ th[t].len <= Len(disk.log)
      /\ Below(Begun(th[t]), th[t].first) /\ Older(Begun(th[t]), th[t].base)
      /\ entry.walSeq = th[t].first /\ entry.walBytes = th[t].len
      /\ \A a \in entry.graph : a < th[t].base
  BY <1>1, <1>3 DEF WriterIs
<1>5. PICK k \in 0..Len(th[t].batch) : Grown(disk.log, Begun(th[t]), th[t].first, th[t].base, th[t].batch, k)
  BY <1>1, <1>3 DEF WriterIs
<1>6. disk.fused = 0 /\ Sorted(disk.log)
  BY DEF DInv, LogOK
<1>7. /\ disk'.image = disk.image /\ disk'.fused = 0 /\ disk'.tail = "clean"
      /\ disk'.log = Begun(th[t])
  BY <1>1, <1>3, <1>4, <1>6, TruncateBegins DEF Begun
<1>8. /\ Others(t) /\ th'[t] = Idle
      /\ \A a \in Promised' : a \in Promised \/ a \in Ids(th[t].base, 0)
      /\ \A a \in Told' : a \in Told \/ a \in Ids(th[t].base, Len(th[t].batch))
  <2>1. 0 \in Nat /\ 0 <= Len(th[t].batch)
    BY <1>3
  <2> QED BY <1>1, <2>1, AnswerSays
<1>9. Idle.pc = "idle" /\ Idle.cont = "idle" /\ Idle.snap = NoSnapshot
  BY DEF Idle
<1>10. Promised' \subseteq Promised
  <2>1. Ids(th[t].base, 0) = {}
    BY <1>3 DEF Ids
  <2> QED BY <1>8, <2>1
<1>11. \A a \in Ids(th[t].base, Len(th[t].batch)) : a < nextId /\ a >= th[t].base /\ a \in Int
  BY <1>3, <1>4 DEF Ids
<1>12. /\ Sorted(disk'.log) /\ \A s : Apart(disk.log, s) => Apart(disk'.log, s)
       /\ \A b : Older(disk.log, b) => Older(disk'.log, b)
       /\ \A a : Lacks(disk.log, a) => Lacks(disk'.log, a)
  BY <1>3, <1>6, <1>7, BeginsKeeps
<1>13. ASSUME NEW s, Covers(disk.log, s, Promised) PROVE Covers(disk'.log, s, Promised')
  <2>1. \A a \in Promised : a \in Int /\ a < th[t].base
    BY <1>2, ToldBefore
  <2>2. k \in Nat
    BY <1>3, <1>5
  <2>3. Covers(Begun(th[t]), s, Promised)
    BY <1>3, <1>5, <1>13, <2>1, <2>2, TrimKeeps
  <2> QED BY <1>7, <1>10, <2>3, CoversMore
<1>14. Older(disk'.log, nextId)
  BY <1>12 DEF DInv, Drawn
<1>15. Promised' \subseteq entry'.graph /\ \A a \in entry'.graph : a < nextId
  BY <1>1, <1>4, <1>10 DEF DInv, Warm, Drawn
<1>16. \A a \in Told' : a \in Told \/ (a < nextId /\ th'[t].pc \notin WritePCs)
  BY <1>8, <1>9, <1>11 DEF WritePCs
<1>17. ASSUME "trim" \notin Faults, NEW a \in refused'
       PROVE  /\ a \notin entry'.graph /\ Lacks(disk'.log, a)
              /\ a \in refused \/ (a \in Int /\ a >= th[t].base)
  <2>1. a \in refused \/ a \in Ids(th[t].base, Len(th[t].batch))
    <3>1. th[t].base + 0 = th[t].base /\ Len(th[t].batch) - 0 = Len(th[t].batch)
      BY <1>3
    <3> QED BY <1>1, <1>17, <3>1 DEF Answer
  <2>2. CASE a \in refused
    BY <1>1, <1>12, <1>17, <2>2 DEF DInv, Unlogged, Absent
  <2>3. CASE a \in Ids(th[t].base, Len(th[t].batch))
    <3>1. \A i \in DOMAIN disk'.log : disk'.log[i].id \in Nat /\ disk'.log[i].id < th[t].base
      BY <1>3, <1>4, <1>7, LogType DEF Older
    <3>2. Lacks(disk'.log, a)
      BY <1>3, <1>11, <2>3, <3>1 DEF Lacks
    <3>3. a \notin entry'.graph
      BY <1>1, <1>3, <1>4, <1>11, <2>3
    <3> QED BY <1>11, <2>3, <3>2, <3>3
  <2> QED BY <2>1, <2>2, <2>3
<1>18. entry'.walSeq \in Nat /\ th[t].first <= entry'.walSeq
       /\ Below(disk'.log, entry'.walSeq) /\ entry'.walBytes = Len(disk'.log)
  BY <1>1, <1>3, <1>4, <1>7
<1> QED BY <1>1, <1>2, <1>4, <1>7, <1>8, <1>9, <1>12, <1>13, <1>14, <1>15, <1>16, <1>17, <1>18, WriterStep
        DEF WritePCs

\* An append cut short leaves the log longer by some of its records.
LEMMA PartialGrows ==
  ASSUME IInv, DInv, NEW t \in Threads, th[t].pc \in {"append", "reappend"},
         NEW recs, NEW n \in Nat, n <= Len(th[t].batch), Len(recs) = n,
         \A k \in 0..n : Batched(SubSeq(recs, 1, k), th[t].first, th[t].base, th[t].batch, k),
         NEW d \in PartialAppends(disk, recs)
  PROVE  \E k \in 0..Len(th[t].batch) :
           /\ Writing(t) /\ Begun(th[t]) = disk.log
           /\ d \in Disk /\ d.image = disk.image /\ d.fused = 0
           /\ Grown(d.log, disk.log, th[t].first, th[t].base, th[t].batch, k)
<1>1. Writing(t)
  BY DEF Writing, WritePCs
<1>2. /\ disk \in Disk /\ disk.tail = "clean" /\ Begun(th[t]) = disk.log
      /\ th[t].first \in Nat /\ th[t].base \in Nat /\ Len(th[t].batch) \in Nat
  BY <1>1, WriterFacts
<1>3. disk.fused = 0
  BY DEF DInv, LogOK
<1>4. PICK k \in 0..n, tail \in Tails : d = AppendLog(disk, SubSeq(recs, 1, k), tail)
  BY DEF PartialAppends
<1>5. Batched(SubSeq(recs, 1, k), th[t].first, th[t].base, th[t].batch, k) /\ k \in Nat /\ k \in 0..Len(th[t].batch)
  BY <1>2, <1>4
<1>6. d \in Disk /\ d.image = disk.image /\ d.fused = 0
      /\ Grown(d.log, disk.log, th[t].first, th[t].base, th[t].batch, k)
  BY <1>2, <1>3, <1>4, <1>5, AppendGrows
<1> QED BY <1>1, <1>2, <1>5, <1>6

LEMMA AppendCutShort ==
  ASSUME IInv, DInv, NEW t \in Threads, th[t].pc = "append",
         NEW d \in PartialAppends(disk, RecordsOf(th[t].first, th[t].base, th[t].batch))
  PROVE  \E k \in 0..Len(th[t].batch) :
           /\ Writing(t) /\ Begun(th[t]) = disk.log
           /\ d \in Disk /\ d.image = disk.image /\ d.fused = 0
           /\ Grown(d.log, disk.log, th[t].first, th[t].base, th[t].batch, k)
<1> DEFINE recs == RecordsOf(th[t].first, th[t].base, th[t].batch)
<1>1. /\ th[t].first \in Nat /\ th[t].base \in Nat /\ th[t].batch \in Seq(BOOLEAN) /\ Len(th[t].batch) \in Nat
  BY SnapType, WriterType DEF IInv, Thread
<1>2. \A k \in 0..Len(th[t].batch) : Batched(SubSeq(recs, 1, k), th[t].first, th[t].base, th[t].batch, k)
  BY <1>1, RecordsBatched
<1>3. Len(recs) = Len(th[t].batch)
  BY <1>1 DEF RecordsOf
<1>4. Len(th[t].batch) <= Len(th[t].batch)
  BY <1>1
<1> HIDE DEF recs
<1>5. d \in PartialAppends(disk, recs)
  BY DEF recs
<1> QED BY <1>1, <1>2, <1>3, <1>4, <1>5, PartialGrows

\* A failed append: nothing is left of it, or some of its records.
LEMMA AppendFailsKeeps ==
  ASSUME Sound, IInv, DInv, NEW t \in Threads, AppendFails(t)
  PROVE  DInv'
<1>1. th[t].pc = "append" /\ Goto(t, "retrim") /\ UNCHANGED <<entry, nextId, acked, refused>>
      /\ \/ disk' = disk
         \/ "leak" \in Faults /\ disk' \in PartialAppends(disk, RecordsOf(th[t].first, th[t].base, th[t].batch))
  BY DEF AppendFails, At, Fault
<1>2. Writing(t)
  BY <1>1 DEF Writing, WritePCs
<1>3. /\ WriterIs(th[t]) /\ disk \in Disk /\ disk.log \in Seq(Record) /\ disk.tail = "clean"
      /\ th[t].base \in Nat /\ th[t].first \in Nat /\ th[t].len \in Nat
      /\ Len(th[t].batch) \in Nat /\ Begun(th[t]) = disk.log
  BY <1>1, <1>2, WriterFacts
<1>4. /\ entry.slot = "Hot" /\ nextId = th[t].base + Len(th[t].batch) /\ disk.image.wm < th[t].first
      /\ th[t].cont = "idle" /\ Len(th[t].batch) > 0 /\ th[t].len = Len(disk.log)
      /\ Below(disk.log, th[t].first) /\ Older(disk.log, th[t].base)
      /\ entry.walSeq = th[t].first /\ entry.walBytes = th[t].len
      /\ \A a \in entry.graph : a < th[t].base
  BY <1>1, <1>3 DEF WriterIs
<1>5. disk.fused = 0 /\ Sorted(disk.log)
  BY DEF DInv, LogOK
<1>6. PICK k \in 0..Len(th[t].batch) :
        /\ disk' \in Disk /\ disk'.image = disk.image /\ disk'.fused = 0
        /\ Grown(disk'.log, disk.log, th[t].first, th[t].base, th[t].batch, k)
        /\ (disk'.tail = "clean" /\ disk'.log = disk.log) \/ "leak" \in Faults
  <2>1. CASE disk' = disk
    <3>1. Grown(disk.log, disk.log, th[t].first, th[t].base, th[t].batch, 0)
      <4>1. Len(disk.log) \in Nat
        BY <1>3, LogType
      <4> QED BY <4>1 DEF Grown
    <3>2. 0 \in 0..Len(th[t].batch)
      BY <1>3
    <3> QED BY <1>3, <1>5, <2>1, <3>1, <3>2
  <2>2. CASE disk' # disk
    BY <1>1, <2>2, AppendCutShort
  <2> QED BY <2>1, <2>2
<1>7. disk'.log \in Seq(Record) /\ k \in Nat /\ k <= Len(th[t].batch)
  BY <1>3, <1>6 DEF Disk
<1>8. /\ Sorted(disk'.log)
      /\ \A b \in Int : Older(disk.log, b) /\ th[t].base + k <= b => Older(disk'.log, b)
      /\ \A a : Lacks(disk.log, a) /\ a \notin Ids(th[t].base, k) => Lacks(disk'.log, a)
      /\ \A s, S : Covers(disk.log, s, S) => Covers(disk'.log, s, S)
      /\ \A s : Apart(disk.log, s) /\ (\A a \in s.ops : a < th[t].base) => Apart(disk'.log, s)
  BY <1>3, <1>4, <1>5, <1>6, <1>7, GrownKeeps
<1>9. Len(disk.log) <= Len(disk'.log) /\ SubSeq(disk'.log, 1, Len(disk.log)) = disk.log
  BY <1>3, <1>6, <1>7, GrownFrom
<1>10. /\ Others(t) /\ th'[t].pc = "retrim"
       /\ th'[t].cont = th[t].cont /\ th'[t].batch = th[t].batch /\ th'[t].base = th[t].base
       /\ th'[t].first = th[t].first /\ th'[t].len = th[t].len /\ th'[t].landed = th[t].landed
       /\ th'[t].snap = th[t].snap
  BY <1>1, GotoSays
<1>11. Promised' \subseteq Promised /\ Told' \subseteq Told
  BY <1>1, <1>10, SamePromises
<1>12. Begun(th[t])' = disk.log
  BY <1>4, <1>9, <1>10 DEF Begun
<1>13. WriterIs(th[t])'
  <2>1. \E j \in 0..Len(th'[t].batch) :
          Grown(disk'.log, Begun(th[t])', th'[t].first, th'[t].base, th'[t].batch, j)
    BY <1>6, <1>10, <1>12
  <2>2. "leak" \notin Faults => Len(disk'.log) = th[t].len
    BY <1>4, <1>6
  <2> QED BY <1>1, <1>4, <1>6, <1>9, <1>10, <1>12, <2>1, <2>2 DEF WriterIs
<1>14. Older(disk'.log, nextId)
  <2>1. Older(disk.log, nextId)
    BY DEF DInv, Drawn
  <2>2. nextId \in Int /\ th[t].base + k <= nextId
    BY <1>3, <1>4, <1>7
  <2> QED BY <1>8, <2>1, <2>2
<1>15. \A s : s.wm \in Nat /\ s.wm < th[t].first /\ Covers(disk.log, s, Promised) => Covers(disk'.log, s, Promised')
  BY <1>8, <1>11, CoversMore
<1>16. Promised' \subseteq entry'.graph /\ \A a \in entry'.graph : a < nextId
  BY <1>1, <1>4, <1>11 DEF DInv, Warm, Drawn
<1>17. "trim" \notin Faults =>
           /\ th'[t].cont # "write"
           /\ \A a \in refused' : a \notin entry'.graph /\ Lacks(disk'.log, a) /\ a \in refused
  <2> SUFFICES ASSUME "trim" \notin Faults, NEW a \in refused
               PROVE  a \notin entry'.graph /\ Lacks(disk'.log, a)
    BY <1>1, <1>4, <1>10
  <2>1. a \notin Ids(th[t].base, k)
    BY <1>2, <1>3, ToldBefore DEF Ids
  <2> QED BY <1>1, <1>8, <2>1 DEF DInv, Unlogged, Absent
<1>18. entry'.walSeq \in Nat /\ th[t].first <= entry'.walSeq
  BY <1>1, <1>3, <1>4
<1> QED BY <1>1, <1>2, <1>4, <1>6, <1>8, <1>10, <1>11, <1>13, <1>14, <1>15, <1>16, <1>17, <1>18, WriterStep
        DEF WritePCs

\* The append that succeeds.
LEMMA AppendOkKeeps ==
  ASSUME Sound, IInv, DInv, NEW t \in Threads, AppendOk(t)
  PROVE  DInv'
<1> DEFINE recs == RecordsOf(th[t].first, th[t].base, th[t].batch)
           n == Len(th[t].batch)
<1>1. th[t].pc = "append" /\ Goto(t, "operate") /\ UNCHANGED <<nextId, acked, refused>>
      /\ disk' = AppendLog(disk, recs, "clean")
      /\ entry' = [entry EXCEPT !.walBytes = @ + n, !.walSeq = @ + n]
  BY DEF AppendOk, At, history
<1>2. Writing(t)
  BY <1>1 DEF Writing, WritePCs
<1>3. /\ WriterIs(th[t]) /\ disk \in Disk /\ entry \in Entry /\ disk.log \in Seq(Record) /\ disk.tail = "clean"
      /\ th[t].base \in Nat /\ th[t].first \in Nat /\ th[t].len \in Nat
      /\ th[t].batch \in Seq(BOOLEAN) /\ n \in Nat /\ Begun(th[t]) = disk.log
  BY <1>1, <1>2, WriterFacts
<1>4. /\ entry.slot = "Hot" /\ nextId = th[t].base + n /\ disk.image.wm < th[t].first
      /\ th[t].cont = "idle" /\ n > 0 /\ th[t].len = Len(disk.log)
      /\ Below(disk.log, th[t].first) /\ Older(disk.log, th[t].base)
      /\ entry.walSeq = th[t].first /\ entry.walBytes = th[t].len
      /\ \A a \in entry.graph : a < th[t].base
  BY <1>1, <1>3 DEF WriterIs
<1>5. disk.fused = 0 /\ Sorted(disk.log)
  BY DEF DInv, LogOK
<1>6. Batched(recs, th[t].first, th[t].base, th[t].batch, n)
  <2>1. 0 \in 0..n
    BY <1>3
  <2> QED BY <1>3, <2>1, RecordsBatched
<1>7. entry'.slot = "Hot" /\ entry'.gen = entry.gen /\ entry'.graph = entry.graph
      /\ entry'.walSeq = th[t].first + n /\ entry'.walBytes = th[t].len + n
  BY <1>1, <1>3, <1>4 DEF Entry
<1> HIDE DEF recs
<1>8. /\ disk' \in Disk /\ disk'.image = disk.image /\ disk'.fused = 0 /\ disk'.tail = "clean"
      /\ Grown(disk'.log, disk.log, th[t].first, th[t].base, th[t].batch, n)
  <2>1. "clean" \in Tails
    BY DEF Tails
  <2> QED BY <1>1, <1>3, <1>5, <1>6, <2>1, AppendGrows
<1>9. disk'.log \in Seq(Record)
  BY <1>8 DEF Disk
<1>10. /\ Sorted(disk'.log) /\ Below(disk'.log, th[t].first + n)
       /\ \A b \in Int : Older(disk.log, b) /\ th[t].base + n <= b => Older(disk'.log, b)
       /\ \A a : Lacks(disk.log, a) /\ a \notin Ids(th[t].base, n) => Lacks(disk'.log, a)
       /\ \A s, S : Covers(disk.log, s, S) => Covers(disk'.log, s, S)
       /\ \A s : Apart(disk.log, s) /\ (\A a \in s.ops : a < th[t].base) => Apart(disk'.log, s)
  BY <1>3, <1>4, <1>5, <1>8, <1>9, GrownKeeps
<1>11. Len(disk.log) <= Len(disk'.log) /\ SubSeq(disk'.log, 1, Len(disk.log)) = disk.log
  BY <1>3, <1>8, <1>9, GrownFrom
<1>12. /\ Others(t) /\ th'[t].pc = "operate"
       /\ th'[t].cont = th[t].cont /\ th'[t].batch = th[t].batch /\ th'[t].base = th[t].base
       /\ th'[t].first = th[t].first /\ th'[t].len = th[t].len /\ th'[t].landed = th[t].landed
       /\ th'[t].snap = th[t].snap
  BY <1>1, GotoSays
<1>13. Promised' \subseteq Promised /\ Told' \subseteq Told
  BY <1>1, <1>12, SamePromises
<1>14. Begun(th[t])' = disk.log
  BY <1>4, <1>11, <1>12 DEF Begun
<1>15. WriterIs(th[t])'
  BY <1>1, <1>4, <1>7, <1>8, <1>11, <1>12, <1>14 DEF WriterIs
<1>16. Older(disk'.log, nextId)
  <2>1. Older(disk.log, nextId)
    BY DEF DInv, Drawn
  <2>2. nextId \in Int /\ th[t].base + n <= nextId
    BY <1>3, <1>4
  <2> QED BY <1>10, <2>1, <2>2
<1>17. \A s : s.wm \in Nat /\ s.wm < th[t].first /\ Covers(disk.log, s, Promised) => Covers(disk'.log, s, Promised')
  BY <1>10, <1>13, CoversMore
<1>18. Promised' \subseteq entry'.graph /\ \A a \in entry'.graph : a < nextId
  BY <1>4, <1>7, <1>13 DEF DInv, Warm, Drawn
<1>19. "trim" \notin Faults =>
           /\ th'[t].cont # "write"
           /\ \A a \in refused' : a \notin entry'.graph /\ Lacks(disk'.log, a) /\ a \in refused
  <2> SUFFICES ASSUME "trim" \notin Faults, NEW a \in refused
               PROVE  a \notin entry'.graph /\ Lacks(disk'.log, a)
    BY <1>1, <1>4, <1>12
  <2>1. a \notin Ids(th[t].base, n)
    BY <1>2, <1>3, ToldBefore DEF Ids
  <2> QED BY <1>7, <1>10, <2>1 DEF DInv, Unlogged, Absent
<1>20. entry'.walSeq \in Nat /\ th[t].first <= entry'.walSeq
  BY <1>3, <1>7
<1> HIDE DEF n
<1> QED BY <1>1, <1>2, <1>7, <1>8, <1>10, <1>12, <1>13, <1>15, <1>16, <1>17, <1>18, <1>19, <1>20, WriterStep
        DEF WritePCs

\* The batch is applied: in full and answered, or as far as the graph accepted it.
LEMMA OperateKeeps ==
  ASSUME Sound, IInv, DInv, NEW t \in Threads, Operate(t)
  PROVE  DInv'
<1> DEFINE n == Landed(th[t].batch)
<1>1. /\ th[t].pc = "operate" /\ UNCHANGED <<disk, nextId>>
      /\ entry' = [entry EXCEPT !.graph = @ \cup Ids(th[t].base, n), !.rev = Revised(n)]
      /\ IF MustTrim(th[t], n)
         THEN th' = [th EXCEPT ![t].pc = "trim", ![t].landed = n] /\ UNCHANGED <<acked, refused>>
         ELSE Answer(t, n, FALSE)
  BY DEF Operate, At
<1>2. /\ Writing(t)
      /\ Grown(disk.log, Begun(th[t]), th[t].first, th[t].base, th[t].batch, Len(th[t].batch))
      /\ Sorted(disk.log) /\ Below(disk.log, entry.walSeq) /\ entry.walBytes = Len(disk.log)
      /\ \A wm \in Nat : \A k \in 0..n :
           wm < th[t].first => \A a \in Ids(th[t].base, k) : Replays(disk.log, a, wm)
  BY <1>1, FullLog
<1>3. /\ WriterIs(th[t]) /\ disk \in Disk /\ entry \in Entry /\ disk.tail = "clean"
      /\ th[t].base \in Nat /\ th[t].first \in Nat /\ th[t].len \in Nat /\ th[t] \in Thread
      /\ th[t].batch \in Seq(BOOLEAN) /\ Len(th[t].batch) \in Nat /\ th \in [Threads -> Thread]
  BY <1>1, <1>2, WriterFacts
<1>4. n \in Nat /\ n <= Len(th[t].batch)
  BY <1>3, LandedType
<1> HIDE DEF n
<1>5. /\ entry.slot = "Hot" /\ nextId = th[t].base + Len(th[t].batch) /\ th[t].cont = "idle"
      /\ entry.walSeq = th[t].first + Len(th[t].batch) /\ entry.walBytes = th[t].len + Len(th[t].batch)
      /\ \A a \in entry.graph : a < th[t].base
  BY <1>1, <1>3 DEF WriterIs
<1>6. /\ entry'.slot = "Hot" /\ entry'.gen = entry.gen /\ entry'.walSeq = entry.walSeq
      /\ entry'.walBytes = entry.walBytes /\ entry'.graph = entry.graph \cup Ids(th[t].base, n)
  BY <1>1, <1>3, <1>5 DEF Entry
<1>7. disk.fused = 0 /\ Older(disk.log, nextId)
  BY DEF DInv, LogOK, Drawn
<1>8. \A a \in entry'.graph : a < nextId /\ a < th[t].base + n
  <2>1. entry.graph \in SUBSET Nat
    BY <1>3 DEF Entry
  <2> QED BY <1>3, <1>4, <1>5, <1>6, <2>1 DEF Ids
<1>9. entry'.walSeq \in Nat /\ th[t].first <= entry'.walSeq
  BY <1>3, <1>5, <1>6
<1>10. \A a \in refused : a \notin entry'.graph \/ a \in entry.graph
  BY <1>2, <1>3, <1>6, ToldBefore DEF Ids
<1>11. \A s : Apart(disk.log, s) /\ (\A a \in s.ops : a < th[t].base) => Apart(disk'.log, s)
  BY <1>1
<1>12. CASE MustTrim(th[t], n)
  <2> DEFINE w == [th[t] EXCEPT !.pc = "trim", !.landed = n]
  <2>1. UNCHANGED <<acked, refused>> /\ th' = [th EXCEPT ![t] = w]
    BY <1>1, <1>3, <1>12
  <2>2. w.pc = "trim" /\ w.landed = n /\ w.snap = th[t].snap /\ w.base = th[t].base /\ w.cont = th[t].cont
        /\ w.batch = th[t].batch /\ w.first = th[t].first /\ w.len = th[t].len
    BY <1>3 DEF Thread
  <2> HIDE DEF w
  <2>3. Others(t) /\ th'[t] = w
    BY <1>3, <2>1 DEF Others
  <2>4. Promised' \subseteq Promised /\ Told' \subseteq Told
    BY <1>5, <2>1, <2>2, <2>3, SamePromises
  <2>5. Begun(th[t])' = Begun(th[t])
    BY <1>1, <2>2, <2>3 DEF Begun
  <2>6. WriterIs(th[t])'
    <3>1. Ids(th[t].base, n) \subseteq entry'.graph
      BY <1>6
    <3>2. n = Landed(th[t].batch)
      BY DEF n
    <3> QED BY <1>1, <1>2, <1>3, <1>5, <1>6, <1>8, <2>2, <2>3, <2>5, <3>1, <3>2 DEF WriterIs
  <2>7. \A s : s.wm \in Nat /\ s.wm < th[t].first /\ Covers(disk.log, s, Promised) => Covers(disk'.log, s, Promised')
    BY <1>1, <2>4, CoversMore
  <2>8. Promised' \subseteq entry'.graph
    BY <1>5, <1>6, <2>4 DEF DInv, Warm
  <2>9. "trim" \notin Faults =>
           /\ th'[t].cont # "write"
           /\ \A a \in refused' : a \notin entry'.graph /\ Lacks(disk'.log, a) /\ a \in refused
    BY <1>1, <1>5, <1>10, <2>1, <2>2, <2>3 DEF DInv, Unlogged, Absent
  <2> QED BY <1>1, <1>2, <1>3, <1>6, <1>7, <1>8, <1>9, <1>11, <2>2, <2>3, <2>4, <2>6, <2>7, <2>8, <2>9, WriterStep
        DEF WritePCs
<1>13. CASE ~MustTrim(th[t], n)
  <2>1. Answer(t, n, FALSE)
    BY <1>1, <1>13
  <2>2. n = Len(th[t].batch)
    BY <1>3, <1>4, <1>13 DEF MustTrim, Sound
  <2>3. /\ Others(t) /\ th'[t] = Idle
        /\ \A a \in Promised' : a \in Promised \/ a \in Ids(th[t].base, n)
        /\ \A a \in Told' : a \in Told \/ a \in Ids(th[t].base, Len(th[t].batch))
        /\ \A a \in refused' : a \in refused \/ (a >= th[t].base + n /\ a < th[t].base + Len(th[t].batch))
    BY <1>4, <2>1, AnswerSays
  <2>4. Idle.pc = "idle" /\ Idle.cont = "idle" /\ Idle.snap = NoSnapshot
    BY DEF Idle
  <2>5. refused' = refused
    <3>1. Ids(th[t].base + n, Len(th[t].batch) - n) = {}
      BY <1>3, <1>4, <2>2 DEF Ids
    <3> QED BY <2>1, <3>1 DEF Answer
  <2>6. \A a \in Told' : a \in Told \/ (a < nextId /\ th'[t].pc \notin WritePCs)
    <3>1. \A a \in Ids(th[t].base, Len(th[t].batch)) : a < nextId
      BY <1>3, <1>5 DEF Ids
    <3> QED BY <2>3, <2>4, <3>1 DEF WritePCs
  <2>7. \A s : s.wm \in Nat /\ s.wm < th[t].first /\ Covers(disk.log, s, Promised) => Covers(disk'.log, s, Promised')
    <3>1. n \in 0..n
      BY <1>4
    <3> QED BY <1>1, <1>2, <2>3, <3>1 DEF Covers
  <2>8. Promised' \subseteq entry'.graph
    BY <1>5, <1>6, <2>3 DEF DInv, Warm
  <2>9. "trim" \notin Faults =>
           /\ th'[t].cont # "write"
           /\ \A a \in refused' : a \notin entry'.graph /\ Lacks(disk'.log, a) /\ a \in refused
    BY <1>1, <1>10, <2>3, <2>4, <2>5 DEF DInv, Unlogged, Absent
  <2> QED BY <1>1, <1>2, <1>3, <1>6, <1>7, <1>8, <1>9, <1>11, <2>3, <2>4, <2>6, <2>7, <2>8, <2>9, WriterStep
        DEF WritePCs
<1> QED BY <1>12, <1>13

\* The log is rewound to before the batch.
LEMMA TrimOkKeeps ==
  ASSUME Sound, IInv, DInv, NEW t \in Threads, TrimOk(t)
  PROVE  DInv'
<1>1. th[t].pc = "trim" /\ Goto(t, "reappend") /\ UNCHANGED <<entry, nextId, acked, refused>>
      /\ disk' = TruncateTo(disk, th[t].len)
  BY DEF TrimOk, At, history
<1>2. /\ Writing(t)
      /\ Grown(disk.log, Begun(th[t]), th[t].first, th[t].base, th[t].batch, Len(th[t].batch))
      /\ Sorted(disk.log)
  BY <1>1, FullLog
<1>3. /\ WriterIs(th[t]) /\ disk \in Disk /\ entry \in Entry /\ disk.log \in Seq(Record)
      /\ th[t].base \in Nat /\ th[t].first \in Nat /\ th[t].len \in Nat /\ Len(th[t].batch) \in Nat
      /\ Begun(th[t]) \in Seq(Record) /\ Len(Begun(th[t])) = th[t].len /\ Begins(Begun(th[t]), disk.log)
  BY <1>2, WriterFacts
<1>4. /\ entry.slot = "Hot" /\ nextId = th[t].base + Len(th[t].batch) /\ disk.image.wm < th[t].first
      /\ th[t].cont = "idle" /\ th[t].len <= Len(disk.log) /\ Len(th[t].batch) > 0
      /\ Below(Begun(th[t]), th[t].first) /\ Older(Begun(th[t]), th[t].base)
      /\ entry.walSeq = th[t].first + Len(th[t].batch) /\ entry.walBytes = th[t].len + Len(th[t].batch)
      /\ th[t].landed = Landed(th[t].batch) /\ Ids(th[t].base, th[t].landed) \subseteq entry.graph
      /\ \A a \in entry.graph : a < th[t].base + th[t].landed
  BY <1>1, <1>3 DEF WriterIs
<1>5. disk.fused = 0
  BY DEF DInv, LogOK
<1>6. /\ disk'.image = disk.image /\ disk'.fused = 0 /\ disk'.tail = "clean"
      /\ disk'.log = Begun(th[t])
  BY <1>1, <1>3, <1>4, <1>5, TruncateBegins DEF Begun
<1>7. /\ Others(t) /\ th'[t].pc = "reappend"
      /\ th'[t].cont = th[t].cont /\ th'[t].batch = th[t].batch /\ th'[t].base = th[t].base
      /\ th'[t].first = th[t].first /\ th'[t].len = th[t].len /\ th'[t].landed = th[t].landed
      /\ th'[t].snap = th[t].snap
  BY <1>1, GotoSays
<1>8. Promised' \subseteq Promised /\ Told' \subseteq Told
  BY <1>1, <1>7, SamePromises
<1>9. /\ Sorted(disk'.log) /\ \A s : Apart(disk.log, s) => Apart(disk'.log, s)
      /\ \A b : Older(disk.log, b) => Older(disk'.log, b)
      /\ \A a : Lacks(disk.log, a) => Lacks(disk'.log, a)
  BY <1>2, <1>3, <1>6, BeginsKeeps
<1>10. ASSUME NEW s, Covers(disk.log, s, Promised) PROVE Covers(disk'.log, s, Promised')
  <2>1. \A a \in Promised : a \in Int /\ a < th[t].base
    BY <1>2, ToldBefore
  <2>2. Covers(Begun(th[t]), s, Promised)
    BY <1>2, <1>3, <1>10, <2>1, TrimKeeps
  <2> QED BY <1>6, <1>8, <2>2, CoversMore
<1>11. Begun(th[t])' = disk'.log
  <2>1. SubSeq(Begun(th[t]), 1, Len(Begun(th[t]))) = Begun(th[t])
    <3>1. Len(Begun(th[t])) <= Len(Begun(th[t]))
      BY <1>3
    <3> QED BY <1>3, <3>1, SubSeqBegins
  <2>2. SubSeq(disk'.log, 1, th'[t].len) = disk'.log
    BY <1>3, <1>6, <1>7, <2>1
  <2> QED BY <2>2 DEF Begun
<1>12. WriterIs(th[t])'
  <2>1. Len(disk'.log) = th[t].len /\ th[t].len <= Len(disk'.log)
    BY <1>3, <1>6
  <2>2. Below(disk'.log, th[t].first) /\ Older(disk'.log, th[t].base)
    BY <1>4, <1>6
  <2> QED BY <1>1, <1>4, <1>6, <1>7, <1>11, <2>1, <2>2 DEF WriterIs
<1>13. Older(disk'.log, nextId)
  BY <1>9 DEF DInv, Drawn
<1>14. Promised' \subseteq entry'.graph /\ \A a \in entry'.graph : a < nextId
  BY <1>1, <1>4, <1>8 DEF DInv, Warm, Drawn
<1>15. "trim" \notin Faults =>
           /\ th'[t].cont # "write"
           /\ \A a \in refused' : a \notin entry'.graph /\ Lacks(disk'.log, a) /\ a \in refused
  BY <1>1, <1>4, <1>7, <1>9 DEF DInv, Unlogged, Absent
<1>16. entry'.walSeq \in Nat /\ th[t].first <= entry'.walSeq
  BY <1>1, <1>3, <1>4
<1> QED BY <1>1, <1>2, <1>4, <1>6, <1>7, <1>8, <1>9, <1>10, <1>12, <1>13, <1>14, <1>15, <1>16, WriterStep
        DEF WritePCs

\* A failed trim leaves the whole batch in the log; the applied part is promised.
LEMMA TrimFailsKeeps ==
  ASSUME Sound, IInv, DInv, NEW t \in Threads, TrimFails(t)
  PROVE  DInv'
<1> DEFINE n == th[t].landed
           w == [th[t] EXCEPT !.pc = "flush", !.cont = "write"]
<1>1. th[t].pc = "trim" /\ UNCHANGED <<entry, disk, nextId, acked, refused>>
      /\ th' = [th EXCEPT ![t].pc = "flush", ![t].cont = "write"]
  BY DEF TrimFails, At
<1>2. /\ Writing(t) /\ Sorted(disk.log) /\ Below(disk.log, entry.walSeq) /\ entry.walBytes = Len(disk.log)
      /\ \A wm \in Nat : \A k \in 0..Landed(th[t].batch) :
           wm < th[t].first => \A a \in Ids(th[t].base, k) : Replays(disk.log, a, wm)
  BY <1>1, FullLog
<1>3. /\ WriterIs(th[t]) /\ disk \in Disk /\ entry \in Entry /\ disk.tail = "clean"
      /\ th[t].base \in Nat /\ th[t].first \in Nat /\ th[t].len \in Nat /\ th[t] \in Thread
      /\ Len(th[t].batch) \in Nat /\ th \in [Threads -> Thread] /\ n \in Nat
  BY <1>1, <1>2, WriterFacts
<1>4. /\ entry.slot = "Hot" /\ nextId = th[t].base + Len(th[t].batch) /\ n = Landed(th[t].batch)
      /\ entry.walSeq = th[t].first + Len(th[t].batch) /\ Ids(th[t].base, n) \subseteq entry.graph
      /\ th[t].len <= Len(disk.log)
  BY <1>1, <1>3 DEF WriterIs
<1>5. disk.fused = 0 /\ Older(disk.log, nextId) /\ \A a \in entry.graph : a < nextId
  BY DEF DInv, LogOK, Drawn
<1>6. "trim" \in Faults
  BY <1>4 DEF TrimFails, Truncatable, Fault
<1>7. w.pc = "flush" /\ w.cont = "write" /\ w.landed = n /\ w.snap = th[t].snap /\ w.base = th[t].base
      /\ w.batch = th[t].batch
  BY <1>3 DEF Thread
<1>8. Others(t) /\ th'[t] = w
  BY <1>1, <1>3 DEF Others
<1> HIDE DEF n, w
<1>9. \A a \in Promised' : a \in Promised \/ a \in Ids(th[t].base, n)
  BY <1>1, <1>7, <1>8 DEF Promised, Others
<1>10. \A a \in Told' : a \in Told \/ (a < nextId /\ th'[t].pc \notin WritePCs)
  <2>1. \A a \in Ids(th[t].base, Len(th[t].batch)) : a < nextId
    BY <1>3, <1>4 DEF Ids
  <2>2. \A a \in Told' : a \in Told \/ a \in Ids(th[t].base, Len(th[t].batch))
    BY <1>1, <1>7, <1>8 DEF Told, Others
  <2> QED BY <1>7, <1>8, <2>1, <2>2 DEF WritePCs
<1>11. \A s : s.wm \in Nat /\ s.wm < th[t].first /\ Covers(disk.log, s, Promised) => Covers(disk'.log, s, Promised')
  <2>1. n \in 0..Landed(th[t].batch)
    BY <1>3, <1>4
  <2> QED BY <1>1, <1>2, <1>9, <2>1 DEF Covers
<1>12. Promised' \subseteq entry'.graph
  BY <1>1, <1>4, <1>9 DEF DInv, Warm
<1>13. entry'.walSeq \in Nat /\ th[t].first <= entry'.walSeq
  BY <1>1, <1>3, <1>4
<1> QED BY <1>1, <1>2, <1>3, <1>4, <1>5, <1>6, <1>7, <1>8, <1>10, <1>11, <1>12, <1>13, WriterStep DEF WritePCs

\* The applied prefix is logged again.
LEMMA ReappendOkKeeps ==
  ASSUME Sound, IInv, DInv, NEW t \in Threads, ReappendOk(t)
  PROVE  DInv'
<1> DEFINE n == th[t].landed
           recs == Prefix(th[t])
<1>1. th[t].pc = "reappend" /\ Answer(t, n, FALSE) /\ nextId' = nextId
      /\ disk' = AppendLog(disk, recs, "clean")
      /\ entry' = [entry EXCEPT !.walBytes = th[t].len + n, !.walSeq = th[t].first + n]
  BY DEF ReappendOk, At
<1>2. Writing(t)
  BY <1>1 DEF Writing, WritePCs
<1>3. /\ WriterIs(th[t]) /\ disk \in Disk /\ entry \in Entry /\ disk.log \in Seq(Record) /\ disk.tail = "clean"
      /\ th[t].base \in Nat /\ th[t].first \in Nat /\ th[t].len \in Nat /\ n \in Nat
      /\ th[t].batch \in Seq(BOOLEAN) /\ Len(th[t].batch) \in Nat /\ n <= Len(th[t].batch)
      /\ Begun(th[t]) = disk.log
  BY <1>1, <1>2, WriterFacts
<1>4. /\ entry.slot = "Hot" /\ nextId = th[t].base + Len(th[t].batch) /\ disk.image.wm < th[t].first
      /\ n = Landed(th[t].batch) /\ th[t].len = Len(disk.log)
      /\ Below(disk.log, th[t].first) /\ Older(disk.log, th[t].base)
      /\ Ids(th[t].base, n) \subseteq entry.graph /\ \A a \in entry.graph : a < th[t].base + n
  BY <1>1, <1>3 DEF WriterIs
<1>5. disk.fused = 0 /\ Sorted(disk.log)
  BY DEF DInv, LogOK
<1>6. Batched(recs, th[t].first, th[t].base, th[t].batch, n)
  <2>1. n \in 0..Len(th[t].batch)
    BY <1>3
  <2> QED BY <1>3, <2>1, RecordsBatched DEF Prefix
<1>7. entry'.slot = "Hot" /\ entry'.gen = entry.gen /\ entry'.graph = entry.graph
      /\ entry'.walSeq = th[t].first + n /\ entry'.walBytes = th[t].len + n
  BY <1>1, <1>3, <1>4 DEF Entry
<1> HIDE DEF recs, n
<1>8. /\ disk' \in Disk /\ disk'.image = disk.image /\ disk'.fused = 0 /\ disk'.tail = "clean"
      /\ Grown(disk'.log, disk.log, th[t].first, th[t].base, th[t].batch, n)
  <2>1. "clean" \in Tails
    BY DEF Tails
  <2> QED BY <1>1, <1>3, <1>5, <1>6, <2>1, AppendGrows
<1>9. disk'.log \in Seq(Record)
  BY <1>8 DEF Disk
<1>10. /\ Sorted(disk'.log) /\ Below(disk'.log, th[t].first + n)
       /\ \A b \in Int : Older(disk.log, b) /\ th[t].base + n <= b => Older(disk'.log, b)
       /\ \A a : Lacks(disk.log, a) /\ a \notin Ids(th[t].base, n) => Lacks(disk'.log, a)
       /\ \A s, S : Covers(disk.log, s, S) => Covers(disk'.log, s, S)
       /\ \A s : Apart(disk.log, s) /\ (\A a \in s.ops : a < th[t].base) => Apart(disk'.log, s)
  BY <1>3, <1>4, <1>5, <1>8, <1>9, GrownKeeps
<1>11. Len(disk'.log) = th[t].len + n
  BY <1>4, <1>8 DEF Grown
<1>12. /\ Others(t) /\ th'[t] = Idle
       /\ \A a \in Promised' : a \in Promised \/ a \in Ids(th[t].base, n)
       /\ \A a \in Told' : a \in Told \/ a \in Ids(th[t].base, Len(th[t].batch))
       /\ \A a \in refused' : a \in refused \/ (a >= th[t].base + n /\ a < th[t].base + Len(th[t].batch))
  BY <1>1, <1>3, AnswerSays
<1>13. Idle.pc = "idle" /\ Idle.cont = "idle" /\ Idle.snap = NoSnapshot
  BY DEF Idle
<1>14. Older(disk'.log, nextId)
  <2>1. Older(disk.log, nextId)
    BY DEF DInv, Drawn
  <2>2. nextId \in Int /\ th[t].base + n <= nextId
    BY <1>3, <1>4
  <2> QED BY <1>10, <2>1, <2>2
<1>15. \A s : s.wm \in Nat /\ s.wm < th[t].first /\ Covers(disk.log, s, Promised) => Covers(disk'.log, s, Promised')
  <2> TAKE s
  <2> HAVE s.wm \in Nat /\ s.wm < th[t].first /\ Covers(disk.log, s, Promised)
  <2>1. \A i \in 1..n : th[t].batch[i] = TRUE
    BY <1>3, <1>4, LandedSays
  <2>2. n \in 0..n
    BY <1>3
  <2>3. \A a \in Ids(th[t].base, n) : Replays(disk'.log, a, s.wm)
    BY <1>3, <1>8, <1>9, <2>1, <2>2, GrownReplays
  <2>4. Covers(disk'.log, s, Promised)
    BY <1>10
  <2> QED BY <1>12, <2>3, <2>4 DEF Covers
<1>16. Promised' \subseteq entry'.graph /\ \A a \in entry'.graph : a < nextId
  BY <1>4, <1>7, <1>12 DEF DInv, Warm, Drawn
<1>17. \A a \in Told' : a \in Told \/ (a < nextId /\ th'[t].pc \notin WritePCs)
  <2>1. \A a \in Ids(th[t].base, Len(th[t].batch)) : a < nextId
    BY <1>3, <1>4 DEF Ids
  <2> QED BY <1>12, <1>13, <2>1 DEF WritePCs
<1>18. ASSUME "trim" \notin Faults, NEW a \in refused'
       PROVE  /\ a \notin entry'.graph /\ Lacks(disk'.log, a)
              /\ a \in refused \/ (a \in Int /\ a >= th[t].base)
  <2>1. CASE a \in refused
    <3>1. a \notin Ids(th[t].base, n)
      BY <1>2, <1>3, <2>1, ToldBefore DEF Ids
    <3> QED BY <1>7, <1>10, <1>18, <2>1, <3>1 DEF DInv, Unlogged, Absent
  <2>2. CASE a \notin refused
    <3>1. a \in Ids(th[t].base + n, Len(th[t].batch) - n)
      BY <1>1, <1>18, <2>2 DEF Answer
    <3>2. a \in Int /\ a >= th[t].base + n /\ a >= th[t].base /\ a \notin Ids(th[t].base, n)
      BY <1>3, <3>1 DEF Ids
    <3>3. a \notin entry'.graph
      BY <1>3, <1>4, <1>7, <3>2
    <3>4. Lacks(disk.log, a)
      <4>1. \A i \in DOMAIN disk.log : disk.log[i].id \in Nat /\ disk.log[i].id < th[t].base
        BY <1>3, <1>4, LogType DEF Older
      <4> QED BY <1>3, <3>2, <4>1 DEF Lacks
    <3> QED BY <1>10, <3>2, <3>3, <3>4
  <2> QED BY <2>1, <2>2
<1>19. entry'.walSeq \in Nat /\ th[t].first <= entry'.walSeq
  BY <1>3, <1>7
<1> QED BY <1>1, <1>2, <1>7, <1>8, <1>10, <1>11, <1>12, <1>13, <1>14, <1>15, <1>16, <1>17, <1>18, <1>19, WriterStep
        DEF WritePCs

\* The graph leaves memory, and no flight of it can be published unless the log still
\* reaches beyond it.
LEMMA LeavesStep ==
  ASSUME IInv, DInv, NEW t \in Threads, SameDisk, nextId' = nextId, Others(t),
         entry'.slot \in {"Cold", "Deleted"}, entry'.graph = {}, entry'.gen \in Nat, entry.gen <= entry'.gen,
         entry'.slot = "Cold" => \/ entry.gen < entry'.gen
                                 \/ \A u \in Threads : InFlight(u) /\ Publishable(th[u].snap)' =>
                                      ~Below(disk.log, th[u].snap.wm + 1) /\ Publishable(th[u].snap),
         \A u \in Threads : u # t => th[u].pc \notin LockPCs,
         th'[t].pc \in {"idle", "unlink"},
         th'[t].cont = "write" => /\ th[t].cont = "write" /\ th'[t].base = th[t].base
                                  /\ th'[t].landed = th[t].landed /\ th'[t].batch = th[t].batch,
         th'[t].snap = th[t].snap \/ th'[t].snap = NoSnapshot,
         acked' = acked, refused' = refused
  PROVE  DInv'
<1> USE DEF SameDisk
<1>0. entry \in Entry /\ th \in [Threads -> Thread] /\ entry.gen \in Nat
  BY DEF IInv, TypeInv, TypeOK, Entry
<1>w. \A u \in Threads : ~Writing(u)' /\ th'[u].pc \notin {"commit", "truncate", "evcommit", "evtruncate", "evcool"}
  BY DEF Others, Writing, WritePCs, LockPCs
<1>e. \A a : Earlier(a) => Earlier(a)'
  BY <1>w DEF Earlier
<1>s. \A u \in Threads : \A a \in th'[u].snap.ops : a \in th[u].snap.ops
  BY NoSnapshotEmpty DEF Others
<1>p. Promised' \subseteq Promised /\ Told' \subseteq Told
  BY SamePromises
<1>1. LogOK'
  BY DEF DInv, LogOK
<1>2. Drawn'
  <2>1. \A a \in disk'.image.ops : Earlier(a)'
    BY <1>e DEF DInv, Drawn
  <2>2. \A a \in Told' : Earlier(a)'
    BY <1>e, <1>p DEF DInv, Drawn
  <2>3. \A u \in Threads : \A a \in th'[u].snap.ops : Earlier(a)'
    BY <1>e, <1>s DEF DInv, Drawn
  <2> QED BY <2>1, <2>2, <2>3 DEF DInv, Drawn
<1>3. Kept'
  BY <1>p, CoversMore DEF DInv, Kept
<1>4. Warm' /\ Writers' /\ Evictions'
  BY <1>w DEF Warm, Writers, Evictions, EvictIs
<1>5. Flights'
  <2> SUFFICES ASSUME NEW u \in Threads, InFlight(u)' PROVE FlightIs(th[u])'
    BY DEF Flights
  <2>1. u # t /\ th'[u] = th[u] /\ InFlight(u)
    BY DEF InFlight, Others
  <2>2. FlightIs(th[u]) /\ th[u].snap.gen \in Nat /\ th[u].snap.gen <= entry.gen
    <3>1. th[u] \in Thread
      BY <1>0
    <3>2. th[u].snap \in Snapshot
      BY <3>1 DEF Thread
    <3> QED BY <2>1, <3>2 DEF DInv, Flights, FlightIs, Snapshot
  <2>3. th[u].snap.gen <= entry'.gen
    BY <1>0, <2>2
  <2>4. ASSUME Publishable(th[u].snap)'
        PROVE  /\ Covers(disk'.log, th[u].snap, Promised') /\ Apart(disk'.log, th[u].snap)
               /\ ~Below(disk'.log, th[u].snap.wm + 1)
    <3>1. entry'.slot = "Cold" /\ th[u].snap.gen = entry'.gen
      BY <2>1, <2>4 DEF Publishable
    <3>2. ~(entry.gen < entry'.gen)
      BY <1>0, <2>2, <3>1
    <3>3. ~Below(disk.log, th[u].snap.wm + 1) /\ Publishable(th[u].snap)
      BY <2>1, <2>4, <3>1, <3>2
    <3>4. Covers(disk.log, th[u].snap, Promised) /\ Apart(disk.log, th[u].snap)
      BY <2>2, <3>3 DEF FlightIs
    <3> QED BY <1>p, <3>3, <3>4, CoversMore
  <2> QED BY <1>w, <2>1, <2>3, <2>4 DEF FlightIs
<1>6. Unlogged'
  <2> SUFFICES ASSUME "trim" \notin Faults
               PROVE  (\A u \in Threads : th'[u].cont # "write") /\ \A a \in refused' : Absent(a)'
    BY DEF Unlogged
  <2>1. \A u \in Threads : th'[u].cont # "write"
    BY DEF DInv, Unlogged, Others
  <2>2. \A a \in refused' : Absent(a)'
    BY <1>s DEF DInv, Unlogged, Absent
  <2> QED BY <2>1, <2>2
<1> QED BY <1>1, <1>2, <1>3, <1>4, <1>5, <1>6 DEF DInv

\* Evictions and the tombstone.
LEMMA CoolKeeps ==
  ASSUME IInv, DInv, NEW t \in Threads, EvictClean(t) \/ EvictCools(t) \/ Delete(t)
  PROVE  DInv'
<1>0. entry \in Entry /\ th \in [Threads -> Thread] /\ entry.gen \in Nat
  BY DEF IInv, TypeInv, TypeOK, Entry
<1>1. UNCHANGED <<disk, nextId, acked, refused>> /\ SameDisk
  BY DEF EvictClean, EvictCools, Delete, history, SameDisk
<1>2. Idle.pc = "idle" /\ Idle.cont = "idle" /\ Idle.snap = NoSnapshot
  BY DEF Idle
<1>3. \A u \in Threads : u # t => th[u].pc \notin LockPCs
  <2>1. CASE lock = Free
    BY <2>1, Unwritten
  <2>2. CASE lock # Free
    <3>1. th[t].pc = "evcool"
      BY <2>2 DEF EvictClean, EvictCools, Delete, At
    <3> QED BY <3>1 DEF IInv, Control, LockHeld, LockPCs
  <2> QED BY <2>1, <2>2
<1>4. CASE EvictClean(t) /\ entry.slot # "Hot"
  <2>1. th[t].pc = "evict" /\ entry' = entry /\ th' = [th EXCEPT ![t] = Idle]
    BY <1>4 DEF EvictClean, At
  <2>2. SameEntry /\ Others(t) /\ th'[t] = Idle
    BY <1>0, <2>1 DEF SameEntry, Others
  <2>3. ~Writing(t) /\ ~InFlight(t)'
    BY <1>2, <2>1, <2>2 DEF Writing, WritePCs, InFlight
  <2>4. Promised' \subseteq Promised /\ Told' \subseteq Told
    BY <1>1, <1>2, <2>2, SamePromises
  <2> QED BY <1>1, <1>2, <2>1, <2>2, <2>3, <2>4, QuietStep DEF WritePCs
<1>5. CASE (EvictClean(t) /\ entry.slot = "Hot") \/ EvictCools(t)
  <2>1. entry' = ColdEntry /\ th' = [th EXCEPT ![t] = Idle]
    BY <1>5 DEF EvictClean, EvictCools
  <2>2. entry'.slot = "Cold" /\ entry'.graph = {} /\ entry'.gen = entry.gen + 1
    BY <1>0, <2>1 DEF ColdEntry, Entry
  <2>3. Others(t) /\ th'[t] = Idle
    BY <1>0, <2>1 DEF Others
  <2>4. entry'.gen \in Nat /\ entry.gen <= entry'.gen /\ entry.gen < entry'.gen
    BY <1>0, <2>2
  <2> QED BY <1>1, <1>2, <1>3, <2>2, <2>3, <2>4, LeavesStep
<1>6. CASE Delete(t)
  <2>1. entry' = [entry EXCEPT !.slot = "Deleted", !.graph = {}] /\ Goto(t, "unlink") /\ th[t].pc = "idle"
    BY <1>6 DEF Delete, At
  <2>2. entry'.slot = "Deleted" /\ entry'.graph = {} /\ entry'.gen = entry.gen
    BY <1>0, <2>1 DEF Entry
  <2>3. /\ Others(t) /\ th'[t].pc = "unlink" /\ th'[t].cont = th[t].cont /\ th'[t].batch = th[t].batch
        /\ th'[t].base = th[t].base /\ th'[t].landed = th[t].landed /\ th'[t].snap = th[t].snap
    BY <2>1, GotoSays
  <2> QED BY <1>0, <1>1, <1>3, <2>2, <2>3, LeavesStep
<1> QED BY <1>4, <1>5, <1>6

\* A panic drops the graph; the batch is in the log, above every flight's watermark.
LEMMA PanicKeeps ==
  ASSUME Sound, IInv, DInv, NEW t \in Threads, OperatePanics(t)
  PROVE  DInv'
<1>1. /\ th[t].pc = "operate" /\ UNCHANGED <<disk, nextId, acked, refused>>
      /\ entry' = [entry EXCEPT !.slot = "Cold", !.graph = {}] /\ th' = [th EXCEPT ![t] = Idle]
  BY DEF OperatePanics, At
<1>2. Idle.pc = "idle" /\ Idle.cont = "idle" /\ Idle.snap = NoSnapshot
  BY DEF Idle
<1>3. /\ Writing(t)
      /\ Grown(disk.log, Begun(th[t]), th[t].first, th[t].base, th[t].batch, Len(th[t].batch))
  BY <1>1, FullLog
<1>4. /\ WriterIs(th[t]) /\ disk.log \in Seq(Record) /\ entry \in Entry /\ th[t].first \in Nat
      /\ Len(th[t].batch) \in Nat /\ th \in [Threads -> Thread]
      /\ Begun(th[t]) \in Seq(Record)
      /\ \A u \in Threads : u # t => th[u].pc \notin LockPCs /\ ~Writing(u)
  BY <1>3, WriterFacts
<1>5. entry.slot = "Hot" /\ Len(th[t].batch) > 0
  BY <1>4 DEF WriterIs
<1>6. entry'.slot = "Cold" /\ entry'.graph = {} /\ entry'.gen = entry.gen /\ entry.gen \in Nat
  BY <1>1, <1>4 DEF Entry
<1>7. Others(t) /\ th'[t] = Idle
  BY <1>1, <1>4 DEF Others
<1>8. SameDisk
  BY <1>1 DEF SameDisk
<1>9. Len(Begun(th[t])) + 1 \in DOMAIN disk.log /\ disk.log[Len(Begun(th[t])) + 1].seq = th[t].first
  <2>1. Len(Begun(th[t])) \in Nat /\ DOMAIN disk.log = 1..Len(disk.log) /\ Len(disk.log) \in Nat
    BY <1>4, LogType
  <2>2. 1 \in 1..Len(th[t].batch) /\ Len(disk.log) = Len(Begun(th[t])) + Len(th[t].batch)
    BY <1>3, <1>4, <1>5 DEF Grown
  <2>3. disk.log[Len(Begun(th[t])) + 1] =
          [seq |-> th[t].first + 1 - 1, id |-> th[t].base + 1 - 1, ok |-> th[t].batch[1]]
    BY <1>3, <2>2 DEF Grown
  <2> QED BY <1>4, <1>5, <2>1, <2>2, <2>3
<1>10. ASSUME NEW u \in Threads, InFlight(u), Publishable(th[u].snap)'
       PROVE  ~Below(disk.log, th[u].snap.wm + 1) /\ Publishable(th[u].snap)
  <2>1. u # t /\ th'[u] = th[u]
    BY <1>1, <1>7, <1>10 DEF InFlight, Others
  <2>2. Publishable(th[u].snap)
    <3>1. \A e \in Threads : th[e].pc # "evcool"
      BY <1>1, <1>4 DEF LockPCs
    <3> QED BY <1>5, <1>6, <1>10, <2>1, <3>1 DEF Publishable
  <2>3. th[u].snap.wm < th[t].first /\ th[u].snap.wm \in Nat
    BY <1>3, <1>5, <1>10, <2>2, SnapType DEF DInv, Flights, FlightIs, IInv
  <2> QED BY <1>4, <1>9, <2>2, <2>3 DEF Below
<1> QED BY <1>1, <1>2, <1>4, <1>6, <1>7, <1>8, <1>10, LeavesStep

-----------------------------------------------------------------------------
(* Publication and reset *)

\* A new image, under the lock, beside the same log.
LEMMA PublishStep ==
  ASSUME IInv, DInv, NEW t \in Threads, th[t].pc \in {"commit", "evcommit"},
         SameEntry, nextId' = nextId, Others(t),
         disk'.log = disk.log, disk'.tail = disk.tail, disk'.fused = disk.fused,
         Covers(disk.log, disk'.image, Promised), Apart(disk.log, disk'.image),
         disk'.image.wm < entry.walSeq,
         \A a \in disk'.image.ops : Earlier(a) /\ ("trim" \notin Faults => a \notin refused),
         Promised' \subseteq Promised, Told' \subseteq Told,
         "trim" \notin Faults => th'[t].cont # "write" /\ refused' = refused,
         th'[t].snap = th[t].snap \/ th'[t].snap = NoSnapshot,
         \/ th'[t].pc \in {"idle", "evict"}
         \/ /\ th[t].pc = "commit" /\ th'[t].pc = "truncate" /\ th'[t].snap = th[t].snap
            /\ disk'.image.ops = th[t].snap.ops /\ disk'.image.wm = th[t].snap.wm
            /\ entry.walSeq = th[t].snap.wm + 1
         \/ /\ th[t].pc = "evcommit" /\ th'[t].pc = "evtruncate"
            /\ disk'.image.ops = entry.graph /\ disk'.image.wm = entry.walSeq - 1
  PROVE  DInv'
<1> USE DEF SameEntry
<1>0. \A u \in Threads : u # t => th[u].pc \notin LockPCs
  BY DEF IInv, Control, LockHeld, LockPCs
<1>h. entry.slot = "Hot"
  BY DEF DInv, Flights, FlightIs, InFlight, Evictions, EvictIs
<1>w. \A u \in Threads : ~Writing(u)' /\ ~Writing(u) /\ th[u].pc # "evcool"
  BY <1>0 DEF Others, Writing, WritePCs, LockPCs
<1>e. \A a : Earlier(a) => Earlier(a)'
  BY <1>w DEF Earlier
<1>s. \A u \in Threads : \A a \in th'[u].snap.ops : a \in th[u].snap.ops
  BY NoSnapshotEmpty DEF Others
<1>1. LogOK'
  BY DEF DInv, LogOK
<1>2. Drawn'
  <2>1. \A a \in disk'.image.ops : Earlier(a)'
    BY <1>e
  <2>2. \A a \in Told' : Earlier(a)'
    BY <1>e DEF DInv, Drawn
  <2>3. \A u \in Threads : \A a \in th'[u].snap.ops : Earlier(a)'
    BY <1>e, <1>s DEF DInv, Drawn
  <2> QED BY <2>1, <2>2, <2>3 DEF DInv, Drawn
<1>3. Kept'
  BY CoversMore DEF Kept
<1>4. Warm'
  BY <1>h, <1>w DEF DInv, Warm, Writing, WritePCs
<1>5. Writers'
  BY <1>w DEF Writers
<1>6. Flights'
  <2> SUFFICES ASSUME NEW u \in Threads, InFlight(u)' PROVE FlightIs(th[u])'
    BY DEF Flights
  <2>1. InFlight(u) /\ FlightIs(th[u]) /\ th'[u].snap = th[u].snap
    BY DEF DInv, Flights, InFlight, Others
  <2>2. Publishable(th[u].snap)' => Publishable(th[u].snap)
    BY <1>w, <2>1 DEF Publishable
  <2>3. Publishable(th[u].snap) =>
          /\ Covers(disk'.log, th[u].snap, Promised') /\ Apart(disk'.log, th[u].snap)
          /\ th[u].snap.wm < entry'.walSeq
    BY <1>h, <2>1, CoversMore DEF FlightIs
  <2>4. u # t => th'[u].pc \notin {"commit", "truncate"}
    BY <1>0 DEF Others, LockPCs
  <2>5. CASE u = t
    <3>1. /\ th[t].pc = "commit" /\ th'[t].pc = "truncate"
          /\ disk'.image.ops = th[t].snap.ops /\ disk'.image.wm = th[t].snap.wm
          /\ entry.walSeq = th[t].snap.wm + 1
      BY <2>5 DEF InFlight
    <3> QED BY <1>h, <1>w, <2>1, <2>2, <2>3, <2>5, <3>1 DEF FlightIs
  <2>6. CASE u # t
    BY <1>h, <1>w, <2>1, <2>2, <2>3, <2>4, <2>6 DEF FlightIs
  <2> QED BY <2>5, <2>6
<1>7. Evictions'
  <2> SUFFICES ASSUME NEW u \in Threads PROVE EvictIs(th[u])'
    BY DEF Evictions
  <2>1. CASE u # t
    BY <1>0, <2>1 DEF EvictIs, Others, LockPCs
  <2>2. CASE u = t
    BY <1>h, <2>2 DEF EvictIs
  <2> QED BY <2>1, <2>2
<1>8. Unlogged'
  <2> SUFFICES ASSUME "trim" \notin Faults
               PROVE  (\A u \in Threads : th'[u].cont # "write") /\ \A a \in refused' : Absent(a)'
    BY DEF Unlogged
  <2>1. \A u \in Threads : th'[u].cont # "write"
    BY DEF DInv, Unlogged, Others
  <2>2. \A a \in refused' : Absent(a)'
    BY <1>s DEF DInv, Unlogged, Absent
  <2> QED BY <2>1, <2>2
<1> QED BY <1>1, <1>2, <1>3, <1>4, <1>5, <1>6, <1>7, <1>8 DEF DInv

LEMMA PublishSays ==
  ASSUME disk \in Disk, NEW ops, NEW wm, disk' = Publish(disk, ops, wm)
  PROVE  /\ disk'.log = disk.log /\ disk'.tail = disk.tail /\ disk'.fused = disk.fused
         /\ disk'.image.ops = ops /\ disk'.image.wm = wm
BY DEF Publish, Disk

\* A flush commits its snapshot, or reports that it could not.
LEMMA CommitKeeps ==
  ASSUME IInv, DInv, NEW t \in Threads, CommitOk(t) \/ CommitFails(t)
  PROVE  DInv'
<1> DEFINE s == th[t].snap
<1>0. disk \in Disk /\ entry \in Entry /\ th[t] \in Thread /\ s.wm \in Nat
  BY SnapType DEF IInv, TypeInv, TypeOK
<1>1. th[t].pc = "commit" /\ UNCHANGED <<entry, nextId>> /\ SameEntry
  BY DEF CommitOk, CommitFails, At, SameEntry
<1>2. ~Writing(t) /\ InFlight(t)
  BY <1>1 DEF Writing, WritePCs, InFlight
<1>3. \A u \in Threads : th[u].pc # "evcool"
  BY <1>1 DEF IInv, Control, LockHeld, LockPCs
<1>4. FlightIs(th[t]) /\ entry.slot = "Hot" /\ s.gen = entry.gen
  BY <1>1, <1>2 DEF DInv, Flights, FlightIs
<1>5. Covers(disk.log, s, Promised) /\ Apart(disk.log, s) /\ s.wm < entry.walSeq
  BY <1>3, <1>4 DEF FlightIs, Publishable
<1>6. \A a \in s.ops : Earlier(a) /\ ("trim" \notin Faults => a \notin refused)
  BY DEF DInv, Drawn, Unlogged, Absent
<1>7. ASSUME disk'.image.ops = s.ops, disk'.image.wm = s.wm
      PROVE  Covers(disk.log, disk'.image, Promised) /\ Apart(disk.log, disk'.image)
  BY <1>5, <1>7 DEF Covers, Apart
<1>8. "trim" \notin Faults => th[t].cont # "write"
  BY DEF DInv, Unlogged
<1>9. ASSUME NEW ok \in BOOLEAN, FlushReturns(t, ok)
      PROVE  /\ Others(t) /\ th'[t].pc \in {"idle", "evict"} /\ th'[t].cont = "idle"
             /\ th'[t].snap = NoSnapshot
             /\ Promised' \subseteq Promised /\ Told' \subseteq Told
             /\ "trim" \notin Faults => refused' = refused
  BY <1>8, <1>9, ReturnsSays
<1>10. CASE FlushReturns(t, FALSE) /\ disk' = disk
  <2>1. SameDisk
    BY <1>10 DEF SameDisk
  <2> QED BY <1>1, <1>2, <1>9, <1>10, <2>1, QuietStep DEF WritePCs, InFlight
<1>11. CASE disk' = Publish(disk, s.ops, s.wm) /\ \E ok \in BOOLEAN : FlushReturns(t, ok)
  <2>1. /\ disk'.log = disk.log /\ disk'.tail = disk.tail /\ disk'.fused = disk.fused
        /\ disk'.image.ops = s.ops /\ disk'.image.wm = s.wm
    BY <1>0, <1>11, PublishSays
  <2>2. Covers(disk.log, disk'.image, Promised) /\ Apart(disk.log, disk'.image)
    BY <1>7, <2>1
  <2>3. /\ Others(t) /\ th'[t].pc \in {"idle", "evict"} /\ th'[t].cont = "idle"
        /\ th'[t].snap = NoSnapshot
        /\ Promised' \subseteq Promised /\ Told' \subseteq Told
        /\ "trim" \notin Faults => refused' = refused
    BY <1>9, <1>11
  <2> HIDE DEF s
  <2> QED BY <1>1, <1>5, <1>6, <2>1, <2>2, <2>3, PublishStep
<1>12. CASE CommitOk(t) /\ CoversLog(t)
  <2>1. disk' = Publish(disk, s.ops, s.wm) /\ Goto(t, "truncate") /\ UNCHANGED <<acked, refused>>
    BY <1>12 DEF CommitOk
  <2>2. /\ disk'.log = disk.log /\ disk'.tail = disk.tail /\ disk'.fused = disk.fused
        /\ disk'.image.ops = s.ops /\ disk'.image.wm = s.wm
    BY <1>0, <2>1, PublishSays
  <2>3. Covers(disk.log, disk'.image, Promised) /\ Apart(disk.log, disk'.image)
    BY <1>7, <2>2
  <2>4. /\ Others(t) /\ th'[t].pc = "truncate" /\ th'[t].cont = th[t].cont /\ th'[t].batch = th[t].batch
        /\ th'[t].base = th[t].base /\ th'[t].landed = th[t].landed /\ th'[t].snap = th[t].snap
    BY <2>1, GotoSays
  <2>5. Promised' \subseteq Promised /\ Told' \subseteq Told
    BY <2>1, <2>4, SamePromises
  <2>6. entry.walSeq = s.wm + 1
    <3>1. entry.walSeq \in Nat
      BY <1>0 DEF Entry
    <3> QED BY <1>0, <1>12, <3>1 DEF CoversLog, Watermark
  <2> QED BY <1>1, <1>5, <1>6, <1>8, <2>1, <2>2, <2>3, <2>4, <2>5, <2>6, PublishStep
<1> QED BY <1>10, <1>11, <1>12 DEF CommitOk, CommitFails

\* An eviction saves under the lock.
LEMMA EvictCommitKeeps ==
  ASSUME IInv, DInv, NEW t \in Threads, EvictCommit(t) \/ EvictCommitFails(t)
  PROVE  DInv'
<1>0. disk \in Disk /\ entry \in Entry /\ th \in [Threads -> Thread] /\ disk.log \in Seq(Record)
      /\ entry.walSeq \in Nat
  BY DEF IInv, TypeInv, TypeOK, Disk, Entry
<1>1. th[t].pc = "evcommit" /\ UNCHANGED <<entry, nextId, acked, refused>> /\ SameEntry
  BY DEF EvictCommit, EvictCommitFails, At, SameEntry, history
<1>2. entry.slot = "Hot"
  BY <1>1 DEF DInv, Evictions, EvictIs
<1>3. \A u \in Threads : ~Writing(u)
  BY <1>1 DEF IInv, Control, LockHeld, LockPCs, Writing, WritePCs
<1>4. Promised \subseteq entry.graph /\ Below(disk.log, entry.walSeq)
  BY <1>2, <1>3 DEF DInv, Warm
<1>5. \A a \in entry.graph : Earlier(a) /\ ("trim" \notin Faults => a \notin refused)
  BY <1>3 DEF DInv, Drawn, Unlogged, Absent, Earlier
<1>6. ASSUME disk'.image.ops = entry.graph, disk'.image.wm = entry.walSeq - 1
      PROVE  Covers(disk.log, disk'.image, Promised) /\ Apart(disk.log, disk'.image)
             /\ disk'.image.wm < entry.walSeq
  <2>1. \A i \in DOMAIN disk.log : disk.log[i].seq \in Nat /\ disk.log[i].seq < entry.walSeq
    BY <1>0, <1>4, LogType DEF Below
  <2> QED BY <1>0, <1>4, <1>6, <2>1 DEF Covers, Apart
<1>7. ASSUME NEW p, Others(t), th'[t].pc = p, p \in {"idle", "evtruncate"},
             th'[t].snap = th[t].snap \/ th'[t].snap = NoSnapshot,
             th'[t].cont = "write" => /\ th[t].cont = "write" /\ th'[t].base = th[t].base
                                      /\ th'[t].landed = th[t].landed /\ th'[t].batch = th[t].batch,
             disk' = Publish(disk, entry.graph, Watermark)
      PROVE  DInv'
  <2>1. Promised' \subseteq Promised /\ Told' \subseteq Told
    BY <1>1, <1>7, SamePromises
  <2>2. /\ disk'.log = disk.log /\ disk'.tail = disk.tail /\ disk'.fused = disk.fused
        /\ disk'.image.ops = entry.graph /\ disk'.image.wm = entry.walSeq - 1
    BY <1>0, <1>7, PublishSays DEF Watermark
  <2>3. "trim" \notin Faults => th'[t].cont # "write"
    BY <1>7 DEF DInv, Unlogged
  <2> QED BY <1>1, <1>5, <1>6, <1>7, <2>1, <2>2, <2>3, PublishStep
<1>i. Idle.pc = "idle" /\ Idle.cont = "idle" /\ Idle.snap = NoSnapshot
  BY DEF Idle
<1>8. CASE EvictCommit(t)
  <2>1. Goto(t, "evtruncate") /\ disk' = Publish(disk, entry.graph, Watermark)
    BY <1>8 DEF EvictCommit
  <2>2. /\ Others(t) /\ th'[t].pc = "evtruncate" /\ th'[t].cont = th[t].cont /\ th'[t].batch = th[t].batch
        /\ th'[t].base = th[t].base /\ th'[t].landed = th[t].landed /\ th'[t].snap = th[t].snap
    BY <2>1, GotoSays
  <2> QED BY <1>7, <2>1, <2>2
<1>9. CASE EvictCommitFails(t)
  <2>1. th' = [th EXCEPT ![t] = Idle] /\ (disk' = disk \/ disk' = Publish(disk, entry.graph, Watermark))
    BY <1>9 DEF EvictCommitFails
  <2>2. Others(t) /\ th'[t] = Idle
    BY <1>0, <2>1 DEF Others
  <2>3. CASE disk' = disk
    <3>1. SameDisk /\ ~InFlight(t)' /\ ~Writing(t)
      BY <1>i, <1>3, <2>2, <2>3 DEF SameDisk, InFlight
    <3>2. Promised' \subseteq Promised /\ Told' \subseteq Told
      BY <1>1, <1>i, <2>2, SamePromises
    <3> QED BY <1>1, <1>i, <2>2, <3>1, <3>2, QuietStep DEF WritePCs
  <2>4. CASE disk' = Publish(disk, entry.graph, Watermark)
    BY <1>7, <1>i, <2>2, <2>4
  <2> QED BY <2>1, <2>3, <2>4
<1> QED BY <1>8, <1>9

\* What truncate_wal may leave, unless its sync fails after the file shrank.
LEMMA TruncateWalSays ==
  ASSUME Sound, IInv, DInv, TruncateWal
  PROVE  /\ entry'.slot = entry.slot /\ entry'.graph = entry.graph /\ entry'.walSeq = entry.walSeq
         /\ entry'.gen = entry.gen
         /\ disk'.image = disk.image /\ disk'.fused = 0 /\ disk'.present = disk.present
         /\ \/ /\ disk'.log = disk.log /\ disk'.tail = disk.tail /\ entry'.walBytes = entry.walBytes
            \/ disk'.log = <<>> /\ disk'.tail = "clean" /\ entry'.walBytes = 0
<1>0. entry \in Entry /\ disk \in Disk /\ disk.fused = 0 /\ disk.log \in Seq(Record)
  BY DEF IInv, TypeInv, TypeOK, DInv, LogOK, Disk
<1>1. \/ disk' = TruncateTo(disk, 0) /\ entry' = [entry EXCEPT !.walBytes = 0]
      \/ UNCHANGED <<disk, entry>>
  BY DEF TruncateWal, Sound, Fault
<1>2. TruncateTo(disk, 0).log = <<>>
  BY <1>0, ResetType
<1>3. /\ TruncateTo(disk, 0).image = disk.image /\ TruncateTo(disk, 0).fused = 0
      /\ TruncateTo(disk, 0).present = disk.present /\ TruncateTo(disk, 0).tail = "clean"
  <2>1. 0 \in Nat /\ 0 <= Len(disk.log)
    BY <1>0, LogType
  <2> QED BY <1>0, <2>1, TruncateBegins
<1>4. CASE UNCHANGED <<disk, entry>>
  BY <1>0, <1>4
<1>5. CASE disk' = TruncateTo(disk, 0) /\ entry' = [entry EXCEPT !.walBytes = 0]
  BY <1>0, <1>2, <1>3, <1>5 DEF Entry
<1> QED BY <1>1, <1>4, <1>5

LEMMA ResetStep ==
  ASSUME Sound, IInv, DInv, NEW t \in Threads, TruncateWal, nextId' = nextId, Others(t),
         \/ th[t].pc = "truncate" /\ th'[t].pc \in {"idle", "evict"}
         \/ th[t].pc = "evtruncate" /\ th'[t].pc = "evcool",
         Promised' \subseteq Promised, Told' \subseteq Told,
         "trim" \notin Faults => th'[t].cont # "write" /\ refused' = refused,
         th'[t].snap = th[t].snap \/ th'[t].snap = NoSnapshot
  PROVE  DInv'
<1>0. entry \in Entry /\ disk \in Disk /\ disk.log \in Seq(Record) /\ entry.walSeq \in Nat /\ disk.image.wm \in Nat
  BY DEF IInv, TypeInv, TypeOK, Disk, Entry, Image
<1>t. /\ entry'.slot = entry.slot /\ entry'.graph = entry.graph /\ entry'.walSeq = entry.walSeq
      /\ entry'.gen = entry.gen
      /\ disk'.image = disk.image /\ disk'.fused = 0 /\ disk'.present = disk.present
      /\ \/ /\ disk'.log = disk.log /\ disk'.tail = disk.tail /\ entry'.walBytes = entry.walBytes
         \/ disk'.log = <<>> /\ disk'.tail = "clean" /\ entry'.walBytes = 0
  BY TruncateWalSays
<1>l. \A u \in Threads : u # t => th[u].pc \notin LockPCs
  BY DEF IInv, Control, LockHeld, LockPCs
<1>w. \A u \in Threads : ~Writing(u)' /\ ~Writing(u) /\ th'[u].pc \notin {"commit", "truncate", "evcommit", "evtruncate"}
  BY <1>l DEF Others, Writing, WritePCs, LockPCs
<1>e. \A a : Earlier(a) => Earlier(a)'
  BY <1>w DEF Earlier
<1>s. \A u \in Threads : \A a \in th'[u].snap.ops : a \in th[u].snap.ops
  BY NoSnapshotEmpty DEF Others
<1>h. entry.slot = "Hot"
  BY DEF DInv, Flights, FlightIs, InFlight, Evictions, EvictIs
<1>b. Below(disk.log, entry.walSeq) /\ Promised \subseteq entry.graph
  BY <1>h, <1>w DEF DInv, Warm
<1>i. Promised \subseteq disk.image.ops
  <2>1. CASE th[t].pc = "evtruncate"
    BY <1>b, <2>1 DEF DInv, Evictions, EvictIs
  <2>2. CASE th[t].pc = "truncate"
    <3>1. entry.walSeq = disk.image.wm + 1
      BY <2>2 DEF DInv, Flights, FlightIs, InFlight
    <3>2. Covers(disk.log, disk.image, Promised)
      <4>1. disk.present = TRUE
        BY <2>2, LiveWhileLocked DEF IInv, LockPCs
      <4> QED BY <4>1 DEF DInv, Kept
    <3> QED BY <1>0, <1>b, <3>1, <3>2, CoversAll
  <2> QED BY <2>1, <2>2
<1>1. LogOK'
  BY <1>t, EmptyLog DEF DInv, LogOK
<1>2. Drawn'
  <2>1. \A a \in disk'.image.ops : Earlier(a)'
    BY <1>e, <1>t DEF DInv, Drawn
  <2>2. \A a \in Told' : Earlier(a)'
    BY <1>e DEF DInv, Drawn
  <2>3. \A u \in Threads : \A a \in th'[u].snap.ops : Earlier(a)'
    BY <1>e, <1>s DEF DInv, Drawn
  <2>4. Older(disk'.log, nextId')
    BY <1>t, EmptyLog DEF DInv, Drawn
  <2> QED BY <1>t, <2>1, <2>2, <2>3, <2>4 DEF DInv, Drawn
<1>3. Kept'
  BY <1>i, <1>t DEF Kept, Covers
<1>4. Warm'
  <2>1. Below(disk'.log, entry'.walSeq) /\ entry'.walBytes = Len(disk'.log)
    BY <1>b, <1>h, <1>t, <1>w, EmptyLog DEF DInv, Warm
  <2> QED BY <1>h, <1>t, <1>w, <2>1 DEF DInv, Warm, Writing, WritePCs
<1>5. Writers'
  BY <1>w DEF Writers
<1>6. Flights'
  <2> SUFFICES ASSUME NEW u \in Threads, InFlight(u)' PROVE FlightIs(th[u])'
    BY DEF Flights
  <2>1. u # t /\ th'[u] = th[u] /\ InFlight(u)
    BY DEF InFlight, Others
  <2>2. th[t].pc # "truncate"
    BY <2>1 DEF IInv, Control, FlushExclusive, InFlight
  <2>3. ~Publishable(th[u].snap)'
    BY <2>2 DEF Publishable
  <2>4. th[u].snap.gen <= entry'.gen
    BY <1>t, <2>1 DEF DInv, Flights, FlightIs
  <2> QED BY <1>w, <2>1, <2>3, <2>4 DEF FlightIs
<1>7. Evictions'
  BY <1>h, <1>t, <1>w DEF Evictions, EvictIs
<1>8. Unlogged'
  <2> SUFFICES ASSUME "trim" \notin Faults
               PROVE  (\A u \in Threads : th'[u].cont # "write") /\ \A a \in refused' : Absent(a)'
    BY DEF Unlogged
  <2>1. \A u \in Threads : th'[u].cont # "write"
    BY DEF DInv, Unlogged, Others
  <2>2. \A a \in refused' : Absent(a)'
    BY <1>s, <1>t, EmptyLog DEF DInv, Unlogged, Absent
  <2> QED BY <2>1, <2>2
<1> QED BY <1>1, <1>2, <1>3, <1>4, <1>5, <1>6, <1>7, <1>8 DEF DInv

LEMMA TruncateKeeps ==
  ASSUME Sound, IInv, DInv, NEW t \in Threads, FlushTruncates(t) \/ EvictTruncates(t)
  PROVE  DInv'
<1>1. TruncateWal /\ nextId' = nextId
  BY DEF FlushTruncates, EvictTruncates
<1>2. "trim" \notin Faults => th[t].cont # "write"
  BY DEF DInv, Unlogged
<1>3. CASE FlushTruncates(t)
  <2>1. th[t].pc = "truncate" /\ FlushReturns(t, TRUE)
    BY <1>3 DEF FlushTruncates, At
  <2>2. /\ Others(t) /\ th'[t].pc \in {"idle", "evict"} /\ th'[t].cont = "idle"
        /\ th'[t].snap = NoSnapshot
        /\ Promised' \subseteq Promised /\ Told' \subseteq Told
        /\ th[t].cont # "write" => refused' = refused
    BY <2>1, ReturnsSays
  <2> QED BY <1>1, <1>2, <2>1, <2>2, ResetStep
<1>4. CASE EvictTruncates(t)
  <2>1. th[t].pc = "evtruncate" /\ Goto(t, "evcool") /\ UNCHANGED <<acked, refused>>
    BY <1>4 DEF EvictTruncates, At
  <2>2. /\ Others(t) /\ th'[t].pc = "evcool" /\ th'[t].cont = th[t].cont /\ th'[t].batch = th[t].batch
        /\ th'[t].base = th[t].base /\ th'[t].landed = th[t].landed /\ th'[t].snap = th[t].snap
    BY <2>1, GotoSays
  <2>3. Promised' \subseteq Promised /\ Told' \subseteq Told
    BY <2>1, <2>2, SamePromises
  <2> QED BY <1>1, <1>2, <2>1, <2>2, <2>3, ResetStep
<1> QED BY <1>3, <1>4

\* The files go once the tombstone stands: nobody writes, publishes or saves any more.
LEMMA UnlinkKeeps ==
  ASSUME IInv, DInv, NEW t \in Threads, Unlink(t)
  PROVE  DInv'
<1>0. disk \in Disk /\ disk.log \in Seq(Record) /\ th \in [Threads -> Thread] /\ disk.fused = 0
  BY DEF IInv, TypeInv, TypeOK, Disk, DInv, LogOK
<1>1. th[t].pc = "unlink" /\ th' = [th EXCEPT ![t] = Idle] /\ UNCHANGED <<entry, nextId, acked, refused>>
      /\ disk' = [TruncateTo(disk, 0) EXCEPT !.present = FALSE]
  BY DEF Unlink, At, history
<1>2. TruncateTo(disk, 0) \in Disk /\ TruncateTo(disk, 0).log = <<>>
  BY <1>0, ResetType
<1>3. TruncateTo(disk, 0).image = disk.image /\ TruncateTo(disk, 0).fused = 0
  <2>1. 0 \in Nat /\ 0 <= Len(disk.log)
    BY <1>0, LogType
  <2> QED BY <1>0, <2>1, TruncateBegins
<1>4. disk'.image = disk.image /\ disk'.log = <<>> /\ disk'.fused = 0 /\ disk'.present = FALSE
  BY <1>1, <1>2, <1>3 DEF Disk
<1>5. entry.slot = "Deleted" /\ lock = Free
  BY <1>1 DEF IInv, Tombstoned
<1>i. Idle.pc = "idle" /\ Idle.cont = "idle" /\ Idle.snap = NoSnapshot
  BY DEF Idle
<1>6. Others(t) /\ th'[t] = Idle
  BY <1>0, <1>1 DEF Others
<1>w. \A u \in Threads : ~Writing(u)' /\ th'[u].pc \notin LockPCs
  BY <1>5, <1>6, <1>i, Unwritten DEF Others, Writing, WritePCs, LockPCs
<1>p. Promised' \subseteq Promised /\ Told' \subseteq Told
  BY <1>1, <1>6, <1>i, SamePromises
<1>s. \A u \in Threads : \A a \in th'[u].snap.ops : a \in th[u].snap.ops
  BY <1>6, <1>i, NoSnapshotEmpty DEF Others
<1>e. \A a : Earlier(a) => Earlier(a)'
  BY <1>1, <1>w DEF Earlier
<1>7. LogOK' /\ Kept' /\ Warm' /\ Writers'
  BY <1>1, <1>4, <1>5, <1>w, EmptyLog DEF LogOK, Kept, Warm, Writers
<1>8. Drawn'
  <2>1. \A a \in disk'.image.ops : Earlier(a)'
    BY <1>e, <1>4 DEF DInv, Drawn
  <2>2. \A a \in Told' : Earlier(a)'
    BY <1>e, <1>p DEF DInv, Drawn
  <2>3. \A u \in Threads : \A a \in th'[u].snap.ops : Earlier(a)'
    BY <1>e, <1>s DEF DInv, Drawn
  <2>4. Older(disk'.log, nextId')
    BY <1>4, EmptyLog
  <2> QED BY <1>1, <2>1, <2>2, <2>3, <2>4 DEF DInv, Drawn
<1>9. Flights'
  <2> SUFFICES ASSUME NEW u \in Threads, InFlight(u)' PROVE FlightIs(th[u])'
    BY DEF Flights
  <2>1. u # t /\ th'[u] = th[u] /\ InFlight(u)
    BY <1>6, <1>i DEF InFlight, Others
  <2>2. ~Publishable(th[u].snap)' /\ th[u].snap.gen <= entry'.gen /\ th'[u].pc \notin {"commit", "truncate"}
    BY <1>1, <1>5, <1>w, <2>1 DEF Publishable, DInv, Flights, FlightIs, LockPCs
  <2> QED BY <2>1, <2>2 DEF FlightIs
<1>10. Evictions'
  BY <1>w DEF Evictions, EvictIs, LockPCs
<1>11. Unlogged'
  <2> SUFFICES ASSUME "trim" \notin Faults
               PROVE  (\A u \in Threads : th'[u].cont # "write") /\ \A a \in refused' : Absent(a)'
    BY DEF Unlogged
  <2>1. \A u \in Threads : th'[u].cont # "write"
    BY <1>6, <1>i DEF DInv, Unlogged, Others
  <2>2. \A a \in refused' : Absent(a)'
    <3>1. \A a : Lacks(disk'.log, a)
      BY <1>4, EmptyLog
    <3>2. entry'.graph = entry.graph /\ disk'.image.ops = disk.image.ops /\ refused' = refused
      BY <1>1, <1>4
    <3> QED BY <1>s, <3>1, <3>2 DEF DInv, Unlogged, Absent
  <2> QED BY <2>1, <2>2
<1> QED BY <1>7, <1>8, <1>9, <1>10, <1>11 DEF DInv

-----------------------------------------------------------------------------
(* Loads *)

\* What a load puts in memory: all that was promised, and a number for the next record
\* that is above the log, the image and every flight that may still be published.
LEMMA LoadSays ==
  ASSUME IInv, DInv, lock = Free, Loadable, NEW e, e = LoadedEntry, NEW d, d = HealedDisk
  PROVE  /\ e.slot = "Hot" /\ e.gen = entry.gen /\ e.walSeq \in Nat
         /\ d.image = disk.image /\ d.log = disk.log /\ d.tail = "clean" /\ d.fused = 0 /\ d.present = disk.present
         /\ Promised \subseteq e.graph /\ disk.image.wm < e.walSeq /\ Below(disk.log, e.walSeq)
         /\ e.walBytes = Len(disk.log)
         /\ \A a \in e.graph : a \in Nat /\ a < nextId
         /\ \A u \in Threads : InFlight(u) /\ Publishable(th[u].snap) => th[u].snap.wm < e.walSeq
         /\ "trim" \notin Faults => \A a \in refused : a \notin e.graph
<1>0. disk \in Disk /\ entry \in Entry /\ disk.log \in Seq(Record) /\ disk.fused = 0 /\ Sorted(disk.log)
      /\ disk.image.wm \in Nat /\ disk.present \in BOOLEAN
  BY DEF IInv, TypeInv, TypeOK, Disk, Image, DInv, LogOK
<1>w. \A u \in Threads : ~Writing(u)
  BY Unwritten
<1>e. e \in Entry
  BY LoadedType DEF IInv
<1>g. e.graph \in SUBSET Nat /\ e.walSeq \in Nat
  BY <1>e DEF Entry
<1>1. CASE entry.slot = "Hot"
  <2>1. e = entry /\ d = disk
    BY <1>1 DEF LoadedEntry, HealedDisk
  <2>2. /\ disk.tail = "clean" /\ Promised \subseteq entry.graph /\ disk.image.wm < entry.walSeq
        /\ Below(disk.log, entry.walSeq) /\ entry.walBytes = Len(disk.log)
    BY <1>1, <1>w DEF DInv, Warm, Writing, WritePCs
  <2>3. \A a \in entry.graph : a < nextId
    BY DEF DInv, Drawn
  <2>4. \A u \in Threads : InFlight(u) /\ Publishable(th[u].snap) => th[u].snap.wm < entry.walSeq
    BY <1>1 DEF DInv, Flights, FlightIs
  <2>5. "trim" \notin Faults => \A a \in refused : a \notin entry.graph
    BY DEF DInv, Unlogged, Absent
  <2> QED BY <1>0, <1>1, <1>g, <2>1, <2>2, <2>3, <2>4, <2>5
<1>2. CASE entry.slot # "Hot"
  <2>1. entry.slot = "Cold"
    BY <1>2 DEF Loadable
  <2>2. e = [entry EXCEPT !.slot = "Hot", !.graph = Recovered(disk), !.walSeq = TopSeq(disk) + 1,
                          !.rev = MaxOf(entry.rev, TopSeq(disk)), !.walBytes = Len(disk.log)]
        /\ d = Heal(disk)
    BY <1>2 DEF LoadedEntry, HealedDisk
  <2>3. e.slot = "Hot" /\ e.gen = entry.gen /\ e.graph = Recovered(disk) /\ e.walSeq = TopSeq(disk) + 1
        /\ e.walBytes = Len(disk.log)
    BY <1>0, <2>2 DEF Entry
  <2>4. d.image = disk.image /\ d.log = disk.log /\ d.tail = "clean" /\ d.fused = disk.fused
        /\ d.present = disk.present
    BY <1>0, <2>2 DEF Heal, Disk
  <2>5. \A a : a \in Recovered(disk) <=> a \in disk.image.ops \/ Replays(disk.log, a, disk.image.wm)
    BY <1>0, RecoveredSays
  <2>6. /\ TopSeq(disk) \in Nat /\ disk.image.wm <= TopSeq(disk)
        /\ \A i \in DOMAIN disk.log : disk.log[i].seq \in Nat /\ disk.log[i].seq <= TopSeq(disk)
    BY <1>0, TopSeqType, LogType
  <2>7. Promised \subseteq e.graph
    <3>1. disk.present = TRUE
      BY <1>0, <2>1 DEF IInv, Tombstoned
    <3>2. Covers(disk.log, disk.image, Promised)
      BY <3>1 DEF DInv, Kept
    <3> QED BY <2>3, <2>5, <3>2 DEF Covers
  <2>8. Below(disk.log, e.walSeq) /\ disk.image.wm < e.walSeq
    BY <1>0, <2>3, <2>6 DEF Below
  <2>9. \A a \in e.graph : a < nextId
    <3>1. \A a \in disk.image.ops : a < nextId
      BY DEF DInv, Drawn, Earlier
    <3>2. \A a : Replays(disk.log, a, disk.image.wm) => a < nextId
      BY DEF DInv, Drawn, Older, Replays
    <3> QED BY <2>3, <2>5, <3>1, <3>2
  <2>10. ASSUME NEW u \in Threads, InFlight(u), Publishable(th[u].snap) PROVE th[u].snap.wm < e.walSeq
    <3>1. ~Below(disk.log, th[u].snap.wm + 1)
      BY <2>1, <2>10 DEF DInv, Flights, FlightIs
    <3>2. th[u].snap.wm \in Nat
      BY SnapType DEF IInv
    <3> QED BY <2>3, <2>6, <3>1, <3>2 DEF Below
  <2>11. ASSUME "trim" \notin Faults, NEW a \in refused PROVE a \notin e.graph
    BY <2>3, <2>5, <2>11 DEF DInv, Unlogged, Absent, Lacks, Replays
  <2> QED BY <1>0, <1>g, <2>3, <2>4, <2>7, <2>8, <2>9, <2>10, <2>11
<1> QED BY <1>1, <1>2

\* A call that loads the entry if it is cold, and may start a batch or refuse one.
LEMMA LoadStep ==
  ASSUME IInv, DInv, lock = Free, Loadable, NEW t \in Threads, Others(t), disk' = HealedDisk,
         entry'.slot = LoadedEntry.slot, entry'.graph = LoadedEntry.graph,
         entry'.walSeq = LoadedEntry.walSeq, entry'.walBytes = LoadedEntry.walBytes,
         entry'.gen \in Nat, entry.gen <= entry'.gen, nextId' \in Nat, nextId <= nextId',
         Promised' \subseteq Promised,
         \A a \in Told' : a \in Told \/ (a < nextId' /\ th'[t].pc # "append"),
         \A a \in refused' : a \in refused \/ (a \in Int /\ a >= nextId),
         th'[t].pc \in {"idle", "flush", "append"}, th'[t].cont = "write" => th[t].cont = "write",
         th'[t].snap = th[t].snap \/ th'[t].snap = NoSnapshot,
         th'[t].pc = "append" =>
           /\ nextId' = nextId + Len(th'[t].batch) /\ Len(th'[t].batch) > 0
           /\ th'[t].base = nextId /\ th'[t].first = entry'.walSeq /\ th'[t].len = entry'.walBytes
           /\ th'[t].cont = "idle"
  PROVE  DInv'
<1>0. /\ th \in [Threads -> Thread] /\ nextId \in Nat /\ disk \in Disk /\ entry \in Entry
      /\ disk.log \in Seq(Record) /\ refused \in SUBSET Nat /\ entry.gen \in Nat /\ disk.image.ops \in SUBSET Nat
  BY DEF IInv, TypeInv, TypeOK, Disk, Entry, Image
<1>l. /\ LoadedEntry.slot = "Hot" /\ LoadedEntry.gen = entry.gen /\ LoadedEntry.walSeq \in Nat
      /\ HealedDisk.image = disk.image /\ HealedDisk.log = disk.log /\ HealedDisk.tail = "clean"
      /\ HealedDisk.fused = 0 /\ HealedDisk.present = disk.present
      /\ Promised \subseteq LoadedEntry.graph /\ disk.image.wm < LoadedEntry.walSeq
      /\ Below(disk.log, LoadedEntry.walSeq) /\ LoadedEntry.walBytes = Len(disk.log)
      /\ \A a \in LoadedEntry.graph : a \in Nat /\ a < nextId
      /\ \A u \in Threads : InFlight(u) /\ Publishable(th[u].snap) => th[u].snap.wm < LoadedEntry.walSeq
      /\ "trim" \notin Faults => \A a \in refused : a \notin LoadedEntry.graph
  BY LoadSays
<1> HIDE DEF LoadedEntry, HealedDisk
<1>u. \A u \in Threads : th[u].pc \notin LockPCs /\ ~Writing(u)
  BY Unwritten
<1>w. \A u \in Threads : Writing(u)' => u = t /\ th'[t].pc = "append"
  BY <1>u DEF Others, Writing, WritePCs
<1>e. \A a \in Int : a < nextId => Earlier(a)'
  BY <1>0, <1>w DEF Earlier
<1>s. \A u \in Threads : \A a \in th'[u].snap.ops : a \in th[u].snap.ops
  BY NoSnapshotEmpty DEF Others
<1>n. \A u \in Threads : th[u].snap.ops \in SUBSET Nat /\ th[u].snap.gen \in Nat /\ th[u].snap.wm \in Nat
  <2> TAKE u \in Threads
  <2>1. th[u] \in Thread
    BY <1>0
  <2>2. th[u].snap \in Snapshot
    BY <2>1 DEF Thread
  <2> QED BY <2>2 DEF Snapshot
<1>1. LogOK'
  BY <1>l DEF DInv, LogOK
<1>o. Older(disk.log, nextId) /\ \A i \in DOMAIN disk.log : disk.log[i].id \in Nat
  BY <1>0, LogType DEF DInv, Drawn
<1>2. Drawn'
  <2>1. \A a \in disk'.image.ops : Earlier(a)'
    BY <1>0, <1>e, <1>l DEF DInv, Drawn, Earlier
  <2>2. \A a \in Told' : Earlier(a)'
    <3>1. \A a \in Told : a \in Int /\ a < nextId
      BY DEF DInv, Drawn, Earlier, Told
    <3>2. \A a : a < nextId' /\ th'[t].pc # "append" => Earlier(a)'
      BY <1>w DEF Earlier
    <3> QED BY <1>e, <3>1, <3>2
  <2>3. \A u \in Threads : \A a \in th'[u].snap.ops : Earlier(a)'
    BY <1>e, <1>n, <1>s DEF DInv, Drawn, Earlier
  <2>4. \A a \in entry'.graph : a < nextId'
    BY <1>0, <1>l
  <2>5. Older(disk'.log, nextId')
    BY <1>0, <1>l, <1>o DEF Older
  <2> QED BY <2>1, <2>2, <2>3, <2>4, <2>5 DEF Drawn
<1>3. Kept'
  BY <1>l, CoversMore DEF DInv, Kept
<1>4. Warm'
  BY <1>l DEF Warm
<1>5. Writers'
  <2> SUFFICES ASSUME th'[t].pc = "append" PROVE WriterIs(th[t])'
    BY <1>w DEF Writers
  <2>1. th'[t].len = Len(disk'.log) /\ Begun(th[t])' = disk'.log
    <3>1. Len(disk.log) \in Nat /\ Len(disk.log) <= Len(disk.log)
      BY <1>0, LogType
    <3>2. SubSeq(disk.log, 1, Len(disk.log)) = disk.log
      BY <1>0, <3>1, SubSeqBegins
    <3> QED BY <1>l, <3>2 DEF Begun
  <2>2. th'[t].len <= Len(disk'.log)
    <3>1. Len(disk.log) \in Nat
      BY <1>0, LogType
    <3> QED BY <1>l, <2>1, <3>1
  <2> QED BY <1>l, <1>o, <2>1, <2>2 DEF WriterIs
<1>6. Flights'
  <2> SUFFICES ASSUME NEW u \in Threads, InFlight(u)' PROVE FlightIs(th[u])'
    BY DEF Flights
  <2>1. u # t /\ th'[u] = th[u] /\ InFlight(u) /\ FlightIs(th[u])
    BY DEF InFlight, Others, DInv, Flights
  <2>2. th[u].snap.gen <= entry'.gen
    BY <1>0, <1>n, <2>1 DEF FlightIs
  <2>3. Publishable(th[u].snap)' => Publishable(th[u].snap)
    <3>1. entry.slot # "Deleted"
      BY DEF Loadable
    <3>2. th[u].snap.gen = entry'.gen => th[u].snap.gen = entry.gen
      BY <1>0, <1>n, <2>1 DEF FlightIs
    <3> QED BY <1>u, <2>1, <3>1, <3>2 DEF Publishable, LockPCs
  <2>4. Publishable(th[u].snap) =>
          /\ Covers(disk'.log, th[u].snap, Promised') /\ Apart(disk'.log, th[u].snap)
          /\ th[u].snap.wm < entry'.walSeq
    BY <1>l, <2>1, CoversMore DEF FlightIs
  <2>5. th[u].pc \notin {"commit", "truncate"}
    BY <1>u DEF LockPCs
  <2> QED BY <1>l, <1>w, <2>1, <2>2, <2>3, <2>4, <2>5 DEF FlightIs
<1>7. Evictions'
  BY <1>u DEF Evictions, EvictIs, Others, LockPCs
<1>8. Unlogged'
  <2> SUFFICES ASSUME "trim" \notin Faults
               PROVE  (\A u \in Threads : th'[u].cont # "write") /\ \A a \in refused' : Absent(a)'
    BY DEF Unlogged
  <2>1. \A u \in Threads : th'[u].cont # "write"
    BY DEF DInv, Unlogged, Others
  <2>2. ASSUME NEW a \in refused PROVE Absent(a)'
    BY <1>l, <1>s, <2>2 DEF DInv, Unlogged, Absent
  <2>3. ASSUME NEW a \in Int, a >= nextId PROVE Absent(a)'
    <3>1. a \notin entry'.graph
      BY <1>0, <1>l, <2>3
    <3>2. Lacks(disk'.log, a)
      BY <1>0, <1>l, <1>o, <2>3 DEF Older, Lacks
    <3>3. a \notin disk'.image.ops /\ \A u \in Threads : a \notin th'[u].snap.ops
      BY <1>0, <1>l, <1>s, <2>3 DEF DInv, Drawn, Earlier
    <3> QED BY <3>1, <3>2, <3>3 DEF Absent
  <2> QED BY <2>1, <2>2, <2>3
<1> QED BY <1>1, <1>2, <1>3, <1>4, <1>5, <1>6, <1>7, <1>8 DEF DInv

LEMMA LoadActions ==
  ASSUME Sound, IInv, DInv, NEW t \in Threads, Read(t) \/ RefuseWrite(t) \/ BeginWrite(t) \/ Compact(t)
  PROVE  DInv'
<1>0. /\ th \in [Threads -> Thread] /\ nextId \in Nat /\ entry \in Entry /\ entry.gen \in Nat
      /\ refused \in SUBSET Nat /\ acked \in SUBSET Nat
  BY DEF IInv, TypeInv, TypeOK, Entry
<1>1. lock = Free /\ Loadable /\ disk' = HealedDisk /\ th[t].pc = "idle"
  BY DEF Read, RefuseWrite, BeginWrite, Compact, At
<1>2. LoadedEntry.gen = entry.gen /\ LoadedEntry \in Entry
  BY <1>1, LoadSays, LoadedType DEF IInv
<1> HIDE DEF LoadedEntry, HealedDisk
<1>3. CASE Read(t)
  <2>1. entry' = LoadedEntry /\ UNCHANGED <<th, nextId, acked, refused>>
    BY <1>3 DEF Read, history
  <2>2. Others(t) /\ Promised' = Promised /\ Told' = Told
    BY <2>1 DEF Others, Promised, Told
  <2> QED BY <1>0, <1>1, <1>2, <2>1, <2>2, LoadStep
<1>4. CASE RefuseWrite(t)
  <2>1. PICK b \in Batches : /\ entry' = LoadedEntry /\ UNCHANGED <<th, acked>>
                             /\ refused' = refused \cup Ids(nextId, Len(b)) /\ nextId' = nextId + Len(b)
    BY <1>4 DEF RefuseWrite
  <2>2. Len(b) \in Nat
    BY <2>1, ConstantsOK, LenProperties
  <2>3. Others(t) /\ Promised' = Promised
    BY <2>1 DEF Others, Promised
  <2>4. \A a \in Ids(nextId, Len(b)) : a \in Int /\ a >= nextId /\ a < nextId'
    BY <1>0, <2>1, <2>2 DEF Ids
  <2>5. \A a \in Told' : a \in Told \/ a \in Ids(nextId, Len(b))
    BY <2>1 DEF Told
  <2>6. \A a \in Told' : a \in Told \/ (a < nextId' /\ th'[t].pc # "append")
    BY <1>1, <2>1, <2>4, <2>5
  <2>7. \A a \in refused' : a \in refused \/ (a \in Int /\ a >= nextId)
    BY <2>1, <2>4
  <2>8. nextId' \in Nat /\ nextId <= nextId'
    BY <1>0, <2>1, <2>2
  <2>9. th'[t] = th[t]
    BY <2>1
  <2> QED BY <1>0, <1>1, <1>2, <2>1, <2>3, <2>6, <2>7, <2>8, <2>9, LoadStep
<1>5. CASE BeginWrite(t)
  <2>1. PICK b \in Batches :
          /\ entry' = LoadedEntry /\ UNCHANGED <<acked, refused>> /\ nextId' = nextId + Len(b)
          /\ th' = [th EXCEPT ![t] =
               [Idle EXCEPT !.pc = IF WalEnabled THEN "append" ELSE "operate",
                            !.batch = b, !.base = nextId, !.first = LoadedEntry.walSeq,
                            !.len = LoadedEntry.walBytes]]
    BY <1>5 DEF BeginWrite
  <2> DEFINE w == [Idle EXCEPT !.pc = IF WalEnabled THEN "append" ELSE "operate",
                            !.batch = b, !.base = nextId, !.first = LoadedEntry.walSeq,
                            !.len = LoadedEntry.walBytes]
  <2>2. w.pc = "append" /\ w.batch = b /\ w.base = nextId /\ w.first = LoadedEntry.walSeq
        /\ w.len = LoadedEntry.walBytes /\ w.cont = "idle" /\ w.snap = NoSnapshot
    BY DEF Sound, Idle
  <2>3. th' = [th EXCEPT ![t] = w]
    BY <2>1
  <2> HIDE DEF w
  <2>4. Others(t) /\ th'[t] = w
    BY <1>0, <2>3 DEF Others
  <2>5. Len(b) \in Nat /\ Len(b) > 0
    BY <2>1, ConstantsOK, BatchesNonEmpty, LenProperties
  <2>6. Promised' \subseteq Promised /\ Told' \subseteq Told
    BY <2>1, <2>2, <2>4, SamePromises
  <2>7. nextId' \in Nat /\ nextId <= nextId' /\ nextId' = nextId + Len(b)
    BY <1>0, <2>1, <2>5
  <2>8. entry' = LoadedEntry /\ refused' = refused
    BY <2>1
  <2>9. entry'.gen \in Nat /\ entry.gen <= entry'.gen
    BY <1>0, <1>2, <2>8
  <2> QED BY <1>1, <2>2, <2>4, <2>5, <2>6, <2>7, <2>8, <2>9, LoadStep
<1>6. CASE Compact(t)
  <2>1. entry' = [LoadedEntry EXCEPT !.gen = @ + 1] /\ Goto(t, "flush") /\ UNCHANGED <<nextId, acked, refused>>
    BY <1>6 DEF Compact, history
  <2>2. /\ entry'.slot = LoadedEntry.slot /\ entry'.graph = LoadedEntry.graph
        /\ entry'.walSeq = LoadedEntry.walSeq /\ entry'.walBytes = LoadedEntry.walBytes
        /\ entry'.gen = entry.gen + 1
    BY <1>2, <2>1 DEF Entry
  <2>3. /\ Others(t) /\ th'[t].pc = "flush" /\ th'[t].cont = th[t].cont /\ th'[t].batch = th[t].batch
        /\ th'[t].base = th[t].base /\ th'[t].landed = th[t].landed /\ th'[t].snap = th[t].snap
    BY <2>1, GotoSays
  <2>4. Promised' \subseteq Promised /\ Told' \subseteq Told
    BY <2>1, <2>3, SamePromises
  <2>5. entry'.gen \in Nat /\ entry.gen <= entry'.gen
    BY <1>0, <2>2
  <2> QED BY <1>0, <1>1, <2>1, <2>2, <2>3, <2>4, <2>5, LoadStep
<1> QED BY <1>3, <1>4, <1>5, <1>6

-----------------------------------------------------------------------------
(* Crash *)

\* A crash leaves the log as it is, or with part of the batch being appended.
LEMMA CrashGrows ==
  ASSUME IInv, DInv, NEW d \in CrashDisks
  PROVE  \/ d = disk
         \/ \E t \in Threads : \E k \in 0..Len(th[t].batch) :
              /\ Writing(t) /\ Begun(th[t]) = disk.log
              /\ d \in Disk /\ d.image = disk.image /\ d.fused = 0
              /\ Grown(d.log, disk.log, th[t].first, th[t].base, th[t].batch, k)
<1> DEFINE Appends(t) == PartialAppends(disk, RecordsOf(th[t].first, th[t].base, th[t].batch))
           Reappends(t) == PartialAppends(disk, Prefix(th[t]))
           A == { u \in Threads : At(u, "append") }
           R == { u \in Threads : At(u, "reappend") }
<1>1. PICK S \in {{disk}} \cup { Appends(t) : t \in A } \cup { Reappends(t) : t \in R } : d \in S
  BY DEF CrashDisks
<1>2. (\A t \in A : t \in Threads /\ th[t].pc = "append") /\ (\A t \in R : t \in Threads /\ th[t].pc = "reappend")
  BY DEF At
<1> HIDE DEF Appends, Reappends, A, R
<1>3. \/ d = disk \/ (\E t \in Threads : th[t].pc = "append" /\ d \in Appends(t))
      \/ (\E t \in Threads : th[t].pc = "reappend" /\ d \in Reappends(t))
  BY <1>1, <1>2
<1>5. ASSUME NEW t \in Threads
      PROVE  /\ th[t].first \in Nat /\ th[t].base \in Nat /\ th[t].batch \in Seq(BOOLEAN)
             /\ Len(th[t].batch) \in Nat /\ th[t].landed \in Nat /\ th[t].landed <= Len(th[t].batch)
  BY SnapType, WriterType DEF IInv, Thread
<1>6. ASSUME NEW t \in Threads, th[t].pc = "append", d \in Appends(t)
      PROVE  \E k \in 0..Len(th[t].batch) :
              /\ Writing(t) /\ Begun(th[t]) = disk.log
              /\ d \in Disk /\ d.image = disk.image /\ d.fused = 0
              /\ Grown(d.log, disk.log, th[t].first, th[t].base, th[t].batch, k)
  BY <1>6, AppendCutShort DEF Appends
<1>7. ASSUME NEW t \in Threads, th[t].pc = "reappend", d \in Reappends(t)
      PROVE  \E k \in 0..Len(th[t].batch) :
              /\ Writing(t) /\ Begun(th[t]) = disk.log
              /\ d \in Disk /\ d.image = disk.image /\ d.fused = 0
              /\ Grown(d.log, disk.log, th[t].first, th[t].base, th[t].batch, k)
  <2> DEFINE recs == Prefix(th[t])
             b == SubSeq(th[t].batch, 1, th[t].landed)
  <2>1. b \in Seq(BOOLEAN) /\ Len(b) = th[t].landed /\ \A i \in 1..th[t].landed : b[i] = th[t].batch[i]
    BY <1>5, ElementOfSeq, SubSeqProperties
  <2>2. recs = RecordsOf(th[t].first, th[t].base, b)
    BY DEF Prefix
  <2> HIDE DEF b, recs
  <2>3. Len(recs) = th[t].landed
    BY <1>5, <2>1, <2>2 DEF RecordsOf
  <2>4. ASSUME NEW k \in 0..th[t].landed
        PROVE  Batched(SubSeq(recs, 1, k), th[t].first, th[t].base, th[t].batch, k)
    <3>1. Batched(SubSeq(recs, 1, k), th[t].first, th[t].base, b, k)
      BY <1>5, <2>1, <2>2, <2>4, RecordsBatched
    <3>2. \A i \in 1..k : b[i] = th[t].batch[i]
      BY <1>5, <2>1, <2>4
    <3> QED BY <3>1, <3>2 DEF Batched
  <2>5. d \in PartialAppends(disk, recs)
    BY <1>7 DEF Reappends, recs
  <2> QED BY <1>5, <1>7, <2>3, <2>4, <2>5, PartialGrows
<1> QED BY <1>3, <1>6, <1>7

LEMMA CrashKeeps ==
  ASSUME Sound, IInv, DInv, Crash
  PROVE  DInv'
<1>0. /\ disk \in Disk /\ disk.log \in Seq(Record) /\ nextId \in Nat
      /\ acked \in SUBSET Nat /\ refused \in SUBSET Nat
  BY DEF IInv, TypeInv, TypeOK, Disk
<1>1. /\ entry'.slot = "Cold" /\ entry'.graph = {} /\ nextId' = nextId /\ disk' \in CrashDisks /\ disk.present
      /\ acked' \subseteq acked /\ refused' \subseteq refused
      /\ \A t \in Threads : th'[t] = Idle
  BY DEF Crash
<1>i. Idle.pc = "idle" /\ Idle.cont = "idle" /\ Idle.snap = NoSnapshot
  BY DEF Idle
<1>2. \A t \in Threads : th'[t].pc = "idle" /\ th'[t].cont = "idle" /\ th'[t].snap.ops = {}
  BY <1>1, <1>i, NoSnapshotEmpty
<1>3. Promised' \subseteq Promised /\ Told' \subseteq Told
  BY <1>1, <1>2 DEF Promised, Told
<1>4. \A a : Earlier(a) => Earlier(a)'
  BY <1>1, <1>2 DEF Earlier, Writing, WritePCs
<1>5. \A a \in refused : a \in Nat /\ a \in Told
  BY <1>0 DEF Told
<1>6. /\ disk'.image = disk.image /\ disk'.fused = 0 /\ Sorted(disk'.log) /\ Apart(disk'.log, disk.image)
      /\ Older(disk'.log, nextId) /\ Covers(disk'.log, disk.image, Promised)
      /\ \A a \in refused : Lacks(disk.log, a) => Lacks(disk'.log, a)
  <2>0. /\ disk.fused = 0 /\ Sorted(disk.log) /\ Apart(disk.log, disk.image) /\ Older(disk.log, nextId)
        /\ Covers(disk.log, disk.image, Promised)
    BY <1>1 DEF DInv, LogOK, Drawn, Kept
  <2>1. CASE disk' = disk
    BY <2>0, <2>1
  <2>2. CASE disk' # disk
    <3>1. PICK t \in Threads : \E k \in 0..Len(th[t].batch) :
              /\ Writing(t) /\ Begun(th[t]) = disk.log
              /\ disk' \in Disk /\ disk'.image = disk.image /\ disk'.fused = 0
              /\ Grown(disk'.log, disk.log, th[t].first, th[t].base, th[t].batch, k)
      BY <1>1, <2>2, CrashGrows
    <3>k. PICK k \in 0..Len(th[t].batch) :
              /\ Writing(t) /\ Begun(th[t]) = disk.log
              /\ disk' \in Disk /\ disk'.image = disk.image /\ disk'.fused = 0
              /\ Grown(disk'.log, disk.log, th[t].first, th[t].base, th[t].batch, k)
      BY <3>1
    <3>2. WriterIs(th[t]) /\ th[t].first \in Nat /\ th[t].base \in Nat /\ Len(th[t].batch) \in Nat
      BY <3>k, WriterFacts
    <3>n. k \in Nat /\ k <= Len(th[t].batch)
      BY <3>2
    <3>3. Below(disk.log, th[t].first) /\ nextId = th[t].base + Len(th[t].batch)
      BY <3>k, <3>2 DEF WriterIs
    <3>4. disk'.log \in Seq(Record)
      BY <3>k DEF Disk
    <3>5. /\ Sorted(disk'.log)
          /\ \A b \in Int : Older(disk.log, b) /\ th[t].base + k <= b => Older(disk'.log, b)
          /\ \A a : Lacks(disk.log, a) /\ a \notin Ids(th[t].base, k) => Lacks(disk'.log, a)
          /\ \A s, S : Covers(disk.log, s, S) => Covers(disk'.log, s, S)
          /\ \A s : Apart(disk.log, s) /\ (\A a \in s.ops : a < th[t].base) => Apart(disk'.log, s)
      BY <1>0, <2>0, <3>k, <3>2, <3>3, <3>4, <3>n, GrownKeeps
    <3>6. \A a \in disk.image.ops : a < th[t].base
      BY <3>k DEF DInv, Drawn, Earlier
    <3>7. \A a \in refused : a \notin Ids(th[t].base, k)
      BY <3>k, <3>2, <3>n, ToldBefore DEF Ids
    <3>8. th[t].base + k <= nextId
      BY <3>2, <3>3, <3>n
    <3> QED BY <1>0, <2>0, <3>k, <3>5, <3>6, <3>7, <3>8
  <2> QED BY <2>1, <2>2
<1>7. LogOK' /\ Warm' /\ Writers' /\ Flights' /\ Evictions'
  BY <1>1, <1>2, <1>6 DEF LogOK, Warm, Writers, Writing, WritePCs, Flights, InFlight, Evictions, EvictIs
<1>8. Drawn'
  <2>1. \A a \in disk'.image.ops : Earlier(a)'
    BY <1>4, <1>6 DEF DInv, Drawn
  <2>2. \A a \in Told' : Earlier(a)'
    BY <1>3, <1>4 DEF DInv, Drawn
  <2> QED BY <1>1, <1>2, <1>6, <2>1, <2>2 DEF Drawn
<1>9. Kept'
  BY <1>3, <1>6, CoversMore DEF Kept
<1>10. Unlogged'
  <2> SUFFICES ASSUME "trim" \notin Faults, NEW a \in refused' PROVE Absent(a)'
    BY <1>2 DEF Unlogged
  <2>1. a \in refused /\ a \notin disk.image.ops /\ Lacks(disk.log, a)
    BY <1>1 DEF DInv, Unlogged, Absent
  <2> QED BY <1>1, <1>2, <1>6, <2>1 DEF Absent
<1> QED BY <1>7, <1>8, <1>9, <1>10 DEF DInv

-----------------------------------------------------------------------------
(* The theorems *)

LEMMA DInvInit == Init => DInv
<1> SUFFICES ASSUME Init PROVE DInv
  OBVIOUS
<1>1. /\ disk.log = <<>> /\ disk.fused = 0 /\ disk.tail = "clean" /\ disk.image.ops = {} /\ disk.image.wm = 0
      /\ entry.slot = "Hot" /\ entry.graph = {} /\ entry.walSeq = 1 /\ entry.walBytes = 0
      /\ acked = {} /\ refused = {} /\ nextId = 1
      /\ \A t \in Threads : th[t] = Idle
  BY DEF Init
<1>2. Idle.pc = "idle" /\ Idle.cont = "idle" /\ Idle.snap = NoSnapshot
  BY DEF Idle
<1>3. \A t \in Threads : th[t].pc = "idle" /\ th[t].cont = "idle" /\ th[t].snap.ops = {}
  BY <1>1, <1>2, NoSnapshotEmpty
<1>4. Promised = {} /\ Told = {}
  BY <1>1, <1>3 DEF Promised, Told
<1>5. LogOK /\ Drawn /\ Kept
  BY <1>1, <1>3, <1>4, EmptyLog DEF LogOK, Drawn, Kept, Covers
<1>6. Warm
  <2>1. Below(disk.log, entry.walSeq) /\ entry.walBytes = Len(disk.log)
    BY <1>1, EmptyLog
  <2> QED BY <1>1, <1>4, <2>1 DEF Warm
<1>7. Writers /\ Flights /\ Evictions /\ Unlogged
  BY <1>1, <1>3 DEF Writers, Writing, WritePCs, Flights, InFlight, Evictions, EvictIs, Unlogged
<1> QED BY <1>5, <1>6, <1>7 DEF DInv

LEMMA DInvStep == Sound /\ IInv /\ DInv /\ [Next]_vars => DInv'
<1> SUFFICES ASSUME Sound, IInv, DInv, [Next]_vars PROVE DInv'
  OBVIOUS
<1>1. ASSUME NEW t \in Threads, WriteStep(t) PROVE DInv'
  <2>1. ~ReappendFails(t)
    BY DEF ReappendFails, Fault, Sound
  <2> QED BY <1>1, <2>1, AppendOkKeeps, AppendFailsKeeps, RetrimOkKeeps, RetrimFailsKeeps, OperateKeeps, PanicKeeps, TrimOkKeeps,
             TrimFailsKeeps, ReappendOkKeeps DEF WriteStep
<1>2. ASSUME NEW t \in Threads, FlushStep(t) PROVE DInv'
  BY <1>2, QuietActions, ClaimKeeps, CommitKeeps, TruncateKeeps DEF FlushStep
<1>3. ASSUME NEW t \in Threads, EvictStep(t) PROVE DInv'
  BY <1>3, QuietActions, CoolKeeps, EvictCommitKeeps, TruncateKeeps DEF EvictStep
<1>4. ASSUME NEW t \in Threads, Call(t) PROVE DInv'
  BY <1>4, StutterActions, LoadActions, QuietActions, CoolKeeps DEF Call
<1> QED BY <1>1, <1>2, <1>3, <1>4, UnlinkKeeps, CrashKeeps, StutterActions DEF Next, Continue

LEMMA Durable == Sound /\ Spec => [](IInv /\ DInv)
<1> SUFFICES ASSUME Sound PROVE Spec => [](IInv /\ DInv)
  OBVIOUS
<1>1. Init => DInv
  BY DInvInit
<1>2. IInv /\ DInv /\ [Next]_vars => DInv'
  BY DInvStep
<1> QED BY <1>1, <1>2, Inductive, PTL DEF Spec

\* What the invariant says of the files and of memory.
LEMMA DurableSays ==
  ASSUME IInv, DInv
  PROVE  /\ AckedDurable /\ AckedVisible /\ NoDoubleReplay /\ LogDecodes
         /\ "trim" \notin Faults => RefusedNeverReplays
<1>0. disk \in Disk /\ disk.present \in BOOLEAN /\ entry \in Entry /\ acked \in SUBSET Nat /\ Sorted(disk.log)
  BY DEF IInv, TypeInv, TypeOK, Disk, DInv, LogOK
<1>1. \A a : a \in Recovered(disk) <=> a \in disk.image.ops \/ Replays(disk.log, a, disk.image.wm)
  BY <1>0, RecoveredSays
<1>2. acked \subseteq Promised
  BY <1>0 DEF Promised
<1>3. Alive => acked \subseteq Recovered(disk)
  <2>1. Alive => Covers(disk.log, disk.image, Promised)
    BY <1>0 DEF DInv, Kept, IInv, Tombstoned, Alive
  <2> QED BY <1>1, <1>2, <2>1 DEF Covers
<1>4. AckedDurable
  BY <1>3 DEF AckedDurable
<1>5. AckedVisible
  BY <1>2, <1>3 DEF AckedVisible, Visible, DInv, Warm
<1>6. NoDoubleReplay
  BY DEF NoDoubleReplay, Replayable, Winning, DInv, LogOK, Apart
<1>7. LogDecodes
  BY Unwritten DEF LogDecodes, DInv, LogOK, Warm, Writing, WritePCs
<1>8. ASSUME "trim" \notin Faults PROVE RefusedNeverReplays
  <2>1. \A a \in refused : a \notin entry.graph /\ a \notin Recovered(disk)
    BY <1>1, <1>8 DEF DInv, Unlogged, Absent, Lacks, Replays
  <2> QED BY <2>1 DEF RefusedNeverReplays, Visible
<1> QED BY <1>4, <1>5, <1>6, <1>7, <1>8

\* logged_write's contract: whatever a client was told succeeded is in the image or is
\* replayed from the log, at every instant, whoever flushes, evicts, compacts or crashes.
THEOREM AcknowledgedMeansReplayable == Sound /\ Spec => []AckedDurable
<1> SUFFICES ASSUME Sound PROVE Spec => []AckedDurable
  OBVIOUS
<1>1. IInv /\ DInv => AckedDurable
  BY DurableSays
<1> QED BY <1>1, Durable, PTL

\* Reads keep answering it, too, through evictions, reloads and compactions.
THEOREM AcknowledgedMeansVisible == Sound /\ Spec => []AckedVisible
<1> SUFFICES ASSUME Sound PROVE Spec => []AckedVisible
  OBVIOUS
<1>1. IInv /\ DInv => AckedVisible
  BY DurableSays
<1> QED BY <1>1, Durable, PTL

\* The watermark: a replay repeats no operation that the image contains.
THEOREM ReplayAppliesOnce == Sound /\ Spec => []NoDoubleReplay
<1> SUFFICES ASSUME Sound PROVE Spec => []NoDoubleReplay
  OBVIOUS
<1>1. IInv /\ DInv => NoDoubleReplay
  BY DurableSays
<1> QED BY <1>1, Durable, PTL

\* A torn tail is healed before anything is appended after it.
THEOREM LogAlwaysDecodes == Sound /\ Spec => []LogDecodes
<1> SUFFICES ASSUME Sound PROVE Spec => []LogDecodes
  OBVIOUS
<1>1. IInv /\ DInv => LogDecodes
  BY DurableSays
<1> QED BY <1>1, Durable, PTL

\* The trim of a partly applied batch: as long as it works, what a client was told
\* failed is neither in memory, nor in the image, nor in the log.
THEOREM RefusedIsGone == Sound /\ "trim" \notin Faults /\ Spec => []RefusedNeverReplays
<1> SUFFICES ASSUME Sound, "trim" \notin Faults PROVE Spec => []RefusedNeverReplays
  OBVIOUS
<1>1. IInv /\ DInv => RefusedNeverReplays
  BY DurableSays
<1> QED BY <1>1, Durable, PTL

-----------------------------------------------------------------------------
(***************************************************************************)
(* The published image only advances: every set of threads and batches,    *)
(* with the log on or off, and every fault but a panic inside a batch.     *)
(* (After a panic memory is what a reload makes of the files, under an     *)
(* unmoved generation, and a save that reports failure after its rename    *)
(* can then be overtaken by an older flush: a clean image goes back.)      *)
(***************************************************************************)

\* A flush whose snapshot may still be published.
Latest(t) == InFlight(t) /\ StillCurrent(t)

\* The graph in memory has all that a snapshot or the image covers.
Behind(s) == s.ops \subseteq entry.graph /\ s.wm < entry.walSeq

HotLocked == \A t \in Threads : th[t].pc \in LockPCs => entry.slot = "Hot"

\* An entry that was evicted or rebuilt since a flush claimed it has moved on.
Aged ==
  \A t \in Threads : InFlight(t) =>
    /\ th[t].snap.gen <= entry.gen
    /\ entry.slot = "Cold" => th[t].snap.gen < entry.gen
    /\ th[t].pc \in {"commit", "truncate"} => th[t].snap.gen = entry.gen

Ahead ==
  /\ entry.slot = "Hot" => Behind(disk.image)
  /\ \A t \in Threads : Latest(t) => Behind(th[t].snap)

\* A write numbers above the image and above every snapshot, so that resetting the
\* number after a failed append cannot go below them.
Numbering ==
  \A t \in Threads : Writing(t) =>
    /\ disk.image.wm < th[t].first /\ th[t].first <= entry.walSeq
    /\ \A u \in Threads : Latest(u) => th[u].snap.wm < th[t].first
    /\ th[t].pc \in {"trim", "reappend"} => dirty

\* An eviction has published and is about to drop the graph.
Leaving == \E t \in Threads : th[t].pc \in {"evtruncate", "evcool"}

\* As long as nothing was written since a flush claimed the entry, its snapshot is the
\* graph, and no later image has been published under it.
CleanFlight ==
  ~dirty /\ ~Leaving =>
    \A t \in Threads : Latest(t) =>
      /\ entry.graph \subseteq th[t].snap.ops
      /\ disk.image.wm <= th[t].snap.wm
      /\ (\A u \in Threads : th[u].pc # "operate") => entry.walSeq <= th[t].snap.wm + 1

MInv == HotLocked /\ Aged /\ Ahead /\ Numbering /\ CleanFlight

\* The facts about types that the arithmetic below needs.
LEMMA Sizes ==
  ASSUME TypeInv
  PROVE  /\ entry.gen \in Nat /\ entry.walSeq \in Nat /\ disk.image.wm \in Nat /\ dirty \in BOOLEAN
         /\ \A t \in Threads : th[t].snap.gen \in Nat /\ th[t].snap.wm \in Nat /\ th[t].first \in Nat
<1>1. entry \in Entry /\ disk \in Disk /\ th \in [Threads -> Thread] /\ dirty \in BOOLEAN
  BY DEF TypeInv, TypeOK
<1>2. \A t \in Threads : th[t] \in Thread /\ th[t].snap \in Snapshot
  BY <1>1 DEF Thread
<1> QED BY <1>1, <1>2 DEF Entry, Disk, Image, Thread, Snapshot

\* The parts of the entry and of the files that the invariant reads.
SameGraph ==
  /\ entry'.slot = entry.slot /\ entry'.graph = entry.graph
  /\ entry'.walSeq = entry.walSeq /\ entry'.gen = entry.gen

\* A thread may move without publishing, claiming or applying anything.
Moves(t) ==
  /\ Others(t)
  /\ th'[t].pc \in LockPCs => entry.slot = "Hot"
  /\ InFlight(t)' =>
       /\ InFlight(t) /\ th'[t].snap = th[t].snap
       /\ th'[t].pc \in {"commit", "truncate"} => th[t].snap.gen = entry.gen
  /\ Writing(t)' =>
       /\ Writing(t) /\ th'[t].first = th[t].first
       /\ th'[t].pc \in {"trim", "reappend"} => dirty'
  /\ th[t].pc \in {"evtruncate", "evcool"} => dirty' \/ th'[t].pc \in {"evtruncate", "evcool"}
  /\ th[t].pc = "operate" => dirty' \/ th'[t].pc = "operate"

LEMMA MoveKeeps ==
  ASSUME MInv, NEW t \in Threads, Moves(t), SameGraph, disk'.image = disk.image, dirty => dirty'
  PROVE  MInv'
<1>f. \A u \in Threads : InFlight(u)' => InFlight(u) /\ th'[u].snap = th[u].snap
  BY DEF Moves, Others, InFlight
<1>l. \A u \in Threads : Latest(u)' => Latest(u) /\ th'[u].snap = th[u].snap
  BY <1>f DEF Latest, StillCurrent, SameGraph
<1>w. \A u \in Threads : Writing(u)' =>
        Writing(u) /\ th'[u].first = th[u].first /\ (th'[u].pc \in {"trim", "reappend"} => dirty')
  BY DEF Moves, Others, Writing, MInv, Numbering
<1>1. HotLocked'
  BY DEF MInv, HotLocked, Moves, Others, SameGraph
<1>2. Aged'
  <2> SUFFICES ASSUME NEW u \in Threads, InFlight(u)'
               PROVE  /\ th'[u].snap.gen <= entry'.gen
                      /\ entry'.slot = "Cold" => th'[u].snap.gen < entry'.gen
                      /\ th'[u].pc \in {"commit", "truncate"} => th'[u].snap.gen = entry'.gen
    BY DEF Aged
  <2> QED BY <1>f DEF MInv, Aged, SameGraph, Moves, Others
<1>3. Ahead'
  BY <1>l DEF MInv, Ahead, Behind, SameGraph
<1>4. Numbering'
  BY <1>l, <1>w DEF MInv, Numbering, SameGraph
<1>5. CleanFlight'
  <2> SUFFICES ASSUME ~dirty', ~Leaving' PROVE CleanFlight'
    BY DEF CleanFlight
  <2>1. ~dirty /\ ~Leaving
    BY DEF Leaving, Moves, Others
  <2>2. (\A u \in Threads : th'[u].pc # "operate") => (\A u \in Threads : th[u].pc # "operate")
    BY DEF Moves, Others
  <2> QED BY <1>l, <2>1, <2>2 DEF MInv, CleanFlight, SameGraph
<1> QED BY <1>1, <1>2, <1>3, <1>4, <1>5 DEF MInv

\* What the log does never touches the image.
LEMMA LogAside ==
  ASSUME NEW d \in Disk, NEW recs
  PROVE  /\ \A tail : AppendLog(d, recs, tail).image = d.image
         /\ \A e \in PartialAppends(d, recs) : e.image = d.image
         /\ \A len : TruncateTo(d, len).image = d.image
<1>1. \A s, tail : AppendLog(d, s, tail).image = d.image
  BY DEF AppendLog, Disk
<1>2. \A e \in PartialAppends(d, recs) : \E k, tail : e = AppendLog(d, SubSeq(recs, 1, k), tail)
  BY DEF PartialAppends
<1>3. \A len : TruncateTo(d, len).image = d.image
  BY DEF TruncateTo, Disk
<1> QED BY <1>1, <1>2, <1>3

LEMMA TruncateWalAside ==
  ASSUME TypeInv, TruncateWal
  PROVE  SameGraph /\ disk'.image = disk.image
<1>1. entry \in Entry /\ disk \in Disk
  BY Parts
<1> QED BY <1>1, LogAside DEF TruncateWal, SameGraph, Entry

\* The three ways a thread moves: to a place of its own call, to the end of it, and
\* back from a flush.
LEMMA GotoMoves ==
  ASSUME IInv, NEW t \in Threads, NEW p, Goto(t, p),
         p \in LockPCs => entry.slot = "Hot",
         p \in FlightPCs => InFlight(t) /\ (p \in {"commit", "truncate"} => th[t].snap.gen = entry.gen),
         p \in WritePCs => Writing(t) /\ (p \in {"trim", "reappend"} => dirty'),
         th[t].pc \in {"evtruncate", "evcool"} => p \in {"evtruncate", "evcool"},
         th[t].pc # "operate"
  PROVE  Moves(t)
<1>1. Others(t) /\ th'[t].pc = p /\ th'[t].first = th[t].first /\ th'[t].snap = th[t].snap
  BY GotoSays
<1> QED BY <1>1 DEF Moves, InFlight, FlightPCs, Writing

LEMMA EndMoves ==
  ASSUME NEW t \in Threads, Others(t), th'[t].pc \in {"idle", "evict", "flush", "claim", "unlink"},
         dirty' \/ th[t].pc \notin {"operate", "evtruncate", "evcool"}
  PROVE  Moves(t)
BY DEF Moves, LockPCs, InFlight, Writing, WritePCs

LEMMA ReturnMoves ==
  ASSUME IInv, NEW t \in Threads, NEW ok \in BOOLEAN, FlushReturns(t, ok),
         th[t].pc \notin {"operate", "evtruncate", "evcool"}
  PROVE  Moves(t)
BY ReturnsSays, EndMoves

LEMMA IdleMoves ==
  ASSUME IInv, NEW t \in Threads, th' = [th EXCEPT ![t] = Idle],
         dirty' \/ th[t].pc \notin {"operate", "evtruncate", "evcool"}
  PROVE  Moves(t)
<1>1. Others(t) /\ th'[t].pc = "idle"
  BY DEF IInv, TypeInv, TypeOK, Others, Idle
<1> QED BY <1>1, EndMoves

LEMMA WriteMoves ==
  ASSUME IInv, MInv, NEW t \in Threads,
         AppendFails(t) \/ RetrimOk(t) \/ RetrimFails(t) \/ TrimOk(t) \/ TrimFails(t)
  PROVE  MInv' /\ disk'.image = disk.image
<1>0. disk \in Disk /\ th \in [Threads -> Thread] /\ dirty \in BOOLEAN
  BY DEF IInv, TypeInv, TypeOK
<1>h. th[t].pc \in LockPCs => entry.slot = "Hot"
  BY DEF MInv, HotLocked
<1>1. SameGraph /\ disk'.image = disk.image /\ (dirty => dirty')
  <2>1. entry' = entry /\ (dirty' = dirty \/ dirty' = TRUE)
    BY DEF AppendFails, RetrimOk, RetrimFails, TrimOk, TrimFails, Answer
  <2>2. disk'.image = disk.image
    BY <1>0, LogAside DEF AppendFails, RetrimOk, RetrimFails, TrimOk, TrimFails
  <2> QED BY <2>1, <2>2 DEF SameGraph
<1>2. CASE AppendFails(t)
  <2>1. Goto(t, "retrim") /\ th[t].pc = "append"
    BY <1>2 DEF AppendFails, At
  <2>2. Moves(t)
    BY <1>h, <2>1, GotoMoves DEF LockPCs, FlightPCs, WritePCs, Writing
  <2> QED BY <1>1, <2>2, MoveKeeps
<1>3. CASE RetrimOk(t)
  <2>1. th' = [th EXCEPT ![t] = Idle] /\ th[t].pc = "retrim"
    BY <1>3 DEF RetrimOk, At, Answer
  <2>2. Moves(t)
    BY <2>1, IdleMoves
  <2> QED BY <1>1, <2>2, MoveKeeps
<1>4. CASE RetrimFails(t) \/ TrimFails(t)
  <2>1. Others(t) /\ th'[t].pc = "flush" /\ th[t].pc \in {"retrim", "trim"}
    BY <1>0, <1>4 DEF RetrimFails, TrimFails, At, Others, Thread
  <2>2. Moves(t)
    BY <2>1, EndMoves
  <2> QED BY <1>1, <2>2, MoveKeeps
<1>5. CASE TrimOk(t)
  <2>1. Goto(t, "reappend") /\ th[t].pc = "trim" /\ dirty' = dirty
    BY <1>5 DEF TrimOk, At
  <2>2. dirty
    BY <2>1 DEF MInv, Numbering, Writing, WritePCs
  <2>3. Moves(t)
    BY <1>h, <2>1, <2>2, GotoMoves DEF LockPCs, FlightPCs, WritePCs, Writing
  <2> QED BY <1>1, <2>3, MoveKeeps
<1> QED BY <1>2, <1>3, <1>4, <1>5

LEMMA CallMoves ==
  ASSUME IInv, MInv, NEW t \in Threads, Tick(t) \/ EvictStarts(t) \/ Unlink(t)
  PROVE  MInv' /\ disk'.image = disk.image
<1>0. disk \in Disk /\ th \in [Threads -> Thread]
  BY DEF IInv, TypeInv, TypeOK
<1>1. SameGraph /\ (dirty => dirty')
  BY DEF Tick, EvictStarts, Unlink, SameGraph
<1>2. disk'.image = disk.image
  <2>1. TruncateTo(disk, 0) \in Disk /\ TruncateTo(disk, 0).image = disk.image
    BY <1>0, ResetType, LogAside
  <2> QED BY <2>1 DEF Tick, EvictStarts, Unlink, Disk
<1>3. /\ Others(t) /\ th'[t].pc \in {"idle", "flush", "claim"}
      /\ th[t].pc \in {"idle", "unlink"}
  BY <1>0 DEF Tick, EvictStarts, Unlink, At, Goto, Others, Thread, Idle
<1>4. Moves(t)
  BY <1>3, EndMoves
<1> QED BY <1>1, <1>2, <1>4, MoveKeeps

LEMMA FlushMoves ==
  ASSUME IInv, MInv, NEW t \in Threads,
         \/ FlushEntry(t) \/ StageOk(t) \/ StageFails(t) \/ PublishBacksOff(t)
         \/ PublishMeta(t) \/ PublishMetaFails(t) \/ FlushTruncates(t)
  PROVE  MInv' /\ disk'.image = disk.image
<1>0. disk \in Disk /\ th \in [Threads -> Thread] /\ dirty \in BOOLEAN /\ TypeInv
  BY DEF IInv, TypeInv, TypeOK
<1>1. SameGraph /\ disk'.image = disk.image /\ (dirty => dirty')
  <2>1. CASE FlushTruncates(t)
    BY <1>0, <2>1, TruncateWalAside DEF FlushTruncates
  <2>2. CASE ~FlushTruncates(t)
    BY <1>0, <2>2
       DEF FlushEntry, StageOk, StageFails, PublishBacksOff, PublishMeta, PublishMetaFails, SameGraph, Disk
  <2> QED BY <2>1, <2>2
<1>2. CASE FlushEntry(t)
  <2>1. th[t].pc = "flush" /\ (Goto(t, "claim") \/ FlushReturns(t, FALSE))
    BY <1>2 DEF FlushEntry, At
  <2>2. Moves(t)
    BY <2>1, GotoMoves, ReturnMoves DEF LockPCs, FlightPCs, WritePCs
  <2> QED BY <1>1, <2>2, MoveKeeps
<1>3. CASE StageOk(t)
  <2>1. Goto(t, "publish") /\ th[t].pc = "stage"
    BY <1>3 DEF StageOk, At
  <2>2. Moves(t)
    BY <2>1, GotoMoves DEF LockPCs, FlightPCs, WritePCs, InFlight
  <2> QED BY <1>1, <2>2, MoveKeeps
<1>4. CASE StageFails(t) \/ PublishBacksOff(t) \/ PublishMetaFails(t) \/ FlushTruncates(t)
  <2>1. th[t].pc \in FlightPCs /\ \E ok \in BOOLEAN : FlushReturns(t, ok)
    BY <1>4 DEF StageFails, PublishBacksOff, PublishMetaFails, FlushTruncates, At, FlightPCs
  <2>2. Moves(t)
    BY <2>1, ReturnMoves DEF FlightPCs
  <2> QED BY <1>1, <2>2, MoveKeeps
<1>5. CASE PublishMeta(t)
  <2>1. Goto(t, "commit") /\ th[t].pc = "publish" /\ entry.slot = "Hot" /\ th[t].snap.gen = entry.gen
    BY <1>5 DEF PublishMeta, At, StillCurrent
  <2>2. Moves(t)
    BY <2>1, GotoMoves DEF LockPCs, FlightPCs, WritePCs, InFlight
  <2> QED BY <1>1, <2>2, MoveKeeps
<1> QED BY <1>2, <1>3, <1>4, <1>5

LEMMA EvictMoves ==
  ASSUME IInv, MInv, NEW t \in Threads,
         EvictPinned(t) \/ EvictMeta(t) \/ EvictMetaFails(t) \/ EvictTruncates(t)
  PROVE  MInv' /\ disk'.image = disk.image
<1>0. disk \in Disk /\ th \in [Threads -> Thread] /\ TypeInv
  BY DEF IInv, TypeInv, TypeOK
<1>h. th[t].pc \in LockPCs => entry.slot = "Hot"
  BY DEF MInv, HotLocked
<1>1. SameGraph /\ disk'.image = disk.image /\ (dirty => dirty')
  <2>1. CASE EvictTruncates(t)
    BY <1>0, <2>1, TruncateWalAside DEF EvictTruncates
  <2>2. CASE ~EvictTruncates(t)
    BY <1>0, <2>2 DEF EvictPinned, EvictMeta, EvictMetaFails, SameGraph, Disk
  <2> QED BY <2>1, <2>2
<1>2. CASE EvictPinned(t) \/ EvictMetaFails(t)
  <2>1. th' = [th EXCEPT ![t] = Idle] /\ th[t].pc = "evict"
    BY <1>2 DEF EvictPinned, EvictMetaFails, At
  <2>2. Moves(t)
    BY <2>1, IdleMoves
  <2> QED BY <1>1, <2>2, MoveKeeps
<1>3. CASE EvictMeta(t)
  <2>1. Goto(t, "evcommit") /\ th[t].pc = "evict" /\ entry.slot = "Hot"
    BY <1>3 DEF EvictMeta, At
  <2>2. Moves(t)
    BY <2>1, GotoMoves DEF LockPCs, FlightPCs, WritePCs
  <2> QED BY <1>1, <2>2, MoveKeeps
<1>4. CASE EvictTruncates(t)
  <2>1. Goto(t, "evcool") /\ th[t].pc = "evtruncate"
    BY <1>4 DEF EvictTruncates, At
  <2>2. Moves(t)
    BY <1>h, <2>1, GotoMoves DEF LockPCs, FlightPCs, WritePCs
  <2> QED BY <1>1, <2>2, MoveKeeps
<1> QED BY <1>2, <1>3, <1>4

\* A write's own steps: the graph and the numbers grow, or the numbers go back to where
\* the write began; nobody else holds the lock meanwhile.
LEMMA WriterKeeps ==
  ASSUME IInv, MInv, NEW t \in Threads, Writing(t), Others(t),
         entry'.slot = entry.slot, entry'.gen = entry.gen, entry.graph \subseteq entry'.graph,
         entry'.walSeq \in Nat, th[t].first <= entry'.walSeq, disk'.image = disk.image,
         th'[t].pc \in {"operate", "trim", "idle", "flush"}, th'[t].pc = "trim" => dirty',
         Writing(t)' => th'[t].first = th[t].first,
         dirty' \/ (dirty' = dirty /\ th'[t].pc = "operate" /\ entry'.graph = entry.graph)
  PROVE  MInv'
<1>0. /\ entry.gen \in Nat /\ entry.walSeq \in Nat /\ disk.image.wm \in Nat /\ dirty \in BOOLEAN
      /\ \A u \in Threads : th[u].snap.gen \in Nat /\ th[u].snap.wm \in Nat /\ th[u].first \in Nat
  BY Sizes DEF IInv
<1>1. entry.slot = "Hot" /\ lock = t
  BY DEF MInv, HotLocked, Writing, WritePCs, LockPCs, IInv, Control, LockHeld
<1>2. \A u \in Threads : u # t => ~Writing(u) /\ th[u].pc \notin {"evtruncate", "evcool"}
  BY <1>1 DEF IInv, Control, LockHeld, Writing, WritePCs, LockPCs
<1>f. \A u \in Threads : InFlight(u)' => u # t /\ InFlight(u) /\ th'[u] = th[u]
  BY DEF Others, InFlight
<1>l. \A u \in Threads : Latest(u)' => u # t /\ Latest(u) /\ th'[u] = th[u]
  BY <1>f DEF Latest, StillCurrent
<1>b. disk.image.wm < th[t].first /\ \A u \in Threads : Latest(u) => th[u].snap.wm < th[t].first
  BY DEF MInv, Numbering
<1>3. HotLocked'
  BY <1>1 DEF HotLocked
<1>4. Aged'
  BY <1>f DEF MInv, Aged
<1>5. Ahead'
  <2>1. disk.image.ops \subseteq entry.graph
    BY <1>1 DEF MInv, Ahead, Behind
  <2>2. disk.image.wm < entry'.walSeq
    BY <1>0, <1>b
  <2>3. \A u \in Threads : Latest(u) => th[u].snap.ops \subseteq entry.graph /\ th[u].snap.wm < entry'.walSeq
    BY <1>0, <1>b DEF MInv, Ahead, Behind
  <2> QED BY <1>l, <2>1, <2>2, <2>3 DEF Ahead, Behind
<1>6. Numbering'
  <2> SUFFICES ASSUME NEW u \in Threads, Writing(u)'
               PROVE  /\ disk'.image.wm < th'[u].first /\ th'[u].first <= entry'.walSeq
                      /\ \A v \in Threads : Latest(v)' => th'[v].snap.wm < th'[u].first
                      /\ th'[u].pc \in {"trim", "reappend"} => dirty'
    BY DEF Numbering
  <2>1. u = t
    BY <1>2 DEF Others, Writing
  <2> QED BY <1>l, <1>b, <2>1
<1>7. CleanFlight'
  <2> SUFFICES ASSUME ~dirty', ~Leaving' PROVE CleanFlight'
    BY DEF CleanFlight
  <2>1. ~dirty /\ th'[t].pc = "operate" /\ entry'.graph = entry.graph
    OBVIOUS
  <2>2. ~Leaving
    BY <1>2 DEF Leaving, Writing, WritePCs
  <2> QED BY <1>l, <2>1, <2>2 DEF MInv, CleanFlight
<1> QED BY <1>3, <1>4, <1>5, <1>6, <1>7 DEF MInv

LEMMA WriterActions ==
  ASSUME IInv, MInv, NEW t \in Threads, AppendOk(t) \/ Operate(t) \/ ReappendOk(t) \/ ReappendFails(t)
  PROVE  MInv' /\ disk'.image = disk.image
<1>0. /\ disk \in Disk /\ th \in [Threads -> Thread] /\ entry \in Entry /\ dirty \in BOOLEAN
      /\ th[t] \in Thread
  BY DEF IInv, TypeInv, TypeOK
<1>1. disk'.image = disk.image
  <2>1. CASE AppendOk(t)
    BY <1>0, <2>1, LogAside DEF AppendOk
  <2>2. CASE Operate(t)
    BY <2>2 DEF Operate
  <2>3. CASE ReappendOk(t)
    BY <1>0, <2>3, LogAside DEF ReappendOk
  <2>4. CASE ReappendFails(t)
    BY <1>0, <2>4, LogAside DEF ReappendFails
  <2> QED BY <2>1, <2>2, <2>3, <2>4
<1>2. Len(th[t].batch) \in Nat /\ th[t].first \in Nat /\ th[t].landed \in Nat /\ entry.walSeq \in Nat
  BY <1>0, WriterType DEF IInv, Thread, Entry
<1>3. Writing(t)
  BY DEF AppendOk, Operate, ReappendOk, ReappendFails, At, Writing, WritePCs
<1>4. th[t].first <= entry.walSeq /\ (th[t].pc = "reappend" => dirty)
  BY <1>3 DEF MInv, Numbering
<1>i. Idle.pc = "idle"
  BY DEF Idle
<1>5. CASE AppendOk(t)
  <2>1. /\ entry'.slot = entry.slot /\ entry'.gen = entry.gen /\ entry'.graph = entry.graph
        /\ entry'.walSeq = entry.walSeq + Len(th[t].batch) /\ dirty' = dirty
    BY <1>0, <1>5 DEF AppendOk, Entry
  <2>2. Others(t) /\ th'[t].pc = "operate" /\ th'[t].first = th[t].first
    BY <1>5, GotoSays DEF AppendOk
  <2>3. entry'.walSeq \in Nat /\ th[t].first <= entry'.walSeq
    BY <1>2, <1>4, <2>1
  <2> QED BY <1>1, <1>3, <2>1, <2>2, <2>3, WriterKeeps
<1>6. CASE Operate(t)
  <2>1. /\ entry'.slot = entry.slot /\ entry'.gen = entry.gen /\ entry.graph \subseteq entry'.graph
        /\ entry'.walSeq = entry.walSeq /\ dirty'
    BY <1>0, <1>6 DEF Operate, Entry
  <2>2. Others(t) /\ th'[t].pc \in {"trim", "idle"} /\ (th'[t].pc = "trim" => th'[t].first = th[t].first)
    <3>1. CASE MustTrim(th[t], Landed(th[t].batch))
      BY <1>0, <1>6, <3>1 DEF Operate, Others, Thread
    <3>2. CASE ~MustTrim(th[t], Landed(th[t].batch))
      BY <1>0, <1>i, <1>6, <3>2 DEF Operate, Others, Answer
    <3> QED BY <3>1, <3>2
  <2>3. Writing(t)' => th'[t].first = th[t].first
    BY <2>2 DEF Writing, WritePCs
  <2> QED BY <1>1, <1>2, <1>3, <1>4, <2>1, <2>2, <2>3, WriterKeeps
<1>7. CASE ReappendOk(t) \/ ReappendFails(t)
  <2>1. /\ entry'.slot = entry.slot /\ entry'.gen = entry.gen /\ entry'.graph = entry.graph
        /\ (entry'.walSeq = th[t].first + th[t].landed \/ entry'.walSeq = th[t].first)
        /\ dirty' = dirty /\ th[t].pc = "reappend"
    BY <1>0, <1>7 DEF ReappendOk, ReappendFails, Entry, At
  <2>2. Others(t) /\ th'[t].pc \in {"flush", "idle"}
    BY <1>0, <1>i, <1>7 DEF ReappendOk, ReappendFails, Others, Answer, Thread
  <2>3. entry'.walSeq \in Nat /\ th[t].first <= entry'.walSeq
    BY <1>2, <2>1
  <2>4. ~Writing(t)'
    BY <2>2 DEF Writing, WritePCs
  <2> QED BY <1>1, <1>3, <1>4, <2>1, <2>2, <2>3, <2>4, WriterKeeps
<1> QED BY <1>5, <1>6, <1>7

\* Nobody has the lock, and no flush in flight may publish any more.
LEMMA NoneLatest ==
  ASSUME \A u \in Threads : th'[u].pc \notin LockPCs /\ ~Latest(u)',
         Aged', entry'.slot = "Hot" => Behind(disk.image)'
  PROVE  MInv'
<1>1. HotLocked' /\ Ahead'
  BY DEF HotLocked, Ahead
<1>2. Numbering' /\ CleanFlight'
  BY DEF Numbering, CleanFlight, Writing, WritePCs, LockPCs
<1> QED BY <1>1, <1>2 DEF MInv

LEMMA Unlocked ==
  ASSUME IInv, lock = Free
  PROVE  \A u \in Threads : th[u].pc \notin LockPCs
BY FreeIsNoThread DEF IInv, Control, LockHeld

\* The graph in memory leaves, or another takes its place: flights under way grow old.
LEMMA CoolsKeeps ==
  ASSUME IInv, MInv, NEW t \in Threads, Others(t), lock \in {Free, t},
         th'[t].pc \in {"idle", "flush", "unlink"},
         \/ entry'.gen = entry.gen + 1
         \/ entry'.gen = entry.gen /\ entry'.slot = "Deleted",
         disk'.image = disk.image, entry'.slot = "Hot" => Behind(disk.image)'
  PROVE  MInv'
<1>0. entry.gen \in Nat /\ \A u \in Threads : th[u].snap.gen \in Nat
  BY Sizes DEF IInv
<1>1. \A u \in Threads : u # t => th[u].pc \notin LockPCs
  BY FreeIsNoThread DEF IInv, Control, LockHeld
<1>2. \A u \in Threads : th'[u].pc \notin LockPCs
  BY <1>1 DEF Others, LockPCs
<1>3. \A u \in Threads : InFlight(u)' =>
        InFlight(u) /\ th'[u] = th[u] /\ th[u].pc \notin {"commit", "truncate"} /\ th[u].snap.gen <= entry.gen
  BY <1>1 DEF Others, InFlight, MInv, Aged, LockPCs
<1>4. \A u \in Threads : ~Latest(u)'
  BY <1>0, <1>3 DEF Latest, StillCurrent
<1>5. Aged'
  BY <1>0, <1>3 DEF Aged
<1> QED BY <1>2, <1>4, <1>5, NoneLatest

LEMMA CoolActions ==
  ASSUME IInv, MInv, NEW t \in Threads, EvictClean(t) \/ EvictCools(t) \/ Delete(t)
  PROVE  MInv' /\ disk'.image = disk.image
<1>0. th \in [Threads -> Thread] /\ entry \in Entry /\ dirty \in BOOLEAN
  BY DEF IInv, TypeInv, TypeOK
<1>i. Idle.pc = "idle"
  BY DEF Idle
<1>1. disk'.image = disk.image
  BY DEF EvictClean, EvictCools, Delete
<1>2. lock \in {Free, t}
  <2>1. CASE EvictCools(t)
    BY <2>1 DEF EvictCools, At, IInv, Control, LockHeld, LockPCs
  <2> QED BY <2>1 DEF EvictClean, Delete
<1>3. Others(t) /\ th'[t].pc \in {"idle", "unlink"}
  BY <1>0, <1>i DEF EvictClean, EvictCools, Delete, Goto, Others, Thread
<1>4. CASE EvictCools(t) \/ (EvictClean(t) /\ entry.slot = "Hot")
  <2>1. entry'.gen = entry.gen + 1 /\ entry'.slot = "Cold"
    BY <1>0, <1>4 DEF EvictCools, EvictClean, ColdEntry, Entry
  <2> QED BY <1>1, <1>2, <1>3, <2>1, CoolsKeeps
<1>5. CASE Delete(t)
  <2>1. entry'.gen = entry.gen /\ entry'.slot = "Deleted"
    BY <1>0, <1>5 DEF Delete, Entry
  <2> QED BY <1>1, <1>2, <1>3, <2>1, CoolsKeeps
<1>6. CASE EvictClean(t) /\ entry.slot # "Hot"
  <2>1. entry' = entry /\ dirty' = dirty /\ th[t].pc = "evict"
    BY <1>6 DEF EvictClean, At
  <2>2. Moves(t)
    BY <1>3, <2>1, EndMoves
  <2> QED BY <1>1, <2>1, <2>2, MoveKeeps DEF SameGraph
<1> QED BY <1>4, <1>5, <1>6

\* A load: memory is at least the image.
LEMMA LoadedAhead ==
  ASSUME IInv, MInv, Loadable
  PROVE  /\ LoadedEntry.slot = "Hot" /\ LoadedEntry.gen = entry.gen /\ LoadedEntry.walSeq \in Nat
         /\ disk.image.ops \subseteq LoadedEntry.graph /\ disk.image.wm < LoadedEntry.walSeq
         /\ entry.slot = "Hot" => LoadedEntry = entry
         /\ HealedDisk.image = disk.image
<1>0. entry \in Entry /\ disk \in Disk /\ disk.image.wm \in Nat
  BY DEF IInv, TypeInv, TypeOK, Disk, Image
<1>1. LoadedEntry.slot = "Hot" /\ LoadedEntry \in Entry
  BY LiveWhileLoadable, LoadedType DEF IInv
<1>2. HealedDisk.image = disk.image
  BY <1>0 DEF HealedDisk, Heal, Disk
<1>3. CASE entry.slot = "Hot"
  <2>1. LoadedEntry = entry
    BY <1>3 DEF LoadedEntry
  <2> QED BY <1>0, <1>1, <1>2, <1>3, <2>1 DEF MInv, Ahead, Behind, Entry
<1>4. CASE entry.slot # "Hot"
  <2>1. LoadedEntry.gen = entry.gen /\ LoadedEntry.graph = Recovered(disk) /\ LoadedEntry.walSeq = TopSeq(disk) + 1
    BY <1>0, <1>4 DEF LoadedEntry, Entry
  <2>2. TopSeq(disk) \in Nat /\ disk.image.wm <= TopSeq(disk)
    BY <1>0, TopSeqType
  <2>3. disk.image.ops \subseteq Recovered(disk)
    BY DEF Recovered
  <2>4. disk.image.wm < TopSeq(disk) + 1 /\ TopSeq(disk) + 1 \in Nat
    BY <1>0, <2>2
  <2> QED BY <1>1, <1>2, <1>4, <2>1, <2>3, <2>4
<1> QED BY <1>3, <1>4

\* A read or a write loads; a flight older than the load is not current.
LEMMA LoadKeeps ==
  ASSUME IInv, MInv, NEW t \in Threads, th[t].pc = "idle", lock = Free, Loadable,
         entry' = LoadedEntry, disk'.image = disk.image, dirty' = dirty, Others(t),
         \/ th'[t].pc = "idle"
         \/ th'[t].pc \in {"append", "operate"} /\ th'[t].first = LoadedEntry.walSeq
  PROVE  MInv'
<1>0. /\ entry.gen \in Nat /\ entry.walSeq \in Nat /\ disk.image.wm \in Nat /\ dirty \in BOOLEAN
      /\ \A u \in Threads : th[u].snap.gen \in Nat /\ th[u].snap.wm \in Nat
  BY Sizes DEF IInv
<1>1. /\ entry'.slot = "Hot" /\ entry'.gen = entry.gen /\ entry'.walSeq \in Nat
      /\ disk.image.ops \subseteq entry'.graph /\ disk.image.wm < entry'.walSeq
      /\ entry.slot = "Hot" => entry' = entry
  BY LoadedAhead
<1>2. \A u \in Threads : th[u].pc \notin LockPCs
  BY Unlocked
<1>f. \A u \in Threads : InFlight(u)' => u # t /\ InFlight(u) /\ th'[u] = th[u] /\ th[u].snap.gen <= entry.gen
                                      /\ th[u].pc \notin {"commit", "truncate"}
  BY <1>2 DEF Others, InFlight, MInv, Aged, LockPCs
<1>l. \A u \in Threads : Latest(u)' => Latest(u) /\ th'[u] = th[u] /\ entry' = entry
  <2> SUFFICES ASSUME NEW u \in Threads, Latest(u)' PROVE Latest(u) /\ th'[u] = th[u] /\ entry' = entry
    OBVIOUS
  <2>1. InFlight(u) /\ th'[u] = th[u] /\ entry.gen = th[u].snap.gen
    BY <1>1, <1>f DEF Latest, StillCurrent
  <2>2. entry.slot # "Cold"
    BY <1>0, <2>1 DEF MInv, Aged
  <2>3. entry.slot = "Hot"
    BY <2>2 DEF Loadable
  <2> QED BY <1>1, <2>1, <2>3 DEF Latest, StillCurrent
<1>3. HotLocked'
  BY <1>1 DEF HotLocked
<1>4. Aged'
  BY <1>1, <1>f DEF Aged
<1>5. Ahead'
  BY <1>1, <1>l DEF MInv, Ahead, Behind
<1>6. Numbering'
  <2> SUFFICES ASSUME NEW u \in Threads, Writing(u)'
               PROVE  /\ disk'.image.wm < th'[u].first /\ th'[u].first <= entry'.walSeq
                      /\ \A v \in Threads : Latest(v)' => th'[v].snap.wm < th'[u].first
                      /\ th'[u].pc \in {"trim", "reappend"} => dirty'
    BY DEF Numbering
  <2>1. u = t
    BY <1>2 DEF Others, Writing, WritePCs, LockPCs
  <2>2. th'[u].first = entry'.walSeq /\ th'[u].pc \notin {"trim", "reappend"}
    BY <2>1 DEF Writing, WritePCs
  <2>3. \A v \in Threads : Latest(v)' => th'[v].snap.wm < entry'.walSeq
    BY <1>l DEF MInv, Ahead, Behind
  <2> QED BY <1>1, <2>2, <2>3
<1>7. CleanFlight'
  <2> SUFFICES ASSUME ~dirty', ~Leaving' PROVE CleanFlight'
    BY DEF CleanFlight
  <2>1. ~dirty /\ ~Leaving /\ \A u \in Threads : th[u].pc # "operate"
    BY <1>2 DEF Leaving, LockPCs
  <2> QED BY <1>l, <2>1 DEF MInv, CleanFlight
<1> QED BY <1>3, <1>4, <1>5, <1>6, <1>7 DEF MInv

LEMMA LoadCalls ==
  ASSUME IInv, MInv, NEW t \in Threads, Read(t) \/ RefuseWrite(t) \/ BeginWrite(t) \/ Compact(t)
  PROVE  MInv' /\ disk'.image = disk.image
<1>0. th \in [Threads -> Thread] /\ entry \in Entry /\ entry.gen \in Nat
  BY DEF IInv, TypeInv, TypeOK, Entry
<1>1. Loadable /\ lock = Free /\ disk' = HealedDisk /\ th[t].pc = "idle"
  BY DEF Read, RefuseWrite, BeginWrite, Compact, At
<1>2. disk'.image = disk.image
  BY <1>1, LoadedAhead
<1>3. CASE Read(t) \/ RefuseWrite(t)
  <2>1. entry' = LoadedEntry /\ th' = th /\ dirty' = dirty
    BY <1>3 DEF Read, RefuseWrite
  <2>2. Others(t) /\ th'[t].pc = "idle"
    BY <1>1, <2>1 DEF Others
  <2> QED BY <1>1, <1>2, <2>1, <2>2, LoadKeeps
<1>4. CASE BeginWrite(t)
  <2>1. entry' = LoadedEntry /\ dirty' = dirty
    BY <1>4 DEF BeginWrite
  <2>2. Others(t) /\ th'[t].pc \in {"append", "operate"} /\ th'[t].first = LoadedEntry.walSeq
    <3>1. PICK b \in Batches : th' = [th EXCEPT ![t] =
               [Idle EXCEPT !.pc = IF WalEnabled THEN "append" ELSE "operate",
                            !.batch = b, !.base = nextId, !.first = LoadedEntry.walSeq,
                            !.len = LoadedEntry.walBytes]]
      BY <1>4 DEF BeginWrite
    <3> QED BY <1>0, <3>1 DEF Others, Idle
  <2> QED BY <1>1, <1>2, <2>1, <2>2, LoadKeeps
<1>5. CASE Compact(t)
  <2>1. /\ LoadedEntry.gen = entry.gen /\ disk.image.ops \subseteq LoadedEntry.graph
        /\ disk.image.wm < LoadedEntry.walSeq /\ LoadedEntry \in Entry
    BY <1>1, LoadedAhead, LoadedType DEF IInv
  <2>2. entry' = [LoadedEntry EXCEPT !.gen = LoadedEntry.gen + 1]
    BY <1>5 DEF Compact
  <2>3. entry'.gen = entry.gen + 1 /\ entry'.graph = LoadedEntry.graph /\ entry'.walSeq = LoadedEntry.walSeq
    BY <2>1, <2>2 DEF Entry
  <2>4. Behind(disk.image)'
    BY <1>2, <2>1, <2>3 DEF Behind
  <2>5. Others(t) /\ th'[t].pc = "flush"
    BY <1>5, GotoSays DEF Compact
  <2> QED BY <1>1, <1>2, <2>3, <2>4, <2>5, CoolsKeeps
<1> QED BY <1>3, <1>4, <1>5

\* The claim takes the graph as it is; nobody else has a flush in flight.
LEMMA ClaimActions ==
  ASSUME IInv, MInv, NEW t \in Threads, Claim(t) \/ ClaimLost(t)
  PROVE  MInv' /\ disk'.image = disk.image
<1>0. /\ entry.gen \in Nat /\ entry.walSeq \in Nat /\ entry.walSeq # 0 /\ disk.image.wm \in Nat /\ dirty \in BOOLEAN
      /\ flushing \in BOOLEAN /\ th \in [Threads -> Thread]
  BY Sizes DEF IInv, TypeInv, TypeOK, Entry
<1>1. /\ lock = Free /\ UNCHANGED <<entry, disk>> /\ th[t].pc = "claim"
  BY DEF Claim, ClaimLost, At
<1>2. \A u \in Threads : th[u].pc \notin LockPCs
  BY <1>1, Unlocked
<1>3. FlushFree => \A u \in Threads : ~InFlight(u)
  BY DEF FlushFree, IInv, Control, FlushExclusive
<1>4. CASE Claim(t)
  <2> DEFINE s == [ops |-> entry.graph, wm |-> Watermark, gen |-> entry.gen, rev |-> entry.rev, exposed |-> exposed]
  <2>1. th' = [th EXCEPT ![t] = [th[t] EXCEPT !.pc = "stage", !.snap = s]]
    BY <1>0, <1>4 DEF Claim
  <2>s. s.ops = entry.graph /\ s.wm = entry.walSeq - 1 /\ s.gen = entry.gen
    BY DEF Watermark
  <2> HIDE DEF s
  <2>2. Others(t) /\ th'[t].pc = "stage" /\ th'[t].snap = s
    BY <1>0, <2>1 DEF Others, Thread
  <2>3. entry.slot = "Hot" /\ FlushFree /\ dirty' = FALSE
    BY <1>4 DEF Claim
  <2>4. \A u \in Threads : InFlight(u)' => u = t
    BY <1>3, <2>2, <2>3 DEF Others, InFlight
  <2>5. \A u \in Threads : th'[u].pc \notin LockPCs
    BY <1>2, <2>2 DEF Others, LockPCs
  <2>6. HotLocked' /\ Numbering'
    BY <2>5 DEF HotLocked, Numbering, Writing, WritePCs, LockPCs
  <2>7. Aged'
    BY <1>0, <1>1, <2>s, <2>2, <2>3, <2>4 DEF Aged
  <2>8. disk.image.ops \subseteq entry.graph /\ disk.image.wm < entry.walSeq
    BY <2>3 DEF MInv, Ahead, Behind
  <2>9. Ahead'
    BY <1>0, <1>1, <2>s, <2>2, <2>4, <2>8 DEF Ahead, Behind, Latest
  <2>10. CleanFlight'
    BY <1>0, <1>1, <2>s, <2>2, <2>4, <2>8 DEF CleanFlight, Latest
  <2> QED BY <1>1, <2>6, <2>7, <2>9, <2>10 DEF MInv
<1>5. CASE ClaimLost(t) /\ ~FlushFree
  <2>1. FlushReturns(t, FALSE) /\ (dirty => dirty')
    BY <1>0, <1>5 DEF ClaimLost
  <2>2. Moves(t)
    BY <1>1, <2>1, ReturnMoves
  <2> QED BY <1>1, <2>1, <2>2, MoveKeeps DEF SameGraph
<1>6. CASE ClaimLost(t) /\ FlushFree
  <2>1. Others(t) /\ th'[t].pc \in {"idle", "evict"} /\ entry.slot # "Hot"
    BY <1>6, ReturnsSays DEF ClaimLost
  <2>2. \A u \in Threads : th'[u].pc \notin LockPCs /\ ~InFlight(u)'
    BY <1>2, <1>3, <1>6, <2>1 DEF Others, LockPCs, InFlight
  <2> QED BY <1>1, <2>1, <2>2, NoneLatest DEF Latest, Aged
<1> QED BY <1>4, <1>5, <1>6

\* The image of a clean entry never goes back.
Advances ==
  ~dirty => disk.image.ops \subseteq disk'.image.ops /\ disk.image.wm <= disk'.image.wm

\* A flush publishes its snapshot, or fails to.
LEMMA CommitActions ==
  ASSUME IInv, MInv, NEW t \in Threads, CommitOk(t) \/ CommitFails(t)
  PROVE  MInv' /\ Advances
<1>0. /\ entry.gen \in Nat /\ entry.walSeq \in Nat /\ disk.image.wm \in Nat /\ dirty \in BOOLEAN
      /\ \A u \in Threads : th[u].snap.gen \in Nat /\ th[u].snap.wm \in Nat
  BY Sizes DEF IInv
<1>1. th[t].pc = "commit" /\ InFlight(t) /\ entry' = entry
  BY DEF CommitOk, CommitFails, At, InFlight
<1>2. lock = t /\ entry.slot = "Hot" /\ th[t].snap.gen = entry.gen /\ Latest(t)
  BY <1>1 DEF IInv, Control, LockHeld, LockPCs, MInv, HotLocked, Aged, Latest, StillCurrent
<1>3. \A u \in Threads : u # t => th[u].pc \notin LockPCs /\ ~InFlight(u)
  BY <1>1, <1>2 DEF IInv, Control, LockHeld, FlushExclusive
<1>4. ~Leaving /\ \A u \in Threads : th[u].pc # "operate"
  BY <1>1, <1>3 DEF Leaving, LockPCs
<1>5. \/ disk'.image = disk.image
      \/ disk'.image.ops = th[t].snap.ops /\ disk'.image.wm = th[t].snap.wm
  <2>1. disk \in Disk /\ th[t].snap \in Snapshot
    BY DEF IInv, TypeInv, TypeOK, Thread
  <2>2. disk' = disk \/ disk' = Publish(disk, th[t].snap.ops, th[t].snap.wm)
    BY DEF CommitOk, CommitFails
  <2> QED BY <2>1, <2>2, PublishSays
<1>6. /\ Others(t) /\ th'[t].pc \in {"truncate", "idle", "evict"}
      /\ th'[t].pc = "truncate" => th'[t].snap = th[t].snap
  <2>1. Goto(t, "truncate") \/ \E ok \in BOOLEAN : FlushReturns(t, ok)
    BY DEF CommitOk, CommitFails
  <2> QED BY <2>1, GotoSays, ReturnsSays
<1>7. dirty' \/ dirty' = dirty
  BY DEF CommitOk, CommitFails
<1>8. Behind(disk.image) /\ Behind(th[t].snap)
  BY <1>2 DEF MInv, Ahead
<1>9. ~dirty => /\ entry.graph \subseteq th[t].snap.ops /\ disk.image.wm <= th[t].snap.wm
                /\ entry.walSeq <= th[t].snap.wm + 1
  BY <1>2, <1>4 DEF MInv, CleanFlight
<1>10. Advances
  BY <1>0, <1>5, <1>8, <1>9 DEF Advances, Behind
<1>f. \A u \in Threads : InFlight(u)' => u = t /\ th'[u].pc = "truncate" /\ th'[u].snap = th[t].snap
  BY <1>3, <1>6 DEF Others, InFlight
<1>11. HotLocked'
  BY <1>1, <1>2 DEF HotLocked
<1>12. Aged'
  BY <1>0, <1>1, <1>2, <1>f DEF Aged
<1>13. Ahead'
  BY <1>1, <1>5, <1>8, <1>f DEF Ahead, Behind, Latest
<1>14. Numbering'
  BY <1>3, <1>6 DEF Numbering, Others, Writing, WritePCs, LockPCs
<1>15. CleanFlight'
  BY <1>0, <1>1, <1>5, <1>7, <1>9, <1>f DEF CleanFlight, Latest
<1> QED BY <1>10, <1>11, <1>12, <1>13, <1>14, <1>15 DEF MInv

\* An eviction publishes the graph itself, and then drops it unless that failed.
LEMMA EvictCommitActions ==
  ASSUME IInv, MInv, NEW t \in Threads, EvictCommit(t) \/ EvictCommitFails(t)
  PROVE  MInv' /\ Advances
<1>0. /\ entry.gen \in Nat /\ entry.walSeq \in Nat /\ entry.walSeq # 0 /\ disk.image.wm \in Nat /\ dirty \in BOOLEAN
      /\ \A u \in Threads : th[u].snap.gen \in Nat /\ th[u].snap.wm \in Nat
  BY Sizes DEF IInv, TypeInv, TypeOK, Entry
<1>1. th[t].pc = "evcommit" /\ entry' = entry
  BY DEF EvictCommit, EvictCommitFails, At
<1>2. lock = t /\ entry.slot = "Hot"
  BY <1>1 DEF IInv, Control, LockHeld, LockPCs, MInv, HotLocked
<1>3. \A u \in Threads : u # t => th[u].pc \notin LockPCs
  BY <1>2 DEF IInv, Control, LockHeld
<1>4. ~Leaving /\ \A u \in Threads : th[u].pc # "operate"
  BY <1>1, <1>3 DEF Leaving, LockPCs
<1>5. \/ disk'.image = disk.image
      \/ disk'.image.ops = entry.graph /\ disk'.image.wm = entry.walSeq - 1
  <2>1. disk \in Disk
    BY DEF IInv, TypeInv, TypeOK
  <2>2. disk' = disk \/ disk' = Publish(disk, entry.graph, Watermark)
    BY DEF EvictCommit, EvictCommitFails
  <2> QED BY <2>1, <2>2, PublishSays DEF Watermark
<1>6. /\ Others(t)
      /\ \/ th'[t].pc = "idle" /\ dirty' = dirty
         \/ th'[t].pc = "evtruncate"
  <2>1. CASE EvictCommit(t)
    BY <2>1, GotoSays DEF EvictCommit
  <2>2. CASE EvictCommitFails(t)
    BY <2>2 DEF EvictCommitFails, IInv, TypeInv, TypeOK, Others, Idle
  <2> QED BY <2>1, <2>2
<1>8. Behind(disk.image)
  BY <1>2 DEF MInv, Ahead
<1>10. Advances
  BY <1>0, <1>5, <1>8 DEF Advances, Behind
<1>f. \A u \in Threads : InFlight(u)' => InFlight(u) /\ u # t /\ th'[u] = th[u]
  BY <1>6 DEF Others, InFlight
<1>l. \A u \in Threads : Latest(u)' => Latest(u) /\ th'[u] = th[u]
  BY <1>1, <1>f DEF Latest, StillCurrent
<1>11. HotLocked'
  BY <1>1, <1>2 DEF HotLocked
<1>12. Aged'
  BY <1>1, <1>f DEF MInv, Aged
<1>13. Ahead'
  BY <1>0, <1>1, <1>5, <1>8, <1>l DEF MInv, Ahead, Behind
<1>14. Numbering'
  BY <1>3, <1>6 DEF Numbering, Others, Writing, WritePCs, LockPCs
<1>15. CleanFlight'
  <2> SUFFICES ASSUME ~dirty', ~Leaving' PROVE CleanFlight'
    BY DEF CleanFlight
  <2>1. ~dirty
    BY <1>6 DEF Leaving
  <2>2. \A u \in Threads : Latest(u) =>
          /\ entry.graph \subseteq th[u].snap.ops /\ disk.image.wm <= th[u].snap.wm
          /\ entry.walSeq <= th[u].snap.wm + 1
    BY <1>4, <2>1 DEF MInv, CleanFlight
  <2> QED BY <1>0, <1>1, <1>5, <1>l, <2>2 DEF CleanFlight
<1> QED BY <1>10, <1>11, <1>12, <1>13, <1>14, <1>15 DEF MInv

LEMMA RestActions ==
  ASSUME IInv, MInv,
         \/ QuarantineLapses \/ Crash \/ UNCHANGED vars
         \/ \E t \in Threads : ReadDeleted(t) \/ LoadFails(t)
  PROVE  MInv' /\ disk'.image = disk.image
<1>0. entry \in Entry /\ disk \in Disk /\ dirty \in BOOLEAN
  BY DEF IInv, TypeInv, TypeOK
<1>1. CASE ~Crash
  <2>1. UNCHANGED <<dirty, disk, th>>
    BY <1>1 DEF QuarantineLapses, vars, ReadDeleted, LoadFails
  <2>2. entry' = entry \/ \E q : entry' = [entry EXCEPT !.quarantined = q]
    BY <1>1 DEF vars, QuarantineLapses, ReadDeleted, LoadFails
  <2>3. SameGraph
    BY <1>0, <2>2 DEF SameGraph, Entry
  <2>4. Moves(Flusher)
    BY <2>1, FlusherIsThread DEF Moves, Others, MInv, HotLocked, Aged, Numbering, InFlight, Writing
  <2> QED BY <2>1, <2>3, <2>4, MoveKeeps, FlusherIsThread
<1>2. CASE Crash
  <2>1. /\ entry'.slot = "Cold" /\ disk' \in CrashDisks
        /\ \A u \in Threads : th'[u].pc = "idle"
    BY <1>2 DEF Crash, Idle
  <2>2. disk'.image = disk.image
    BY <1>0, <2>1, LogAside DEF CrashDisks
  <2>3. \A u \in Threads : th'[u].pc \notin LockPCs /\ ~InFlight(u)'
    BY <2>1 DEF LockPCs, InFlight
  <2> QED BY <2>1, <2>2, <2>3, NoneLatest DEF Latest, Aged
<1> QED BY <1>1, <1>2

LEMMA MInvInit == Init => MInv
<1> SUFFICES ASSUME Init PROVE MInv
  OBVIOUS
<1>1. /\ entry.graph = {} /\ entry.walSeq = 1 /\ disk.image.ops = {} /\ disk.image.wm = 0
      /\ \A t \in Threads : th[t].pc = "idle"
  BY DEF Init, Idle
<1>2. \A t \in Threads : th[t].pc \notin LockPCs /\ ~InFlight(t) /\ ~Writing(t)
  BY <1>1 DEF LockPCs, InFlight, Writing, WritePCs
<1> QED BY <1>1, <1>2 DEF MInv, HotLocked, Aged, Ahead, Behind, Numbering, CleanFlight, Latest

LEMMA MInvStep ==
  ASSUME "panic" \notin Faults, IInv, MInv, [Next]_vars
  PROVE  MInv' /\ Advances
<1>0. disk.image.wm \in Nat
  BY Sizes DEF IInv
<1>a. disk'.image = disk.image => Advances
  BY <1>0 DEF Advances
<1>1. ASSUME NEW t \in Threads, WriteStep(t) PROVE MInv' /\ Advances
  <2>1. ~OperatePanics(t)
    BY DEF OperatePanics, Fault
  <2> QED BY <1>1, <1>a, <2>1, WriteMoves, WriterActions DEF WriteStep
<1>2. ASSUME NEW t \in Threads, FlushStep(t) PROVE MInv' /\ Advances
  BY <1>2, <1>a, FlushMoves, ClaimActions, CommitActions DEF FlushStep
<1>3. ASSUME NEW t \in Threads, EvictStep(t) PROVE MInv' /\ Advances
  BY <1>3, <1>a, EvictMoves, CoolActions, EvictCommitActions DEF EvictStep
<1>4. ASSUME NEW t \in Threads, Call(t) PROVE MInv' /\ Advances
  BY <1>4, <1>a, LoadCalls, CallMoves, CoolActions, RestActions DEF Call
<1>5. ASSUME NEW t \in Threads, Unlink(t) PROVE MInv' /\ Advances
  BY <1>5, <1>a, CallMoves
<1> QED BY <1>1, <1>2, <1>3, <1>4, <1>5, <1>a, RestActions DEF Next, Continue

\* The generation check and evict_entry's look at `flushing': as long as no operation
\* panics inside a batch, the image a clean entry has on disk is never replaced by an
\* older one, whichever flush, eviction or compaction publishes last.
THEOREM ImageAdvances == "panic" \notin Faults /\ Spec => ImageNeverRegresses
<1> SUFFICES ASSUME "panic" \notin Faults PROVE Spec => ImageNeverRegresses
  OBVIOUS
<1> DEFINE A == Alive' /\ ~dirty => /\ disk.image.ops \subseteq disk'.image.ops
                                    /\ disk.image.wm <= disk'.image.wm
<1>1. IInv /\ MInv /\ [Next]_vars => MInv' /\ [A]_disk
  BY MInvStep DEF Advances
<1>2. ImageNeverRegresses <=> [][A]_disk
  BY DEF ImageNeverRegresses
<1> QED BY <1>1, <1>2, MInvInit, Inductive, PTL DEF Spec

(***************************************************************************)
(* Revisions: a change of what reads answer moves the revision forward.    *)
(***************************************************************************)

\* A flush in flight that may still publish.
Saved(t) == InFlight(t) /\ Publishable(th[t].snap)

\* Snapshot and log say of every operation, the batch being written aside, what a read
\* says.
Says(s) == \A a \in Nat : Earlier(a) => (a \in Visible <=> a \in s.ops \/ Replays(disk.log, a, s.wm))
Exact == (Alive => Says(disk.image)) /\ \A t \in Threads : Saved(t) => Says(th[t].snap)

\* A load from a snapshot with watermark w numbers above n, even if the batch being
\* written is taken back.
Firm(i) == \A t \in Threads : Writing(t) => i <= th[t].len
FirmTo(n) == \E i \in DOMAIN disk.log : Firm(i) /\ n <= disk.log[i].seq
Reach(w, n) == n <= w \/ FirmTo(n)

IsWm(w) == w = disk.image.wm \/ \E t \in Threads : Saved(t) /\ w = th[t].snap.wm

\* The numbers that have been given out: no revision on disk, in memory or in a
\* snapshot is ahead of what a load finds.
Trimming(t) == th[t].pc \in {"trim", "reappend"}
Unled == entry.slot = "Hot" /\ \A t \in Threads : ~Writing(t)
GivenOut(n) ==
  \/ n = disk.rev \/ n = disk.image.wm
  \/ Alive /\ (\A t \in Threads : ~Trimming(t)) /\ n = entry.rev
  \/ \E t \in Threads : Saved(t) /\ n = th[t].snap.rev
  \/ Unled /\ n = entry.walSeq - 1
  \/ \E t \in Threads : Writing(t) /\ n = th[t].first - 1
Numbered == disk.present => \A w, n \in Nat : IsWm(w) /\ GivenOut(n) => Reach(w, n)

Counting == \A t \in Threads : Trimming(t) => entry.rev < th[t].first + th[t].landed

RInv == Exact /\ Numbered /\ Counting

Tracks == Alive' => Visible' = Visible \/ VisibleRev' > VisibleRev

-----------------------------------------------------------------------------
(* Steps that leave graph, image and log alone *)

LEMMA SameVisible ==
  ASSUME disk'.image = disk.image, disk'.log = disk.log,
         \/ entry'.slot = entry.slot /\ entry'.graph = entry.graph
         \/ entry.slot # "Hot" /\ entry'.slot # "Hot"
  PROVE  Visible' = Visible
<1>1. Recovered(disk)' = Recovered(disk)
  BY DEF Recovered, Replayable
<1> QED BY <1>1 DEF Visible

LEMMA SavedStays ==
  ASSUME NEW t \in Threads, Others(t), entry'.slot # "Deleted" => entry.slot # "Deleted",
         entry'.gen = entry.gen, th[t].pc # "evcool",
         InFlight(t)' => InFlight(t) /\ th'[t].snap = th[t].snap
  PROVE  \A u \in Threads : Saved(u)' => Saved(u) /\ th'[u].snap = th[u].snap
<1> SUFFICES ASSUME NEW u \in Threads, Saved(u)' PROVE Saved(u) /\ th'[u].snap = th[u].snap
  OBVIOUS
<1>1. InFlight(u) /\ th'[u].snap = th[u].snap
  BY DEF Others, Saved, InFlight
<1>2. Publishable(th[u].snap)
  BY <1>1 DEF Others, Saved, Publishable
<1> QED BY <1>1, <1>2 DEF Saved

LEMMA ExactStays ==
  ASSUME Exact, Alive' => Alive, Visible' = Visible,
         disk'.image = disk.image, disk'.log = disk.log,
         \A a \in Nat : Earlier(a)' => Earlier(a),
         \A u \in Threads : Saved(u)' => Saved(u) /\ th'[u].snap = th[u].snap
  PROVE  Exact'
<1>1. \A s : Says(s) => (\A a \in Nat : Earlier(a)' => (a \in Visible' <=> a \in s.ops \/ Replays(disk'.log, a, s.wm)))
  BY DEF Says
<1> QED BY <1>1 DEF Exact, Says

LEMMA NumberedStays ==
  ASSUME Numbered, disk'.present => disk.present,
         \A w \in Nat : IsWm(w)' => IsWm(w),
         \A n \in Nat : GivenOut(n)' => GivenOut(n),
         \A n \in Nat : FirmTo(n) => FirmTo(n)'
  PROVE  Numbered'
BY DEF Numbered, Reach

LEMMA StandingStep ==
  ASSUME IInv, RInv, NEW t \in Threads, Others(t), SameEntry, SameDisk,
         entry'.rev = entry.rev, nextId' = nextId, GivenOut(disk'.rev),
         ~Writing(t), th'[t].pc \notin WritePCs, th[t].pc # "evcool",
         InFlight(t)' => InFlight(t) /\ th'[t].snap = th[t].snap
  PROVE  RInv' /\ Tracks
<1>1. Visible' = Visible
  BY SameVisible DEF SameEntry, SameDisk
<1>2. \A u \in Threads : Saved(u)' => Saved(u) /\ th'[u].snap = th[u].snap
  BY SavedStays DEF SameEntry
<1>3. \A u \in Threads : /\ Writing(u)' <=> Writing(u)
                         /\ Writing(u) => th'[u] = th[u]
                         /\ Trimming(u)' <=> Trimming(u)
  BY DEF Others, Writing, WritePCs, Trimming
<1>4. \A a \in Nat : Earlier(a)' => Earlier(a)
  BY <1>3 DEF Earlier
<1>5. Exact'
  BY <1>1, <1>2, <1>4, ExactStays DEF RInv, SameEntry, SameDisk, Alive
<1>6. \A n \in Nat : FirmTo(n) => FirmTo(n)'
  BY <1>3 DEF FirmTo, Firm, SameDisk
<1>7. \A w \in Nat : IsWm(w)' => IsWm(w)
  BY <1>2 DEF IsWm, SameDisk
<1>8. \A n \in Nat : GivenOut(n)' => GivenOut(n)
  <2> SUFFICES ASSUME NEW n \in Nat, GivenOut(n)' PROVE GivenOut(n)
    OBVIOUS
  <2>1. CASE n = disk'.rev
    BY <2>1
  <2>2. CASE n = disk'.image.wm
    BY <2>2 DEF GivenOut, SameDisk
  <2>3. CASE Alive' /\ (\A u \in Threads : ~Trimming(u)') /\ n = entry'.rev
    BY <2>3, <1>3 DEF GivenOut, SameEntry, Alive
  <2>4. CASE \E u \in Threads : Saved(u)' /\ n = th'[u].snap.rev
    BY <2>4, <1>2 DEF GivenOut
  <2>5. CASE Unled' /\ n = entry'.walSeq - 1
    BY <2>5, <1>3 DEF GivenOut, Unled, SameEntry
  <2>6. CASE \E u \in Threads : Writing(u)' /\ n = th'[u].first - 1
    BY <2>6, <1>3 DEF GivenOut
  <2> QED BY <2>1, <2>2, <2>3, <2>4, <2>5, <2>6 DEF GivenOut
<1>9. Numbered'
  BY <1>6, <1>7, <1>8, NumberedStays DEF RInv, SameDisk
<1>10. Counting'
  <2>1. \A u \in Threads : Trimming(u)' => Trimming(u) /\ th'[u] = th[u]
    BY <1>3 DEF Trimming, Writing, WritePCs
  <2> QED BY <2>1 DEF RInv, Counting
<1> QED BY <1>1, <1>5, <1>9, <1>10 DEF RInv, Tracks

LEMMA StandingActions ==
  ASSUME IInv, RInv, NEW t \in Threads,
         \/ Tick(t) \/ FlushEntry(t) \/ ClaimLost(t) \/ StageOk(t) \/ StageFails(t)
         \/ PublishBacksOff(t) \/ PublishMeta(t) \/ PublishMetaFails(t)
         \/ EvictStarts(t) \/ EvictPinned(t) \/ EvictMeta(t) \/ EvictMetaFails(t)
  PROVE  RInv' /\ Tracks
<1>0. th \in [Threads -> Thread] /\ entry \in Entry /\ disk \in Disk
  BY DEF IInv, TypeInv, TypeOK
<1>s. UNCHANGED <<entry, disk>> => SameEntry /\ SameDisk /\ entry'.rev = entry.rev /\ GivenOut(disk'.rev)
  BY DEF SameEntry, SameDisk, GivenOut
<1>i. Idle.pc = "idle"
  BY DEF Idle
<1>r. ASSUME NEW ok \in BOOLEAN, FlushReturns(t, ok), SameEntry, SameDisk, entry'.rev = entry.rev,
             GivenOut(disk'.rev), nextId' = nextId, ~Writing(t), th[t].pc # "evcool"
      PROVE  RInv' /\ Tracks
  <2>1. Others(t) /\ th'[t].pc \in {"idle", "evict"}
    BY <1>r, ReturnsSays
  <2>2. ~InFlight(t)' /\ th'[t].pc \notin WritePCs
    BY <2>1 DEF InFlight, WritePCs
  <2> QED BY <1>r, <2>1, <2>2, StandingStep
<1>g. ASSUME NEW p, Goto(t, p), SameEntry, SameDisk, entry'.rev = entry.rev,
             GivenOut(disk'.rev), nextId' = nextId, ~Writing(t), th[t].pc # "evcool",
             p \notin WritePCs, p \in FlightPCs => InFlight(t)
      PROVE  RInv' /\ Tracks
  <2>1. Others(t) /\ th'[t].pc = p /\ th'[t].snap = th[t].snap
    BY <1>g, GotoSays
  <2>2. InFlight(t)' => InFlight(t)
    BY <1>g, <2>1 DEF InFlight, FlightPCs
  <2> QED BY <1>g, <2>1, <2>2, StandingStep
<1>m. ASSUME NEW w, th' = [th EXCEPT ![t] = w], w.pc \in {"idle", "flush"},
             SameEntry, SameDisk, entry'.rev = entry.rev,
             GivenOut(disk'.rev), nextId' = nextId, ~Writing(t), th[t].pc # "evcool"
      PROVE  RInv' /\ Tracks
  <2>1. Others(t) /\ th'[t] = w
    BY <1>0, <1>m DEF Others
  <2>2. ~InFlight(t)' /\ th'[t].pc \notin WritePCs
    BY <1>m, <2>1 DEF InFlight, WritePCs
  <2> QED BY <1>m, <2>1, <2>2, StandingStep
<1>1. CASE Tick(t)
  BY <1>1, <1>g, <1>s DEF Tick, At, history, Writing, WritePCs, FlightPCs
<1>2. CASE FlushEntry(t)
  <2>1. UNCHANGED <<entry, disk, nextId>> /\ th[t].pc = "flush"
    BY <1>2 DEF FlushEntry, At
  <2>2. CASE dirty
    BY <1>2, <2>1, <2>2, <1>g, <1>s DEF FlushEntry, Writing, WritePCs, FlightPCs
  <2>3. CASE ~dirty
    BY <1>2, <2>1, <2>3, <1>r, <1>s DEF FlushEntry, Writing, WritePCs
  <2> QED BY <2>2, <2>3
<1>3. CASE ClaimLost(t)
  BY <1>3, <1>r, <1>s DEF ClaimLost, At, Writing, WritePCs
<1>4. CASE StageOk(t)
  BY <1>4, <1>g, <1>s DEF StageOk, At, history, Writing, WritePCs, InFlight
<1>5. CASE StageFails(t)
  BY <1>5, <1>r, <1>s DEF StageFails, At, Writing, WritePCs
<1>6. CASE PublishBacksOff(t)
  BY <1>6, <1>r, <1>s DEF PublishBacksOff, At, Writing, WritePCs
<1>p. ASSUME th[t].pc = "publish", lock = Free, StillCurrent(t) PROVE GivenOut(th[t].snap.rev)
  <2>1. \A u \in Threads : th[u].pc # "evcool"
    BY <1>p, Unwritten DEF LockPCs
  <2>2. Saved(t)
    BY <1>p, <2>1 DEF Saved, InFlight, Publishable, StillCurrent
  <2> QED BY <2>2 DEF GivenOut
<1>e. ASSUME lock = Free, entry.slot = "Hot" PROVE GivenOut(entry.rev)
  <2>1. \A u \in Threads : ~Trimming(u)
    BY <1>e, Unwritten DEF LockPCs, Trimming
  <2> QED BY <1>e, <2>1 DEF GivenOut, Alive
<1>7. CASE PublishMeta(t)
  <2>1. /\ th[t].pc = "publish" /\ Goto(t, "commit") /\ UNCHANGED <<entry, nextId>>
        /\ lock = Free /\ StillCurrent(t)
        /\ disk' = [disk EXCEPT !.rev = th[t].snap.rev]
    BY <1>7 DEF PublishMeta, At, history
  <2>2. SameEntry /\ SameDisk /\ disk'.rev = th[t].snap.rev
    BY <1>0, <2>1, SidecarSame DEF SameEntry, Disk
  <2> QED BY <2>1, <2>2, <1>p, <1>g DEF Writing, WritePCs, FlightPCs, InFlight
<1>8. CASE PublishMetaFails(t)
  <2>1. /\ th[t].pc = "publish" /\ FlushReturns(t, FALSE) /\ UNCHANGED <<entry, nextId>>
        /\ lock = Free /\ StillCurrent(t)
        /\ disk' = disk \/ disk' = [disk EXCEPT !.rev = th[t].snap.rev]
    BY <1>8 DEF PublishMetaFails, At
  <2>2. SameEntry /\ SameDisk /\ (disk'.rev = th[t].snap.rev \/ disk'.rev = disk.rev)
    BY <1>0, <2>1, SidecarSame DEF SameEntry, SameDisk, Disk
  <2>3. GivenOut(disk'.rev)
    BY <2>1, <2>2, <1>p DEF GivenOut
  <2> QED BY <2>1, <2>2, <2>3, <1>r DEF Writing, WritePCs
<1>9. CASE EvictStarts(t)
  <2> DEFINE w == [th[t] EXCEPT !.pc = "flush", !.cont = "evict"]
  <2>1. th[t].pc = "idle" /\ UNCHANGED <<entry, disk, nextId>> /\ th' = [th EXCEPT ![t] = w]
    BY <1>0, <1>9 DEF EvictStarts, At, history
  <2>2. w.pc = "flush"
    BY <1>0 DEF Thread
  <2> HIDE DEF w
  <2> QED BY <2>1, <2>2, <1>m, <1>s DEF Writing, WritePCs
<1>10. CASE EvictPinned(t)
  BY <1>10, <1>i, <1>m, <1>s DEF EvictPinned, At, history, Writing, WritePCs
<1>11. CASE EvictMeta(t)
  <2>1. /\ th[t].pc = "evict" /\ Goto(t, "evcommit") /\ UNCHANGED <<entry, nextId>>
        /\ lock = Free /\ entry.slot = "Hot" /\ disk' = [disk EXCEPT !.rev = entry.rev]
    BY <1>11 DEF EvictMeta, At, history
  <2>2. SameEntry /\ SameDisk /\ disk'.rev = entry.rev
    BY <1>0, <2>1, SidecarSame DEF SameEntry, Disk
  <2> QED BY <2>1, <2>2, <1>e, <1>g DEF Writing, WritePCs, FlightPCs
<1>12. CASE EvictMetaFails(t)
  <2>1. /\ th[t].pc = "evict" /\ th' = [th EXCEPT ![t] = Idle] /\ UNCHANGED <<entry, nextId>>
        /\ lock = Free /\ entry.slot = "Hot"
        /\ disk' = disk \/ disk' = [disk EXCEPT !.rev = entry.rev]
    BY <1>12 DEF EvictMetaFails, At
  <2>2. SameEntry /\ SameDisk /\ (disk'.rev = entry.rev \/ disk'.rev = disk.rev)
    BY <1>0, <2>1, SidecarSame DEF SameEntry, SameDisk, Disk
  <2>3. GivenOut(disk'.rev)
    BY <2>1, <2>2, <1>e DEF GivenOut
  <2> QED BY <2>1, <2>2, <2>3, <1>i, <1>m DEF Writing, WritePCs
<1> QED BY <1>1, <1>2, <1>3, <1>4, <1>5, <1>6, <1>7, <1>8, <1>9, <1>10, <1>11, <1>12

LEMMA StillStep ==
  ASSUME RInv, SameEntry, SameDisk, entry'.rev = entry.rev, disk'.rev = disk.rev,
         nextId' = nextId, th' = th
  PROVE  RInv' /\ Tracks
<1>1. Visible' = Visible
  BY SameVisible DEF SameEntry, SameDisk
<1>2. \A u \in Threads : Saved(u)' => Saved(u) /\ th'[u].snap = th[u].snap
  BY DEF Saved, InFlight, Publishable, SameEntry
<1>3. Exact'
  BY <1>1, <1>2, ExactStays DEF RInv, SameEntry, SameDisk, Alive, Earlier, Writing
<1>4. \A n \in Nat : FirmTo(n) => FirmTo(n)'
  BY DEF FirmTo, Firm, SameDisk, Writing
<1>5. \A w \in Nat : IsWm(w)' => IsWm(w)
  BY <1>2 DEF IsWm, SameDisk
<1>6. \A n \in Nat : GivenOut(n)' => GivenOut(n)
  BY <1>2 DEF GivenOut, SameDisk, SameEntry, Alive, Unled, Writing, Trimming
<1>7. Numbered'
  BY <1>4, <1>5, <1>6, NumberedStays DEF RInv, SameDisk
<1>8. Counting'
  BY DEF RInv, Counting, Trimming
<1> QED BY <1>1, <1>3, <1>7, <1>8 DEF RInv, Tracks

LEMMA StillActions ==
  ASSUME IInv, RInv, UNCHANGED vars \/ QuarantineLapses \/ \E t \in Threads : ReadDeleted(t) \/ LoadFails(t)
  PROVE  RInv' /\ Tracks
<1>0. entry \in Entry
  BY DEF IInv, TypeInv, TypeOK
<1>1. CASE UNCHANGED vars \/ \E t \in Threads : ReadDeleted(t)
  BY <1>1, StillStep DEF ReadDeleted, vars, history, SameEntry, SameDisk
<1>2. CASE QuarantineLapses \/ \E t \in Threads : LoadFails(t)
  <2>1. disk' = disk /\ th' = th /\ nextId' = nextId
    BY <1>2 DEF QuarantineLapses, LoadFails, history
  <2>2. SameEntry /\ entry'.rev = entry.rev
    BY <1>0, <1>2 DEF QuarantineLapses, LoadFails, SameEntry, Entry
  <2> QED BY <2>1, <2>2, StillStep DEF SameDisk
<1> QED BY <1>1, <1>2

-----------------------------------------------------------------------------
(* The graph is taken, or leaves *)

LEMMA RevTypes ==
  ASSUME IInv
  PROVE  /\ th \in [Threads -> Thread] /\ entry \in Entry /\ disk \in Disk /\ nextId \in Nat
         /\ entry.slot \in {"Hot", "Cold", "Deleted"} /\ entry.graph \in SUBSET Nat
         /\ entry.walSeq \in Nat /\ entry.walSeq # 0 /\ entry.rev \in Nat /\ entry.gen \in Nat
         /\ disk.log \in Seq(Record) /\ DOMAIN disk.log = 1..Len(disk.log) /\ Len(disk.log) \in Nat
         /\ \A i \in DOMAIN disk.log : disk.log[i].seq \in Nat /\ disk.log[i].id \in Nat
         /\ disk.image.wm \in Nat /\ disk.image.ops \in SUBSET Nat /\ disk.rev \in Nat
         /\ disk.present \in BOOLEAN /\ (disk.present = FALSE => entry.slot = "Deleted")
         /\ \A u \in Threads : th[u].snap \in Snapshot /\ th[u].snap.wm \in Nat /\ th[u].snap.gen \in Nat
              /\ th[u].snap.rev \in Nat /\ th[u].snap.ops \in SUBSET Nat
<1>1. th \in [Threads -> Thread] /\ entry \in Entry /\ disk \in Disk /\ nextId \in Nat
  BY DEF IInv, TypeInv, TypeOK
<1>2. \A u \in Threads : th[u].snap \in Snapshot
  BY <1>1 DEF Thread
<1>3. disk.log \in Seq(Record) /\ disk.image \in Image /\ disk.rev \in Nat /\ disk.present \in BOOLEAN
  BY <1>1 DEF Disk
<1>4. disk.present = FALSE => entry.slot = "Deleted"
  BY DEF IInv, Tombstoned
<1> QED BY <1>1, <1>2, <1>3, <1>4, LogType DEF Entry, Image, Snapshot

\* With nobody inside a write, the next number is above all that was given out.
LEMMA GivenBelow ==
  ASSUME IInv, DInv, RInv, Unled
  PROVE  /\ \A n \in Nat : GivenOut(n) => n < entry.walSeq
         /\ Below(disk.log, entry.walSeq) /\ disk.image.wm < entry.walSeq
<1>0. /\ entry.walSeq \in Nat /\ disk.image.wm \in Nat /\ disk.present = TRUE
      /\ \A i \in DOMAIN disk.log : disk.log[i].seq \in Nat
  BY RevTypes DEF Unled
<1>1. Below(disk.log, entry.walSeq) /\ disk.image.wm < entry.walSeq
  BY DEF DInv, Warm, Unled
<1>2. \A n \in Nat : GivenOut(n) => Reach(disk.image.wm, n)
  BY <1>0 DEF RInv, Numbered, IsWm
<1> QED BY <1>0, <1>1, <1>2 DEF Reach, FirmTo, Below

\* ... and a load would give the graph there is.
LEMMA LoadWouldSay ==
  ASSUME IInv, DInv, RInv, Unled
  PROVE  Recovered(disk) = entry.graph
<1>0. /\ entry.graph \in SUBSET Nat /\ disk.image.ops \in SUBSET Nat /\ nextId \in Nat
      /\ disk \in Disk /\ \A i \in DOMAIN disk.log : disk.log[i].id \in Nat
  BY RevTypes
<1>1. \A a : a \in Recovered(disk) <=> a \in disk.image.ops \/ Replays(disk.log, a, disk.image.wm)
  BY <1>0, RecoveredSays DEF DInv, LogOK
<1>2. \A a \in Nat : a < nextId => Earlier(a)
  BY DEF Earlier, Unled
<1>3. \A a \in Nat : a < nextId => (a \in entry.graph <=> a \in Recovered(disk))
  BY <1>1, <1>2 DEF RInv, Exact, Says, Visible, Alive, Unled
<1>4. \A a \in entry.graph : a \in Nat /\ a < nextId
  BY <1>0 DEF DInv, Drawn
<1>5. \A a \in Recovered(disk) : a \in Nat /\ a < nextId
  BY <1>0, <1>1 DEF DInv, Drawn, Earlier, Older, Replays
<1> QED BY <1>3, <1>4, <1>5

LEMMA ClaimTracks ==
  ASSUME IInv, DInv, RInv, NEW t \in Threads, Claim(t)
  PROVE  RInv' /\ Tracks
<1>0. /\ th \in [Threads -> Thread] /\ entry.walSeq \in Nat /\ disk.image.wm \in Nat /\ entry.walSeq # 0
      /\ disk.present = TRUE /\ entry.slot = "Hot" /\ lock = Free
      /\ \A i \in DOMAIN disk.log : disk.log[i].seq \in Nat
  BY RevTypes DEF Claim
<1>1. /\ entry' = entry /\ disk' = disk /\ nextId' = nextId /\ Others(t) /\ th'[t].pc = "stage"
      /\ th'[t].snap.ops = entry.graph /\ th'[t].snap.wm = entry.walSeq - 1 /\ th'[t].snap.rev = entry.rev
  BY <1>0 DEF Claim, history, Others, Watermark, Thread
<1>u. \A u \in Threads : th[u].pc \notin LockPCs /\ ~Writing(u)
  BY <1>0, Unwritten
<1>2. Unled /\ \A u \in Threads : ~Writing(u)' /\ ~Trimming(u) /\ ~Trimming(u)'
  BY <1>0, <1>1, <1>u DEF Unled, Others, Writing, WritePCs, LockPCs, Trimming
<1>3. \A u \in Threads : Saved(u)' => u = t
  <2>1. \A u \in Threads : ~InFlight(u)
    BY DEF Claim, FlushFree, IInv, Control, FlushExclusive
  <2> QED BY <1>1, <2>1 DEF Saved, InFlight, Others
<1>4. Visible' = Visible /\ Visible = entry.graph
  BY <1>0, <1>1, SameVisible DEF Visible
<1>5. /\ \A n \in Nat : GivenOut(n) => n < entry.walSeq
      /\ Below(disk.log, entry.walSeq) /\ disk.image.wm < entry.walSeq
  BY <1>2, GivenBelow
<1>6. \A a \in Nat : Earlier(a)' => Earlier(a)
  BY <1>1, <1>2 DEF Earlier, Unled
<1>7. Exact'
  <2>1. Says(disk.image)'
    BY <1>0, <1>1, <1>4, <1>6 DEF RInv, Exact, Says, Alive
  <2>2. \A a : ~Replays(disk.log, a, entry.walSeq - 1)
    BY <1>0, <1>5 DEF Replays, Below
  <2>3. Says(th[t].snap)'
    BY <1>1, <1>4, <2>2 DEF Says
  <2> QED BY <1>3, <2>1, <2>3 DEF Exact
<1>8. \A n \in Nat : GivenOut(n)' => GivenOut(n)
  <2> SUFFICES ASSUME NEW n \in Nat, GivenOut(n)' PROVE GivenOut(n)
    OBVIOUS
  <2>1. CASE \E u \in Threads : Saved(u)' /\ n = th'[u].snap.rev
    BY <1>0, <1>1, <1>2, <1>3, <2>1 DEF GivenOut, Alive
  <2>2. CASE ~\E u \in Threads : Saved(u)' /\ n = th'[u].snap.rev
    BY <1>0, <1>1, <1>2, <2>2 DEF GivenOut, Alive, Unled
  <2> QED BY <2>1, <2>2
<1>9. Numbered'
  <2> SUFFICES ASSUME NEW w \in Nat, NEW n \in Nat, IsWm(w)', GivenOut(n)' PROVE Reach(w, n)'
    BY DEF Numbered
  <2>1. CASE w = disk.image.wm
    <3>1. Reach(w, n)
      BY <1>0, <1>8, <2>1 DEF RInv, Numbered, IsWm
    <3> QED BY <1>1, <1>2, <3>1 DEF Reach, FirmTo, Firm, Unled
  <2>2. CASE w = entry.walSeq - 1
    BY <1>0, <1>5, <1>8, <2>2 DEF Reach
  <2> QED BY <1>1, <1>3, <2>1, <2>2 DEF IsWm
<1>10. Counting'
  BY <1>2 DEF Counting
<1> QED BY <1>4, <1>7, <1>9, <1>10 DEF RInv, Tracks

\* The graph leaves memory, or the context goes.
LEMMA LeaveStep ==
  ASSUME IInv, DInv, DInv', RInv, NEW t \in Threads, Others(t), disk' = disk, nextId' = nextId,
         \A u \in Threads : th'[u].pc \notin WritePCs, \A u \in Threads : ~Saved(u)',
         entry'.rev = entry.rev, entry'.slot \in {"Cold", "Deleted"},
         Alive' => Alive /\ \A u \in Threads : ~Trimming(u)
  PROVE  Exact' /\ Numbered' /\ Counting'
<1>0. disk \in Disk
  BY RevTypes
<1>1. \A a : a \in Recovered(disk) <=> a \in disk.image.ops \/ Replays(disk.log, a, disk.image.wm)
  BY <1>0, RecoveredSays DEF DInv, LogOK
<1>2. Visible' = Recovered(disk)
  BY DEF Visible
<1>3. Exact'
  BY <1>1, <1>2 DEF Exact, Says
<1>4. \A w \in Nat : IsWm(w)' => IsWm(w)
  BY DEF IsWm
<1>5. \A u \in Threads : ~Writing(u)' /\ ~Trimming(u)'
  BY DEF Writing, WritePCs, Trimming
<1>6. \A n \in Nat : GivenOut(n)' => GivenOut(n)
  BY <1>5 DEF GivenOut, Unled
<1>7. \A n \in Nat : FirmTo(n) => FirmTo(n)'
  BY <1>5 DEF FirmTo, Firm
<1>8. Numbered'
  BY <1>4, <1>6, <1>7, NumberedStays DEF RInv
<1> QED BY <1>3, <1>5, <1>8 DEF Counting

LEMMA LeaveActions ==
  ASSUME IInv, DInv, DInv', RInv, NEW t \in Threads, EvictClean(t) \/ EvictCools(t) \/ Delete(t)
  PROVE  RInv' /\ Tracks
<1>0. th \in [Threads -> Thread] /\ entry \in Entry /\ entry.gen \in Nat /\ entry.slot \in {"Hot", "Cold", "Deleted"}
      /\ \A u \in Threads : th[u].snap.gen \in Nat
  BY RevTypes
<1>i. Idle.pc = "idle"
  BY DEF Idle
<1>1. Others(t) /\ th'[t].pc \in {"idle", "unlink"} /\ disk' = disk /\ nextId' = nextId
  BY <1>0, <1>i DEF EvictClean, EvictCools, Delete, Goto, Others, Thread, history
<1>2. \A u \in Threads : u # t => th[u].pc \notin LockPCs
  BY FreeIsNoThread DEF EvictClean, EvictCools, Delete, At, IInv, Control, LockHeld, LockPCs
<1>3. \A u \in Threads : ~Trimming(u) /\ ~Writing(u) /\ th'[u].pc \notin WritePCs
  BY <1>1, <1>2 DEF Trimming, Writing, WritePCs, LockPCs, Others, EvictClean, EvictCools, Delete, At
<1>4. CASE EvictCools(t) \/ (EvictClean(t) /\ entry.slot = "Hot")
  <2>1. /\ entry.slot = "Hot" /\ entry'.slot = "Cold" /\ entry'.gen = entry.gen + 1 /\ entry'.rev = entry.rev
    <3>1. entry.slot = "Hot"
      BY <1>4 DEF EvictCools, At, DInv, Evictions, EvictIs
    <3> QED BY <1>0, <1>4, <3>1 DEF EvictCools, EvictClean, ColdEntry, Entry
  <2>2. \A u \in Threads : ~Saved(u)'
    <3> SUFFICES ASSUME NEW u \in Threads, Saved(u)' PROVE FALSE
      OBVIOUS
    <3>1. u # t /\ InFlight(u) /\ th'[u] = th[u]
      BY <1>1 DEF Saved, InFlight, Others
    <3>2. th[u].snap.gen <= entry.gen
      BY <3>1 DEF DInv, Flights, FlightIs
    <3> QED BY <1>0, <2>1, <3>1, <3>2 DEF Saved, Publishable
  <2>3. Exact' /\ Numbered' /\ Counting'
    BY <1>1, <1>3, <2>1, <2>2, LeaveStep DEF Alive
  <2>4. Visible' = Visible
    <3>1. Recovered(disk) = entry.graph
      BY <1>3, <2>1, LoadWouldSay DEF Unled
    <3> QED BY <1>1, <2>1, <3>1 DEF Visible
  <2> QED BY <2>3, <2>4 DEF RInv, Tracks
<1>5. CASE Delete(t)
  <2>1. entry'.slot = "Deleted" /\ entry'.rev = entry.rev
    BY <1>0, <1>5 DEF Delete, Entry
  <2>2. Exact' /\ Numbered' /\ Counting'
    BY <1>1, <1>3, <2>1, LeaveStep DEF Alive, Saved, Publishable
  <2> QED BY <2>1, <2>2 DEF RInv, Tracks, Alive
<1>6. CASE EvictClean(t) /\ entry.slot # "Hot"
  <2>1. entry' = entry /\ th[t].pc = "evict" /\ th'[t].pc = "idle"
    BY <1>0, <1>i, <1>6 DEF EvictClean, At
  <2> QED BY <1>1, <2>1, StandingStep
       DEF SameEntry, SameDisk, GivenOut, Writing, WritePCs, InFlight
<1> QED BY <1>4, <1>5, <1>6

LEMMA UnlinkTracks ==
  ASSUME IInv, RInv, NEW t \in Threads, Unlink(t)
  PROVE  RInv' /\ Tracks
<1>0. th \in [Threads -> Thread] /\ disk \in Disk
  BY RevTypes
<1>1. entry.slot = "Deleted" /\ entry' = entry
  BY DEF IInv, Tombstoned, Unlink, At
<1>2. ~Alive' /\ \A u \in Threads : ~Saved(u)'
  BY <1>1 DEF Alive, Saved, Publishable
<1>3. disk'.present = FALSE
  BY <1>0 DEF Unlink, TruncateTo, Disk
<1>4. \A u \in Threads : ~Trimming(u)'
  <2>1. lock = Free
    BY <1>1 DEF IInv, Tombstoned
  <2>2. \A u \in Threads : th[u].pc \notin LockPCs
    BY <2>1, Unwritten
  <2> QED BY <1>0, <2>2 DEF Unlink, Trimming, LockPCs, Idle
<1> QED BY <1>2, <1>3, <1>4 DEF RInv, Tracks, Exact, Numbered, Counting

-----------------------------------------------------------------------------
(* Inside a write *)

\* What a replay makes of a log that a batch has been appended to: of what is older, what
\* it made of the log before; of the batch, its acceptable part.
Extended(new, log, first, base, batch, k) ==
  /\ \A a \in Nat : \A wm : a < base => (Replays(new, a, wm) <=> Replays(log, a, wm))
  /\ \A a, wm \in Nat : a >= base /\ wm < first =>
       (Replays(new, a, wm) <=> a < base + k /\ batch[a - base + 1])
  /\ \A i \in DOMAIN log : i \in DOMAIN new /\ i <= Len(log) /\ new[i] = log[i]
  /\ k > 0 => Len(new) \in DOMAIN new /\ new[Len(new)].seq = first + k - 1

LEMMA GrownSays ==
  ASSUME NEW log \in Seq(Record), NEW new \in Seq(Record),
         NEW first \in Nat, NEW base \in Nat, NEW batch, NEW k \in Nat,
         Grown(new, log, first, base, batch, k), Older(log, base)
  PROVE  Extended(new, log, first, base, batch, k)
<1>1. /\ DOMAIN log = 1..Len(log) /\ DOMAIN new = 1..Len(new) /\ Len(log) \in Nat /\ Len(new) \in Nat
      /\ \A i \in 1..Len(log) : log[i].seq \in Nat /\ log[i].id \in Nat
  BY LogType
<1>2. /\ Len(new) = Len(log) + k
      /\ \A i \in 1..Len(log) : new[i] = log[i]
  BY DEF Grown
<1>3. ASSUME NEW i \in 1..Len(new), i > Len(log)
      PROVE  /\ i - Len(log) \in 1..k
             /\ new[i].seq = first + (i - Len(log)) - 1 /\ new[i].id = base + (i - Len(log)) - 1
             /\ new[i].ok = batch[i - Len(log)]
  <2>1. i - Len(log) \in 1..k /\ Len(log) + (i - Len(log)) = i
    BY <1>1, <1>2, <1>3
  <2>2. new[Len(log) + (i - Len(log))] =
          [seq |-> first + (i - Len(log)) - 1, id |-> base + (i - Len(log)) - 1, ok |-> batch[i - Len(log)]]
    BY <2>1 DEF Grown
  <2> QED BY <2>1, <2>2
<1>4. \A i \in DOMAIN log : i \in DOMAIN new /\ i <= Len(log) /\ new[i] = log[i]
  BY <1>1, <1>2
<1>5. ASSUME NEW a \in Nat, NEW wm, a < base PROVE Replays(new, a, wm) <=> Replays(log, a, wm)
  <2>1. Replays(log, a, wm) => Replays(new, a, wm)
    BY <1>4 DEF Replays
  <2>2. ASSUME Replays(new, a, wm) PROVE Replays(log, a, wm)
    <3>1. PICK i \in DOMAIN new : new[i].ok /\ new[i].id = a /\ new[i].seq > wm
      BY <2>2 DEF Replays
    <3>2. i <= Len(log)
      BY <1>1, <1>3, <1>5, <3>1
    <3> QED BY <1>1, <1>2, <3>1, <3>2 DEF Replays
  <2> QED BY <2>1, <2>2
<1>6. ASSUME NEW a \in Nat, NEW wm \in Nat, a >= base, wm < first
      PROVE  Replays(new, a, wm) <=> a < base + k /\ batch[a - base + 1]
  <2>1. ASSUME Replays(new, a, wm) PROVE a < base + k /\ batch[a - base + 1]
    <3>1. PICK i \in DOMAIN new : new[i].ok /\ new[i].id = a /\ new[i].seq > wm
      BY <2>1 DEF Replays
    <3>2. i > Len(log)
      BY <1>1, <1>2, <1>6, <3>1 DEF Older
    <3>3. i - Len(log) \in 1..k /\ a = base + (i - Len(log)) - 1 /\ batch[i - Len(log)]
      BY <1>1, <1>3, <3>1, <3>2
    <3>4. a - base + 1 = i - Len(log)
      BY <1>1, <3>3
    <3> QED BY <3>3, <3>4
  <2>2. ASSUME a < base + k, batch[a - base + 1] PROVE Replays(new, a, wm)
    <3> DEFINE i == Len(log) + (a - base + 1)
    <3>1. i \in 1..Len(new) /\ i > Len(log) /\ i - Len(log) = a - base + 1
      BY <1>1, <1>2, <1>6, <2>2
    <3> HIDE DEF i
    <3>2. /\ new[i].seq = first + (a - base + 1) - 1 /\ new[i].id = base + (a - base + 1) - 1
          /\ new[i].ok = batch[a - base + 1]
      BY <1>3, <3>1
    <3>3. new[i].seq > wm /\ new[i].id = a
      BY <1>6, <3>2
    <3> QED BY <1>1, <2>2, <3>1, <3>2, <3>3 DEF Replays
  <2> QED BY <2>1, <2>2
<1>7. k > 0 => Len(new) \in DOMAIN new /\ new[Len(new)].seq = first + k - 1
  <2> SUFFICES ASSUME k > 0 PROVE Len(new) \in DOMAIN new /\ new[Len(new)].seq = first + k - 1
    OBVIOUS
  <2>1. Len(new) \in 1..Len(new) /\ Len(new) > Len(log) /\ Len(new) - Len(log) = k
    BY <1>1, <1>2
  <2> QED BY <1>1, <1>3, <2>1
<1> QED BY <1>4, <1>5, <1>6, <1>7 DEF Extended

LEMMA GrownNone ==
  ASSUME NEW log \in Seq(Record), NEW first, NEW base, NEW batch
  PROVE  Grown(log, log, first, base, batch, 0)
BY LogType DEF Grown

\* What every snapshot that counts knows of the batch: nothing.
LEMMA BatchUnknown ==
  ASSUME IInv, DInv, NEW t \in Threads, Writing(t)
  PROVE  /\ disk.image.wm \in Nat /\ disk.image.wm < th[t].first
         /\ \A a \in Nat : a >= th[t].base => a \notin disk.image.ops
         /\ \A u \in Threads : Saved(u) =>
              /\ th[u].snap.wm \in Nat /\ th[u].snap.wm < th[t].first
              /\ \A a \in Nat : a >= th[t].base => a \notin th[u].snap.ops
<1>0. disk.image.wm \in Nat /\ \A u \in Threads : th[u].snap.wm \in Nat
  BY RevTypes
<1>1. WriterIs(th[t]) /\ th[t].base \in Nat
  BY WriterFacts
<1>2. disk.image.wm < th[t].first /\ entry.slot = "Hot"
  BY <1>1 DEF WriterIs
<1>3. \A u \in Threads : Saved(u) => th[u].snap.wm < th[t].first
  BY <1>2 DEF Saved, DInv, Flights, FlightIs
<1>4. \A a \in Nat : a >= th[t].base =>
        a \notin disk.image.ops /\ \A u \in Threads : a \notin th[u].snap.ops
  BY <1>1, BatchIsNew
<1> QED BY <1>0, <1>2, <1>3, <1>4

LEMMA WriterTracks ==
  ASSUME IInv, DInv, RInv, NEW t \in Threads, Writing(t), Others(t), nextId' = nextId,
         entry'.slot = "Hot", entry'.gen = entry.gen, entry'.rev \in Nat,
         disk'.image = disk.image, disk'.rev = disk.rev, disk'.log \in Seq(Record),
         \E k \in 0..Len(th[t].batch) :
           Grown(disk.log, Begun(th[t]), th[t].first, th[t].base, th[t].batch, k),
         NEW j \in 0..Len(th[t].batch),
         Grown(disk'.log, Begun(th[t]), th[t].first, th[t].base, th[t].batch, j),
         \A a \in Nat : a < th[t].base => (a \in entry'.graph <=> a \in entry.graph),
         th'[t].pc \in WritePCs \cup {"idle"},
         th'[t].pc \in WritePCs =>
           /\ th'[t].base = th[t].base /\ th'[t].first = th[t].first /\ th'[t].len = th[t].len
           /\ Trimming(t)' \/ (~Trimming(t) /\ entry'.rev = entry.rev),
         Trimming(t)' => entry'.rev < th'[t].first + th'[t].landed,
         th'[t].pc = "idle" =>
           /\ entry'.walSeq = th[t].first + j /\ entry'.rev < th[t].first + j
           /\ \A a \in Nat : a >= th[t].base /\ a < nextId =>
                (a \in entry'.graph <=> a < th[t].base + j /\ th[t].batch[a - th[t].base + 1])
  PROVE  RInv'
<1>0. /\ th[t].base \in Nat /\ th[t].first \in Nat /\ th[t].len \in Nat /\ Len(th[t].batch) \in Nat
      /\ Begun(th[t]) \in Seq(Record) /\ Len(Begun(th[t])) = th[t].len /\ disk.log \in Seq(Record)
      /\ WriterIs(th[t]) /\ \A u \in Threads : u # t => th[u].pc \notin LockPCs /\ ~Writing(u)
  BY WriterFacts
<1>w. \A u \in Threads : Writing(u)' => u = t
  BY <1>0 DEF Others, Writing
<1>o. Older(Begun(th[t]), th[t].base) /\ entry.slot = "Hot" /\ th[t].pc \notin {"evcool", "stage", "publish", "commit", "truncate"}
  BY <1>0 DEF WriterIs, Writing, WritePCs
<1>k. PICK k \in 0..Len(th[t].batch) :
        Grown(disk.log, Begun(th[t]), th[t].first, th[t].base, th[t].batch, k)
  OBVIOUS
<1>s. \A u \in Threads : Saved(u)' => Saved(u) /\ th'[u].snap = th[u].snap
  <2>1. ~InFlight(t)'
    BY DEF InFlight, WritePCs
  <2> QED BY <1>o, <2>1, SavedStays
<1>x. /\ Extended(disk.log, Begun(th[t]), th[t].first, th[t].base, th[t].batch, k)
      /\ Extended(disk'.log, Begun(th[t]), th[t].first, th[t].base, th[t].batch, j)
  <2>1. k \in Nat /\ j \in Nat
    BY <1>0
  <2>2. Extended(disk.log, Begun(th[t]), th[t].first, th[t].base, th[t].batch, k)
    BY <1>0, <1>k, <1>o, <2>1, GrownSays
  <2> QED BY <1>0, <1>o, <2>1, <2>2, GrownSays
<1>1. \A a \in Nat : \A wm : a < th[t].base => (Replays(disk'.log, a, wm) <=> Replays(disk.log, a, wm))
  BY <1>x DEF Extended
<1>2. /\ \A a, wm \in Nat : a >= th[t].base /\ wm < th[t].first =>
           (Replays(disk'.log, a, wm) <=> a < th[t].base + j /\ th[t].batch[a - th[t].base + 1])
      /\ j > 0 => Len(disk'.log) \in DOMAIN disk'.log /\ disk'.log[Len(disk'.log)].seq = th[t].first + j - 1
      /\ \A i \in DOMAIN Begun(th[t]) : i \in DOMAIN disk'.log /\ disk'.log[i] = Begun(th[t])[i]
  BY <1>x DEF Extended
<1>3. \A i \in DOMAIN disk.log : i <= th[t].len => i \in DOMAIN Begun(th[t]) /\ Begun(th[t])[i] = disk.log[i]
  <2>1. DOMAIN disk.log = 1..Len(disk.log) /\ DOMAIN Begun(th[t]) = 1..th[t].len
    BY <1>0, LogType
  <2>2. \A i \in 1..th[t].len : disk.log[i] = Begun(th[t])[i]
    BY <1>0, <1>k DEF Grown
  <2> QED BY <1>0, <2>1, <2>2
<1>e. \A a \in Nat : a < th[t].base => Earlier(a)
  <2>1. th[t].base <= nextId
    BY <1>0 DEF WriterIs
  <2>2. nextId \in Nat
    BY RevTypes
  <2> QED BY <1>0, <2>1, <2>2 DEF Earlier
<1>4. Exact'
  <2>1. ASSUME NEW s, Says(s), s.wm \in Nat, s.wm < th[t].first, \A a \in Nat : a >= th[t].base => a \notin s.ops,
               NEW a \in Nat, Earlier(a)'
        PROVE  a \in Visible' <=> a \in s.ops \/ Replays(disk'.log, a, s.wm)
    <3>1. Visible' = entry'.graph /\ Visible = entry.graph
      BY <1>o DEF Visible
    <3>2. CASE a < th[t].base
      BY <1>1, <1>e, <2>1, <3>1, <3>2 DEF Says
    <3>3. CASE a >= th[t].base
      <4>1. th'[t].pc = "idle" /\ a < nextId
        BY <1>0, <2>1, <3>3 DEF Earlier, Writing
      <4> QED BY <1>2, <2>1, <3>1, <3>3, <4>1
    <3> QED BY <1>0, <3>2, <3>3
  <2>2. Says(disk.image)'
    <3>1. Says(disk.image)
      BY <1>o DEF RInv, Exact, Alive
    <3> QED BY <2>1, <3>1, BatchUnknown DEF Says
  <2>3. ASSUME NEW u \in Threads, Saved(u)' PROVE Says(th[u].snap)'
    <3>1. Saved(u) /\ th'[u].snap = th[u].snap
      BY <1>s, <2>3
    <3>2. Says(th[u].snap)
      BY <3>1 DEF RInv, Exact
    <3>3. th[u].snap.wm \in Nat /\ th[u].snap.wm < th[t].first
          /\ \A a \in Nat : a >= th[t].base => a \notin th[u].snap.ops
      BY <3>1, BatchUnknown
    <3> QED BY <2>1, <3>1, <3>2, <3>3 DEF Says
  <2> QED BY <2>2, <2>3 DEF Exact
<1>f. \A n \in Nat : FirmTo(n) => FirmTo(n)'
  <2> SUFFICES ASSUME NEW n \in Nat, FirmTo(n) PROVE FirmTo(n)'
    OBVIOUS
  <2>1. PICK i \in DOMAIN disk.log : Firm(i) /\ n <= disk.log[i].seq
    BY DEF FirmTo
  <2>2. i <= th[t].len
    BY <2>1 DEF Firm
  <2>3. i \in DOMAIN disk'.log /\ disk'.log[i] = disk.log[i]
    BY <1>2, <1>3, <2>2
  <2>4. Firm(i)'
    BY <1>w, <2>2 DEF Firm, Writing
  <2> QED BY <2>1, <2>3, <2>4 DEF FirmTo
<1>5. Numbered'
  <2> SUFFICES ASSUME NEW w \in Nat, NEW n \in Nat, IsWm(w)', GivenOut(n)' PROVE Reach(w, n)'
    BY DEF Numbered
  <2>p. disk.present = TRUE
    BY <1>o, RevTypes
  <2>1. \A m \in Nat : GivenOut(m) => Reach(w, m)
    <3>1. IsWm(w)
      BY <1>s DEF IsWm
    <3> QED BY <2>p, <3>1 DEF RInv, Numbered
  <2>2. \A m \in Nat : GivenOut(m) => Reach(w, m)'
    BY <1>f, <2>1 DEF Reach
  <2>3. th[t].first - 1 \in Nat /\ GivenOut(th[t].first - 1)
    <3>1. th[t].first # 0
      BY DEF IInv, TypeInv, WriterOK, LocalsOK, Writing
    <3> QED BY <1>0, <3>1 DEF GivenOut
  <2>4. \A m \in Nat : Reach(w, m)' /\ n <= m => Reach(w, n)'
    <3>1. \A i \in DOMAIN disk'.log : disk'.log[i].seq \in Nat
      BY LogType
    <3> QED BY <3>1 DEF Reach, FirmTo
  <2>5. CASE th'[t].pc = "idle" /\ n < th[t].first + j
    <3>1. CASE j = 0
      BY <1>0, <2>2, <2>3, <2>4, <2>5, <3>1
    <3>2. CASE j > 0
      <4>1. \A i : Firm(i)'
        BY <1>w, <2>5 DEF Firm, Writing, WritePCs
      <4>2. n <= th[t].first + j - 1
        BY <1>0, <2>5
      <4> QED BY <1>2, <3>2, <4>1, <4>2 DEF Reach, FirmTo
    <3> QED BY <3>1, <3>2
  <2>6. CASE n = disk.rev \/ n = disk.image.wm
    BY <2>2, <2>6 DEF GivenOut
  <2>7. CASE Alive' /\ (\A u \in Threads : ~Trimming(u)') /\ n = entry'.rev
    <3>1. CASE th'[t].pc = "idle"
      BY <2>5, <2>7, <3>1
    <3>2. CASE th'[t].pc \in WritePCs
      <4>1. n = entry.rev /\ \A u \in Threads : ~Trimming(u)
        BY <1>0, <2>7, <3>2 DEF Trimming, LockPCs
      <4> QED BY <1>o, <2>2, <4>1 DEF GivenOut, Alive
    <3> QED BY <3>1, <3>2
  <2>8. CASE \E u \in Threads : Saved(u)' /\ n = th'[u].snap.rev
    BY <1>s, <2>2, <2>8 DEF GivenOut
  <2>9. CASE Unled' /\ n = entry'.walSeq - 1
    <3>1. th'[t].pc = "idle"
      BY <2>9 DEF Unled, Writing
    <3>2. n < th[t].first + j
      BY <1>0, <2>9, <3>1
    <3> QED BY <2>5, <3>1, <3>2
  <2>10. CASE \E u \in Threads : Writing(u)' /\ n = th'[u].first - 1
    <3>1. n = th[t].first - 1
      BY <1>w, <2>10 DEF Writing
    <3> QED BY <2>2, <2>3, <3>1
  <2> QED BY <2>6, <2>7, <2>8, <2>9, <2>10 DEF GivenOut
<1>6. Counting'
  <2>1. \A u \in Threads : Trimming(u)' => u = t
    BY <1>w DEF Trimming, Writing, WritePCs
  <2> QED BY <2>1 DEF Counting
<1> QED BY <1>4, <1>5, <1>6 DEF RInv

\* A write numbers above the revision the entry had when it began.
LEMMA RevBelow ==
  ASSUME IInv, DInv, RInv, NEW t \in Threads, Writing(t), ~Trimming(t)
  PROVE  entry.rev < th[t].first
<1>0. /\ th[t].first \in Nat /\ th[t].len \in Nat /\ Begun(th[t]) \in Seq(Record) /\ Len(Begun(th[t])) = th[t].len
      /\ Begins(Begun(th[t]), disk.log) /\ WriterIs(th[t])
      /\ \A u \in Threads : u # t => th[u].pc \notin LockPCs /\ ~Writing(u)
  BY WriterFacts
<1>1. entry.rev \in Nat /\ disk.image.wm \in Nat /\ DOMAIN disk.log = 1..Len(disk.log)
  BY RevTypes
<1>2. Below(Begun(th[t]), th[t].first) /\ disk.image.wm < th[t].first /\ entry.slot = "Hot"
  BY <1>0 DEF WriterIs
<1>3. GivenOut(entry.rev)
  <2>1. \A u \in Threads : ~Trimming(u)
    BY <1>0 DEF Trimming, LockPCs
  <2> QED BY <1>2, <2>1 DEF GivenOut, Alive
<1>4. Reach(disk.image.wm, entry.rev)
  <2>1. disk.present
    BY <1>2, RevTypes
  <2> QED BY <1>1, <1>3, <2>1 DEF RInv, Numbered, IsWm
<1>5. \A i \in DOMAIN disk.log : Firm(i) => disk.log[i].seq \in Nat /\ disk.log[i].seq < th[t].first
  <2>1. \A i \in DOMAIN disk.log : Firm(i) => i \in 1..th[t].len
    BY <1>0, <1>1 DEF Firm
  <2>2. \A i \in 1..th[t].len : disk.log[i] = Begun(th[t])[i] /\ i \in DOMAIN Begun(th[t])
                                /\ Begun(th[t])[i].seq \in Nat
    BY <1>0, LogType DEF Begins
  <2> QED BY <1>2, <2>1, <2>2 DEF Below
<1> QED BY <1>0, <1>1, <1>2, <1>4, <1>5 DEF Reach, FirmTo

LEMMA LogAlone ==
  ASSUME NEW d \in Disk, NEW recs
  PROVE  /\ \A tail : AppendLog(d, recs, tail).rev = d.rev
         /\ \A e \in PartialAppends(d, recs) : e.rev = d.rev
         /\ \A len : TruncateTo(d, len).rev = d.rev
<1>1. \A s, tail : AppendLog(d, s, tail).rev = d.rev
  BY DEF AppendLog, Disk
<1>2. \A e \in PartialAppends(d, recs) : \E k, tail : e = AppendLog(d, SubSeq(recs, 1, k), tail)
  BY DEF PartialAppends
<1>3. \A len : TruncateTo(d, len).rev = d.rev
  BY DEF TruncateTo, Disk
<1> QED BY <1>1, <1>2, <1>3

LEMMA HotVisible ==
  ASSUME entry.slot = "Hot", entry'.slot = "Hot", entry'.graph = entry.graph
  PROVE  Tracks
BY DEF Tracks, Visible

LEMMA AppendFailsTracks ==
  ASSUME Sound, IInv, DInv, RInv, NEW t \in Threads, AppendFails(t)
  PROVE  RInv' /\ Tracks
<1> DEFINE recs == RecordsOf(th[t].first, th[t].base, th[t].batch)
<1>1. th[t].pc = "append" /\ Goto(t, "retrim") /\ UNCHANGED <<entry, nextId>>
      /\ (disk' = disk \/ disk' \in PartialAppends(disk, recs))
  BY DEF AppendFails, At
<1>2. Writing(t) /\ ~Trimming(t)
  BY <1>1 DEF Writing, WritePCs, Trimming
<1>3. /\ WriterIs(th[t]) /\ disk \in Disk /\ disk.log \in Seq(Record)
      /\ Len(th[t].batch) \in Nat /\ Begun(th[t]) = disk.log
  BY <1>1, <1>2, WriterFacts
<1>4. entry.slot = "Hot"
  BY <1>3 DEF WriterIs
<1>5. 0 \in 0..Len(th[t].batch) /\ Grown(disk.log, Begun(th[t]), th[t].first, th[t].base, th[t].batch, 0)
  BY <1>3, GrownNone
<1>6. PICK j \in 0..Len(th[t].batch) :
        /\ disk' \in Disk /\ disk'.image = disk.image
        /\ Grown(disk'.log, Begun(th[t]), th[t].first, th[t].base, th[t].batch, j)
  <2>1. CASE disk' = disk
    BY <1>3, <1>5, <2>1
  <2>2. CASE disk' # disk
    BY <1>1, <1>3, <2>2, AppendCutShort
  <2> QED BY <2>1, <2>2
<1>7. disk'.rev = disk.rev
  BY <1>1, <1>3, LogAlone
<1>8. disk'.log \in Seq(Record)
  BY <1>6 DEF Disk
<1>9. /\ Others(t) /\ th'[t].pc = "retrim" /\ th'[t].base = th[t].base
      /\ th'[t].first = th[t].first /\ th'[t].len = th[t].len
  BY <1>1, GotoSays
<1>10. th'[t].pc \in WritePCs \cup {"idle"} /\ th'[t].pc # "idle" /\ ~Trimming(t)'
  BY <1>9 DEF WritePCs, Trimming
<1>11. entry'.rev \in Nat
  BY <1>1, RevTypes
<1>12. RInv'
  BY <1>1, <1>2, <1>4, <1>5, <1>6, <1>7, <1>8, <1>9, <1>10, <1>11, WriterTracks
<1> QED BY <1>1, <1>4, <1>12, HotVisible

LEMMA AppendOkTracks ==
  ASSUME Sound, IInv, DInv, RInv, NEW t \in Threads, AppendOk(t)
  PROVE  RInv' /\ Tracks
<1> DEFINE recs == RecordsOf(th[t].first, th[t].base, th[t].batch)
           n == Len(th[t].batch)
<1>1. th[t].pc = "append" /\ Goto(t, "operate") /\ nextId' = nextId
      /\ disk' = AppendLog(disk, recs, "clean")
      /\ entry' = [entry EXCEPT !.walBytes = @ + n, !.walSeq = @ + n]
  BY DEF AppendOk, At, history
<1>2. Writing(t) /\ ~Trimming(t)
  BY <1>1 DEF Writing, WritePCs, Trimming
<1>3. /\ WriterIs(th[t]) /\ disk \in Disk /\ entry \in Entry /\ disk.log \in Seq(Record) /\ disk.tail = "clean"
      /\ th[t].base \in Nat /\ th[t].first \in Nat
      /\ th[t].batch \in Seq(BOOLEAN) /\ n \in Nat /\ Begun(th[t]) = disk.log
  BY <1>1, <1>2, WriterFacts
<1>4. entry.slot = "Hot"
  BY <1>3 DEF WriterIs
<1>5. disk.fused = 0
  BY DEF DInv, LogOK
<1>6. Batched(recs, th[t].first, th[t].base, th[t].batch, n)
  <2>1. 0 \in 0..n
    BY <1>3
  <2> QED BY <1>3, <2>1, RecordsBatched
<1>7. entry'.slot = "Hot" /\ entry'.gen = entry.gen /\ entry'.graph = entry.graph
      /\ entry'.rev = entry.rev /\ entry'.rev \in Nat
  BY <1>1, <1>3, <1>4 DEF Entry
<1>8. disk'.rev = disk.rev
  BY <1>1, <1>3, LogAlone
<1> HIDE DEF recs
<1>9. /\ disk' \in Disk /\ disk'.image = disk.image
      /\ Grown(disk'.log, Begun(th[t]), th[t].first, th[t].base, th[t].batch, n)
  <2>1. "clean" \in Tails
    BY DEF Tails
  <2> QED BY <1>1, <1>3, <1>5, <1>6, <2>1, AppendGrows
<1>10. disk'.log \in Seq(Record)
  BY <1>9 DEF Disk
<1>11. /\ Others(t) /\ th'[t].pc = "operate" /\ th'[t].base = th[t].base
       /\ th'[t].first = th[t].first /\ th'[t].len = th[t].len
  BY <1>1, GotoSays
<1>12. th'[t].pc \in WritePCs \cup {"idle"} /\ th'[t].pc # "idle" /\ ~Trimming(t)'
  BY <1>11 DEF WritePCs, Trimming
<1>13. n \in 0..n /\ \E k \in 0..n : Grown(disk.log, Begun(th[t]), th[t].first, th[t].base, th[t].batch, k)
  <2>1. 0 \in 0..n /\ Grown(disk.log, Begun(th[t]), th[t].first, th[t].base, th[t].batch, 0)
    BY <1>3, GrownNone
  <2> QED BY <1>3, <2>1
<1>14. RInv'
  BY <1>1, <1>2, <1>7, <1>8, <1>9, <1>10, <1>11, <1>12, <1>13, WriterTracks
<1> QED BY <1>4, <1>7, <1>14, HotVisible

LEMMA TrimTracks ==
  ASSUME Sound, IInv, DInv, RInv, NEW t \in Threads, RetrimOk(t) \/ TrimOk(t)
  PROVE  RInv' /\ Tracks
<1>1. th[t].pc \in {"retrim", "trim"} /\ UNCHANGED <<entry, nextId>>
      /\ disk' = TruncateTo(disk, th[t].len)
  BY DEF RetrimOk, TrimOk, At, history
<1>2. Writing(t)
  BY <1>1 DEF Writing, WritePCs
<1>3. /\ WriterIs(th[t]) /\ disk \in Disk /\ disk.log \in Seq(Record)
      /\ th[t].base \in Nat /\ th[t].first \in Nat /\ th[t].len \in Nat /\ Len(th[t].batch) \in Nat
      /\ Begun(th[t]) \in Seq(Record)
  BY <1>2, WriterFacts
<1>4. entry.slot = "Hot" /\ th[t].len <= Len(disk.log)
  BY <1>3 DEF WriterIs
<1>5. \E k \in 0..Len(th[t].batch) : Grown(disk.log, Begun(th[t]), th[t].first, th[t].base, th[t].batch, k)
  <2>1. Len(th[t].batch) \in 0..Len(th[t].batch)
    BY <1>3
  <2> QED BY <1>1, <1>3, <2>1 DEF WriterIs
<1>6. disk'.image = disk.image /\ disk'.log = Begun(th[t]) /\ disk'.rev = disk.rev
  <2>1. disk.fused = 0
    BY DEF DInv, LogOK
  <2> QED BY <1>1, <1>3, <1>4, <2>1, TruncateBegins, LogAlone DEF Begun
<1>7. 0 \in 0..Len(th[t].batch) /\ Grown(disk'.log, Begun(th[t]), th[t].first, th[t].base, th[t].batch, 0)
  BY <1>3, <1>6, GrownNone
<1>8. entry'.rev \in Nat
  BY <1>1, RevTypes
<1>i. Idle.pc = "idle"
  BY DEF Idle
<1>9. CASE RetrimOk(t)
  <2>1. th[t].pc = "retrim" /\ Answer(t, 0, FALSE)
    BY <1>9 DEF RetrimOk, At
  <2>2. Others(t) /\ th'[t] = Idle
    <3>1. 0 \in Nat /\ 0 <= Len(th[t].batch)
      BY <1>3
    <3> QED BY <2>1, <3>1, AnswerSays
  <2>3. /\ entry.walSeq = th[t].first /\ \A a \in entry.graph : a < th[t].base
    BY <1>3, <2>1 DEF WriterIs
  <2>4. ~Trimming(t) /\ ~Trimming(t)' /\ th'[t].pc = "idle" /\ th'[t].pc \notin WritePCs
    BY <1>i, <2>1, <2>2 DEF Trimming, WritePCs
  <2>5. entry.rev < th[t].first
    BY <1>2, <2>4, RevBelow
  <2>6. entry'.walSeq = th[t].first + 0 /\ entry'.rev < th[t].first + 0
    BY <1>1, <1>3, <2>3, <2>5
  <2>7. \A a \in Nat : a >= th[t].base => ~(a \in entry'.graph) /\ ~(a < th[t].base + 0)
    BY <1>1, <1>3, <2>3
  <2> QED BY <1>1, <1>2, <1>3, <1>4, <1>5, <1>6, <1>7, <1>8, <2>2, <2>4, <2>6, <2>7, WriterTracks, HotVisible
<1>10. CASE TrimOk(t)
  <2>1. th[t].pc = "trim" /\ Goto(t, "reappend")
    BY <1>10 DEF TrimOk, At
  <2>2. /\ Others(t) /\ th'[t].pc = "reappend" /\ th'[t].base = th[t].base /\ th'[t].landed = th[t].landed
        /\ th'[t].first = th[t].first /\ th'[t].len = th[t].len
    BY <2>1, GotoSays
  <2>3. Trimming(t)' /\ Trimming(t) /\ th'[t].pc \in WritePCs \cup {"idle"} /\ th'[t].pc # "idle"
    BY <2>1, <2>2 DEF Trimming, WritePCs
  <2>4. entry'.rev < th'[t].first + th'[t].landed
    BY <1>1, <2>2, <2>3 DEF RInv, Counting
  <2> QED BY <1>1, <1>2, <1>3, <1>4, <1>5, <1>6, <1>7, <1>8, <2>2, <2>3, <2>4, WriterTracks, HotVisible
<1> QED BY <1>9, <1>10

LEMMA OperateTracks ==
  ASSUME Sound, IInv, DInv, RInv, NEW t \in Threads, Operate(t)
  PROVE  RInv' /\ Tracks
<1> DEFINE n == Landed(th[t].batch)
<1>1. /\ th[t].pc = "operate" /\ UNCHANGED <<disk, nextId>>
      /\ entry' = [entry EXCEPT !.graph = @ \cup Ids(th[t].base, n), !.rev = Revised(n)]
      /\ IF MustTrim(th[t], n)
         THEN th' = [th EXCEPT ![t].pc = "trim", ![t].landed = n]
         ELSE Answer(t, n, FALSE)
  BY DEF Operate, At
<1>2. /\ Writing(t) /\ ~Trimming(t)
      /\ Grown(disk.log, Begun(th[t]), th[t].first, th[t].base, th[t].batch, Len(th[t].batch))
  BY <1>1, FullLog DEF Trimming
<1>3. /\ WriterIs(th[t]) /\ disk \in Disk /\ entry \in Entry /\ disk.log \in Seq(Record)
      /\ th[t].base \in Nat /\ th[t].first \in Nat /\ th[t].len \in Nat /\ th[t] \in Thread
      /\ th[t].batch \in Seq(BOOLEAN) /\ Len(th[t].batch) \in Nat /\ th \in [Threads -> Thread]
  BY <1>1, <1>2, WriterFacts
<1>4. n \in Nat /\ n <= Len(th[t].batch) /\ \A i \in 1..n : th[t].batch[i] = TRUE
  BY <1>3, LandedType, LandedSays
<1> HIDE DEF n
<1>5. /\ entry.slot = "Hot" /\ nextId = th[t].base + Len(th[t].batch)
      /\ entry.walSeq = th[t].first + Len(th[t].batch) /\ \A a \in entry.graph : a < th[t].base
  BY <1>1, <1>3 DEF WriterIs
<1>r. entry.rev \in Nat /\ entry.graph \in SUBSET Nat /\ entry.rev < th[t].first
  BY <1>2, RevTypes, RevBelow
<1>6. /\ entry'.slot = "Hot" /\ entry'.gen = entry.gen /\ entry'.walSeq = entry.walSeq
      /\ entry'.rev = entry.rev + n /\ entry'.graph = entry.graph \cup Ids(th[t].base, n)
  BY <1>1, <1>3, <1>5 DEF Entry, Revised
<1>7. entry'.rev \in Nat /\ entry'.rev < th[t].first + n
  BY <1>3, <1>4, <1>6, <1>r
<1>8. \A a \in Nat : a < th[t].base => (a \in entry'.graph <=> a \in entry.graph)
  BY <1>3, <1>4, <1>6 DEF Ids
<1>9. Tracks
  <2>1. Visible' = entry'.graph /\ Visible = entry.graph /\ VisibleRev' = entry'.rev /\ VisibleRev = entry.rev
    BY <1>5, <1>6 DEF Visible, VisibleRev
  <2>2. CASE n = 0
    <3>1. Ids(th[t].base, n) = {}
      BY <1>3, <2>2 DEF Ids
    <3> QED BY <1>6, <2>1, <3>1 DEF Tracks
  <2>3. CASE n > 0
    BY <1>4, <1>6, <1>r, <2>1, <2>3 DEF Tracks
  <2> QED BY <1>4, <2>2, <2>3
<1>10. Len(th[t].batch) \in 0..Len(th[t].batch)
  BY <1>3
<1>11. CASE MustTrim(th[t], n)
  <2> DEFINE w == [th[t] EXCEPT !.pc = "trim", !.landed = n]
  <2>1. th' = [th EXCEPT ![t] = w]
    BY <1>1, <1>3, <1>11
  <2>2. w.pc = "trim" /\ w.landed = n /\ w.base = th[t].base /\ w.first = th[t].first /\ w.len = th[t].len
    BY <1>3 DEF Thread
  <2> HIDE DEF w
  <2>3. Others(t) /\ th'[t] = w
    BY <1>3, <2>1 DEF Others
  <2>4. Trimming(t)' /\ th'[t].pc \in WritePCs \cup {"idle"} /\ th'[t].pc # "idle"
    BY <2>2, <2>3 DEF Trimming, WritePCs
  <2>5. RInv'
    BY <1>1, <1>2, <1>3, <1>6, <1>7, <1>8, <1>10, <2>2, <2>3, <2>4, WriterTracks
  <2> QED BY <1>9, <2>5
<1>12. CASE ~MustTrim(th[t], n)
  <2>1. Answer(t, n, FALSE)
    BY <1>1, <1>12
  <2>2. n = Len(th[t].batch)
    BY <1>3, <1>4, <1>12 DEF MustTrim, Sound
  <2>3. Others(t) /\ th'[t] = Idle
    BY <1>4, <2>1, AnswerSays
  <2>4. ~Trimming(t)' /\ th'[t].pc = "idle" /\ th'[t].pc \notin WritePCs
    BY <2>3 DEF Idle, Trimming, WritePCs
  <2>5. \A a \in Nat : a >= th[t].base /\ a < nextId =>
          (a \in entry'.graph <=> a < th[t].base + Len(th[t].batch) /\ th[t].batch[a - th[t].base + 1])
    <3> SUFFICES ASSUME NEW a \in Nat, a >= th[t].base, a < nextId
                 PROVE  a \in entry'.graph /\ a < th[t].base + Len(th[t].batch) /\ th[t].batch[a - th[t].base + 1]
      OBVIOUS
    <3>1. a - th[t].base + 1 \in 1..n /\ a \in Ids(th[t].base, n)
      BY <1>3, <1>4, <1>5, <2>2 DEF Ids
    <3> QED BY <1>4, <1>5, <1>6, <3>1
  <2>6. RInv'
    BY <1>1, <1>2, <1>3, <1>5, <1>6, <1>7, <1>8, <1>10, <2>2, <2>3, <2>4, <2>5, WriterTracks
  <2> QED BY <1>9, <2>6
<1> QED BY <1>11, <1>12

LEMMA ReappendOkTracks ==
  ASSUME Sound, IInv, DInv, RInv, NEW t \in Threads, ReappendOk(t)
  PROVE  RInv' /\ Tracks
<1> DEFINE n == th[t].landed
           recs == Prefix(th[t])
<1>1. th[t].pc = "reappend" /\ Answer(t, n, FALSE) /\ nextId' = nextId
      /\ disk' = AppendLog(disk, recs, "clean")
      /\ entry' = [entry EXCEPT !.walBytes = th[t].len + n, !.walSeq = th[t].first + n]
  BY DEF ReappendOk, At
<1>2. Writing(t) /\ Trimming(t)
  BY <1>1 DEF Writing, WritePCs, Trimming
<1>3. /\ WriterIs(th[t]) /\ disk \in Disk /\ entry \in Entry /\ disk.log \in Seq(Record) /\ disk.tail = "clean"
      /\ th[t].base \in Nat /\ th[t].first \in Nat /\ th[t].len \in Nat /\ n \in Nat
      /\ th[t].batch \in Seq(BOOLEAN) /\ Len(th[t].batch) \in Nat /\ n <= Len(th[t].batch)
      /\ Begun(th[t]) = disk.log
  BY <1>1, <1>2, WriterFacts
<1>4. /\ entry.slot = "Hot" /\ nextId = th[t].base + Len(th[t].batch) /\ n = Landed(th[t].batch)
      /\ Ids(th[t].base, n) \subseteq entry.graph /\ \A a \in entry.graph : a < th[t].base + n
  BY <1>1, <1>3 DEF WriterIs
<1>5. disk.fused = 0
  BY DEF DInv, LogOK
<1>6. Batched(recs, th[t].first, th[t].base, th[t].batch, n)
  <2>1. n \in 0..Len(th[t].batch)
    BY <1>3
  <2> QED BY <1>3, <2>1, RecordsBatched DEF Prefix
<1>7. entry'.slot = "Hot" /\ entry'.gen = entry.gen /\ entry'.graph = entry.graph
      /\ entry'.walSeq = th[t].first + n /\ entry'.rev = entry.rev /\ entry'.rev \in Nat
  BY <1>1, <1>3, <1>4 DEF Entry
<1>8. disk'.rev = disk.rev
  BY <1>1, <1>3, LogAlone
<1>c. entry'.rev < th[t].first + n
  BY <1>2, <1>7 DEF RInv, Counting
<1> HIDE DEF recs, n
<1>9. /\ disk' \in Disk /\ disk'.image = disk.image
      /\ Grown(disk'.log, Begun(th[t]), th[t].first, th[t].base, th[t].batch, n)
  <2>1. "clean" \in Tails
    BY DEF Tails
  <2> QED BY <1>1, <1>3, <1>5, <1>6, <2>1, AppendGrows
<1>10. disk'.log \in Seq(Record)
  BY <1>9 DEF Disk
<1>11. Others(t) /\ th'[t] = Idle
  BY <1>1, <1>3, AnswerSays
<1>12. ~Trimming(t)' /\ th'[t].pc = "idle" /\ th'[t].pc \notin WritePCs
  BY <1>11 DEF Idle, Trimming, WritePCs
<1>13. n \in 0..Len(th[t].batch)
       /\ \E k \in 0..Len(th[t].batch) : Grown(disk.log, Begun(th[t]), th[t].first, th[t].base, th[t].batch, k)
  <2>1. 0 \in 0..Len(th[t].batch) /\ Grown(disk.log, Begun(th[t]), th[t].first, th[t].base, th[t].batch, 0)
    BY <1>3, GrownNone
  <2> QED BY <1>3, <2>1
<1>14. \A a \in Nat : a >= th[t].base /\ a < nextId =>
          (a \in entry'.graph <=> a < th[t].base + n /\ th[t].batch[a - th[t].base + 1])
  <2> SUFFICES ASSUME NEW a \in Nat, a >= th[t].base
               PROVE  a \in entry'.graph <=> a < th[t].base + n /\ th[t].batch[a - th[t].base + 1]
    OBVIOUS
  <2>1. \A i \in 1..n : th[t].batch[i] = TRUE
    BY <1>3, <1>4, LandedSays
  <2>2. a < th[t].base + n => a - th[t].base + 1 \in 1..n /\ a \in Ids(th[t].base, n)
    BY <1>3 DEF Ids
  <2> QED BY <1>4, <1>7, <2>1, <2>2
<1>15. RInv'
  BY <1>1, <1>2, <1>7, <1>8, <1>9, <1>10, <1>11, <1>12, <1>13, <1>14, <1>c, WriterTracks
<1> QED BY <1>4, <1>7, <1>15, HotVisible

\* operate panicked: the batch is in the log, and a load replays what is acceptable of it.
LEMMA PanicTracks ==
  ASSUME Sound, IInv, DInv, RInv, NEW t \in Threads, OperatePanics(t)
  PROVE  RInv' /\ Tracks
<1>1. /\ th[t].pc = "operate" /\ UNCHANGED <<disk, nextId>> /\ th' = [th EXCEPT ![t] = Idle]
      /\ entry' = [entry EXCEPT !.slot = "Cold", !.graph = {}]
  BY DEF OperatePanics, At
<1>2. /\ Writing(t) /\ ~Trimming(t)
      /\ Grown(disk.log, Begun(th[t]), th[t].first, th[t].base, th[t].batch, Len(th[t].batch))
  BY <1>1, FullLog DEF Trimming
<1>3. /\ WriterIs(th[t]) /\ disk \in Disk /\ entry \in Entry /\ disk.log \in Seq(Record)
      /\ th[t].base \in Nat /\ th[t].first \in Nat /\ Begun(th[t]) \in Seq(Record)
      /\ Len(th[t].batch) \in Nat /\ th \in [Threads -> Thread]
      /\ \A u \in Threads : u # t => th[u].pc \notin LockPCs /\ ~Writing(u)
  BY <1>2, WriterFacts
<1>4. entry.slot = "Hot" /\ Len(th[t].batch) > 0 /\ Older(Begun(th[t]), th[t].base)
      /\ nextId = th[t].base + Len(th[t].batch)
  BY <1>3 DEF WriterIs
<1>5. Others(t) /\ th'[t].pc = "idle" /\ entry'.slot = "Cold" /\ entry'.gen = entry.gen /\ entry'.rev = entry.rev
  BY <1>1, <1>3 DEF Others, Idle, Entry
<1>w. \A u \in Threads : ~Writing(u)' /\ ~Trimming(u)' /\ ~Trimming(u)
  BY <1>2, <1>3, <1>5 DEF Writing, WritePCs, Trimming, LockPCs, Others
<1>s. \A u \in Threads : Saved(u)' => Saved(u) /\ th'[u].snap = th[u].snap
  <2>1. ~InFlight(t)'
    BY <1>5 DEF InFlight
  <2> QED BY <1>1, <1>4, <1>5, <2>1, SavedStays
<1>g. /\ \A a, wm \in Nat : a >= th[t].base /\ wm < th[t].first =>
           (Replays(disk.log, a, wm) <=> a < th[t].base + Len(th[t].batch) /\ th[t].batch[a - th[t].base + 1])
      /\ Len(disk.log) \in DOMAIN disk.log
      /\ disk.log[Len(disk.log)].seq = th[t].first + Len(th[t].batch) - 1
  <2>1. Extended(disk.log, Begun(th[t]), th[t].first, th[t].base, th[t].batch, Len(th[t].batch))
    BY <1>2, <1>3, <1>4, GrownSays
  <2> QED BY <1>4, <2>1 DEF Extended
<1>r. \A a : a \in Recovered(disk) <=> a \in disk.image.ops \/ Replays(disk.log, a, disk.image.wm)
  BY <1>3, RecoveredSays DEF DInv, LogOK
<1>v. Visible' = Recovered(disk) /\ Visible = entry.graph
  BY <1>1, <1>4, <1>5 DEF Visible
<1>e. \A a \in Nat : a < th[t].base => Earlier(a)
  BY <1>3, <1>4 DEF Earlier
<1>6. Exact'
  <2>1. Says(disk.image)'
    BY <1>1, <1>r, <1>v DEF Says
  <2>2. ASSUME NEW u \in Threads, Saved(u)', NEW a \in Nat
        PROVE  a \in Recovered(disk) <=> a \in th[u].snap.ops \/ Replays(disk.log, a, th[u].snap.wm)
    <3>1. Saved(u)
      BY <1>s, <2>2
    <3>2. Says(th[u].snap) /\ Says(disk.image)
      BY <1>4, <3>1 DEF RInv, Exact, Alive
    <3>3. CASE a < th[t].base
      BY <1>e, <1>r, <3>2, <3>3 DEF Says
    <3>4. CASE a >= th[t].base
      <4>1. a \notin disk.image.ops /\ a \notin th[u].snap.ops
            /\ disk.image.wm \in Nat /\ disk.image.wm < th[t].first
            /\ th[u].snap.wm \in Nat /\ th[u].snap.wm < th[t].first
        BY <1>2, <3>1, <3>4, BatchUnknown
      <4> QED BY <1>g, <1>r, <3>4, <4>1
    <3> QED BY <1>3, <3>3, <3>4
  <2> QED BY <1>1, <1>s, <1>v, <2>1, <2>2 DEF Exact, Says
<1>7. Numbered'
  <2>1. \A w \in Nat : IsWm(w)' => IsWm(w)
    BY <1>1, <1>s DEF IsWm
  <2>2. \A n \in Nat : GivenOut(n)' => GivenOut(n)
    BY <1>1, <1>4, <1>5, <1>s, <1>w DEF GivenOut, Unled, Alive
  <2>3. \A n \in Nat : FirmTo(n) => FirmTo(n)'
    BY <1>1, <1>w DEF FirmTo, Firm
  <2> QED BY <1>1, <2>1, <2>2, <2>3, NumberedStays DEF RInv
<1>8. Counting'
  BY <1>w DEF Counting
<1>9. Tracks
  <2>1. VisibleRev' = MaxOf(entry.rev, TopSeq(disk)) /\ VisibleRev = entry.rev
    BY <1>1, <1>4, <1>5 DEF VisibleRev
  <2>2. entry.rev \in Nat /\ entry.rev < th[t].first
    BY <1>2, RevTypes, RevBelow
  <2>3. TopSeq(disk) \in Nat /\ th[t].first + Len(th[t].batch) - 1 <= TopSeq(disk)
    BY <1>3, <1>g, TopSeqType
  <2>4. TopSeq(disk) > entry.rev
    BY <1>3, <1>4, <2>2, <2>3
  <2> QED BY <2>1, <2>2, <2>3, <2>4 DEF Tracks, MaxOf
<1> QED BY <1>6, <1>7, <1>8, <1>9 DEF RInv

-----------------------------------------------------------------------------
(* Images *)

\* A new image beside the log.
LEMMA ImageStep ==
  ASSUME IInv, DInv, RInv, NEW t \in Threads, th[t].pc \in {"commit", "evcommit"}, Others(t),
         UNCHANGED <<entry, nextId>>, disk'.log = disk.log, disk'.rev = disk.rev,
         entry.slot = "Hot", th'[t].pc \notin WritePCs, NEW wm \in Nat, disk'.image.wm = wm,
         InFlight(t)' => InFlight(t) /\ th'[t].snap = th[t].snap,
         Says(disk'.image), \A n \in Nat : GivenOut(n) => Reach(wm, n),
         \A w \in Nat : IsWm(w)' => w = wm \/ (IsWm(w) /\ GivenOut(wm))
  PROVE  RInv' /\ Tracks
<1>1. \A u \in Threads : ~Writing(u) /\ ~Writing(u)' /\ ~Trimming(u) /\ ~Trimming(u)'
  <2>1. \A u \in Threads : u # t => th[u].pc \notin LockPCs
    BY DEF IInv, Control, LockHeld, LockPCs
  <2> QED BY <2>1 DEF LockPCs, Writing, WritePCs, Trimming, Others
<1>2. Visible' = entry.graph /\ Visible = entry.graph
  BY DEF Visible
<1>3. \A u \in Threads : Saved(u)' => Saved(u) /\ th'[u].snap = th[u].snap
  BY SavedStays
<1>4. \A s : Says(s) => \A a \in Nat : Earlier(a)' => (a \in Visible' <=> a \in s.ops \/ Replays(disk'.log, a, s.wm))
  BY <1>1, <1>2 DEF Says, Earlier
<1>5. Exact'
  BY <1>3, <1>4 DEF RInv, Exact, Says
<1>6. \A n \in Nat : GivenOut(n)' => n = wm \/ GivenOut(n)
  <2> SUFFICES ASSUME NEW n \in Nat, GivenOut(n)' PROVE n = wm \/ GivenOut(n)
    OBVIOUS
  <2>1. CASE \E u \in Threads : Saved(u)' /\ n = th'[u].snap.rev
    BY <1>3, <2>1 DEF GivenOut
  <2>2. CASE ~\E u \in Threads : Saved(u)' /\ n = th'[u].snap.rev
    BY <1>1, <2>2 DEF GivenOut, Alive, Unled
  <2> QED BY <2>1, <2>2
<1>7. \A w, n \in Nat : Reach(w, n) => Reach(w, n)'
  BY <1>1 DEF Reach, FirmTo, Firm
<1>8. disk.present
  BY RevTypes
<1>9. Numbered'
  <2> SUFFICES ASSUME NEW w \in Nat, NEW n \in Nat, IsWm(w)', GivenOut(n)' PROVE Reach(w, n)'
    BY DEF Numbered
  <2>1. CASE w = wm
    BY <1>6, <1>7, <2>1 DEF Reach
  <2>2. CASE IsWm(w) /\ GivenOut(wm)
    BY <1>6, <1>7, <1>8, <2>2 DEF RInv, Numbered
  <2> QED BY <2>1, <2>2
<1>10. Counting'
  BY <1>1 DEF Counting
<1> QED BY <1>2, <1>5, <1>9, <1>10 DEF RInv, Tracks

LEMMA PublishAlone ==
  ASSUME disk \in Disk, NEW ops, NEW wm, disk' = Publish(disk, ops, wm)
  PROVE  disk'.rev = disk.rev
BY DEF Publish, Disk

LEMMA CommitTracks ==
  ASSUME IInv, DInv, RInv, NEW t \in Threads, CommitOk(t) \/ CommitFails(t)
  PROVE  RInv' /\ Tracks
<1> DEFINE s == th[t].snap
<1>0. disk \in Disk /\ s.wm \in Nat
  BY RevTypes
<1>1. th[t].pc = "commit" /\ UNCHANGED <<entry, nextId>> /\ SameEntry
  BY DEF CommitOk, CommitFails, At, SameEntry
<1>2. ~Writing(t) /\ InFlight(t) /\ \A u \in Threads : InFlight(u) => u = t
  BY <1>1 DEF Writing, WritePCs, InFlight, IInv, Control, FlushExclusive
<1>3. \A u \in Threads : th[u].pc # "evcool"
  BY <1>1 DEF IInv, Control, LockHeld, LockPCs
<1>4. entry.slot = "Hot" /\ s.gen = entry.gen
  BY <1>1, <1>2 DEF DInv, Flights, FlightIs
<1>5. Saved(t) /\ Says(s) /\ disk.present
  <2>1. Saved(t)
    BY <1>2, <1>3, <1>4 DEF Saved, Publishable
  <2> QED BY <1>4, <2>1, RevTypes DEF RInv, Exact
<1>6. \A n \in Nat : GivenOut(n) => Reach(s.wm, n)
  BY <1>0, <1>5 DEF RInv, Numbered, IsWm
<1>7. CASE FlushReturns(t, FALSE) /\ disk' = disk
  <2>1. Others(t) /\ th'[t].pc \in {"idle", "evict"}
    BY <1>7, ReturnsSays
  <2>2. SameDisk /\ entry'.rev = entry.rev /\ GivenOut(disk'.rev)
    BY <1>1, <1>7 DEF SameDisk, GivenOut
  <2> QED BY <1>1, <1>2, <2>1, <2>2, StandingStep DEF WritePCs, InFlight
<1>8. ASSUME disk' = Publish(disk, s.ops, s.wm), Others(t), th'[t].pc \in {"idle", "evict", "truncate"},
             th'[t].pc = "truncate" => th'[t].snap = th[t].snap
      PROVE  RInv' /\ Tracks
  <2>1. disk'.log = disk.log /\ disk'.image.ops = s.ops /\ disk'.image.wm = s.wm /\ disk'.rev = disk.rev
    BY <1>0, <1>8, PublishSays, PublishAlone
  <2>2. Says(disk'.image)
    BY <1>5, <2>1 DEF Says
  <2>3. InFlight(t)' => InFlight(t) /\ th'[t].snap = th[t].snap
    BY <1>2, <1>8 DEF InFlight
  <2>4. \A w \in Nat : IsWm(w)' => w = s.wm
    <3>1. \A u \in Threads : Saved(u)' => u = t /\ th'[u].snap = s
      BY <1>2, <1>8, <2>3 DEF Saved, InFlight, Others
    <3> QED BY <2>1, <3>1 DEF IsWm
  <2>5. th'[t].pc \notin WritePCs
    BY <1>8 DEF WritePCs
  <2> HIDE DEF s
  <2> QED BY <1>0, <1>1, <1>4, <1>6, <1>8, <2>1, <2>2, <2>3, <2>4, <2>5, ImageStep
<1>9. CASE disk' = Publish(disk, s.ops, s.wm) /\ \E ok \in BOOLEAN : FlushReturns(t, ok)
  <2>1. Others(t) /\ th'[t].pc \in {"idle", "evict"}
    BY <1>9, ReturnsSays
  <2> QED BY <1>8, <1>9, <2>1
<1>10. CASE CommitOk(t) /\ CoversLog(t)
  <2>1. disk' = Publish(disk, s.ops, s.wm) /\ Goto(t, "truncate")
    BY <1>10 DEF CommitOk
  <2>2. Others(t) /\ th'[t].pc = "truncate" /\ th'[t].snap = th[t].snap
    BY <2>1, GotoSays
  <2> QED BY <1>8, <2>1, <2>2
<1> QED BY <1>7, <1>9, <1>10 DEF CommitOk, CommitFails

LEMMA EvictCommitTracks ==
  ASSUME IInv, DInv, RInv, NEW t \in Threads, EvictCommit(t) \/ EvictCommitFails(t)
  PROVE  RInv' /\ Tracks
<1>0. disk \in Disk /\ th \in [Threads -> Thread] /\ entry.walSeq \in Nat /\ entry.walSeq # 0
      /\ \A i \in DOMAIN disk.log : disk.log[i].seq \in Nat
  BY RevTypes
<1>1. th[t].pc = "evcommit" /\ UNCHANGED <<entry, nextId>> /\ SameEntry
  BY DEF EvictCommit, EvictCommitFails, At, SameEntry, history
<1>2. entry.slot = "Hot" /\ Unled /\ ~InFlight(t) /\ ~Writing(t)
  <2>1. entry.slot = "Hot"
    BY <1>1 DEF DInv, Evictions, EvictIs
  <2>2. \A u \in Threads : ~Writing(u)
    BY <1>1 DEF IInv, Control, LockHeld, LockPCs, Writing, WritePCs
  <2> QED BY <1>1, <2>1, <2>2 DEF Unled, InFlight
<1> DEFINE wm == entry.walSeq - 1
<1>3. /\ \A n \in Nat : GivenOut(n) => n < entry.walSeq
      /\ Below(disk.log, entry.walSeq)
  BY <1>2, GivenBelow
<1>4. wm \in Nat /\ GivenOut(wm) /\ \A n \in Nat : GivenOut(n) => Reach(wm, n)
  BY <1>0, <1>2, <1>3 DEF GivenOut, Reach
<1>5. \A a : ~Replays(disk.log, a, wm)
  BY <1>0, <1>3 DEF Replays, Below
<1>6. ASSUME disk' = Publish(disk, entry.graph, Watermark), Others(t), th'[t].pc \in {"idle", "evtruncate"}
      PROVE  RInv' /\ Tracks
  <2>1. disk'.log = disk.log /\ disk'.image.ops = entry.graph /\ disk'.image.wm = wm /\ disk'.rev = disk.rev
    BY <1>0, <1>6, PublishSays, PublishAlone DEF Watermark
  <2>2. Says(disk'.image)
    BY <1>2, <1>5, <2>1 DEF Says, Visible
  <2>3. ~InFlight(t)' /\ th'[t].pc \notin WritePCs
    BY <1>6 DEF InFlight, WritePCs
  <2>4. \A w \in Nat : IsWm(w)' => w = wm \/ IsWm(w)
    <3>1. \A u \in Threads : Saved(u)' => Saved(u) /\ th'[u].snap = th[u].snap
      BY <1>1, <1>2, <1>6, <2>3, SavedStays
    <3> QED BY <2>1, <3>1 DEF IsWm
  <2> HIDE DEF wm
  <2> QED BY <1>1, <1>2, <1>4, <1>6, <2>1, <2>2, <2>3, <2>4, ImageStep
<1>i. Idle.pc = "idle"
  BY DEF Idle
<1>7. CASE EvictCommit(t)
  <2>1. Goto(t, "evtruncate") /\ disk' = Publish(disk, entry.graph, Watermark)
    BY <1>7 DEF EvictCommit
  <2> QED BY <1>6, <2>1, GotoSays
<1>8. CASE EvictCommitFails(t)
  <2>1. th' = [th EXCEPT ![t] = Idle] /\ (disk' = disk \/ disk' = Publish(disk, entry.graph, Watermark))
    BY <1>8 DEF EvictCommitFails
  <2>2. Others(t) /\ th'[t].pc = "idle"
    BY <1>0, <1>i, <2>1 DEF Others
  <2>3. CASE disk' = disk
    <3>1. SameDisk /\ entry'.rev = entry.rev /\ GivenOut(disk'.rev)
      BY <1>1, <2>3 DEF SameDisk, GivenOut
    <3> QED BY <1>1, <1>2, <2>2, <3>1, StandingStep DEF WritePCs, InFlight
  <2>4. CASE disk' = Publish(disk, entry.graph, Watermark)
    BY <1>6, <2>2, <2>4
  <2> QED BY <2>1, <2>3, <2>4
<1> QED BY <1>7, <1>8

\* The log is reset under an image that covers all of it.
LEMMA TruncateTracks ==
  ASSUME Sound, IInv, DInv, RInv, NEW t \in Threads, FlushTruncates(t) \/ EvictTruncates(t)
  PROVE  RInv' /\ Tracks
<1>0. /\ disk \in Disk /\ entry \in Entry /\ entry.walSeq \in Nat /\ disk.image.wm \in Nat
      /\ \A i \in DOMAIN disk.log : disk.log[i].seq \in Nat
  BY RevTypes
<1>1. TruncateWal /\ nextId' = nextId /\ th[t].pc \in {"truncate", "evtruncate"}
  BY DEF FlushTruncates, EvictTruncates, At
<1>2. /\ Others(t) /\ th'[t].pc \in {"idle", "evict", "evcool"}
      /\ th[t].pc = "evtruncate" => th'[t].pc = "evcool"
  <2>1. CASE FlushTruncates(t)
    <3>1. th[t].pc = "truncate" /\ FlushReturns(t, TRUE)
      BY <2>1 DEF FlushTruncates, At
    <3> QED BY <3>1, ReturnsSays
  <2>2. CASE EvictTruncates(t)
    <3>1. Goto(t, "evcool")
      BY <2>2 DEF EvictTruncates
    <3> QED BY <3>1, GotoSays
  <2> QED BY <2>1, <2>2
<1>3. \A u \in Threads : ~Writing(u) /\ ~Writing(u)' /\ ~Trimming(u) /\ ~Trimming(u)'
  <2>1. \A u \in Threads : u # t => th[u].pc \notin LockPCs
    BY <1>1 DEF IInv, Control, LockHeld, LockPCs
  <2> QED BY <1>1, <1>2, <2>1 DEF LockPCs, Writing, WritePCs, Trimming, Others
<1>4. entry.slot = "Hot" /\ disk.image.wm + 1 = entry.walSeq /\ Unled
  <2>1. CASE th[t].pc = "truncate"
    <3>1. FlightIs(th[t])
      BY <2>1 DEF DInv, Flights, InFlight
    <3> QED BY <1>0, <1>3, <2>1, <3>1 DEF FlightIs, Unled
  <2>2. CASE th[t].pc = "evtruncate"
    BY <1>0, <1>3, <2>2 DEF DInv, Evictions, EvictIs, Unled
  <2> QED BY <1>1, <2>1, <2>2
<1>5. /\ entry'.slot = entry.slot /\ entry'.graph = entry.graph /\ entry'.walSeq = entry.walSeq
      /\ disk'.image = disk.image /\ disk'.present = disk.present
      /\ disk'.log = disk.log \/ disk'.log = <<>>
  BY <1>1, TruncateWalSays
<1>6. entry'.rev = entry.rev /\ disk'.rev = disk.rev
  <2>1. /\ disk' = disk \/ disk' = TruncateTo(disk, 0)
        /\ entry' = entry \/ entry' = [entry EXCEPT !.walBytes = 0]
    BY <1>1 DEF TruncateWal
  <2>2. disk'.rev = disk.rev
    BY <1>0, <2>1, LogAlone
  <2> DEFINE c == 0
  <2>3. entry' = entry \/ entry' = [entry EXCEPT !.walBytes = c]
    BY <2>1
  <2> HIDE DEF c
  <2> QED BY <1>0, <2>2, <2>3 DEF Entry
<1>7. /\ \A n \in Nat : GivenOut(n) => n < entry.walSeq
      /\ Below(disk.log, entry.walSeq)
  BY <1>4, GivenBelow
<1>8. \A u \in Threads : ~Saved(u)'
  <2>1. CASE th[t].pc = "truncate"
    <3>1. \A u \in Threads : InFlight(u) => u = t
      BY <2>1 DEF InFlight, IInv, Control, FlushExclusive
    <3> QED BY <1>2, <3>1 DEF Saved, InFlight, Others
  <2>2. CASE th[t].pc = "evtruncate"
    BY <1>2, <2>2 DEF Saved, Publishable
  <2> QED BY <1>1, <2>1, <2>2
<1>9. Visible' = Visible /\ Visible = entry.graph
  BY <1>4, <1>5 DEF Visible
<1>10. Exact'
  <2>1. \A a : ~Replays(disk.log, a, disk.image.wm)
    BY <1>0, <1>4, <1>7 DEF Replays, Below
  <2>2. \A a : ~Replays(disk'.log, a, disk.image.wm)
    BY <1>5, <2>1 DEF Replays
  <2>3. \A a \in Nat : Earlier(a)' => Earlier(a)
    BY <1>1, <1>3 DEF Earlier
  <2>4. Says(disk.image)
    BY <1>4 DEF RInv, Exact, Alive
  <2>5. Says(disk.image)'
    BY <1>5, <1>9, <2>1, <2>2, <2>3, <2>4 DEF Says
  <2> QED BY <1>8, <2>5 DEF Exact
<1>11. Numbered'
  <2>1. \A n \in Nat : GivenOut(n)' => GivenOut(n)
    BY <1>3, <1>4, <1>5, <1>6, <1>8 DEF GivenOut, Alive, Unled
  <2>2. \A w \in Nat : IsWm(w)' => w = disk.image.wm
    BY <1>5, <1>8 DEF IsWm
  <2>3. \A w, n \in Nat : IsWm(w)' /\ GivenOut(n)' => n <= w
    BY <1>0, <1>4, <1>7, <2>1, <2>2
  <2> QED BY <2>3 DEF Numbered, Reach
<1>12. Counting'
  BY <1>3 DEF Counting
<1> QED BY <1>9, <1>10, <1>11, <1>12 DEF RInv, Tracks

-----------------------------------------------------------------------------
(* Loads *)

\* A load gives what a read was answered, the revision included, and numbers that any
\* other load reaches too.
LEMMA LoadedSays ==
  ASSUME IInv, DInv, RInv, lock = Free, Loadable, NEW e, e = LoadedEntry, NEW d, d = HealedDisk
  PROVE  /\ e.graph = Visible /\ d.rev = disk.rev /\ e.rev \in Nat /\ e.walSeq - 1 \in Nat
         /\ \A w \in Nat : IsWm(w) => Reach(w, e.rev) /\ Reach(w, e.walSeq - 1)
<1>0. /\ disk \in Disk /\ entry \in Entry /\ entry.rev \in Nat /\ entry.walSeq \in Nat /\ entry.walSeq # 0
      /\ disk.image.wm \in Nat /\ \A i \in DOMAIN disk.log : disk.log[i].seq \in Nat
  BY RevTypes
<1>1. \A u \in Threads : ~Writing(u) /\ ~Trimming(u)
  BY Unwritten DEF Trimming, LockPCs
<1>2. Alive /\ GivenOut(entry.rev)
  <2>1. Alive
    BY DEF Loadable, Alive
  <2> QED BY <1>1, <2>1 DEF GivenOut
<1>3. \A w, n \in Nat : IsWm(w) /\ GivenOut(n) => Reach(w, n)
  <2>1. disk.present
    BY <1>2, RevTypes DEF Alive
  <2> QED BY <2>1 DEF RInv, Numbered
<1>4. CASE entry.slot = "Hot"
  <2>1. e = entry /\ d = disk
    BY <1>4 DEF LoadedEntry, HealedDisk
  <2>2. GivenOut(entry.walSeq - 1) /\ entry.walSeq - 1 \in Nat
    BY <1>0, <1>1, <1>4 DEF GivenOut, Unled
  <2> QED BY <1>0, <1>2, <1>3, <1>4, <2>1, <2>2 DEF Visible
<1>5. CASE entry.slot # "Hot"
  <2> DEFINE top == TopSeq(disk)
  <2>1. top \in Nat /\ (top = disk.image.wm \/ \E i \in DOMAIN disk.log : top = disk.log[i].seq)
    <3>1. top \in Nat /\ top \in Seqs(disk)
      BY <1>0, TopSeqIs
    <3> QED BY <3>1 DEF Seqs
  <2>2. \A w \in Nat : IsWm(w) => Reach(w, top)
    <3>1. CASE top = disk.image.wm
      BY <1>3, <2>1, <3>1 DEF GivenOut
    <3>2. CASE \E i \in DOMAIN disk.log : top = disk.log[i].seq
      <4>1. FirmTo(top)
        BY <1>0, <1>1, <2>1, <3>2 DEF FirmTo, Firm
      <4> QED BY <4>1 DEF Reach
    <3> QED BY <2>1, <3>1, <3>2
  <2>3. e = [entry EXCEPT !.slot = "Hot", !.graph = Recovered(disk), !.walSeq = top + 1,
                          !.rev = MaxOf(entry.rev, top), !.walBytes = Len(disk.log)]
        /\ d = Heal(disk)
    BY <1>5 DEF LoadedEntry, HealedDisk
  <2> HIDE DEF top
  <2>4. e.graph = Recovered(disk) /\ e.walSeq = top + 1 /\ e.rev = MaxOf(entry.rev, top) /\ d.rev = disk.rev
    BY <1>0, <2>3 DEF Entry, Heal, Disk
  <2>5. e.rev \in {entry.rev, top} /\ e.walSeq - 1 = top
    BY <1>0, <2>1, <2>4 DEF MaxOf
  <2>6. e.rev \in Nat /\ \A w \in Nat : IsWm(w) => Reach(w, e.rev)
    BY <1>0, <1>2, <1>3, <2>1, <2>2, <2>5
  <2> QED BY <1>5, <2>1, <2>2, <2>4, <2>5, <2>6 DEF Visible
<1> QED BY <1>4, <1>5

LEMMA LoadedStep ==
  ASSUME IInv, DInv, RInv, lock = Free, Loadable, NEW t \in Threads, Others(t), disk' = HealedDisk,
         entry'.slot = LoadedEntry.slot, entry'.graph = LoadedEntry.graph,
         entry'.walSeq = LoadedEntry.walSeq, entry'.rev = LoadedEntry.rev,
         entry'.gen = entry.gen \/ entry'.gen = entry.gen + 1, nextId' \in Nat, nextId <= nextId',
         th[t].pc = "idle", th'[t].pc \in {"idle", "flush", "append"},
         th'[t].pc = "append" =>
           th'[t].base = nextId /\ th'[t].first = entry'.walSeq /\ th'[t].len = LoadedEntry.walBytes
  PROVE  RInv' /\ Tracks
<1>0. /\ nextId \in Nat /\ entry.gen \in Nat /\ disk.image.ops \in SUBSET Nat
      /\ DOMAIN disk.log = 1..Len(disk.log) /\ Len(disk.log) \in Nat
      /\ \A i \in DOMAIN disk.log : disk.log[i].seq \in Nat /\ disk.log[i].id \in Nat
      /\ \A u \in Threads : th[u].snap.gen \in Nat
  BY RevTypes
<1>1. /\ LoadedEntry.slot = "Hot" /\ HealedDisk.image = disk.image /\ HealedDisk.log = disk.log
      /\ HealedDisk.present = disk.present /\ LoadedEntry.walBytes = Len(disk.log)
      /\ \A a \in LoadedEntry.graph : a \in Nat /\ a < nextId
  BY LoadSays
<1>2. /\ LoadedEntry.graph = Visible /\ HealedDisk.rev = disk.rev
      /\ LoadedEntry.rev \in Nat /\ LoadedEntry.walSeq - 1 \in Nat
      /\ \A w \in Nat : IsWm(w) => Reach(w, LoadedEntry.rev) /\ Reach(w, LoadedEntry.walSeq - 1)
  BY LoadedSays
<1> HIDE DEF LoadedEntry, HealedDisk
<1>3. /\ disk'.image = disk.image /\ disk'.log = disk.log /\ disk'.present = disk.present /\ disk'.rev = disk.rev
      /\ Visible' = Visible
  BY <1>1, <1>2 DEF Visible
<1>4. Alive /\ disk.present
  <2>1. Alive
    BY DEF Loadable, Alive
  <2> QED BY <2>1, RevTypes DEF Alive
<1>u. \A u \in Threads : ~Writing(u) /\ ~Trimming(u) /\ th[u].pc # "evcool"
  BY Unwritten DEF Trimming, LockPCs
<1>w. \A u \in Threads : /\ ~Trimming(u)'
                         /\ Writing(u)' => u = t /\ th'[t].pc = "append"
  BY <1>u DEF Trimming, Writing, WritePCs, Others
<1>s. \A u \in Threads : Saved(u)' => Saved(u) /\ th'[u].snap = th[u].snap
  <2>1. ~InFlight(t)'
    BY DEF InFlight
  <2>2. CASE entry'.gen = entry.gen
    BY <1>4, <1>u, <2>1, <2>2, SavedStays DEF Alive
  <2>3. CASE entry'.gen = entry.gen + 1
    <3> SUFFICES ASSUME NEW u \in Threads, Saved(u)' PROVE FALSE
      OBVIOUS
    <3>1. InFlight(u) /\ th'[u] = th[u]
      BY <2>1 DEF Saved, InFlight, Others
    <3>2. th[u].snap.gen <= entry.gen
      BY <3>1 DEF DInv, Flights, FlightIs
    <3> QED BY <1>0, <2>3, <3>1, <3>2 DEF Saved, Publishable
  <2> QED BY <2>2, <2>3
<1>5. Exact'
  <2>1. ASSUME NEW s, Says(s), \A a \in s.ops : Earlier(a), NEW a \in Nat, Earlier(a)'
        PROVE  a \in Visible' <=> a \in s.ops \/ Replays(disk'.log, a, s.wm)
    <3>1. CASE a < nextId
      BY <1>3, <1>u, <2>1, <3>1 DEF Says, Earlier
    <3>2. CASE a >= nextId
      <4>1. a \notin Visible' /\ a \notin s.ops
        BY <1>0, <1>1, <1>2, <1>3, <2>1, <3>2 DEF Earlier
      <4>2. ~Replays(disk.log, a, s.wm)
        BY <1>0, <3>2 DEF DInv, Drawn, Older, Replays
      <4> QED BY <1>3, <4>1, <4>2
    <3> QED BY <1>0, <3>1, <3>2
  <2>2. Says(disk.image)'
    <3>1. Says(disk.image) /\ \A a \in disk.image.ops : Earlier(a)
      BY <1>4 DEF RInv, Exact, DInv, Drawn
    <3> QED BY <1>3, <2>1, <3>1 DEF Says
  <2>3. ASSUME NEW u \in Threads, Saved(u)' PROVE Says(th[u].snap)'
    <3>1. Saved(u) /\ th'[u].snap = th[u].snap
      BY <1>s, <2>3
    <3>2. Says(th[u].snap) /\ \A a \in th[u].snap.ops : Earlier(a)
      BY <3>1 DEF RInv, Exact, DInv, Drawn
    <3> QED BY <2>1, <3>1, <3>2 DEF Says
  <2> QED BY <2>2, <2>3 DEF Exact
<1>6. \A w, n \in Nat : Reach(w, n) => Reach(w, n)'
  <2>1. \A i \in DOMAIN disk.log : Firm(i)'
    BY <1>0, <1>1, <1>w DEF Firm
  <2> QED BY <1>3, <2>1 DEF Reach, FirmTo
<1>7. \A n \in Nat : GivenOut(n)' => GivenOut(n) \/ n = LoadedEntry.rev \/ n = LoadedEntry.walSeq - 1
  <2> SUFFICES ASSUME NEW n \in Nat, GivenOut(n)', n # LoadedEntry.rev, n # LoadedEntry.walSeq - 1
               PROVE  GivenOut(n)
    OBVIOUS
  <2>1. CASE \E u \in Threads : Saved(u)' /\ n = th'[u].snap.rev
    BY <1>s, <2>1 DEF GivenOut
  <2>2. CASE ~\E u \in Threads : Saved(u)' /\ n = th'[u].snap.rev
    BY <1>3, <1>w, <2>2 DEF GivenOut
  <2> QED BY <2>1, <2>2
<1>8. Numbered'
  <2> SUFFICES ASSUME NEW w \in Nat, NEW n \in Nat, IsWm(w)', GivenOut(n)' PROVE Reach(w, n)'
    BY DEF Numbered
  <2>1. IsWm(w)
    BY <1>3, <1>s DEF IsWm
  <2>2. Reach(w, n)
    BY <1>2, <1>4, <1>7, <2>1 DEF RInv, Numbered
  <2> QED BY <1>6, <2>2
<1>9. Counting'
  BY <1>w DEF Counting
<1> QED BY <1>3, <1>5, <1>8, <1>9 DEF RInv, Tracks

LEMMA LoadTracks ==
  ASSUME Sound, IInv, DInv, RInv, NEW t \in Threads,
         Read(t) \/ RefuseWrite(t) \/ BeginWrite(t) \/ Compact(t)
  PROVE  RInv' /\ Tracks
<1>0. th \in [Threads -> Thread] /\ nextId \in Nat /\ entry.gen \in Nat
  BY RevTypes
<1>1. lock = Free /\ Loadable /\ disk' = HealedDisk /\ th[t].pc = "idle"
  BY DEF Read, RefuseWrite, BeginWrite, Compact, At
<1>2. LoadedEntry.gen = entry.gen /\ LoadedEntry \in Entry
  BY <1>1, LoadSays, LoadedType DEF IInv
<1>3. \A b \in Batches : Len(b) \in Nat
  BY ConstantsOK, LenProperties
<1> HIDE DEF LoadedEntry, HealedDisk
<1>4. CASE Read(t)
  <2>1. entry' = LoadedEntry /\ UNCHANGED <<th, nextId>>
    BY <1>4 DEF Read, history
  <2> QED BY <1>0, <1>1, <1>2, <2>1, LoadedStep DEF Others
<1>5. CASE RefuseWrite(t)
  <2>1. PICK b \in Batches : entry' = LoadedEntry /\ UNCHANGED th /\ nextId' = nextId + Len(b)
    BY <1>5 DEF RefuseWrite
  <2>2. nextId' \in Nat /\ nextId <= nextId'
    BY <1>0, <1>3, <2>1
  <2> QED BY <1>1, <1>2, <2>1, <2>2, LoadedStep DEF Others
<1>6. CASE BeginWrite(t)
  <2>1. PICK b \in Batches :
          /\ entry' = LoadedEntry /\ nextId' = nextId + Len(b)
          /\ th' = [th EXCEPT ![t] =
               [Idle EXCEPT !.pc = IF WalEnabled THEN "append" ELSE "operate",
                            !.batch = b, !.base = nextId, !.first = LoadedEntry.walSeq,
                            !.len = LoadedEntry.walBytes]]
    BY <1>6 DEF BeginWrite
  <2> DEFINE w == [Idle EXCEPT !.pc = IF WalEnabled THEN "append" ELSE "operate",
                            !.batch = b, !.base = nextId, !.first = LoadedEntry.walSeq,
                            !.len = LoadedEntry.walBytes]
  <2>2. w.pc = "append" /\ w.base = nextId /\ w.first = LoadedEntry.walSeq /\ w.len = LoadedEntry.walBytes
    BY DEF Sound, Idle
  <2>3. th' = [th EXCEPT ![t] = w]
    BY <2>1
  <2> HIDE DEF w
  <2>4. Others(t) /\ th'[t] = w
    BY <1>0, <2>3 DEF Others
  <2>5. nextId' \in Nat /\ nextId <= nextId'
    BY <1>0, <1>3, <2>1
  <2> QED BY <1>1, <1>2, <2>1, <2>2, <2>4, <2>5, LoadedStep
<1>7. CASE Compact(t)
  <2>1. entry' = [LoadedEntry EXCEPT !.gen = @ + 1] /\ Goto(t, "flush") /\ nextId' = nextId
    BY <1>7 DEF Compact, history
  <2>2. /\ entry'.slot = LoadedEntry.slot /\ entry'.graph = LoadedEntry.graph
        /\ entry'.walSeq = LoadedEntry.walSeq /\ entry'.rev = LoadedEntry.rev
        /\ entry'.gen = entry.gen + 1
    BY <1>2, <2>1 DEF Entry
  <2>3. Others(t) /\ th'[t].pc = "flush"
    BY <2>1, GotoSays
  <2> QED BY <1>0, <1>1, <2>1, <2>2, <2>3, LoadedStep
<1> QED BY <1>4, <1>5, <1>6, <1>7

-----------------------------------------------------------------------------
(* Crash, and the theorem *)

LEMMA CrashAlone ==
  ASSUME disk \in Disk, NEW d \in CrashDisks
  PROVE  d.rev = disk.rev
<1> DEFINE Appends(t) == PartialAppends(disk, RecordsOf(th[t].first, th[t].base, th[t].batch))
           Reappends(t) == PartialAppends(disk, Prefix(th[t]))
           A == { u \in Threads : At(u, "append") }
           R == { u \in Threads : At(u, "reappend") }
<1>1. PICK S \in {{disk}} \cup { Appends(t) : t \in A } \cup { Reappends(t) : t \in R } : d \in S
  BY DEF CrashDisks
<1>2. \A t : \A c \in Appends(t) : c.rev = disk.rev
  BY LogAlone
<1>3. \A t : \A c \in Reappends(t) : c.rev = disk.rev
  BY LogAlone
<1> HIDE DEF Appends, Reappends, A, R
<1> QED BY <1>1, <1>2, <1>3

LEMMA CrashTracks ==
  ASSUME IInv, DInv, RInv, DInv', disk' \in Disk, Crash
  PROVE  RInv'
<1>0. disk \in Disk /\ disk.log \in Seq(Record) /\ DOMAIN disk.log = 1..Len(disk.log) /\ disk.image.wm \in Nat
  BY RevTypes
<1>1. /\ entry'.slot = "Cold" /\ entry'.rev = disk.rev /\ disk' \in CrashDisks /\ disk.present
      /\ \A t \in Threads : th'[t].pc = "idle"
  BY DEF Crash, Idle
<1>2. \A t \in Threads : ~Saved(t)' /\ ~Writing(t)' /\ ~Trimming(t)'
  BY <1>1 DEF Saved, InFlight, Writing, WritePCs, Trimming
<1>3. disk'.rev = disk.rev
  BY <1>0, <1>1, CrashAlone
<1>4. disk'.image = disk.image /\ \A i \in DOMAIN disk.log : i \in DOMAIN disk'.log /\ disk'.log[i] = disk.log[i]
  <2>1. CASE disk' = disk
    BY <2>1
  <2>2. CASE disk' # disk
    <3>1. PICK t \in Threads : \E k \in 0..Len(th[t].batch) :
              /\ Writing(t) /\ disk'.image = disk.image
              /\ Grown(disk'.log, disk.log, th[t].first, th[t].base, th[t].batch, k)
      BY <1>1, <2>2, CrashGrows
    <3>2. PICK k \in 0..Len(th[t].batch) :
              /\ Writing(t) /\ disk'.image = disk.image
              /\ Grown(disk'.log, disk.log, th[t].first, th[t].base, th[t].batch, k)
      BY <3>1
    <3>3. k \in Nat /\ Len(disk'.log) = Len(disk.log) + k /\ \A i \in 1..Len(disk.log) : disk'.log[i] = disk.log[i]
      <4>1. Len(th[t].batch) \in Nat
        BY <3>2, WriterFacts
      <4> QED BY <3>2, <4>1 DEF Grown
    <3>4. DOMAIN disk'.log = 1..Len(disk'.log) /\ Len(disk.log) \in Nat
      <4>1. disk'.log \in Seq(Record)
        BY DEF Disk
      <4> QED BY <1>0, <4>1, LogType
    <3> QED BY <1>0, <3>2, <3>3, <3>4
  <2> QED BY <2>1, <2>2
<1>5. Exact'
  <2> DEFINE d == disk'
  <2>1. d \in Disk /\ Sorted(d.log)
    BY DEF DInv, LogOK
  <2>2. \A a : a \in Recovered(d) <=> a \in d.image.ops \/ Replays(d.log, a, d.image.wm)
    <3> HIDE DEF d
    <3> QED BY <2>1, RecoveredSays
  <2>3. Visible' = Recovered(d)
    BY <1>1 DEF Visible
  <2>4. Says(disk.image)'
    BY <2>2, <2>3 DEF Says
  <2> QED BY <1>2, <2>4 DEF Exact
<1>6. Numbered'
  <2>1. \A w \in Nat : IsWm(w)' => IsWm(w)
    BY <1>2, <1>4 DEF IsWm
  <2>2. \A n \in Nat : GivenOut(n)' => GivenOut(n)
    BY <1>1, <1>2, <1>3, <1>4 DEF GivenOut, Unled
  <2>3. \A n \in Nat : FirmTo(n) => FirmTo(n)'
    BY <1>2, <1>4 DEF FirmTo, Firm
  <2> QED BY <1>1, <2>1, <2>2, <2>3, NumberedStays DEF RInv
<1>7. Counting'
  BY <1>2 DEF Counting
<1> QED BY <1>5, <1>6, <1>7 DEF RInv

LEMMA RInvInit == Init => RInv
<1> SUFFICES ASSUME Init PROVE RInv
  OBVIOUS
<1>1. /\ entry.slot = "Hot" /\ entry.graph = {} /\ entry.walSeq = 1 /\ entry.rev = 0
      /\ disk.image.ops = {} /\ disk.image.wm = 0 /\ disk.rev = 0 /\ disk.log = <<>>
      /\ \A t \in Threads : th[t].pc = "idle"
  BY DEF Init, Idle
<1>2. \A t \in Threads : ~Saved(t) /\ ~Writing(t) /\ ~Trimming(t)
  BY <1>1 DEF Saved, InFlight, Writing, WritePCs, Trimming
<1>3. \A a, wm : ~Replays(disk.log, a, wm)
  BY <1>1 DEF Replays
<1>4. Exact
  BY <1>1, <1>2, <1>3 DEF Exact, Says, Visible
<1>5. \A n \in Nat : GivenOut(n) => n = 0
  BY <1>1, <1>2 DEF GivenOut
<1>6. Numbered
  BY <1>5 DEF Numbered, Reach
<1> QED BY <1>2, <1>4, <1>6 DEF RInv, Counting

LEMMA RInvStep ==
  ASSUME Sound, "trim" \notin Faults, IInv, DInv, RInv, [Next]_vars
  PROVE  RInv' /\ (crashes' = crashes => Tracks)
<1>1. DInv' /\ TypeInv'
  BY DInvStep, TypeStep DEF IInv
<1>2. ASSUME NEW t \in Threads, WriteStep(t) PROVE RInv' /\ Tracks
  <2>1. ~ReappendFails(t)
    BY DEF ReappendFails, Fault, Sound
  <2>2. ~RetrimFails(t) /\ ~TrimFails(t)
    <3>1. th[t].pc \in {"retrim", "trim"} => Truncatable(disk, th[t].len)
      <4>1. th[t].pc \in {"retrim", "trim"} => WriterIs(th[t])
        BY WriterFacts DEF Writing, WritePCs
      <4> QED BY <4>1 DEF WriterIs, Truncatable
    <3> QED BY <3>1 DEF RetrimFails, TrimFails, At, Fault
  <2> QED BY <1>2, <2>1, <2>2, AppendOkTracks, AppendFailsTracks, TrimTracks, OperateTracks, PanicTracks,
             ReappendOkTracks DEF WriteStep
<1>3. ASSUME NEW t \in Threads, FlushStep(t) PROVE RInv' /\ Tracks
  BY <1>3, StandingActions, ClaimTracks, CommitTracks, TruncateTracks DEF FlushStep
<1>4. ASSUME NEW t \in Threads, EvictStep(t) PROVE RInv' /\ Tracks
  BY <1>1, <1>4, StandingActions, LeaveActions, EvictCommitTracks, TruncateTracks DEF EvictStep
<1>5. ASSUME NEW t \in Threads, Call(t) PROVE RInv' /\ Tracks
  BY <1>1, <1>5, StandingActions, StillActions, LoadTracks, LeaveActions DEF Call
<1>6. ASSUME Crash PROVE RInv' /\ crashes' # crashes
  <2>1. disk' \in Disk /\ crashes \in Nat
    BY <1>1 DEF IInv, TypeInv, TypeOK
  <2>2. crashes' # crashes
    BY <1>6, <2>1 DEF Crash
  <2> QED BY <1>1, <1>6, <2>1, <2>2, CrashTracks
<1> QED BY <1>2, <1>3, <1>4, <1>5, <1>6, UnlinkTracks, StillActions DEF Next, Continue

\* ContextRevision: while rewinds of the log work, nothing that one process does changes
\* what reads answer without moving the revision they report forward, be it a write, a
\* batch cut short, a load after a panic, an eviction or a flush.
THEOREM RevisionMoves == Sound /\ "trim" \notin Faults /\ Spec => RevisionTracksContent
<1> SUFFICES ASSUME Sound, "trim" \notin Faults PROVE Spec => RevisionTracksContent
  OBVIOUS
<1> DEFINE A == Alive' /\ crashes' = crashes /\ Visible' # Visible => VisibleRev' > VisibleRev
<1>1. IInv /\ DInv /\ RInv /\ [Next]_vars => RInv' /\ [A]_vars
  BY RInvStep DEF Tracks
<1>2. RevisionTracksContent <=> [][A]_vars
  BY DEF RevisionTracksContent
<1>3. Spec => [](IInv /\ DInv)
  BY Durable
<1> QED BY <1>1, <1>2, <1>3, RInvInit, PTL DEF Spec

=============================================================================
