------------------------- MODULE PassageStore_proofs -------------------------
(***************************************************************************)
(* Proofs about PassageStore, for any threads, sources and batches, any    *)
(* legacy file, floor, cap and bounds, and any number of faults: as long   *)
(* as one instance at a time is in use and no refused batch lies in the    *)
(* log, what the files say is the durable map of DurableMap, and what is   *)
(* served from memory is what they say.                                    *)
(***************************************************************************)
EXTENDS PassageStore, TLAPS, FiniteSetTheorems, SequenceTheorems, WellFoundedInduction

-----------------------------------------------------------------------------
(* What a log says, of any log *)

Rec == [seq : Nat, src : Sources, val : Nat]
Maps == [Sources -> Nat]

SurvivorsOf(l, wm) ==
  { i \in 1..Len(l) : l[i].seq > wm /\ \A j \in 1..Len(l) : l[j].seq = l[i].seq => j <= i }
OnSource(l, wm, s) == { i \in SurvivorsOf(l, wm) : l[i].src = s }
RecoveredOf(base, l, wm) ==
  [s \in Sources |->
     IF OnSource(l, wm, s) = {} THEN base[s]
     ELSE l[CHOOSE i \in OnSource(l, wm, s) : \A j \in OnSource(l, wm, s) : l[j].seq <= l[i].seq].val]
TopOf(l, wm) == LET ns == {wm} \cup { l[i].seq : i \in 1..Len(l) }
                IN CHOOSE n \in ns : \A m \in ns : m <= n

\* The model's operators are these, of its log.
LEMMA OfTheLog ==
  /\ Recovered = RecoveredOf(Base, log, snap.wm) /\ Top(snap.wm) = TopOf(log, snap.wm)
  /\ Recovered' = RecoveredOf(Base', log', snap'.wm) /\ Top(snap.wm)' = TopOf(log', snap'.wm)
BY DEF Recovered, RecoveredOf, Survivors, SurvivorsOf, OnSource, Top, TopOf

LEMMA LogType ==
  ASSUME NEW l \in Seq(Rec)
  PROVE  /\ Len(l) \in Nat /\ DOMAIN l = 1..Len(l)
         /\ \A i \in 1..Len(l) : l[i] \in Rec /\ l[i].seq \in Nat /\ l[i].val \in Nat
<1>1. Len(l) \in Nat /\ DOMAIN l = 1..Len(l)
  BY LenProperties
<1>2. \A i \in 1..Len(l) : l[i] \in Rec
  BY ElementOfSeq
<1> QED
  BY <1>1, <1>2 DEF Rec

LEMMA NatMin ==
  ASSUME NEW T \in SUBSET Nat, T # {}
  PROVE  \E x \in T : \A y \in T : x <= y
<1>1. PICK x \in T : \A y \in T : ~(<<y, x>> \in OpToRel(<, Nat))
  BY NatLessThanWellFounded, WFMin
<1>2. \A y \in T : ~(y < x)
  BY <1>1 DEF OpToRel
<1> QED
  BY <1>2

Upto(T, k) == { i \in T : i <= k }

LEMMA UptoSteps ==
  ASSUME NEW T \in SUBSET Nat, 0 \notin T, NEW k \in Nat, k # 0
  PROVE  /\ Upto(T, 0) = {}
         /\ k \notin T => Upto(T, k) = Upto(T, k - 1)
         /\ k \in T => Upto(T, k) = Upto(T, k - 1) \cup {k}
<1>1. \A i \in T : i \in Nat /\ ~(i <= 0)
  OBVIOUS
<1>2. \A i \in T : i <= k <=> i <= k - 1 \/ i = k
  BY <1>1
<1> QED BY <1>1, <1>2 DEF Upto

\* A nonempty set of positions has one with the highest number.
LEMMA HighestExists ==
  ASSUME NEW n \in Nat, NEW f \in [1..n -> Nat], NEW T \in SUBSET (1..n), T # {}
  PROVE  \E i \in T : \A j \in T : f[j] <= f[i]
<1> DEFINE Fails(k) == Upto(T, k) # {} /\ ~\E i \in Upto(T, k) : \A j \in Upto(T, k) : f[j] <= f[i]
           K == { k \in Nat : Fails(k) }
<1>0. T \subseteq Nat /\ 0 \notin T /\ Upto(T, n) = T /\ \A j \in T : f[j] \in Nat
  <2>1. T \subseteq Nat /\ 0 \notin T /\ \A j \in T : j <= n
    OBVIOUS
  <2>2. \A j \in T : f[j] \in Nat
    OBVIOUS
  <2> QED BY <2>1, <2>2 DEF Upto
<1>1. SUFFICES ASSUME K # {} PROVE FALSE
  BY <1>0
<1>2. PICK k \in K : \A y \in K : k <= y
  BY <1>1, NatMin
<1>3. k \in Nat /\ Fails(k)
  BY <1>2
<1>4. k # 0
  <2>1. Upto(T, 0) = {}
    BY <1>0, UptoSteps, 1 \in Nat, 1 # 0
  <2> QED BY <1>3, <2>1
<1>5. ~Fails(k - 1)
  <2>1. k - 1 \in Nat /\ ~(k <= k - 1)
    BY <1>3, <1>4
  <2> HIDE DEF Fails
  <2> QED BY <1>2, <2>1
<1>6. k \in T /\ Upto(T, k) = Upto(T, k - 1) \cup {k}
  <2>1. /\ k \notin T => Upto(T, k) = Upto(T, k - 1)
        /\ k \in T => Upto(T, k) = Upto(T, k - 1) \cup {k}
    <3> HIDE DEF Fails, K
    <3> QED BY <1>0, <1>3, <1>4, UptoSteps
  <2> QED BY <1>3, <1>5, <2>1
<1>7. \A j \in Upto(T, k) : f[j] \in Nat
  BY <1>0 DEF Upto
<1>8. CASE Upto(T, k - 1) = {}
  <2>1. Upto(T, k) = {k}
    BY <1>6, <1>8
  <2> QED BY <1>3, <1>7, <2>1
<1>9. CASE Upto(T, k - 1) # {}
  <2>1. PICK i \in Upto(T, k - 1) : \A j \in Upto(T, k - 1) : f[j] <= f[i]
    BY <1>5, <1>9
  <2>2. i \in Upto(T, k) /\ k \in Upto(T, k) /\ f[i] \in Nat /\ f[k] \in Nat
    BY <1>6, <1>7
  <2>3. CASE f[k] <= f[i]
    BY <1>3, <1>6, <2>1, <2>2, <2>3
  <2>4. CASE f[i] <= f[k]
    <3>1. \A j \in Upto(T, k) : f[j] <= f[k]
      BY <1>6, <1>7, <2>1, <2>2, <2>4
    <3> QED BY <1>3, <2>2, <3>1
  <2> QED BY <2>2, <2>3, <2>4
<1> QED BY <1>8, <1>9

LEMMA TopIs ==
  ASSUME NEW l \in Seq(Rec), NEW wm \in Nat
  PROVE  /\ TopOf(l, wm) \in Nat /\ wm <= TopOf(l, wm)
         /\ \A i \in 1..Len(l) : l[i].seq <= TopOf(l, wm)
         /\ TopOf(l, wm) = wm \/ \E i \in 1..Len(l) : l[i].seq = TopOf(l, wm)
<1> DEFINE ns == {wm} \cup { l[i].seq : i \in 1..Len(l) }
           f == [i \in 1..Len(l) |-> l[i].seq]
<1>1. Len(l) \in Nat /\ ns \subseteq Nat /\ f \in [1..Len(l) -> Nat]
  BY LogType
<1>2. \E n \in ns : \A m \in ns : m <= n
  <2>1. CASE 1..Len(l) = {}
    BY <2>1
  <2>2. CASE 1..Len(l) # {}
    <3>1. PICK i \in 1..Len(l) : \A j \in 1..Len(l) : f[j] <= f[i]
      BY <1>1, <2>2, HighestExists
    <3>2. l[i].seq \in ns /\ wm \in ns /\ \A j \in 1..Len(l) : l[j].seq <= l[i].seq
      BY <3>1
    <3>3. CASE wm <= l[i].seq
      <4>1. \A m \in ns : m <= l[i].seq
        BY <3>2, <3>3
      <4> QED BY <3>2, <4>1
    <3>4. CASE l[i].seq <= wm
      <4>1. \A m \in ns : m <= wm
        BY <1>1, <3>2, <3>4
      <4> QED BY <3>2, <4>1
    <3> QED BY <1>1, <3>2, <3>3, <3>4
  <2> QED BY <2>1, <2>2
<1>3. TopOf(l, wm) \in ns /\ \A m \in ns : m <= TopOf(l, wm)
  <2> HIDE DEF ns
  <2>1. (CHOOSE n \in ns : \A m \in ns : m <= n) \in ns
        /\ \A m \in ns : m <= (CHOOSE n \in ns : \A k \in ns : k <= n)
    BY <1>2
  <2> QED BY <2>1 DEF TopOf, ns
<1> QED BY <1>1, <1>3

LEMMA TopUnique ==
  ASSUME NEW l \in Seq(Rec), NEW wm \in Nat, NEW n \in Nat, wm <= n,
         \A i \in 1..Len(l) : l[i].seq <= n,
         n = wm \/ \E i \in 1..Len(l) : l[i].seq = n
  PROVE  TopOf(l, wm) = n
<1> DEFINE t == TopOf(l, wm)
<1>1. /\ t \in Nat /\ wm <= t /\ \A i \in 1..Len(l) : l[i].seq <= t
      /\ t = wm \/ \E i \in 1..Len(l) : l[i].seq = t
  BY TopIs
<1>2. t <= n
  BY <1>1
<1>3. n <= t
  BY <1>1
<1> HIDE DEF t
<1>4. t = n
  BY <1>1, <1>2, <1>3
<1> QED BY <1>4 DEF t

\* The surviving record with the highest number on a source is what the log says of it.
LEMMA RecoveredAt ==
  ASSUME NEW l \in Seq(Rec), NEW wm \in Nat, NEW base \in Maps, NEW s \in Sources,
         NEW i \in OnSource(l, wm, s), \A j \in OnSource(l, wm, s) : l[j].seq <= l[i].seq
  PROVE  RecoveredOf(base, l, wm)[s] = l[i].val
<1> DEFINE on == OnSource(l, wm, s)
           c == CHOOSE x \in on : \A j \in on : l[j].seq <= l[x].seq
<1>1. c \in on /\ \A j \in on : l[j].seq <= l[c].seq
  <2>1. \E x \in on : \A j \in on : l[j].seq <= l[x].seq
    OBVIOUS
  <2> HIDE DEF on
  <2> QED BY <2>1
<1>2. i \in 1..Len(l) /\ c \in 1..Len(l) /\ i \in SurvivorsOf(l, wm) /\ c \in SurvivorsOf(l, wm)
  BY <1>1 DEF OnSource, SurvivorsOf
<1>3. l[i].seq = l[c].seq
  <2>1. l[i].seq \in Nat /\ l[c].seq \in Nat
    BY <1>2, LogType
  <2> QED BY <1>1, <2>1
<1>4. i <= c /\ c <= i
  BY <1>2, <1>3 DEF SurvivorsOf
<1>5. i = c
  <2>1. i \in Int /\ c \in Int
    BY <1>2
  <2> HIDE DEF c
  <2> QED BY <1>4, <2>1
<1>6. RecoveredOf(base, l, wm)[s] = l[c].val
  BY <1>1 DEF RecoveredOf
<1> HIDE DEF c
<1> QED BY <1>5, <1>6

LEMMA HighestOnSource ==
  ASSUME NEW l \in Seq(Rec), NEW wm \in Nat, NEW s \in Sources, OnSource(l, wm, s) # {}
  PROVE  \E i \in OnSource(l, wm, s) : \A j \in OnSource(l, wm, s) : l[j].seq <= l[i].seq
<1> DEFINE f == [i \in 1..Len(l) |-> l[i].seq]
<1>1. Len(l) \in Nat /\ f \in [1..Len(l) -> Nat]
  BY LogType
<1>2. OnSource(l, wm, s) \in SUBSET (1..Len(l))
  BY DEF OnSource, SurvivorsOf
<1>3. PICK i \in OnSource(l, wm, s) : \A j \in OnSource(l, wm, s) : f[j] <= f[i]
  <2> HIDE DEF f
  <2> QED BY <1>1, <1>2, HighestExists
<1> QED BY <1>2, <1>3

LEMMA RecoveredType ==
  ASSUME NEW l \in Seq(Rec), NEW wm \in Nat, NEW base \in Maps
  PROVE  RecoveredOf(base, l, wm) \in Maps
<1>1. ASSUME NEW s \in Sources PROVE RecoveredOf(base, l, wm)[s] \in Nat
  <2>1. CASE OnSource(l, wm, s) = {}
    BY <2>1 DEF RecoveredOf, Maps
  <2>2. CASE OnSource(l, wm, s) # {}
    <3>1. PICK i \in OnSource(l, wm, s) : \A j \in OnSource(l, wm, s) : l[j].seq <= l[i].seq
      BY <2>2, HighestOnSource
    <3>2. RecoveredOf(base, l, wm)[s] = l[i].val
      BY <3>1, RecoveredAt
    <3>3. i \in 1..Len(l)
      BY DEF OnSource, SurvivorsOf
    <3> QED BY <3>2, <3>3, LogType
  <2> QED BY <2>1, <2>2
<1> QED BY <1>1 DEF RecoveredOf, Maps

\* A snapshot that covers the whole log is all the files say.
LEMMA RecoveredNone ==
  ASSUME NEW l \in Seq(Rec), NEW wm \in Nat, NEW base \in Maps,
         \A i \in 1..Len(l) : l[i].seq <= wm
  PROVE  RecoveredOf(base, l, wm) = base
<1>1. \A i \in 1..Len(l) : l[i].seq \in Nat
  BY LogType
<1>2. \A i \in 1..Len(l) : ~(l[i].seq > wm)
  BY <1>1
<1>3. \A s \in Sources : OnSource(l, wm, s) = {}
  BY <1>2 DEF OnSource, SurvivorsOf
<1> QED BY <1>3 DEF RecoveredOf, Maps

-----------------------------------------------------------------------------
(* A batch appended to a log *)

Ops == [src : Sources, val : Nat]
RecordsOf(nx, ops, k) ==
  [i \in 1..k |-> [seq |-> nx + i - 1, src |-> ops[i].src, val |-> ops[i].val]]

\* The old records keep their places, the new ones follow, numbered from nx on.
Extends(l, m, nx, ops, k) ==
  /\ Len(m) = Len(l) + k
  /\ \A i \in 1..Len(l) : m[i] = l[i]
  /\ \A i \in 1..k : /\ Len(l) + i \in 1..Len(m)
                     /\ m[Len(l) + i].seq = nx + i - 1
                     /\ m[Len(l) + i].src = ops[i].src /\ m[Len(l) + i].val = ops[i].val
  /\ \A j \in 1..Len(m) : j \in 1..Len(l) \/ \E i \in 1..k : j = Len(l) + i

LEMMA AppendExtends ==
  ASSUME NEW l \in Seq(Rec), NEW ops \in Seq(Ops), NEW k \in 1..Len(ops), NEW nx \in Nat, nx # 0
  PROVE  /\ l \o RecordsOf(nx, ops, k) \in Seq(Rec)
         /\ Extends(l, l \o RecordsOf(nx, ops, k), nx, ops, k)
<1> DEFINE r == RecordsOf(nx, ops, k)
           m == l \o r
<1>1. Len(l) \in Nat /\ Len(ops) \in Nat /\ k \in Nat
  BY LenProperties
<1>2. \A i \in 1..k : i \in 1..Len(ops) /\ ops[i] \in Ops
  BY <1>1, ElementOfSeq
<1>3. \A i \in 1..k : /\ r[i] = [seq |-> nx + i - 1, src |-> ops[i].src, val |-> ops[i].val]
                      /\ r[i] \in Rec
  BY <1>1, <1>2 DEF RecordsOf, Ops, Rec
<1>4. r \in Seq(Rec) /\ Len(r) = k
  BY <1>1, <1>3 DEF RecordsOf
<1>5. /\ m \in Seq(Rec) /\ Len(m) = Len(l) + k
      /\ \A i \in 1..Len(l) : m[i] = l[i]
      /\ \A i \in 1..k : m[Len(l) + i] = r[i]
  <2> HIDE DEF r
  <2>1. m \in Seq(Rec) /\ Len(m) = Len(l) + k
    BY <1>4, ConcatProperties
  <2>2. \A i \in 1..Len(l) : m[i] = l[i]
    BY <1>1, <1>4, <2>1, ConcatProperties
  <2>3. \A i \in 1..k : m[Len(l) + i] = r[i]
    BY <1>1, <1>4, <2>1, ConcatProperties
  <2> QED BY <2>1, <2>2, <2>3
<1>6. \A j \in 1..Len(m) : j \in 1..Len(l) \/ \E i \in 1..k : j = Len(l) + i
  <2>1. SUFFICES ASSUME NEW j \in 1..Len(m), j \notin 1..Len(l)
                 PROVE  j - Len(l) \in 1..k /\ j = Len(l) + (j - Len(l))
    OBVIOUS
  <2> HIDE DEF m
  <2> QED BY <1>1, <1>5, <2>1
<1>7. \A i \in 1..k : Len(l) + i \in 1..Len(m)
  <2> HIDE DEF m
  <2> QED BY <1>1, <1>5
<1> HIDE DEF r
<1>8. m \in Seq(Rec) /\ Len(m) = Len(l) + k /\ \A i \in 1..Len(l) : m[i] = l[i]
  BY <1>5
<1>9. \A i \in 1..k : /\ m[Len(l) + i].seq = nx + i - 1
                      /\ m[Len(l) + i].src = ops[i].src /\ m[Len(l) + i].val = ops[i].val
  <2> SUFFICES ASSUME NEW i \in 1..k
               PROVE  /\ m[Len(l) + i].seq = nx + i - 1
                      /\ m[Len(l) + i].src = ops[i].src /\ m[Len(l) + i].val = ops[i].val
    OBVIOUS
  <2>1. m[Len(l) + i] = [seq |-> nx + i - 1, src |-> ops[i].src, val |-> ops[i].val]
    BY <1>3, <1>5
  <2> HIDE DEF m
  <2> QED BY <2>1
<1>10. m \in Seq(Rec) /\ Extends(l, m, nx, ops, k)
  <2> HIDE DEF m
  <2> QED BY <1>1, <1>6, <1>7, <1>8, <1>9 DEF Extends
<1> QED BY <1>10 DEF r

\* A batch numbered above everything on the log takes effect as the abstract map says.
LEMMA AppendedSays ==
  ASSUME NEW l \in Seq(Rec), NEW wm \in Nat, NEW base \in Maps,
         NEW ops \in Seq(Ops), NEW k \in 1..Len(ops), NEW nx \in Nat, nx = TopOf(l, wm) + 1,
         NEW m \in Seq(Rec), Extends(l, m, nx, ops, k)
  PROVE  /\ RecoveredOf(base, m, wm) = M!Applied(RecoveredOf(base, l, wm), ops, k)
         /\ TopOf(m, wm) + 1 = nx + k
<1>1. /\ TopOf(l, wm) \in Nat /\ wm <= TopOf(l, wm)
      /\ \A i \in 1..Len(l) : l[i].seq <= TopOf(l, wm)
  BY TopIs
<1>2. /\ Len(m) = Len(l) + k /\ Len(l) \in Nat
      /\ \A i \in 1..Len(l) : m[i] = l[i]
      /\ \A i \in 1..k : /\ Len(l) + i \in 1..Len(m)
                         /\ m[Len(l) + i].seq = nx + i - 1
                         /\ m[Len(l) + i].src = ops[i].src /\ m[Len(l) + i].val = ops[i].val
      /\ \A j \in 1..Len(m) : j \in 1..Len(l) \/ \E i \in 1..k : j = Len(l) + i
  BY LogType DEF Extends
<1>3. k \in Nat /\ k >= 1 /\ \A i \in 1..Len(l) : l[i].seq \in Nat /\ i \in Nat
  <2>1. Len(ops) \in Nat
    BY LenProperties
  <2> QED BY <2>1, LogType
<1>4. \A i \in 1..Len(l) : l[i].seq < nx /\ m[i].seq < nx /\ i \in 1..Len(m)
  BY <1>1, <1>2, <1>3
<1>5. \A i \in 1..k : nx + i - 1 \in Nat /\ wm < nx + i - 1 /\ nx <= nx + i - 1 /\ nx + i - 1 <= nx + k - 1
  BY <1>1, <1>3
<1>6. \A j \in SurvivorsOf(l, wm) : j \in SurvivorsOf(m, wm)
  <2>1. SUFFICES ASSUME NEW j \in SurvivorsOf(l, wm), NEW x \in 1..Len(m), m[x].seq = m[j].seq
                 PROVE  x <= j
    BY <1>2, <1>4 DEF SurvivorsOf
  <2>2. j \in 1..Len(l) /\ m[j].seq < nx /\ m[j] = l[j] /\ l[j].seq \in Nat
    BY <1>2, <1>3, <1>4 DEF SurvivorsOf
  <2>3. x \in 1..Len(l)
    <3>1. ASSUME NEW i \in 1..k, x = Len(l) + i PROVE FALSE
      <4>1. m[x].seq = nx + i - 1
        BY <1>2, <3>1
      <4> QED BY <1>5, <2>1, <2>2, <4>1
    <3> QED BY <1>2, <3>1
  <2>4. l[x].seq = l[j].seq
    BY <1>2, <2>1, <2>2, <2>3
  <2> QED BY <2>3, <2>4 DEF SurvivorsOf
<1>7. \A j \in SurvivorsOf(m, wm) : j \in 1..Len(l) => j \in SurvivorsOf(l, wm)
  BY <1>2, <1>4 DEF SurvivorsOf
<1>8. \A i \in 1..k : Len(l) + i \in SurvivorsOf(m, wm)
  <2>1. SUFFICES ASSUME NEW i \in 1..k, NEW x \in 1..Len(m), m[x].seq = m[Len(l) + i].seq
                 PROVE  x <= Len(l) + i
    BY <1>2, <1>5 DEF SurvivorsOf
  <2>2. CASE x \in 1..Len(l)
    BY <1>2, <2>2
  <2>3. ASSUME NEW y \in 1..k, x = Len(l) + y PROVE x <= Len(l) + i
    <3>1. nx + y - 1 = nx + i - 1
      BY <1>2, <2>1, <2>3
    <3>2. y = i
      BY <3>1, <1>3
    <3> QED BY <1>2, <2>3, <3>2
  <2> QED BY <1>2, <2>2, <2>3
<1>9. ASSUME NEW s \in Sources
      PROVE  RecoveredOf(base, m, wm)[s] = M!Applied(RecoveredOf(base, l, wm), ops, k)[s]
  <2> DEFINE on == { i \in 1..k : ops[i].src = s }
             c == CHOOSE i \in on : \A j \in on : j <= i
             was == RecoveredOf(base, l, wm)
  <2>1. CASE on = {}
    <3>1. M!Applied(was, ops, k)[s] = was[s]
      BY <2>1 DEF M!Applied
    <3>2. OnSource(m, wm, s) = OnSource(l, wm, s)
      <4>1. ASSUME NEW j \in OnSource(m, wm, s) PROVE j \in OnSource(l, wm, s)
        <5>1. j \in SurvivorsOf(m, wm) /\ m[j].src = s /\ j \in 1..Len(m)
          BY DEF OnSource, SurvivorsOf
        <5>2. ASSUME NEW i \in 1..k, j = Len(l) + i PROVE FALSE
          BY <1>2, <2>1, <5>1, <5>2
        <5>3. j \in 1..Len(l)
          BY <1>2, <5>1, <5>2
        <5> QED BY <1>2, <1>7, <5>1, <5>3 DEF OnSource
      <4>2. ASSUME NEW j \in OnSource(l, wm, s) PROVE j \in OnSource(m, wm, s)
        BY <1>2, <1>6 DEF OnSource, SurvivorsOf
      <4> QED BY <4>1, <4>2
    <3>3. CASE OnSource(l, wm, s) = {}
      BY <3>1, <3>2, <3>3 DEF RecoveredOf
    <3>4. CASE OnSource(l, wm, s) # {}
      <4>1. PICK i \in OnSource(l, wm, s) : \A j \in OnSource(l, wm, s) : l[j].seq <= l[i].seq
        BY <3>4, HighestOnSource
      <4>2. \A j \in OnSource(l, wm, s) : j \in 1..Len(l) /\ m[j] = l[j]
        BY <1>2 DEF OnSource, SurvivorsOf
      <4>3. \A j \in OnSource(m, wm, s) : m[j].seq <= m[i].seq
        BY <3>2, <4>1, <4>2
      <4>4. RecoveredOf(base, m, wm)[s] = m[i].val
        <5>1. i \in OnSource(m, wm, s)
          BY <3>2
        <5> QED BY <4>3, <5>1, RecoveredAt
      <4>5. was[s] = l[i].val
        BY <4>1, RecoveredAt
      <4> QED BY <3>1, <4>2, <4>4, <4>5
    <3> QED BY <3>3, <3>4
  <2>2. CASE on # {}
    <3>1. c \in on /\ \A j \in on : j <= c
      <4>1. \E i \in on : \A j \in on : j <= i
        <5> DEFINE f == [i \in 1..k |-> i]
        <5>1. f \in [1..k -> Nat] /\ on \in SUBSET (1..k)
          BY <1>3
        <5>2. \E i \in on : \A j \in on : f[j] <= f[i]
          <6> HIDE DEF f, on
          <6> QED BY <1>3, <2>2, <5>1, HighestExists
        <5> QED BY <5>1, <5>2
      <4> HIDE DEF on
      <4> QED BY <4>1
    <3>2. M!Applied(was, ops, k)[s] = ops[c].val
      BY <2>2 DEF M!Applied
    <3>3. c \in 1..k /\ ops[c].src = s /\ \A j \in 1..k : ops[j].src = s => j <= c
      BY <3>1
    <3> HIDE DEF c, on
    <3> DEFINE p == Len(l) + c
    <3>4. p \in OnSource(m, wm, s) /\ m[p].seq = nx + c - 1 /\ m[p].val = ops[c].val
      BY <1>2, <1>8, <3>3 DEF OnSource
    <3>5. ASSUME NEW j \in OnSource(m, wm, s) PROVE m[j].seq <= m[p].seq
      <4>1. j \in 1..Len(m) /\ m[j].src = s
        BY DEF OnSource, SurvivorsOf
      <4>2. CASE j \in 1..Len(l)
        <5>1. m[j].seq < nx /\ m[j].seq \in Nat
          BY <1>2, <1>3, <1>4, <4>2
        <5>2. nx <= nx + c - 1 /\ nx + c - 1 \in Nat
          BY <1>5, <3>3
        <5> HIDE DEF p
        <5> QED BY <3>4, <5>1, <5>2
      <4>3. ASSUME NEW i \in 1..k, j = Len(l) + i PROVE m[j].seq <= m[p].seq
        <5>1. m[j].seq = nx + i - 1 /\ i <= c
          BY <1>2, <3>3, <4>1, <4>3
        <5> HIDE DEF p
        <5> QED BY <1>3, <3>3, <3>4, <5>1
      <4> QED BY <1>2, <4>1, <4>2, <4>3
    <3>6. RecoveredOf(base, m, wm)[s] = m[p].val
      <4> HIDE DEF p
      <4> QED BY <1>2, <3>4, <3>5, RecoveredAt
    <3> QED BY <3>2, <3>4, <3>6
  <2> QED BY <2>1, <2>2
<1>10. RecoveredOf(base, m, wm) = M!Applied(RecoveredOf(base, l, wm), ops, k)
  BY <1>9 DEF RecoveredOf, M!Applied
<1>11. TopOf(m, wm) = nx + k - 1
  <2>1. nx + k - 1 \in Nat /\ wm <= nx + k - 1
    BY <1>1, <1>3
  <2>2. \A i \in 1..Len(m) : m[i].seq <= nx + k - 1
    <3>1. ASSUME NEW i \in 1..Len(l) PROVE m[i].seq <= nx + k - 1
      BY <1>2, <1>3, <1>4
    <3>2. ASSUME NEW i \in 1..k PROVE m[Len(l) + i].seq <= nx + k - 1
      BY <1>2, <1>5
    <3> QED BY <1>2, <3>1, <3>2
  <2>3. k \in 1..k /\ Len(l) + k \in 1..Len(m) /\ m[Len(l) + k].seq = nx + k - 1
    BY <1>2, <1>3
  <2> QED BY <1>2, <2>1, <2>2, <2>3, TopUnique
<1>12. TopOf(m, wm) + 1 = nx + k
  BY <1>3, <1>11
<1> QED BY <1>10, <1>12

-----------------------------------------------------------------------------
(* The inductive invariant: while no instance has been loaded over another  *)

Writing == {"append", "apply", "read", "write", "retire", "reset"}
Holding == {"held", "taken"} \cup Writing
Instances == [map : Maps, next : Nat, logb : Nat, snapb : Nat, lock : Threads \cup {Free}]
Kinds == {"none", "store", "retract", "compact"}
Locals == [pc : {"idle", "open", "evict"} \cup Holding, kind : Kinds, ops : Seq(Ops), st : Ids \cup {0}, map : Maps, seen : Nat]

Types ==
  /\ snap \in [here : BOOLEAN, map : Maps, wm : Nat] /\ legacy \in BOOLEAN /\ log \in Seq(Rec)
  /\ stores \in [Ids -> Instances] /\ slot \in Ids \cup {0}
  /\ th \in [Threads -> Locals] /\ writes \in Nat /\ split \in BOOLEAN /\ leaked \in BOOLEAN

\* A thread holds an instance from its open on, and only a batch has operations.
ShapeOf(x) ==
  /\ x.st # 0 <=> x.pc \in Holding
  /\ x.pc \in {"idle", "evict"} => x = [Idle EXCEPT !.pc = x.pc]
  /\ x.pc = "taken" => x.ops = <<>>
  /\ x.pc \in {"append", "apply"} => x.ops # <<>>
Shape == \A t \in Threads : ShapeOf(th[t])

\* The writer's lock is held exactly by the thread that is writing.
Locks == \A t \in Threads, i \in Ids : stores[i].lock = t <=> th[t].st = i /\ th[t].pc \in Writing

\* Everyone who holds an instance holds the same one, and the slot no other.
OneInstance ==
  /\ \A t, u \in Threads : th[t].st # 0 /\ th[u].st # 0 => th[t].st = th[u].st
  /\ \A t \in Threads : th[t].st # 0 /\ slot # 0 => th[t].st = slot

InUse(i) == i = slot \/ \E t \in Threads : th[t].st = i
Gone == \A i \in Ids : ~InUse(i) => stores[i] = NoStore

\* Numbers start at one, even while a refused batch lies in the log.
Numbered == \A i \in Ids : InUse(i) => stores[i].next # 0

\* Without such a batch memory is what the files say, except between a batch's records
\* and its memory.
Current ==
  ~leaked /\ (\A t \in Threads : th[t].pc # "apply") =>
    \A i \in Ids : InUse(i) => stores[i].map = Recovered /\ stores[i].next = Top(snap.wm) + 1
Landing ==
  \A t \in Threads : ~leaked /\ th[t].pc = "apply" =>
    /\ Recovered = After(My(t).map, th[t].ops)
    /\ Top(snap.wm) + 1 = My(t).next + Len(th[t].ops)

\* A compaction works on the map as it is, and its snapshot covers the whole log.
Compacting ==
  \A t \in Threads : th[t].pc \in {"write", "retire", "reset"} =>
    th[t].map = My(t).map /\ th[t].seen = My(t).next
Snapped ==
  \A t \in Threads : th[t].pc \in {"retire", "reset"} =>
    snap.here /\ snap.map = th[t].map /\ snap.wm + 1 = th[t].seen

Good == Shape /\ Locks /\ OneInstance /\ Gone /\ Numbered /\ Current /\ Landing /\ Compacting /\ Snapped
IInv == split \in BOOLEAN /\ (~split => Types /\ Good)

-----------------------------------------------------------------------------
(* Types *)

LEMMA Constants ==
  /\ {Floor, Cap, MaxWrites, MaxRetracts, MaxFaults} \subseteq Nat
  /\ Cardinality(Threads) \in Nat /\ Free \notin Threads
  /\ LegacyMap \in Maps /\ Empty \in Maps
  /\ Ids \subseteq Nat \ {0} /\ 1 \in Ids
<1>1. Cardinality(Threads) \in Nat
  BY PassageConstants, FS_CardinalityType
<1> QED BY <1>1, PassageConstants DEF Maps, Empty, Ids

LEMMA SizeType == \A m : Size(m) \in Nat
<1> SUFFICES ASSUME NEW m PROVE Size(m) \in Nat
  OBVIOUS
<1>1. IsFiniteSet({ s \in Sources : m[s] # 0 })
  BY PassageConstants, FS_Subset
<1> QED BY <1>1, FS_CardinalityType DEF Size

\* What a load reads is a map and a number.
LEMMA FilesType ==
  ASSUME Types
  PROVE  Base \in Maps /\ Recovered \in Maps /\ Top(snap.wm) \in Nat
<1>1. Base \in Maps /\ log \in Seq(Rec) /\ snap.wm \in Nat
  BY Constants DEF Types, Base
<1> QED BY <1>1, OfTheLog, RecoveredType, TopIs

LEMMA LoadedType ==
  ASSUME Types
  PROVE  Loaded \in Instances
<1>1. Len(log) \in Nat /\ (IF snap.here THEN Size(snap.map) ELSE 0) \in Nat
  BY SizeType, LenProperties DEF Types
<1> QED BY <1>1, FilesType DEF Loaded, Instances

LEMMA IdleType == Idle \in Locals /\ NoStore \in Instances
<1>1. <<>> \in Seq(Ops)
  OBVIOUS
<1>2. Empty \in Maps /\ 0 \in Nat /\ 0 \in Ids \cup {0} /\ Free \in Threads \cup {Free}
  BY Constants
<1>3. Idle \in Locals
  BY <1>1, <1>2 DEF Idle, Locals, Kinds
<1>4. NoStore \in Instances
  BY <1>2 DEF NoStore, Instances
<1> QED BY <1>3, <1>4

\* The batches of requests.
LEMMA BatchType ==
  /\ \A keys \in StoreKeys, v \in Nat :
       [i \in 1..Len(keys) |-> [src |-> keys[i], val |-> v]] \in Seq(Ops) \ {<<>>}
  /\ \A s \in Sources : <<[src |-> s, val |-> 0]>> \in Seq(Ops) \ {<<>>}
<1>1. ASSUME NEW keys \in StoreKeys, NEW v \in Nat
      PROVE  [i \in 1..Len(keys) |-> [src |-> keys[i], val |-> v]] \in Seq(Ops) \ {<<>>}
  <2> DEFINE b == [i \in 1..Len(keys) |-> [src |-> keys[i], val |-> v]]
  <2>1. keys \in Seq(Sources) /\ keys # <<>> /\ Len(keys) \in Nat /\ Len(keys) # 0
    BY PassageConstants, LenProperties, EmptySeq
  <2>2. \A i \in 1..Len(keys) : b[i] \in Ops
    BY <2>1, ElementOfSeq DEF Ops
  <2>3. b \in Seq(Ops) /\ Len(b) = Len(keys)
    BY <2>1, <2>2
  <2>4. b # <<>>
    BY <2>1, <2>3
  <2> QED BY <2>3, <2>4
<1>2. ASSUME NEW s \in Sources PROVE <<[src |-> s, val |-> 0]>> \in Seq(Ops) \ {<<>>}
  BY DEF Ops
<1> QED BY <1>1, <1>2

-----------------------------------------------------------------------------
(* Types are kept *)

LEMMA StartTypes ==
  ASSUME Types, NEW t \in Threads,
         StartStore(t) \/ StartRetract(t) \/ StartCompact(t) \/ StartEvict(t)
  PROVE  Types'
<1>1. CASE StartStore(t)
  <2>1. PICK keys \in StoreKeys :
          th' = [th EXCEPT ![t] = [Idle EXCEPT !.pc = "open", !.kind = "store",
                   !.ops = [i \in 1..Len(keys) |-> [src |-> keys[i], val |-> writes + 2]]]]
    BY <1>1 DEF StartStore
  <2>2. writes \in Nat /\ writes + 2 \in Nat /\ writes' \in Nat
    <3>1. writes \in Nat /\ writes' = writes + 1
      BY <1>1 DEF StartStore, Types
    <3> QED BY <3>1
  <2> DEFINE b == [i \in 1..Len(keys) |-> [src |-> keys[i], val |-> writes + 2]]
  <2>3. b \in Seq(Ops)
    BY <2>2, BatchType
  <2> HIDE DEF b
  <2>4. [Idle EXCEPT !.pc = "open", !.kind = "store", !.ops = b] \in Locals
    BY <2>3, IdleType DEF Idle, Locals, Kinds
  <2>5. th' \in [Threads -> Locals]
    BY <2>1, <2>4 DEF b, Types
  <2> QED BY <1>1, <2>2, <2>5 DEF StartStore, Types, disk
<1>2. CASE StartRetract(t)
  <2>1. PICK s \in Sources :
          th' = [th EXCEPT ![t] = [Idle EXCEPT !.pc = "open", !.kind = "retract",
                                            !.ops = <<[src |-> s, val |-> 0]>>]]
    BY <1>2 DEF StartRetract
  <2> DEFINE b == <<[src |-> s, val |-> 0]>>
  <2>3. b \in Seq(Ops)
    BY BatchType
  <2> HIDE DEF b
  <2>4. [Idle EXCEPT !.pc = "open", !.kind = "retract", !.ops = b] \in Locals
    BY <2>3, IdleType DEF Idle, Locals, Kinds
  <2>5. th' \in [Threads -> Locals]
    BY <2>1, <2>4 DEF b, Types
  <2> QED BY <1>2, <2>5 DEF StartRetract, Types, disk
<1>3. CASE StartCompact(t)
  <2>1. [Idle EXCEPT !.pc = "open", !.kind = "compact"] \in Locals
    BY IdleType DEF Idle, Locals, Kinds
  <2> QED BY <1>3, <2>1 DEF StartCompact, Types, disk
<1>4. CASE StartEvict(t)
  BY <1>4 DEF StartEvict, Types, Locals, Holding, disk
<1> QED BY <1>1, <1>2, <1>3, <1>4

\* Whatever a request leaves behind, its end leaves a state of the right type.
LEMMA EndTypes ==
  ASSUME NEW t \in Threads, NEW now \in [Ids -> Instances], Types, Ends(t, now)
  PROVE  th' \in [Threads -> Locals] /\ stores' \in [Ids -> Instances]
BY IdleType DEF Ends, Types

LEMMA HeldTypes ==
  ASSUME Types, Shape, NEW t \in Threads, th[t].pc \in Holding
  PROVE  /\ th[t].st \in Ids /\ My(t) \in Instances
         /\ My(t).map \in Maps /\ My(t).next \in Nat /\ My(t).logb \in Nat
         /\ th[t] \in Locals /\ th[t].ops \in Seq(Ops) /\ Len(th[t].ops) \in Nat
         /\ th[t].map \in Maps /\ th[t].seen \in Nat
<1>1. th[t] \in Locals /\ th[t].st \in Ids
  BY DEF Types, Shape, ShapeOf, Locals
<1>2. My(t) \in Instances
  BY <1>1 DEF Types, My
<1> QED BY <1>1, <1>2, LenProperties DEF Locals, Instances

\* One instance at a time: nobody holds one when the next is loaded.
LEMMA FreshType ==
  ASSUME Types, Good, slot = 0, \A u \in Threads : th[u].st = 0
  PROVE  FreshId \in Ids
<1>1. \A i \in Ids : stores[i] = NoStore
  BY Constants DEF Good, Gone, InUse
<1> QED BY <1>1, Constants DEF FreshId

LEMMA OpenTypes ==
  ASSUME Types, Good, NEW t \in Threads, Open(t), ~split'
  PROVE  Types'
<1>1. /\ UNCHANGED <<snap, legacy, log, writes>> /\ split' \in BOOLEAN /\ leaked' \in BOOLEAN
      /\ stores' \in [Ids -> Instances] /\ slot' \in Ids
  <2>1. CASE slot # 0
    BY <2>1 DEF Open, Types
  <2>2. CASE slot = 0
    <3>1. \A u \in Threads : th[u].st = 0
      BY <2>2 DEF Open, Load
    <3> QED BY <2>2, <3>1, FreshType, LoadedType DEF Open, Load, Types
  <2> QED BY <2>1, <2>2
<1>2. th' = [th EXCEPT ![t].pc = "held", ![t].st = slot']
  BY DEF Open
<1> DEFINE mid == [th EXCEPT ![t].pc = "held"]
<1>3. mid \in [Threads -> Locals]
  BY DEF Types, Locals, Holding
<1>4. th' = [mid EXCEPT ![t].st = slot']
  BY <1>2 DEF Types
<1> HIDE DEF mid
<1>5. th' \in [Threads -> Locals]
  BY <1>1, <1>3, <1>4 DEF Locals
<1> QED BY <1>1, <1>5 DEF Types

LEMMA ReadTypes ==
  ASSUME Types, Good, Read, ~split'
  PROVE  Types'
<1>1. \A u \in Threads : th[u].st = 0
  BY DEF Read, Load
<1> QED BY <1>1, FreshType, LoadedType DEF Read, Load, Types

LEMMA LockTypes ==
  ASSUME Types, Good, NEW t \in Threads, Begin(t) \/ CompactTaken(t)
  PROVE  Types'
<1>1. th[t].pc \in Holding
  BY DEF Begin, CompactTaken, Holding
<1>2. th[t].st \in Ids
  BY <1>1, HeldTypes DEF Good
<1>3. stores' = [stores EXCEPT ![th[t].st].lock = t] /\ UNCHANGED <<disk, slot, writes, split, leaked>>
  BY DEF Begin, CompactTaken
<1>4. stores' \in [Ids -> Instances]
  BY <1>2, <1>3 DEF Types, Instances
<1>5. th' \in [Threads -> Locals]
  <2>1. PICK p \in {"read", "append"} : th' = [th EXCEPT ![t].pc = p]
    BY DEF Begin, CompactTaken
  <2> QED BY <2>1 DEF Types, Locals, Holding, Writing
<1> QED BY <1>3, <1>4, <1>5 DEF Types, disk

\* Releasing a lock, an instance after its batch, an instance after its reset.
LEMMA ReleasedType ==
  ASSUME Types, Good, NEW t \in Threads, th[t].pc \in Holding
  PROVE  [stores EXCEPT ![th[t].st].lock = Free] \in [Ids -> Instances]
BY HeldTypes DEF Good, Types, Instances

AppliedTo(s, ops) ==
  [s EXCEPT !.map = After(@, ops), !.next = @ + Len(ops), !.logb = @ + Len(ops)]

LEMMA AfterType ==
  ASSUME NEW m \in Maps, NEW ops \in Seq(Ops)
  PROVE  After(m, ops) \in Maps /\ After(m, ops) = M!Applied(m, ops, Len(ops))
<1>1. After(m, ops) = M!Applied(m, ops, Len(ops))
  BY DEF After, M!Applied
<1>2. ASSUME NEW s \in Sources PROVE After(m, ops)[s] \in Nat
  <2> DEFINE on == { i \in 1..Len(ops) : ops[i].src = s }
             c == CHOOSE i \in on : \A j \in on : j <= i
  <2>1. CASE on = {}
    BY <2>1 DEF After, Maps
  <2>2. CASE on # {}
    <3>1. Len(ops) \in Nat
      BY LenProperties
    <3>2. c \in on
      <4> DEFINE f == [i \in 1..Len(ops) |-> i]
      <4>1. f \in [1..Len(ops) -> Nat] /\ on \in SUBSET (1..Len(ops))
        BY <3>1
      <4>2. \E i \in on : \A j \in on : f[j] <= f[i]
        <5> HIDE DEF f, on
        <5> QED BY <2>2, <3>1, <4>1, HighestExists
      <4>3. \E i \in on : \A j \in on : j <= i
        BY <4>1, <4>2
      <4> HIDE DEF on
      <4> QED BY <4>3
    <3>3. After(m, ops)[s] = ops[c].val
      BY <2>2 DEF After
    <3>4. c \in 1..Len(ops)
      BY <3>2
    <3> HIDE DEF c, on
    <3>5. ops[c] \in Ops
      BY <3>4, ElementOfSeq
    <3> QED BY <3>3, <3>5 DEF Ops
  <2> QED BY <2>1, <2>2
<1>3. After(m, ops) \in Maps
  <2>1. After(m, ops) = [s \in Sources |-> After(m, ops)[s]]
    BY DEF After
  <2> QED BY <1>2, <2>1 DEF Maps
<1> QED BY <1>1, <1>3

LEMMA AppliedToIs ==
  ASSUME NEW s \in Instances, NEW ops \in Seq(Ops)
  PROVE  /\ AppliedTo(s, ops) \in Instances
         /\ AppliedTo(s, ops).map = After(s.map, ops)
         /\ AppliedTo(s, ops).next = s.next + Len(ops)
         /\ AppliedTo(s, ops).lock = s.lock
<1>1. Len(ops) \in Nat /\ s.map \in Maps /\ s.next \in Nat /\ s.logb \in Nat
  BY LenProperties DEF Instances
<1>2. After(s.map, ops) \in Maps /\ s.next + Len(ops) \in Nat /\ s.logb + Len(ops) \in Nat
  BY <1>1, AfterType
<1> DEFINE s1 == [s EXCEPT !.map = After(s.map, ops)]
           s2 == [s1 EXCEPT !.next = s.next + Len(ops)]
           s3 == [s2 EXCEPT !.logb = s.logb + Len(ops)]
<1>3. s1 \in Instances /\ s1.map = After(s.map, ops) /\ s1.next = s.next /\ s1.logb = s.logb /\ s1.lock = s.lock
  BY <1>2 DEF Instances
<1>4. AppliedTo(s, ops) = s3
  BY DEF AppliedTo, Instances
<1> HIDE DEF s1
<1>5. s2 \in Instances /\ s2.map = s1.map /\ s2.next = s.next + Len(ops) /\ s2.logb = s1.logb /\ s2.lock = s1.lock
  BY <1>2, <1>3 DEF Instances
<1> HIDE DEF s2
<1>6. s3 \in Instances /\ s3.map = s2.map /\ s3.next = s2.next /\ s3.lock = s2.lock
  BY <1>2, <1>5 DEF Instances
<1> HIDE DEF s3
<1> QED BY <1>3, <1>4, <1>5, <1>6

ResetTo(s, map, logb) == [s EXCEPT !.snapb = Size(map), !.lock = Free, !.logb = logb]

LEMMA ResetToIs ==
  ASSUME NEW s \in Instances, NEW map, NEW logb \in Nat
  PROVE  /\ ResetTo(s, map, logb) \in Instances
         /\ ResetTo(s, map, logb).map = s.map /\ ResetTo(s, map, logb).next = s.next
         /\ ResetTo(s, map, logb).lock = Free
<1> DEFINE s1 == [s EXCEPT !.snapb = Size(map)]
           s2 == [s1 EXCEPT !.lock = Free]
           s3 == [s2 EXCEPT !.logb = logb]
<1>1. s1 \in Instances /\ s1.map = s.map /\ s1.next = s.next
  BY SizeType DEF Instances
<1>2. ResetTo(s, map, logb) = s3
  BY DEF ResetTo, Instances
<1> HIDE DEF s1
<1>3. s2 \in Instances /\ s2.map = s1.map /\ s2.next = s1.next /\ s2.lock = Free
  BY <1>1 DEF Instances
<1> HIDE DEF s2
<1>4. s3 \in Instances /\ s3.map = s2.map /\ s3.next = s2.next /\ s3.lock = s2.lock
  BY <1>3 DEF Instances
<1> HIDE DEF s3
<1> QED BY <1>1, <1>2, <1>3, <1>4

\* A request's end: the instances after its last step, and nothing else.
EndsWith(t, now) ==
  /\ Ends(t, now) /\ now \in [Ids -> Instances]
  /\ \A i \in Ids \ {th[t].st} : now[i] = stores[i]

LEMMA ApplyIs ==
  ASSUME Types, Good, NEW t \in Threads, Apply(t)
  PROVE  LET s == AppliedTo(My(t), th[t].ops)
             s0 == [s EXCEPT !.lock = Free]
         IN /\ th[t].pc = "apply" /\ UNCHANGED <<disk, slot, writes, retracts, split, leaked, faults>>
            /\ \/ /\ stores' = [stores EXCEPT ![th[t].st] = s]
                  /\ th' = [th EXCEPT ![t].pc = "read"]
                  /\ UNCHANGED <<slotlock, admission>>
               \/ EndsWith(t, [stores EXCEPT ![th[t].st] = s0])
<1> DEFINE s == AppliedTo(My(t), th[t].ops)
           s0 == [s EXCEPT !.lock = Free]
<1>1. th[t].pc = "apply" /\ UNCHANGED <<disk, slot, writes, retracts, split, leaked, faults>>
  BY DEF Apply
<1>2. \/ /\ stores' = [stores EXCEPT ![th[t].st] = s]
         /\ th' = [th EXCEPT ![t].pc = "read"]
         /\ UNCHANGED <<slotlock, admission>>
      \/ Ends(t, [stores EXCEPT ![th[t].st] = s0])
  BY DEF Apply, AppliedTo
<1>3. th[t].pc \in Holding /\ th[t].st \in Ids /\ s \in Instances
  BY <1>1, HeldTypes, AppliedToIs DEF Good, Holding, Writing
<1> HIDE DEF s
<1>4. s0 \in Instances
  BY <1>3 DEF Instances
<1> HIDE DEF s0
<1>5. /\ [stores EXCEPT ![th[t].st] = s0] \in [Ids -> Instances]
      /\ \A i \in Ids \ {th[t].st} : [stores EXCEPT ![th[t].st] = s0][i] = stores[i]
  BY <1>3, <1>4 DEF Types
<1>6. \/ /\ stores' = [stores EXCEPT ![th[t].st] = s]
         /\ th' = [th EXCEPT ![t].pc = "read"]
         /\ UNCHANGED <<slotlock, admission>>
      \/ EndsWith(t, [stores EXCEPT ![th[t].st] = s0])
  BY <1>2, <1>5 DEF EndsWith
<1> QED BY <1>1, <1>6 DEF s, s0

-----------------------------------------------------------------------------
(* What kinds of steps keep the invariant *)

Others(t) == \A u \in Threads \ {t} : th'[u] = th[u]
SameFiles == Recovered' = Recovered /\ Top(snap.wm)' = Top(snap.wm) /\ UNCHANGED snap

LEMMA FilesKept ==
  ASSUME UNCHANGED <<snap, legacy, log>>
  PROVE  SameFiles
BY DEF SameFiles, Recovered, Survivors, Base, Top

LEMMA DiskKept ==
  ASSUME UNCHANGED disk
  PROVE  SameFiles
BY FilesKept DEF disk

\* The writer's lock keeps writers apart.
LEMMA OneWriter ==
  ASSUME Types, Good, NEW t \in Threads, NEW u \in Threads,
         th[t].pc \in Writing, th[u].pc \in Holding
  PROVE  /\ th[u].st = th[t].st /\ th[t].st \in Ids /\ stores[th[t].st].lock = t
         /\ th[u].pc \in Writing => u = t
<1>1. th[t].st # 0 /\ th[u].st # 0
  BY DEF Good, Shape, ShapeOf, Holding
<1>2. th[u].st = th[t].st /\ th[t].st \in Ids
  BY <1>1 DEF Good, OneInstance, Types, Locals
<1>3. stores[th[t].st].lock = t /\ (th[u].pc \in Writing => stores[th[t].st].lock = u)
  BY <1>2 DEF Good, Locks
<1> QED BY <1>2, <1>3

\* A request starts, or an eviction: it holds nothing yet.
LEMMA StartGood ==
  ASSUME Types, Good, NEW t \in Threads, Others(t), UNCHANGED <<disk, stores, slot, leaked>>,
         th[t].pc = "idle", th'[t].st = 0,
         \/ th'[t].pc = "open"
         \/ th'[t] = [Idle EXCEPT !.pc = "evict"]
  PROVE  Good'
<1>1. th[t].st = 0 /\ th'[t].pc \in {"open", "evict"} /\ th[t].pc # "apply" /\ th'[t].pc # "apply"
  BY DEF Good, Shape, ShapeOf, Idle, Holding, Writing
<1>2. \A u \in Threads : th'[u].st = th[u].st
  BY <1>1 DEF Others
<1>3. \A u \in Threads : th'[u].pc \in Holding => u # t /\ th'[u] = th[u]
  BY <1>1 DEF Others, Holding, Writing
<1>4. SameFiles
  BY DiskKept
<1>5. \A i \in Ids : InUse(i)' = InUse(i)
  BY <1>2 DEF InUse
<1>6. Shape'
  <2>1. /\ th'[t].pc \notin Holding \cup {"taken", "append", "apply", "idle"}
        /\ th'[t].pc = "evict" => th'[t] = [Idle EXCEPT !.pc = "evict"]
    BY <1>1 DEF Holding, Writing
  <2>2. ShapeOf(th'[t])
    BY <2>1 DEF ShapeOf
  <2> QED BY <2>2 DEF Good, Shape, Others
<1>7. Locks'
  <2>1. th'[t].pc \notin Writing /\ th[t].pc \notin Writing
    BY <1>1 DEF Writing
  <2> QED BY <1>2, <2>1 DEF Good, Locks, Others
<1>8. OneInstance' /\ Gone' /\ Numbered'
  BY <1>2, <1>5 DEF Good, OneInstance, Gone, Numbered
<1>9. Current'
  <2>1. (\A u \in Threads : th'[u].pc # "apply") => \A u \in Threads : th[u].pc # "apply"
    BY <1>1 DEF Others
  <2> QED BY <1>4, <1>5, <2>1 DEF Good, Current, SameFiles
<1>10. Landing' /\ Compacting' /\ Snapped'
  BY <1>3, <1>4 DEF Good, Landing, Compacting, Snapped, SameFiles, My, Holding, Writing
<1> QED BY <1>6, <1>7, <1>8, <1>9, <1>10 DEF Good

\* A thread takes hold of an instance others hold already, or of its writer's lock.
LEMMA LockGood ==
  ASSUME Types, Good, NEW t \in Threads, Others(t), UNCHANGED <<disk, slot, leaked>>,
         th[t].pc \in {"held", "taken"}, th'[t].st = th[t].st,
         \/ th'[t].pc = "read"
         \/ th'[t].pc = "append" /\ th'[t].ops # <<>>,
         My(t).lock = Free, stores' = [stores EXCEPT ![th[t].st].lock = t]
  PROVE  Good'
<1>1. /\ th[t].pc \in Holding /\ th[t].pc \notin Writing /\ th'[t].pc \in Writing
      /\ th'[t].pc \in Holding /\ th'[t].pc \notin {"idle", "evict", "taken", "apply", "write", "retire", "reset"}
  BY DEF Holding, Writing
<1>2. \A u \in Threads : th'[u].st = th[u].st
  BY DEF Others
<1>3. /\ th[t].st \in Ids
      /\ \A i \in Ids : /\ stores'[i].map = stores[i].map /\ stores'[i].next = stores[i].next
                        /\ stores'[i].lock = IF i = th[t].st THEN t ELSE stores[i].lock
                        /\ i # th[t].st => stores'[i] = stores[i]
  <2>1. th[t].st \in Ids
    BY <1>1, HeldTypes DEF Good
  <2> QED BY <2>1 DEF Types, Instances
<1>4. SameFiles
  BY DiskKept
<1>5. \A i \in Ids : InUse(i)' = InUse(i)
  BY <1>2 DEF InUse
<1>6. Shape'
  <2>1. th'[t].st # 0 /\ (th'[t].pc = "append" => th'[t].ops # <<>>)
    BY <1>1 DEF Good, Shape, ShapeOf
  <2>2. ShapeOf(th'[t])
    BY <1>1, <2>1 DEF ShapeOf
  <2> QED BY <2>2 DEF Good, Shape, Others
<1>7. Locks'
  <2>1. SUFFICES ASSUME NEW u \in Threads, NEW i \in Ids
                 PROVE  stores'[i].lock = u <=> th'[u].st = i /\ th'[u].pc \in Writing
    BY DEF Locks
  <2>2. stores[i].lock = u <=> th[u].st = i /\ th[u].pc \in Writing
    BY DEF Good, Locks
  <2>3. CASE u = t
    BY <1>1, <1>2, <1>3, <2>2, <2>3
  <2>4. CASE u # t
    <3>1. i = th[t].st => stores[i].lock # u
      BY Constants DEF My
    <3> QED BY <1>3, <2>2, <2>4, <3>1 DEF Others
  <2> QED BY <2>3, <2>4
<1>8. OneInstance' /\ Gone' /\ Numbered'
  <2>1. InUse(th[t].st)
    BY DEF InUse
  <2>2. \A i \in Ids : ~InUse(i) => stores'[i] = stores[i]
    BY <1>3, <2>1
  <2>3. Numbered'
    BY <1>3, <1>5 DEF Good, Numbered
  <2> QED BY <1>2, <1>5, <2>2, <2>3 DEF Good, OneInstance, Gone
<1>9. Current'
  <2>1. (\A u \in Threads : th'[u].pc # "apply") => \A u \in Threads : th[u].pc # "apply"
    BY <1>1 DEF Others, Writing
  <2> QED BY <1>3, <1>4, <1>5, <2>1 DEF Good, Current, SameFiles
<1>10. \A u \in Threads : th'[u].pc \in {"apply", "write", "retire", "reset"} =>
         /\ u # t /\ th'[u] = th[u] /\ th[u].st \in Ids
         /\ My(u)'.map = My(u).map /\ My(u)'.next = My(u).next
  <2>1. SUFFICES ASSUME NEW u \in Threads, th'[u].pc \in {"apply", "write", "retire", "reset"}
                 PROVE  /\ u # t /\ th'[u] = th[u] /\ th[u].st \in Ids
                        /\ My(u)'.map = My(u).map /\ My(u)'.next = My(u).next
    OBVIOUS
  <2>2. u # t /\ th'[u] = th[u]
    BY <1>1, <2>1 DEF Others
  <2>3. th[u].st \in Ids
    BY <2>1, <2>2, HeldTypes DEF Good, Holding, Writing
  <2> QED BY <1>3, <2>2, <2>3 DEF My
<1>11. Landing' /\ Compacting' /\ Snapped'
  BY <1>4, <1>10 DEF Good, Landing, Compacting, Snapped, SameFiles
<1> QED BY <1>6, <1>7, <1>8, <1>9, <1>11 DEF Good

\* The writer goes on: what the invariant says of it is all there is to check.
LEMMA MoveGood ==
  ASSUME Types, Good, NEW t \in Threads, Others(t), UNCHANGED slot,
         th[t].pc \in Writing, th'[t].pc \in Writing, th'[t].st = th[t].st,
         th'[t].pc = "apply" => th'[t].ops # <<>>, th'[t].pc # "append",
         \A i \in Ids \ {th[t].st} : stores'[i] = stores[i], My(t)'.lock = t, My(t)'.next # 0,
         ~leaked' /\ th'[t].pc # "apply" => My(t)'.map = Recovered' /\ My(t)'.next = Top(snap.wm)' + 1,
         ~leaked' /\ th'[t].pc = "apply" =>
           /\ Recovered' = After(My(t)'.map, th'[t].ops)
           /\ Top(snap.wm)' + 1 = My(t)'.next + Len(th'[t].ops),
         th'[t].pc \in {"write", "retire", "reset"} =>
           th'[t].map = My(t)'.map /\ th'[t].seen = My(t)'.next,
         th'[t].pc \in {"retire", "reset"} =>
           snap'.here /\ snap'.map = th'[t].map /\ snap'.wm + 1 = th'[t].seen
  PROVE  Good'
<1>1. /\ th[t].pc \in Holding /\ th'[t].pc \in Holding
      /\ th'[t].pc \notin {"idle", "evict", "taken"}
  BY DEF Holding, Writing
<1>2. \A u \in Threads : th'[u].st = th[u].st
  BY DEF Others
<1>3. th[t].st \in Ids /\ My(t)' = stores'[th[t].st]
  BY <1>1, HeldTypes DEF Good, My
<1>4. \A u \in Threads : th'[u].pc \in Writing => u = t
  BY <1>1, OneWriter DEF Others, Holding
<1>5. \A i \in Ids : /\ InUse(i)' = InUse(i)
                     /\ InUse(i) => i = th[t].st
  <2>1. th[t].st # 0
    BY <1>3, Constants
  <2>2. \A i \in Ids : i # 0
    BY Constants
  <2> QED BY <1>2, <2>1, <2>2 DEF InUse, Good, OneInstance
<1>6. Shape'
  <2>1. th'[t].st # 0
    BY <1>1 DEF Good, Shape, ShapeOf
  <2>2. ShapeOf(th'[t])
    BY <1>1, <2>1 DEF ShapeOf
  <2> QED BY <2>2 DEF Good, Shape, Others
<1>7. Locks'
  <2>1. SUFFICES ASSUME NEW u \in Threads, NEW i \in Ids
                 PROVE  stores'[i].lock = u <=> th'[u].st = i /\ th'[u].pc \in Writing
    BY DEF Locks
  <2>2. stores[i].lock = u <=> th[u].st = i /\ th[u].pc \in Writing
    BY DEF Good, Locks
  <2>3. CASE i = th[t].st
    BY <1>2, <1>3, <1>4, <2>3
  <2>4. CASE i # th[t].st
    <3>1. stores'[i] = stores[i]
      BY <2>4
    <3> QED BY <1>2, <1>4, <2>2, <2>4, <3>1 DEF Others
  <2> QED BY <2>3, <2>4
<1>8. OneInstance' /\ Gone' /\ Numbered'
  <2>1. InUse(th[t].st)
    BY DEF InUse
  <2>2. \A i \in Ids : ~InUse(i) => stores'[i] = stores[i]
    BY <2>1
  <2>3. Numbered'
    BY <1>3, <1>5 DEF Numbered
  <2> QED BY <1>2, <1>5, <2>2, <2>3 DEF Good, OneInstance, Gone
<1>9. Current'
  <2>1. SUFFICES ASSUME ~leaked', \A u \in Threads : th'[u].pc # "apply", NEW i \in Ids, InUse(i)'
                 PROVE  stores'[i].map = Recovered' /\ stores'[i].next = Top(snap.wm)' + 1
    BY DEF Current
  <2> QED BY <1>3, <1>5, <2>1
<1>10. Landing' /\ Compacting' /\ Snapped'
  BY <1>4 DEF Landing, Compacting, Snapped, Writing
<1> QED BY <1>6, <1>7, <1>8, <1>9, <1>10 DEF Good

\* A request ends: its instance goes with its last holder.  The files stay, or an
\* emptied log leaves what the instance holds.
LEMMA EndGood ==
  ASSUME Types, Good, NEW t \in Threads, UNCHANGED <<slot, snap>>, NEW now, EndsWith(t, now),
         th[t].st # 0 =>
           /\ now[th[t].st].lock = IF th[t].pc \in Writing THEN Free ELSE My(t).lock
           /\ now[th[t].st].next # 0
           /\ th[t].pc = "apply" /\ ~leaked => /\ now[th[t].st].map = Recovered
                                               /\ now[th[t].st].next = Top(snap.wm) + 1
           /\ th[t].pc # "apply" => /\ now[th[t].st].map = My(t).map
                                    /\ now[th[t].st].next = My(t).next,
         \/ leaked'
         \/ ~leaked /\ SameFiles
         \/ /\ th[t].pc \in Writing /\ th[t].pc # "apply"
            /\ now[th[t].st].map = Recovered' /\ now[th[t].st].next = Top(snap.wm)' + 1
  PROVE  Good'
<1> DEFINE k == th[t].st
<1>1. /\ th'[t] = Idle /\ Others(t)
      /\ \A i \in Ids : stores'[i] = IF i = slot \/ \E u \in Threads \ {t} : th[u].st = i
                                     THEN now[i] ELSE NoStore
      /\ \A i \in Ids \ {k} : now[i] = stores[i]
  BY DEF EndsWith, Ends, Types, Others
<1>2. /\ th'[t].st = 0 /\ th'[t].pc = "idle"
      /\ ShapeOf(th'[t]) /\ th'[t].pc \notin Holding /\ th'[t].pc \notin Writing
  BY <1>1 DEF Idle, ShapeOf, Holding, Writing
<1>3. \A i \in Ids : InUse(i)' <=> i = slot \/ \E u \in Threads \ {t} : th[u].st = i
  <2>1. \A i \in Ids : i # 0
    BY Constants
  <2> QED BY <1>1, <1>2, <2>1 DEF InUse, Others
<1>4. \A i \in Ids : /\ InUse(i)' => InUse(i) /\ stores'[i] = now[i]
                     /\ ~InUse(i)' => stores'[i] = NoStore
  BY <1>1, <1>3 DEF InUse
<1>5. \A u \in Threads : th'[u].pc \in Holding =>
        u # t /\ th'[u] = th[u] /\ th[u].st \in Ids /\ My(u)' = now[th[u].st]
  <2>1. SUFFICES ASSUME NEW u \in Threads, th'[u].pc \in Holding
                 PROVE  u # t /\ th'[u] = th[u] /\ th[u].st \in Ids /\ My(u)' = now[th[u].st]
    OBVIOUS
  <2>2. u # t /\ th'[u] = th[u]
    BY <1>1, <1>2, <2>1 DEF Others
  <2>3. th[u].st \in Ids
    BY <2>1, <2>2, HeldTypes DEF Good
  <2> QED BY <1>1, <2>2, <2>3 DEF My
<1>6. Shape'
  BY <1>1, <1>2 DEF Good, Shape, Others
<1>7. Locks'
  <2>1. SUFFICES ASSUME NEW u \in Threads, NEW i \in Ids
                 PROVE  stores'[i].lock = u <=> th'[u].st = i /\ th'[u].pc \in Writing
    BY DEF Locks
  <2>2. stores[i].lock = u <=> th[u].st = i /\ th[u].pc \in Writing
    BY DEF Good, Locks
  <2>3. /\ i = k => now[i].lock = IF th[t].pc \in Writing THEN Free ELSE stores[i].lock
        /\ i # k => now[i].lock = stores[i].lock
    BY <1>1, Constants DEF My
  <2>4. NoStore.lock # u /\ Free # u
    BY Constants DEF NoStore
  <2>5. CASE u = t
    <3>1. now[i].lock # u
      BY <2>2, <2>3, <2>4, <2>5
    <3> QED BY <1>2, <1>4, <2>4, <2>5, <3>1
  <2>6. CASE u # t
    <3>1. th'[u] = th[u]
      BY <1>1, <2>6 DEF Others
    <3>2. stores[i].lock = u /\ i = k => th[t].pc \notin Writing
      <4>1. ASSUME stores[i].lock = u, i = k, th[t].pc \in Writing PROVE FALSE
        BY <2>2, <2>6, <4>1, OneWriter DEF Holding
      <4> QED BY <4>1
    <3>3. stores[i].lock = u => InUse(i)'
      BY <1>3, <2>2, <2>6
    <3> QED BY <1>4, <2>2, <2>3, <2>4, <3>1, <3>2, <3>3
  <2> QED BY <2>5, <2>6
<1>8. OneInstance' /\ Gone' /\ Numbered'
  <2>1. \A u \in Threads : th'[u].st = 0 \/ th'[u].st = th[u].st
    BY <1>1, <1>2 DEF Others
  <2>2. \A i \in Ids : InUse(i)' => stores'[i].next # 0
    <3>1. SUFFICES ASSUME NEW i \in Ids, InUse(i)' PROVE now[i].next # 0
      BY <1>4
    <3>2. CASE i = k
      BY <3>2, Constants
    <3>3. CASE i # k
      BY <1>1, <1>4, <3>1, <3>3 DEF Good, Numbered
    <3> QED BY <3>2, <3>3
  <2> QED BY <1>4, <2>1, <2>2 DEF Good, OneInstance, Gone, Numbered
<1>9. Current'
  <2>1. SUFFICES ASSUME ~leaked', \A u \in Threads : th'[u].pc # "apply", NEW i \in Ids, InUse(i)'
                 PROVE  stores'[i].map = Recovered' /\ stores'[i].next = Top(snap.wm)' + 1
    BY DEF Current
  <2>2. InUse(i) /\ stores'[i] = now[i]
    BY <1>4, <2>1
  <2>3. CASE th[t].pc \in Writing /\ (~leaked /\ SameFiles => th[t].pc = "apply")
    <3>1. k # 0 /\ i # 0
      BY <2>3, Constants DEF Good, Shape, ShapeOf, Holding, Writing
    <3>2. i = k
      BY <2>2, <3>1 DEF InUse, Good, OneInstance
    <3> QED BY <2>1, <2>2, <2>3, <3>1, <3>2 DEF SameFiles
  <2>4. CASE th[t].pc # "apply" /\ ~leaked /\ SameFiles
    <3>1. \A u \in Threads : th[u].pc # "apply"
      BY <1>1, <2>1, <2>4 DEF Others
    <3>2. now[i].map = stores[i].map /\ now[i].next = stores[i].next
      BY <1>1, <2>4, Constants DEF My
    <3> QED BY <2>2, <2>4, <3>1, <3>2 DEF SameFiles, Good, Current
  <2> QED BY <2>1, <2>3, <2>4 DEF Writing
<1>10. \A u \in Threads : th'[u].pc \in Writing => My(u)'.map = My(u).map /\ My(u)'.next = My(u).next
  <2>1. SUFFICES ASSUME NEW u \in Threads, th'[u].pc \in Writing
                 PROVE  My(u)'.map = My(u).map /\ My(u)'.next = My(u).next
    OBVIOUS
  <2>2. u # t /\ th'[u] = th[u] /\ th[u].st \in Ids /\ My(u)' = now[th[u].st]
    BY <1>5, <2>1 DEF Holding
  <2>3. th[t].pc # "apply"
    BY <2>1, <2>2, OneWriter DEF Holding, Writing
  <2>4. CASE th[u].st = k
    BY <2>2, <2>3, <2>4, Constants DEF My
  <2>5. CASE th[u].st # k
    BY <1>1, <2>2, <2>5 DEF My
  <2> QED BY <2>4, <2>5
<1>11. Compacting' /\ Snapped'
  BY <1>5, <1>10 DEF Good, Compacting, Snapped, Holding, Writing
<1>12. Landing'
  <2>1. SUFFICES ASSUME ~leaked', NEW u \in Threads, th'[u].pc = "apply"
                 PROVE  /\ Recovered' = After(My(u)'.map, th'[u].ops)
                        /\ Top(snap.wm)' + 1 = My(u)'.next + Len(th'[u].ops)
    BY DEF Landing
  <2>2. u # t /\ th'[u] = th[u] /\ My(u)'.map = My(u).map /\ My(u)'.next = My(u).next
    BY <1>5, <1>10, <2>1 DEF Holding, Writing
  <2>3. th[t].pc \notin Writing
    BY <2>1, <2>2, OneWriter DEF Holding, Writing
  <2>4. ~leaked /\ SameFiles
    BY <2>1, <2>3
  <2> QED BY <2>1, <2>2, <2>4 DEF Good, Landing, SameFiles
<1> QED BY <1>6, <1>7, <1>8, <1>9, <1>11, <1>12 DEF Good

\* A request or a search finds the resident instance, or loads one when nobody holds any.
LEMMA OpenGood ==
  ASSUME Types, Good, UNCHANGED <<snap, legacy, log>>, slot' \in Ids,
         \/ slot # 0 /\ UNCHANGED <<stores, slot, leaked>>
         \/ /\ slot = 0 /\ \A u \in Threads : th[u].st = 0
            /\ slot' = FreshId /\ stores' = [stores EXCEPT ![FreshId] = Loaded],
         \A u \in Threads : \/ th'[u] = th[u]
                            \/ th[u].pc = "open" /\ th'[u].pc = "held" /\ th'[u].st = slot'
  PROVE  Good'
<1>1. SameFiles /\ \A i \in Ids : i # 0
  BY FilesKept, Constants
<1>2. \A u \in Threads :
        /\ th'[u].pc \in Writing <=> th[u].pc \in Writing
        /\ th'[u].pc \in Writing => th'[u] = th[u]
        /\ th'[u].pc = "apply" <=> th[u].pc = "apply"
  BY DEF Writing
<1>3. \A u \in Threads : th'[u].st # 0 => th'[u].st = slot'
  BY DEF Good, OneInstance
<1>4. \A i \in Ids : InUse(i)' <=> i = slot'
  BY <1>1, <1>3 DEF InUse
<1>5. Shape'
  <2>1. \A u \in Threads : th'[u].pc = "held" /\ th'[u].st = slot' => ShapeOf(th'[u])
    BY <1>1 DEF ShapeOf, Holding
  <2> QED BY <2>1 DEF Good, Shape
<1>6. OneInstance'
  BY <1>3 DEF OneInstance
<1>7. CASE slot # 0 /\ UNCHANGED <<stores, slot, leaked>>
  <2>1. \A i \in Ids : InUse(i) <=> i = slot
    BY <1>1, <1>7 DEF InUse, Good, OneInstance
  <2>2. Locks'
    <3>1. SUFFICES ASSUME NEW u \in Threads, NEW i \in Ids
                   PROVE  stores[i].lock = u <=> th'[u].st = i /\ th'[u].pc \in Writing
      BY <1>7 DEF Locks
    <3>2. stores[i].lock = u <=> th[u].st = i /\ th[u].pc \in Writing
      BY DEF Good, Locks
    <3> QED BY <1>2, <3>2
  <2>3. Gone' /\ Numbered' /\ Current'
    BY <1>1, <1>2, <1>4, <1>7, <2>1 DEF Good, Gone, Numbered, Current, SameFiles
  <2>4. Landing' /\ Compacting' /\ Snapped'
    BY <1>1, <1>2, <1>7 DEF Good, Landing, Compacting, Snapped, SameFiles, My, Writing
  <2> QED BY <1>5, <1>6, <2>2, <2>3, <2>4 DEF Good
<1>8. CASE /\ slot = 0 /\ \A u \in Threads : th[u].st = 0
           /\ slot' = FreshId /\ stores' = [stores EXCEPT ![FreshId] = Loaded]
  <2>1. FreshId \in Ids /\ \A i \in Ids : stores'[i] = IF i = slot' THEN Loaded ELSE NoStore
    <3>1. \A i \in Ids : stores[i] = NoStore
      BY <1>1, <1>8 DEF Good, Gone, InUse
    <3> QED BY <1>8, <3>1, FreshType DEF Types
  <2>2. \A u \in Threads : th[u].pc \notin Holding /\ th[u].pc \notin Writing /\ th'[u].pc \notin Writing
    BY <1>2, <1>8 DEF Good, Shape, ShapeOf, Holding
  <2>3. Locks'
    <3>1. \A i \in Ids : stores'[i].lock = Free
      BY <2>1 DEF Loaded, NoStore
    <3> QED BY <2>2, <3>1, Constants DEF Locks
  <2>4. Gone' /\ Numbered' /\ Current'
    <3>1. Loaded.map = Recovered /\ Loaded.next = Top(snap.wm) + 1 /\ Loaded.next # 0
      BY FilesType DEF Loaded
    <3> QED BY <1>1, <1>4, <2>1, <3>1 DEF Gone, Numbered, Current, SameFiles
  <2>5. Landing' /\ Compacting' /\ Snapped'
    BY <2>2 DEF Landing, Compacting, Snapped, Writing
  <2> QED BY <1>5, <1>6, <2>3, <2>4, <2>5 DEF Good
<1> QED BY <1>7, <1>8

\* An eviction empties the slot: it takes the instance along, or leaves it to its holders.
LEMMA TakeGood ==
  ASSUME Types, Good, NEW t \in Threads, UNCHANGED <<disk, leaked>>, Others(t), th[t].pc = "evict", slot' = 0,
         \/ /\ slot # 0 /\ UNCHANGED stores
            /\ th'[t] = [Idle EXCEPT !.pc = "taken", !.st = slot]
         \/ /\ th'[t] = Idle
            /\ stores' = [i \in Ids |-> IF \E u \in Threads : th[u].st = i THEN stores[i] ELSE NoStore]
  PROVE  Good'
<1>1. SameFiles /\ \A i \in Ids : i # 0
  BY DiskKept, Constants
<1>2. /\ th[t].st = 0 /\ th[t].pc \notin Writing
      /\ th'[t].pc \in {"idle", "taken"} /\ th'[t].pc \notin Writing
      /\ th'[t].st # 0 => th'[t].st = slot
      /\ ShapeOf(th'[t])
  <2>1. th[t].st = 0 /\ th[t].pc \notin Writing
    BY DEF Good, Shape, ShapeOf, Holding, Writing
  <2>2. ASSUME slot # 0, th'[t] = [Idle EXCEPT !.pc = "taken", !.st = slot]
        PROVE  th'[t].pc = "taken" /\ th'[t].st = slot /\ ShapeOf(th'[t])
    <3>1. th'[t].pc = "taken" /\ th'[t].st = slot /\ th'[t].ops = <<>>
      BY <2>2 DEF Idle
    <3> QED BY <2>2, <3>1 DEF ShapeOf, Holding
  <2>3. ASSUME th'[t] = Idle
        PROVE  th'[t].pc = "idle" /\ th'[t].st = 0 /\ ShapeOf(th'[t])
    BY <2>3 DEF ShapeOf, Idle, Holding, Writing
  <2> QED BY <2>1, <2>2, <2>3 DEF Writing
<1>3. \A u \in Threads : th'[u].pc \in Writing => u # t /\ th'[u] = th[u] /\ th[u].st \in Ids
  BY <1>2, HeldTypes DEF Others, Good, Holding
<1>4. Shape'
  BY <1>2 DEF Good, Shape, Others
<1>5. OneInstance'
  <2>1. \A u \in Threads : u # t => th'[u] = th[u]
    BY DEF Others
  <2>2. \A u \in Threads : th'[u].st # 0 => th'[u].st = slot \/ th'[u].st = th[u].st
    BY <1>2, <2>1
  <2> QED BY <1>2, <2>1, <2>2 DEF Good, OneInstance
<1>6. \A i \in Ids : /\ InUse(i)' => InUse(i) /\ stores'[i] = stores[i]
                     /\ ~InUse(i)' => stores'[i] = NoStore
                     /\ (\E u \in Threads : th[u].st = i) => InUse(i)'
  <2>1. CASE /\ slot # 0 /\ UNCHANGED stores
             /\ th'[t] = [Idle EXCEPT !.pc = "taken", !.st = slot]
    <3>1. th'[t].st = slot
      BY <2>1 DEF Idle
    <3>2. \A i \in Ids : InUse(i)' <=> InUse(i)
      BY <1>1, <1>2, <3>1 DEF InUse, Others
    <3> QED BY <2>1, <3>2 DEF Good, Gone, InUse
  <2>2. CASE /\ th'[t] = Idle
             /\ stores' = [i \in Ids |-> IF \E u \in Threads : th[u].st = i THEN stores[i] ELSE NoStore]
    <3>1. th'[t].st = 0
      BY <2>2 DEF Idle
    <3>2. \A i \in Ids : InUse(i)' <=> \E u \in Threads : th[u].st = i
      BY <1>1, <1>2, <3>1 DEF InUse, Others
    <3> QED BY <2>2, <3>2 DEF InUse
  <2> QED BY <2>1, <2>2
<1>7. Locks'
  <2>1. SUFFICES ASSUME NEW u \in Threads, NEW i \in Ids
                 PROVE  stores'[i].lock = u <=> th'[u].st = i /\ th'[u].pc \in Writing
    BY DEF Locks
  <2>2. stores[i].lock = u <=> th[u].st = i /\ th[u].pc \in Writing
    BY DEF Good, Locks
  <2>3. NoStore.lock # u
    BY Constants DEF NoStore
  <2>4. th[u].pc \in Writing => th'[u] = th[u]
    BY <1>2 DEF Others
  <2> QED BY <1>3, <1>6, <2>2, <2>3, <2>4
<1>8. Gone' /\ Numbered' /\ Current'
  <2>1. (\A u \in Threads : th'[u].pc # "apply") => \A u \in Threads : th[u].pc # "apply"
    BY DEF Others
  <2> QED BY <1>1, <1>6, <2>1 DEF Good, Gone, Numbered, Current, SameFiles
<1>9. Landing' /\ Compacting' /\ Snapped'
  <2>1. \A u \in Threads : th'[u].pc \in Writing => th'[u] = th[u] /\ My(u)' = My(u)
    BY <1>3, <1>6 DEF My
  <2> QED BY <1>1, <2>1 DEF Good, Landing, Compacting, Snapped, SameFiles, Writing
<1> QED BY <1>4, <1>5, <1>7, <1>8, <1>9 DEF Good

\* A process with no memory, as at its start and after a crash.
LEMMA FreshGood ==
  ASSUME stores' = [i \in Ids |-> NoStore], slot' = 0, th' = [u \in Threads |-> Idle]
  PROVE  Good'
<1>1. \A u \in Threads : /\ th'[u] = Idle /\ th'[u].st = 0 /\ th'[u].pc \notin Holding
                         /\ th'[u].pc \notin Writing /\ ShapeOf(th'[u])
  BY DEF Idle, Holding, Writing, ShapeOf
<1>2. \A i \in Ids : i # 0 /\ stores'[i] = NoStore /\ stores'[i].lock = Free
  BY Constants DEF NoStore
<1>3. \A i \in Ids : ~InUse(i)'
  BY <1>1, <1>2 DEF InUse
<1> QED BY <1>1, <1>2, <1>3, Constants
  DEF Good, Shape, Locks, OneInstance, Gone, Numbered, Current, Landing, Compacting, Snapped, Writing

-----------------------------------------------------------------------------
(* The steps, one by one *)

LEMMA StartKeeps ==
  ASSUME Types, Good, NEW t \in Threads,
         StartStore(t) \/ StartRetract(t) \/ StartCompact(t) \/ StartEvict(t)
  PROVE  Types' /\ Good'
<1>1. Types'
  BY StartTypes
<1>2. /\ th[t].pc = "idle" /\ UNCHANGED <<disk, stores, slot, leaked>>
      /\ Others(t)
  BY DEF StartStore, StartRetract, StartCompact, StartEvict, Others, Types
<1>3. /\ th'[t].st = 0
      /\ th'[t].pc = "open" \/ th'[t] = [Idle EXCEPT !.pc = "evict"]
  <2>1. CASE StartStore(t)
    <3>1. PICK b : th' = [th EXCEPT ![t] = [Idle EXCEPT !.pc = "open", !.kind = "store", !.ops = b]]
      BY <2>1 DEF StartStore
    <3> QED BY <3>1 DEF Types, Idle
  <2>2. CASE StartRetract(t)
    <3>1. PICK b : th' = [th EXCEPT ![t] = [Idle EXCEPT !.pc = "open", !.kind = "retract", !.ops = b]]
      BY <2>2 DEF StartRetract
    <3> QED BY <3>1 DEF Types, Idle
  <2>3. CASE StartCompact(t)
    BY <2>3 DEF StartCompact, Types, Idle
  <2>4. CASE StartEvict(t)
    <3>1. th[t] = [Idle EXCEPT !.pc = "idle"]
      BY <2>4 DEF StartEvict, Good, Shape, ShapeOf
    <3>2. th'[t] = [th[t] EXCEPT !.pc = "evict"]
      BY <2>4 DEF StartEvict, Types
    <3> QED BY <3>1, <3>2 DEF Idle
  <2> QED BY <2>1, <2>2, <2>3, <2>4
<1> QED BY <1>1, <1>2, <1>3, StartGood

LEMMA OpenKeeps ==
  ASSUME Types, Good, NEW t \in Threads, Open(t), ~split'
  PROVE  Types' /\ Good'
<1>1. Types'
  BY OpenTypes
<1>2. \A u \in Threads : \/ th'[u] = th[u]
                         \/ th[u].pc = "open" /\ th'[u].pc = "held" /\ th'[u].st = slot'
  <2>1. th' = [th EXCEPT ![t].pc = "held", ![t].st = slot']
    BY DEF Open
  <2>2. th'[t].pc = "held" /\ th'[t].st = slot' /\ \A u \in Threads \ {t} : th'[u] = th[u]
    BY <2>1 DEF Types, Locals
  <2> QED BY <2>2 DEF Open
<1>3. \/ slot # 0 /\ UNCHANGED <<stores, slot, leaked>>
      \/ /\ slot = 0 /\ \A u \in Threads : th[u].st = 0
         /\ slot' = FreshId /\ stores' = [stores EXCEPT ![FreshId] = Loaded]
  BY DEF Open, Load
<1>4. slot' \in Ids /\ UNCHANGED <<snap, legacy, log>>
  <2>1. UNCHANGED <<snap, legacy, log>>
    BY DEF Open
  <2>2. slot' \in Ids
    BY <1>3, FreshType DEF Types
  <2> QED BY <2>1, <2>2
<1> QED BY <1>1, <1>2, <1>3, <1>4, OpenGood

LEMMA ReadKeeps ==
  ASSUME Types, Good, Read, ~split'
  PROVE  Types' /\ Good'
<1>1. Types'
  BY ReadTypes
<1>2. /\ slot = 0 /\ \A u \in Threads : th[u].st = 0
      /\ slot' = FreshId /\ stores' = [stores EXCEPT ![FreshId] = Loaded]
      /\ UNCHANGED <<snap, legacy, log, th>>
  BY DEF Read, Load
<1>3. slot' \in Ids
  BY <1>2, FreshType
<1> QED BY <1>1, <1>2, <1>3, OpenGood

LEMMA BeginKeeps ==
  ASSUME Types, Good, NEW t \in Threads, Begin(t) \/ CompactTaken(t)
  PROVE  Types' /\ Good'
<1>1. Types'
  BY LockTypes
<1>2. /\ th[t].pc \in {"held", "taken"} /\ My(t).lock = Free
      /\ stores' = [stores EXCEPT ![th[t].st].lock = t] /\ UNCHANGED <<disk, slot, leaked>>
  BY DEF Begin, CompactTaken
<1>3. PICK p \in {"read", "append"} :
        th' = [th EXCEPT ![t].pc = p] /\ (p = "append" => th[t].ops # <<>>)
  BY DEF Begin, CompactTaken
<1>4. /\ th'[t].pc = p /\ th'[t].st = th[t].st /\ th'[t].ops = th[t].ops /\ Others(t)
  BY <1>3 DEF Types, Locals, Others
<1> QED BY <1>1, <1>2, <1>3, <1>4, LockGood

LEMMA TakeKeeps ==
  ASSUME Types, Good, NEW t \in Threads, TakeSlot(t)
  PROVE  Types' /\ Good'
<1>1. th[t].pc = "evict" /\ slot' = 0 /\ UNCHANGED <<disk, writes, split, leaked>>
  BY DEF TakeSlot
<1>2. CASE slot # 0 /\ UNCHANGED stores /\ th' = [th EXCEPT ![t] = [Idle EXCEPT !.pc = "taken", !.st = slot]]
  <2>1. [Idle EXCEPT !.pc = "taken", !.st = slot] \in Locals
    BY <1>2, IdleType DEF Types, Idle, Locals, Kinds, Holding
  <2>2. Types'
    BY <1>1, <1>2, <2>1 DEF Types, disk
  <2>3. th'[t] = [Idle EXCEPT !.pc = "taken", !.st = slot] /\ Others(t)
    BY <1>2 DEF Types, Others
  <2> QED BY <1>1, <1>2, <2>2, <2>3, TakeGood
<1>3. CASE /\ th' = [th EXCEPT ![t] = Idle]
           /\ stores' = [i \in Ids |-> IF \E u \in Threads : th[u].st = i THEN stores[i] ELSE NoStore]
  <2>1. Types'
    BY <1>1, <1>3, IdleType DEF Types, disk
  <2>2. th'[t] = Idle /\ Others(t)
    BY <1>3 DEF Types, Others
  <2> QED BY <1>1, <1>3, <2>1, <2>2, TakeGood
<1> QED BY <1>2, <1>3 DEF TakeSlot

LEMMA HeldNumbered ==
  ASSUME Types, Good, NEW t \in Threads, th[t].st # 0
  PROVE  My(t).next # 0
<1>1. th[t].st \in Ids
  BY DEF Types, Locals
<1> QED BY <1>1 DEF Good, Numbered, InUse, My

\* An end that releases the lock, whatever became of the log's end.
LEMMA ReleaseGood ==
  ASSUME Types, Good, NEW t \in Threads, UNCHANGED <<slot, snap>>,
         th[t].pc \in {"append", "write"}, Ends(t, [stores EXCEPT ![th[t].st].lock = Free]),
         leaked' \/ (~leaked /\ SameFiles)
  PROVE  Good' /\ th' \in [Threads -> Locals] /\ stores' \in [Ids -> Instances]
<1> DEFINE now == [stores EXCEPT ![th[t].st].lock = Free]
<1>1. th[t].pc \in Holding /\ th[t].pc \in Writing /\ th[t].pc # "apply"
  BY DEF Holding, Writing
<1>2. th[t].st \in Ids /\ now \in [Ids -> Instances] /\ My(t).next # 0
  BY <1>1, HeldTypes, ReleasedType, HeldNumbered, Constants DEF Good
<1>3. /\ now[th[t].st].lock = Free /\ now[th[t].st].map = My(t).map /\ now[th[t].st].next = My(t).next
      /\ \A i \in Ids \ {th[t].st} : now[i] = stores[i]
  BY <1>2 DEF My, Types, Instances
<1>4. Ends(t, now)
  OBVIOUS
<1> HIDE DEF now
<1>5. EndsWith(t, now)
  BY <1>2, <1>3, <1>4 DEF EndsWith
<1>6. Good'
  BY <1>1, <1>2, <1>3, <1>5, EndGood
<1> QED BY <1>2, <1>5, <1>6, EndTypes DEF EndsWith

\* An end that changes nothing but the lock.
LEMMA ReleaseKeeps ==
  ASSUME Types, Good, NEW t \in Threads, OpenFails(t) \/ Decline(t) \/ CompactFails(t)
  PROVE  Types' /\ Good'
<1>1. UNCHANGED <<disk, slot, writes, split, leaked>>
  BY DEF OpenFails, Decline, CompactFails
<1>2. SameFiles /\ UNCHANGED <<slot, snap>> /\ (leaked' \/ (~leaked /\ SameFiles))
  BY <1>1, DiskKept DEF disk, Types
<1>3. CASE OpenFails(t) \/ Decline(t)
  <2>1. /\ EndsWith(t, stores) /\ th[t].pc \in {"open", "held"}
    BY <1>3 DEF OpenFails, Decline, EndsWith, Types
  <2>2. Types'
    BY <1>1, <2>1, EndTypes DEF EndsWith, Types, disk
  <2>3. Good'
    <3>1. th[t].pc \notin Writing /\ th[t].pc # "apply"
      BY <2>1 DEF Writing
    <3>2. th[t].st # 0 => stores[th[t].st].next # 0
      BY HeldNumbered DEF My
    <3> QED BY <1>2, <2>1, <3>1, <3>2, EndGood DEF My
  <2> QED BY <2>2, <2>3
<1>4. CASE CompactFails(t)
  <2>1. th[t].pc \in {"append", "write"} /\ Ends(t, [stores EXCEPT ![th[t].st].lock = Free])
    BY <1>4 DEF CompactFails
  <2>2. Good' /\ th' \in [Threads -> Locals] /\ stores' \in [Ids -> Instances]
    BY <1>2, <2>1, ReleaseGood
  <2> QED BY <1>1, <2>2 DEF Types, disk
<1> QED BY <1>3, <1>4

\* A batch that is not acknowledged leaves the log as it was, or some of its records.
LEMMA LandsType ==
  ASSUME Types, Good, NEW t \in Threads, NEW k \in 0..Len(th[t].ops), NEW end, Lands(t, k, end),
         th[t].pc = "append"
  PROVE  log' \in Seq(Rec)
<1> DEFINE ops == th[t].ops
           nx == My(t).next
<1>1. log \in Seq(Rec) /\ log' = log \o RecordsOf(nx, ops, k)
  BY DEF Lands, Records, RecordsOf, Types
<1>2. th[t].pc \in Holding
  BY DEF Holding, Writing
<1>3. ops \in Seq(Ops) /\ Len(ops) \in Nat /\ nx \in Nat /\ nx # 0 /\ k \in 0..Len(ops)
  BY <1>2, HeldTypes, HeldNumbered, Constants DEF Good
<1> HIDE DEF ops, nx
<1>4. CASE k = 0
  <2>1. RecordsOf(nx, ops, k) = <<>>
    <3>1. 1..k = {}
      BY <1>4
    <3> QED BY <3>1 DEF RecordsOf
  <2> QED BY <1>1, <2>1
<1>5. CASE k # 0
  <2>1. k \in 1..Len(ops)
    BY <1>3, <1>5
  <2> QED BY <1>1, <1>3, <2>1, AppendExtends
<1> QED BY <1>4, <1>5

LEMMA RefuseKeeps ==
  ASSUME Types, Good, NEW t \in Threads, AppendFails(t)
  PROVE  Types' /\ Good'
<1>1. /\ th[t].pc \in {"append", "write"} /\ th[t].pc = "append"
      /\ UNCHANGED <<snap, legacy, slot, writes, split>>
      /\ Ends(t, [stores EXCEPT ![th[t].st].lock = Free])
  BY DEF AppendFails
<1>2. log' \in Seq(Rec) /\ leaked' \in BOOLEAN /\ (leaked' \/ (~leaked /\ SameFiles))
  <2>1. CASE UNCHANGED <<log, tail, leaked>>
    <3>1. SameFiles
      BY <1>1, <2>1, FilesKept
    <3> QED BY <2>1, <3>1 DEF Types
  <2>2. CASE \E k \in 0..Len(th[t].ops), end \in {"clean", "torn"} :
               ((k > 0 \/ end = "torn") /\ Lands(t, k, end)) /\ leaked' = TRUE
    BY <1>1, <2>2, LandsType
  <2> QED BY <2>1, <2>2 DEF AppendFails
<1>3. Good' /\ th' \in [Threads -> Locals] /\ stores' \in [Ids -> Instances]
  BY <1>1, <1>2, ReleaseGood
<1> QED BY <1>1, <1>2, <1>3 DEF Types

LEMMA AppendKeeps ==
  ASSUME Types, Good, NEW t \in Threads, AppendBatch(t)
  PROVE  /\ Types' /\ Good'
         /\ ~leaked => Recovered' = M!Applied(Recovered, th[t].ops, Len(th[t].ops))
<1> DEFINE ops == th[t].ops
           n == Len(ops)
           nx == My(t).next
<1>1. /\ th[t].pc = "append" /\ log' = log \o RecordsOf(nx, ops, n)
      /\ th' = [th EXCEPT ![t].pc = "apply"]
      /\ UNCHANGED <<snap, legacy, stores, slot, writes, split, leaked>>
  BY DEF AppendBatch, Lands, Records, RecordsOf
<1>2. /\ th[t].pc \in Holding /\ th[t].pc \in Writing /\ ops # <<>>
  BY <1>1 DEF Holding, Writing, Good, Shape, ShapeOf
<1>3. /\ th[t].st \in Ids /\ ops \in Seq(Ops) /\ n \in Nat /\ nx \in Nat /\ nx # 0
      /\ My(t).map \in Maps
  BY <1>2, HeldTypes, HeldNumbered, Constants DEF Good
<1>4. n \in 1..Len(ops)
  <2>1. n # 0
    BY <1>2, <1>3, EmptySeq
  <2> QED BY <1>3, <2>1
<1>5. ~leaked => My(t).map = Recovered /\ nx = Top(snap.wm) + 1
  <2>1. \A u \in Threads : th[u].pc # "apply"
    BY <1>1, <1>2, OneWriter DEF Holding, Writing
  <2> QED BY <1>3, <2>1 DEF Good, Current, InUse, My
<1>6. /\ Base \in Maps /\ log \in Seq(Rec) /\ snap.wm \in Nat /\ Top(snap.wm) \in Nat
      /\ Base' = Base
  <2>1. Base' = Base
    BY <1>1 DEF Base
  <2> QED BY <2>1, FilesType DEF Types
<1> HIDE DEF n, nx, ops
<1>7. log' \in Seq(Rec) /\ Extends(log, log', nx, ops, n)
  BY <1>1, <1>3, <1>4, <1>6, AppendExtends
<1>8. ASSUME ~leaked
      PROVE  /\ RecoveredOf(Base, log', snap.wm) = M!Applied(RecoveredOf(Base, log, snap.wm), ops, n)
             /\ TopOf(log', snap.wm) + 1 = nx + n
  BY <1>3, <1>4, <1>5, <1>6, <1>7, <1>8, OfTheLog, AppendedSays
<1>9. ~leaked => Recovered' = M!Applied(Recovered, ops, n) /\ Top(snap.wm)' + 1 = nx + n
  BY <1>1, <1>6, <1>8, OfTheLog
<1>10. Types'
  <2>1. th' \in [Threads -> Locals]
    BY <1>1 DEF Types, Locals, Holding, Writing
  <2> QED BY <1>1, <1>7, <2>1 DEF Types
<1>11. /\ th'[t].pc = "apply" /\ th'[t].st = th[t].st /\ th'[t].ops = th[t].ops
       /\ Others(t)
  BY <1>1 DEF Types, Locals, Others
<1>12. My(t)' = My(t) /\ My(t).lock = t
  BY <1>1, <1>2, <1>11, OneWriter DEF My
<1>13. ~leaked => Recovered' = After(My(t).map, ops)
  BY <1>3, <1>5, <1>9, AfterType DEF n
<1>14. Good'
  <2>1. /\ th'[t].pc \in Writing
        /\ th'[t].pc \notin {"append", "write", "retire", "reset"}
    BY <1>11 DEF Writing
  <2>2. \A i \in Ids \ {th[t].st} : stores'[i] = stores[i]
    BY <1>1
  <2>3. ~leaked' => Recovered' = After(My(t)'.map, th'[t].ops)
                    /\ Top(snap.wm)' + 1 = My(t)'.next + Len(th'[t].ops)
    BY <1>1, <1>9, <1>11, <1>12, <1>13 DEF n, nx, ops
  <2>4. My(t)'.next # 0
    BY <1>3, <1>12 DEF nx
  <2> QED BY <1>1, <1>2, <1>11, <1>12, <2>1, <2>2, <2>3, <2>4, MoveGood DEF ops
<1> QED BY <1>9, <1>10, <1>14 DEF n, ops

LEMMA ApplyKeeps ==
  ASSUME Types, Good, NEW t \in Threads, Apply(t)
  PROVE  Types' /\ Good'
<1> DEFINE s == AppliedTo(My(t), th[t].ops)
           s0 == [s EXCEPT !.lock = Free]
<1>1. /\ th[t].pc = "apply" /\ UNCHANGED <<disk, slot, writes, split, leaked>>
      /\ \/ stores' = [stores EXCEPT ![th[t].st] = s] /\ th' = [th EXCEPT ![t].pc = "read"]
         \/ EndsWith(t, [stores EXCEPT ![th[t].st] = s0])
  BY ApplyIs
<1>2. th[t].pc \in Holding /\ th[t].pc \in Writing
  BY <1>1 DEF Holding, Writing
<1>3. th[t].st \in Ids /\ My(t) \in Instances /\ th[t].ops \in Seq(Ops) /\ My(t).lock = t
  BY <1>2, HeldTypes, OneWriter DEF Good, My
<1>4. SameFiles
  BY <1>1, DiskKept
<1>5. /\ s \in Instances /\ s.lock = t /\ s.next # 0
      /\ ~leaked => s.map = Recovered /\ s.next = Top(snap.wm) + 1
  <2>1. /\ s \in Instances /\ s.map = After(My(t).map, th[t].ops)
        /\ s.next = My(t).next + Len(th[t].ops) /\ s.lock = My(t).lock
    BY <1>3, AppliedToIs
  <2>2. s.next # 0
    <3>1. My(t).next \in Nat /\ My(t).next # 0 /\ Len(th[t].ops) \in Nat
      BY <1>2, <1>3, HeldTypes, HeldNumbered, Constants DEF Good
    <3> HIDE DEF s
    <3> QED BY <2>1, <3>1
  <2> QED BY <1>1, <1>3, <2>1, <2>2 DEF Good, Landing
<1> HIDE DEF s
<1>6. CASE stores' = [stores EXCEPT ![th[t].st] = s] /\ th' = [th EXCEPT ![t].pc = "read"]
  <2>1. Types'
    <3>1. th' \in [Threads -> Locals]
      BY <1>6 DEF Types, Locals, Holding, Writing
    <3>2. stores' \in [Ids -> Instances]
      BY <1>3, <1>5, <1>6 DEF Types
    <3> QED BY <1>1, <3>1, <3>2 DEF Types, disk
  <2>2. /\ th'[t].pc = "read" /\ th'[t].st = th[t].st /\ Others(t)
    BY <1>6 DEF Types, Locals, Others
  <2>3. My(t)' = s /\ \A i \in Ids \ {th[t].st} : stores'[i] = stores[i]
    BY <1>3, <1>6, <2>2 DEF My, Types
  <2>4. th'[t].pc \in Writing /\ th'[t].pc \notin {"append", "apply", "write", "retire", "reset"}
    BY <2>2 DEF Writing
  <2> QED BY <1>1, <1>2, <1>4, <1>5, <2>1, <2>2, <2>3, <2>4, MoveGood DEF SameFiles
<1>7. CASE EndsWith(t, [stores EXCEPT ![th[t].st] = s0])
  <2> DEFINE now == [stores EXCEPT ![th[t].st] = s0]
  <2>1. now[th[t].st] = s0
    BY <1>3 DEF Types
  <2>2. /\ s0.lock = Free /\ s0.next # 0
        /\ ~leaked => s0.map = Recovered /\ s0.next = Top(snap.wm) + 1
    BY <1>5 DEF Instances
  <2> HIDE DEF now, s0
  <2>3. EndsWith(t, now)
    BY <1>7 DEF now
  <2>4. Types'
    BY <1>1, <2>3, EndTypes DEF EndsWith, Types, disk
  <2>5. UNCHANGED <<slot, snap>> /\ (leaked' \/ (~leaked /\ SameFiles))
    BY <1>1, <1>4 DEF disk, Types
  <2> QED BY <1>1, <1>2, <2>1, <2>2, <2>3, <2>4, <2>5, EndGood
<1> QED BY <1>1, <1>6, <1>7 DEF s0

\* A compaction under the lock, with nobody applying.
LEMMA CompactorIs ==
  ASSUME Types, Good, NEW t \in Threads, th[t].pc \in Writing, th[t].pc # "apply"
  PROVE  /\ th[t].pc \in Holding /\ th[t].st \in Ids /\ My(t) \in Instances /\ My(t).lock = t
         /\ My(t).next # 0
         /\ ~leaked => My(t).map = Recovered /\ My(t).next = Top(snap.wm) + 1
<1>1. th[t].pc \in Holding
  BY DEF Holding
<1>2. th[t].st \in Ids /\ My(t) \in Instances /\ My(t).lock = t
  BY <1>1, HeldTypes, OneWriter DEF Good, My
<1>3. \A u \in Threads : th[u].pc # "apply"
  BY OneWriter DEF Holding, Writing
<1>4. My(t).next # 0
  BY <1>2, HeldNumbered, Constants
<1> QED BY <1>1, <1>2, <1>3, <1>4 DEF Good, Current, InUse, My

LEMMA ReadMapKeeps ==
  ASSUME Types, Good, NEW t \in Threads, ReadMap(t)
  PROVE  Types' /\ Good'
<1>1. /\ th[t].pc = "read" /\ UNCHANGED <<disk, stores, slot, writes, split, leaked>>
      /\ th' = [th EXCEPT ![t].pc = "write", ![t].map = My(t).map, ![t].seen = My(t).next]
  BY DEF ReadMap
<1>2. th[t].pc \in Writing /\ th[t].pc # "apply"
  BY <1>1 DEF Writing
<1>3. /\ th[t].st \in Ids /\ My(t) \in Instances /\ My(t).lock = t
      /\ My(t).next # 0
      /\ ~leaked => My(t).map = Recovered /\ My(t).next = Top(snap.wm) + 1
  BY <1>2, CompactorIs
<1>4. My(t).map \in Maps /\ My(t).next \in Nat
  BY <1>3 DEF Instances
<1> DEFINE m == My(t).map
           x == My(t).next
           th1 == [th EXCEPT ![t].pc = "write"]
           th2 == [th1 EXCEPT ![t].map = m]
<1>5. /\ th1 \in [Threads -> Locals] /\ th1[t].pc = "write" /\ th1[t].st = th[t].st
      /\ \A u \in Threads \ {t} : th1[u] = th[u]
  BY DEF Types, Locals, Holding, Writing
<1>6. th' = [th2 EXCEPT ![t].seen = x]
  BY <1>1 DEF Types, Locals
<1> HIDE DEF th1, m, x
<1>7. /\ th2 \in [Threads -> Locals] /\ th2[t].pc = "write" /\ th2[t].st = th[t].st /\ th2[t].map = m
      /\ \A u \in Threads \ {t} : th2[u] = th[u]
  BY <1>4, <1>5 DEF Locals, m
<1> HIDE DEF th2
<1>8. /\ th' \in [Threads -> Locals] /\ th'[t].pc = "write" /\ th'[t].st = th[t].st
      /\ th'[t].map = m /\ th'[t].seen = x /\ Others(t)
  BY <1>4, <1>6, <1>7 DEF Locals, x, Others
<1>9. Types'
  BY <1>1, <1>8 DEF Types, disk
<1>10. SameFiles
  BY <1>1, DiskKept
<1>11. My(t)' = My(t) /\ \A i \in Ids \ {th[t].st} : stores'[i] = stores[i]
  BY <1>1, <1>8 DEF My
<1>12. th'[t].pc \in Writing /\ th'[t].pc \notin {"append", "apply", "retire", "reset"}
  BY <1>8 DEF Writing
<1> QED BY <1>1, <1>2, <1>3, <1>8, <1>9, <1>10, <1>11, <1>12, MoveGood DEF SameFiles, m, x

\* The snapshot holds the map and covers the log: the files say what they said.
LEMMA SnapshotKeeps ==
  ASSUME Types, Good, NEW t \in Threads, WriteSnapshot(t)
  PROVE  Types' /\ Good' /\ (~leaked => Recovered' = Recovered)
<1>1. /\ th[t].pc = "write" /\ UNCHANGED <<legacy, log, stores, slot, writes, split, leaked>>
      /\ snap' = [here |-> TRUE, map |-> th[t].map, wm |-> th[t].seen - 1]
      /\ th' = [th EXCEPT ![t].pc = "retire"]
  BY DEF WriteSnapshot
<1>2. th[t].pc \in Writing /\ th[t].pc # "apply"
  BY <1>1 DEF Writing
<1>3. /\ th[t].st \in Ids /\ My(t) \in Instances /\ My(t).lock = t
      /\ My(t).next # 0
      /\ ~leaked => My(t).map = Recovered /\ My(t).next = Top(snap.wm) + 1
  BY <1>2, CompactorIs
<1>4. th[t].map = My(t).map /\ th[t].seen = My(t).next
  BY <1>1 DEF Good, Compacting
<1>5. /\ Top(snap.wm) \in Nat /\ log \in Seq(Rec) /\ snap.wm \in Nat
      /\ Recovered \in Maps
  BY FilesType DEF Types
<1>6. th[t].map \in Maps /\ th[t].seen \in Nat /\ th[t].seen - 1 \in Nat
  <2>1. My(t).map \in Maps /\ My(t).next \in Nat /\ My(t).next # 0
    BY <1>3 DEF Instances
  <2> QED BY <1>4, <2>1
<1>7. /\ snap'.here /\ snap'.map = th[t].map /\ snap'.wm = th[t].seen - 1
      /\ snap' \in [here : BOOLEAN, map : Maps, wm : Nat]
  BY <1>1, <1>6
<1>8. ASSUME ~leaked
      PROVE  Recovered' = Recovered /\ Top(snap.wm)' = Top(snap.wm)
  <2>1. My(t).map = Recovered /\ th[t].seen = Top(snap.wm) + 1
    BY <1>3, <1>4, <1>8
  <2>2. snap'.map = Recovered /\ snap'.wm = Top(snap.wm)
    BY <1>4, <1>5, <1>7, <2>1
  <2>3. \A i \in 1..Len(log) : log[i].seq <= Top(snap.wm)
    BY <1>5, OfTheLog, TopIs
  <2>4. Base' = Recovered
    BY <1>7, <2>2 DEF Base
  <2> DEFINE R == Recovered
             T == Top(snap.wm)
  <2>5. Recovered' = RecoveredOf(R, log, T) /\ Top(snap.wm)' = TopOf(log, T)
    BY <1>1, <2>2, <2>4, OfTheLog
  <2>6. R \in Maps /\ T \in Nat /\ \A i \in 1..Len(log) : log[i].seq <= T
    BY <1>5, <2>3
  <2> HIDE DEF R, T
  <2>7. RecoveredOf(R, log, T) = R /\ TopOf(log, T) = T
    BY <1>5, <2>6, RecoveredNone, TopUnique
  <2> QED BY <2>5, <2>7 DEF R, T
<1>9. /\ th'[t].pc = "retire" /\ th'[t].st = th[t].st /\ Others(t)
       /\ th'[t].map = th[t].map /\ th'[t].seen = th[t].seen /\ th' \in [Threads -> Locals]
  BY <1>1 DEF Types, Locals, Others, Holding, Writing
<1>10. Types'
  BY <1>1, <1>7, <1>9 DEF Types
<1>11. My(t)' = My(t) /\ \A i \in Ids \ {th[t].st} : stores'[i] = stores[i]
  BY <1>1, <1>9 DEF My
<1>12. th'[t].pc \in Writing /\ th'[t].pc \notin {"append", "apply"}
  BY <1>9 DEF Writing
<1>13. snap'.here /\ snap'.map = th'[t].map /\ snap'.wm + 1 = th'[t].seen
  BY <1>6, <1>7, <1>9
<1>14. Good'
  <2>1. ~leaked' => My(t)'.map = Recovered' /\ My(t)'.next = Top(snap.wm)' + 1
    BY <1>1, <1>3, <1>8, <1>11
  <2> QED BY <1>1, <1>2, <1>3, <1>4, <1>9, <1>11, <1>12, <1>13, <2>1, MoveGood
<1> QED BY <1>8, <1>10, <1>14

LEMMA RetireKeeps ==
  ASSUME Types, Good, NEW t \in Threads, RetireLegacy(t)
  PROVE  Types' /\ Good' /\ Recovered' = Recovered
<1>1. /\ th[t].pc = "retire" /\ UNCHANGED <<snap, log, stores, slot, writes, split, leaked>>
      /\ legacy' = FALSE \/ legacy' = legacy
      /\ th' = [th EXCEPT ![t].pc = "reset"]
  BY DEF RetireLegacy
<1>2. th[t].pc \in Writing /\ th[t].pc # "apply"
  BY <1>1 DEF Writing
<1>3. /\ th[t].st \in Ids /\ My(t) \in Instances /\ My(t).lock = t
      /\ My(t).next # 0
      /\ ~leaked => My(t).map = Recovered /\ My(t).next = Top(snap.wm) + 1
  BY <1>2, CompactorIs
<1>4. /\ th[t].map = My(t).map /\ th[t].seen = My(t).next
      /\ snap.here /\ snap.map = th[t].map /\ snap.wm + 1 = th[t].seen
  BY <1>1 DEF Good, Compacting, Snapped
<1>5. Base' = Base
  BY <1>1, <1>4 DEF Base
<1>6. Recovered' = Recovered /\ Top(snap.wm)' = Top(snap.wm)
  BY <1>1, <1>5, OfTheLog
<1>7. /\ th'[t].pc = "reset" /\ th'[t].st = th[t].st /\ Others(t)
      /\ th'[t].map = th[t].map /\ th'[t].seen = th[t].seen /\ th' \in [Threads -> Locals]
  BY <1>1 DEF Types, Locals, Others, Holding, Writing
<1>8. Types'
  BY <1>1, <1>7 DEF Types
<1>9. My(t)' = My(t) /\ \A i \in Ids \ {th[t].st} : stores'[i] = stores[i]
  BY <1>1, <1>7 DEF My
<1>10. th'[t].pc \in Writing /\ th'[t].pc \notin {"append", "apply"}
  BY <1>7 DEF Writing
<1>11. Good'
  BY <1>1, <1>2, <1>3, <1>4, <1>6, <1>7, <1>9, <1>10, MoveGood
<1> QED BY <1>6, <1>8, <1>11

\* The log is emptied of what the snapshot covers.
LEMMA ResetKeeps ==
  ASSUME Types, Good, NEW t \in Threads, Reset(t)
  PROVE  Types' /\ Good' /\ (~leaked => Recovered' = Recovered) /\ th' = [th EXCEPT ![t] = Idle]
<1>1. /\ th[t].pc = "reset" /\ UNCHANGED <<snap, legacy, slot, writes, split>>
  BY DEF Reset
<1>2. th[t].pc \in Writing /\ th[t].pc # "apply"
  BY <1>1 DEF Writing
<1>3. /\ th[t].st \in Ids /\ My(t) \in Instances /\ My(t).lock = t
      /\ My(t).next # 0 /\ My(t).logb \in Nat
      /\ ~leaked => My(t).map = Recovered /\ My(t).next = Top(snap.wm) + 1
  BY <1>2, CompactorIs DEF Instances
<1>4. /\ th[t].map = My(t).map /\ th[t].seen = My(t).next
      /\ snap.here /\ snap.map = th[t].map /\ snap.wm + 1 = th[t].seen
  BY <1>1 DEF Good, Compacting, Snapped
<1>5. PICK b \in Nat : Ends(t, [stores EXCEPT ![th[t].st] = ResetTo(My(t), th[t].map, b)])
                       /\ (UNCHANGED <<log, leaked>> \/ (log' = <<>> /\ leaked' = FALSE))
  <2> DEFINE s == [My(t) EXCEPT !.snapb = Size(th[t].map), !.lock = Free]
  <2>1. \/ log' = <<>> /\ leaked' = FALSE /\ Ends(t, [stores EXCEPT ![th[t].st] = [s EXCEPT !.logb = 0]])
        \/ UNCHANGED <<log, leaked>> /\ Ends(t, [stores EXCEPT ![th[t].st] = s])
    BY DEF Reset
  <2>2. /\ [s EXCEPT !.logb = 0] = ResetTo(My(t), th[t].map, 0)
        /\ s = ResetTo(My(t), th[t].map, My(t).logb)
    BY <1>3 DEF ResetTo, Instances
  <2> HIDE DEF s
  <2> QED BY <1>3, <2>1, <2>2
<1> DEFINE s == ResetTo(My(t), th[t].map, b)
           now == [stores EXCEPT ![th[t].st] = s]
<1>6. s \in Instances /\ s.map = My(t).map /\ s.next = My(t).next /\ s.lock = Free
  BY <1>3, ResetToIs
<1> HIDE DEF s
<1>7. /\ now \in [Ids -> Instances] /\ now[th[t].st] = s
      /\ \A i \in Ids \ {th[t].st} : now[i] = stores[i]
  BY <1>3, <1>6 DEF Types
<1>8. Ends(t, now)
  BY <1>5 DEF s
<1> HIDE DEF now
<1>9. EndsWith(t, now)
  BY <1>7, <1>8 DEF EndsWith
<1>10. log' \in Seq(Rec)
  <2>1. <<>> \in Seq(Rec)
    OBVIOUS
  <2> QED BY <1>5, <2>1 DEF Types
<1>11. Types'
  <2>1. leaked' \in BOOLEAN
    BY <1>5 DEF Types
  <2> QED BY <1>1, <1>7, <1>9, <1>10, <2>1, EndTypes DEF EndsWith, Types
<1>12. /\ Base = snap.map /\ Base' = Base /\ Base \in Maps
       /\ log \in Seq(Rec) /\ snap.wm \in Nat /\ Top(snap.wm) \in Nat
  <2>1. Base = snap.map /\ Base' = Base
    BY <1>1, <1>4 DEF Base
  <2> QED BY <2>1, FilesType DEF Types
<1>13. CASE UNCHANGED <<log, leaked>>
  <2>1. SameFiles
    BY <1>1, <1>13, FilesKept
  <2>2. leaked' \/ (~leaked /\ SameFiles)
    BY <1>13, <2>1 DEF Types
  <2>3. Good'
    BY <1>1, <1>2, <1>3, <1>6, <1>7, <1>9, <2>2, EndGood
  <2> QED BY <1>8, <1>11, <2>1, <2>3 DEF Ends, SameFiles
<1>14. CASE log' = <<>>
  <2> DEFINE none == <<>>
             B == Base
  <2>1. none \in Seq(Rec) /\ 1..Len(none) = {} /\ B \in Maps
    BY <1>12
  <2>2. Recovered' = RecoveredOf(B, none, snap.wm) /\ Top(snap.wm)' = TopOf(none, snap.wm)
    BY <1>1, <1>12, <1>14, OfTheLog
  <2> HIDE DEF none, B
  <2>3. RecoveredOf(B, none, snap.wm) = B /\ TopOf(none, snap.wm) = snap.wm
    <3>1. RecoveredOf(B, none, snap.wm) = B
      BY <1>12, <2>1, RecoveredNone
    <3>2. TopOf(none, snap.wm) = snap.wm
      BY <1>12, <2>1, TopUnique
    <3> QED BY <3>1, <3>2
  <2>4. Recovered' = My(t).map /\ Top(snap.wm)' + 1 = My(t).next
    BY <1>4, <1>12, <2>2, <2>3 DEF B
  <2>5. now[th[t].st].map = Recovered' /\ now[th[t].st].next = Top(snap.wm)' + 1
    BY <1>6, <1>7, <2>4
  <2>6. Good'
    BY <1>1, <1>2, <1>3, <1>6, <1>7, <1>9, <2>5, EndGood
  <2>7. ~leaked => Recovered' = Recovered
    BY <1>3, <2>4
  <2> QED BY <1>8, <1>11, <2>6, <2>7 DEF Ends
<1> QED BY <1>5, <1>13, <1>14

\* A crash: the files keep what they said, or say a batch being appended up to a record.
LEMMA CrashKeeps ==
  ASSUME Types, Good, Crash
  PROVE  /\ Types' /\ Good'
         /\ \/ leaked
            \/ Recovered' = Recovered
            \/ \E t \in Threads : \E k \in 1..Len(th[t].ops) :
                 th[t].pc = "append" /\ Recovered' = M!Applied(Recovered, th[t].ops, k)
<1>1. /\ stores' = [i \in Ids |-> NoStore] /\ slot' = 0 /\ th' = [u \in Threads |-> Idle]
      /\ UNCHANGED <<snap, legacy, writes, split>> /\ leaked' \in BOOLEAN
      /\ \/ log' = log
         \/ \E t \in Threads : \E k \in 1..Len(th[t].ops) :
              th[t].pc = "append" /\ log' = log \o RecordsOf(My(t).next, th[t].ops, k)
  BY DEF Crash, Lands, Records, RecordsOf, Types
<1>2. Good'
  BY <1>1, FreshGood
<1>3. stores' \in [Ids -> Instances] /\ th' \in [Threads -> Locals] /\ slot' \in Ids \cup {0}
  BY <1>1, IdleType
<1>4. Base' = Base
  BY <1>1 DEF Base
<1>5. CASE log' = log
  <2>1. Types'
    BY <1>1, <1>3, <1>5 DEF Types
  <2>2. Recovered' = Recovered
    BY <1>1, <1>4, <1>5, OfTheLog
  <2> QED BY <1>2, <2>1, <2>2
<1>6. ASSUME NEW t \in Threads, NEW k \in 1..Len(th[t].ops), th[t].pc = "append",
             log' = log \o RecordsOf(My(t).next, th[t].ops, k)
      PROVE  Types' /\ (~leaked => Recovered' = M!Applied(Recovered, th[t].ops, k))
  <2> DEFINE ops == th[t].ops
             nx == My(t).next
  <2>1. th[t].pc \in Writing /\ th[t].pc # "apply" /\ th[t].pc \in Holding
    BY <1>6 DEF Writing, Holding
  <2>2. (~leaked => nx = Top(snap.wm) + 1) /\ nx \in Nat /\ nx # 0 /\ ops \in Seq(Ops)
    BY <2>1, CompactorIs, HeldTypes DEF Good
  <2>3. /\ Base \in Maps /\ log \in Seq(Rec) /\ snap.wm \in Nat /\ Top(snap.wm) \in Nat
    BY FilesType DEF Types
  <2>4. k \in 1..Len(ops) /\ log' = log \o RecordsOf(nx, ops, k)
    BY <1>6
  <2> HIDE DEF ops, nx
  <2>5. log' \in Seq(Rec) /\ Extends(log, log', nx, ops, k)
    BY <2>2, <2>3, <2>4, AppendExtends
  <2>6. ASSUME ~leaked
        PROVE  RecoveredOf(Base, log', snap.wm) = M!Applied(RecoveredOf(Base, log, snap.wm), ops, k)
    <3>1. nx = TopOf(log, snap.wm) + 1
      BY <2>2, <2>6, OfTheLog
    <3>2. k \in 1..Len(ops)
      BY <2>4
    <3> QED BY <2>2, <2>3, <2>5, <3>1, <3>2, AppendedSays
  <2>7. ~leaked => Recovered' = M!Applied(Recovered, ops, k)
    BY <1>1, <1>4, <2>6, OfTheLog
  <2>8. Types'
    BY <1>1, <1>3, <2>5 DEF Types
  <2> QED BY <2>7, <2>8 DEF ops
<1> QED BY <1>1, <1>2, <1>5, <1>6

-----------------------------------------------------------------------------
(* The steps of the abstract map *)

Done == {"apply", "read", "write", "retire", "reset"}
CallOf(x) == IF x.ops = <<>> THEN M!NoCall ELSE [ops |-> x.ops, done |-> x.pc \in Done]

LEMMA CallsAre ==
  /\ Calls = [t \in Threads |-> CallOf(th[t])]
  /\ Calls' = [t \in Threads |-> CallOf(th'[t])]
BY DEF Calls, CallOf, M!NoCall, Landed, Done

\* A step of one thread that keeps what it asked for and how far that got ...
LEMMA CallStutters ==
  ASSUME NEW t \in Threads, Others(t), CallOf(th'[t]) = CallOf(th[t])
  PROVE  Calls' = Calls
BY CallsAre DEF Others

\* ... and one that changes it.
LEMMA CallChanges ==
  ASSUME NEW t \in Threads, Others(t)
  PROVE  Calls' = [Calls EXCEPT ![t] = CallOf(th'[t])]
BY CallsAre DEF Others

LEMMA EndAnswers ==
  ASSUME NEW t \in Threads, th \in [Threads -> Locals], th' = [th EXCEPT ![t] = Idle],
         Recovered' = Recovered
  PROVE  [M!Next]_(M!vars)
<1>1. Others(t) /\ th'[t] = Idle
  BY DEF Others
<1>2. CallOf(th'[t]) = M!NoCall
  BY <1>1 DEF CallOf, Idle
<1>3. Calls' = [Calls EXCEPT ![t] = M!NoCall]
  BY <1>1, <1>2, CallChanges
<1>4. CASE Calls[t] = M!NoCall
  <2>1. CallOf(th[t]) = M!NoCall
    BY <1>4, CallsAre
  <2>2. Calls' = Calls
    BY <1>1, <1>2, <2>1, CallStutters
  <2> QED BY <2>2 DEF M!vars
<1>5. CASE Calls[t] # M!NoCall
  BY <1>3, <1>5 DEF M!Next, M!Answer
<1> QED BY <1>4, <1>5

LEMMA StartCalls ==
  ASSUME Types, Good, NEW t \in Threads,
         StartStore(t) \/ StartRetract(t) \/ StartCompact(t) \/ StartEvict(t)
  PROVE  [M!Next]_(M!vars)
<1>1. UNCHANGED disk /\ th[t].pc = "idle" /\ Others(t)
  BY DEF StartStore, StartRetract, StartCompact, StartEvict, Others, Types
<1>2. Recovered' = Recovered
  BY <1>1, DiskKept DEF SameFiles
<1>3. th[t].ops = <<>> /\ CallOf(th[t]) = M!NoCall /\ Calls[t] = M!NoCall
  <2>1. th[t].ops = <<>>
    BY <1>1 DEF Good, Shape, ShapeOf, Idle
  <2> QED BY <2>1, CallsAre DEF CallOf
<1>4. ASSUME NEW b \in AllBatches, b # <<>>, th'[t].ops = b, th'[t].pc = "open"
      PROVE  M!Next
  <2>1. CallOf(th'[t]) = [ops |-> b, done |-> FALSE]
    <3>1. (th'[t].pc \in Done) = FALSE
      BY <1>4 DEF Done
    <3> QED BY <1>4, <3>1 DEF CallOf
  <2>2. Calls' = [Calls EXCEPT ![t] = [ops |-> b, done |-> FALSE]]
    BY <1>1, <2>1, CallChanges
  <2> QED BY <1>2, <1>3, <2>2 DEF M!Next, M!Call
<1>5. CASE StartStore(t)
  <2>1. PICK keys \in StoreKeys :
          th' = [th EXCEPT ![t] = [Idle EXCEPT !.pc = "open", !.kind = "store",
                   !.ops = [i \in 1..Len(keys) |-> [src |-> keys[i], val |-> writes + 2]]]]
    BY <1>5 DEF StartStore
  <2>2. writes \in Nat /\ writes < MaxWrites /\ MaxWrites \in Nat
    BY <1>5, Constants DEF StartStore, Types
  <2>3. writes + 2 \in Nat /\ writes + 2 \in 2..(MaxWrites + 1)
    BY <2>2
  <2> DEFINE b == [i \in 1..Len(keys) |-> [src |-> keys[i], val |-> writes + 2]]
  <2>4. b \in AllBatches /\ b # <<>>
    <3>1. b \in AllBatches
      BY <2>3 DEF AllBatches
    <3>2. b # <<>>
      BY <2>3, BatchType
    <3> QED BY <3>1, <3>2
  <2>5. th' = [th EXCEPT ![t] = [Idle EXCEPT !.pc = "open", !.kind = "store", !.ops = b]]
    BY <2>1
  <2> HIDE DEF b
  <2>6. th'[t].ops = b /\ th'[t].pc = "open"
    BY <2>5 DEF Types, Idle
  <2> QED BY <1>4, <2>4, <2>6
<1>6. CASE StartRetract(t)
  <2>1. PICK s \in Sources :
          th' = [th EXCEPT ![t] = [Idle EXCEPT !.pc = "open", !.kind = "retract",
                                            !.ops = <<[src |-> s, val |-> 0]>>]]
    BY <1>6 DEF StartRetract
  <2> DEFINE b == <<[src |-> s, val |-> 0]>>
  <2>2. b \in AllBatches /\ b # <<>>
    BY BatchType DEF AllBatches
  <2> HIDE DEF b
  <2>3. th'[t].ops = b /\ th'[t].pc = "open"
    BY <2>1 DEF Types, Idle, b
  <2> QED BY <1>4, <2>2, <2>3
<1>7. CASE StartCompact(t) \/ StartEvict(t)
  <2>1. th'[t].ops = <<>>
    <3>1. CASE StartCompact(t)
      BY <3>1 DEF StartCompact, Types, Idle
    <3>2. CASE StartEvict(t)
      BY <1>3, <3>2 DEF StartEvict, Types, Locals
    <3> QED BY <1>7, <3>1, <3>2
  <2>2. CallOf(th'[t]) = CallOf(th[t])
    BY <1>3, <2>1 DEF CallOf
  <2>3. Calls' = Calls
    BY <1>1, <2>2, CallStutters
  <2> QED BY <1>2, <2>3 DEF M!vars
<1> QED BY <1>5, <1>6, <1>7

\* Steps that leave the files and every batch where they are.
LEMMA QuietSteps ==
  ASSUME Types, Good, NEW t \in Threads,
         Open(t) \/ Begin(t) \/ CompactTaken(t) \/ TakeSlot(t) \/ ReadMap(t)
  PROVE  [M!Next]_(M!vars)
<1>1. UNCHANGED <<snap, legacy, log>>
  BY DEF Open, Begin, CompactTaken, TakeSlot, ReadMap, disk
<1>2. Recovered' = Recovered
  BY <1>1, FilesKept DEF SameFiles
<1>3. Others(t) /\ CallOf(th'[t]) = CallOf(th[t])
  <2>1. CASE Open(t)
    <3>1. th[t].pc = "open" /\ th' = [th EXCEPT ![t].pc = "held", ![t].st = slot']
      BY <2>1 DEF Open
    <3>2. th'[t].pc = "held" /\ th'[t].ops = th[t].ops /\ Others(t)
      BY <3>1 DEF Types, Locals, Others
    <3>3. (th'[t].pc \in Done) = (th[t].pc \in Done)
      BY <3>1, <3>2 DEF Done
    <3> QED BY <3>2, <3>3 DEF CallOf
  <2>2. CASE Begin(t) \/ CompactTaken(t)
    <3>1. PICK p \in {"read", "append"} :
            /\ th' = [th EXCEPT ![t].pc = p] /\ th[t].pc \in {"held", "taken"}
            /\ p = "read" => th[t].ops = <<>>
      BY <2>2 DEF Begin, CompactTaken, Good, Shape, ShapeOf
    <3>2. th'[t].pc = p /\ th'[t].ops = th[t].ops /\ Others(t)
      BY <3>1 DEF Types, Locals, Others
    <3>3. CASE th[t].ops = <<>>
      BY <3>2, <3>3 DEF CallOf
    <3>4. CASE th[t].ops # <<>>
      <4>1. (th'[t].pc \in Done) = (th[t].pc \in Done)
        BY <3>1, <3>2, <3>4 DEF Done
      <4> QED BY <3>2, <4>1 DEF CallOf
    <3> QED BY <3>3, <3>4
  <2>3. CASE TakeSlot(t)
    <3>1. th[t].ops = <<>>
      BY <2>3 DEF TakeSlot, Good, Shape, ShapeOf, Idle
    <3>2. PICK x : th' = [th EXCEPT ![t] = x] /\ x.ops = <<>>
      <4>1. Idle.ops = <<>> /\ [Idle EXCEPT !.pc = "taken", !.st = slot].ops = <<>>
        BY DEF Idle
      <4>2. \/ th' = [th EXCEPT ![t] = [Idle EXCEPT !.pc = "taken", !.st = slot]]
            \/ th' = [th EXCEPT ![t] = Idle]
        BY <2>3 DEF TakeSlot
      <4> QED BY <4>1, <4>2
    <3>3. th'[t].ops = <<>> /\ Others(t)
      BY <3>2 DEF Types, Others
    <3> QED BY <3>1, <3>3 DEF CallOf
  <2>4. CASE ReadMap(t)
    <3>1. th[t].pc = "read" /\ th' = [th EXCEPT ![t].pc = "write", ![t].map = My(t).map, ![t].seen = My(t).next]
      BY <2>4 DEF ReadMap
    <3>2. th'[t].pc = "write" /\ th'[t].ops = th[t].ops /\ Others(t)
      BY <3>1 DEF Types, Locals, Others
    <3>3. (th'[t].pc \in Done) = (th[t].pc \in Done)
      BY <3>1, <3>2 DEF Done
    <3> QED BY <3>2, <3>3 DEF CallOf
  <2> QED BY <2>1, <2>2, <2>3, <2>4
<1>4. Calls' = Calls
  BY <1>3, CallStutters
<1> QED BY <1>2, <1>4 DEF M!vars

\* The snapshot and the legacy file's removal, which the map does not feel.
LEMMA SnapshotSteps ==
  ASSUME Types, Good, ~leaked, NEW t \in Threads, WriteSnapshot(t) \/ RetireLegacy(t)
  PROVE  [M!Next]_(M!vars)
<1>1. Recovered' = Recovered
  BY SnapshotKeeps, RetireKeeps
<1>2. PICK p \in Done : th' = [th EXCEPT ![t].pc = p] /\ th[t].pc \in Done
  BY DEF WriteSnapshot, RetireLegacy, Done
<1>3. th'[t].pc = p /\ th'[t].ops = th[t].ops /\ Others(t)
  BY <1>2 DEF Types, Locals, Others
<1>4. (th'[t].pc \in Done) = (th[t].pc \in Done)
  BY <1>2, <1>3
<1>5. CallOf(th'[t]) = CallOf(th[t])
  BY <1>3, <1>4 DEF CallOf
<1>6. Calls' = Calls
  BY <1>3, <1>5, CallStutters
<1> QED BY <1>1, <1>6 DEF M!vars

LEMMA DoneIs ==
  ASSUME NEW o, NEW x, NEW y, NEW c, c = [ops |-> o, done |-> x]
  PROVE  [c EXCEPT !.done = y] = [ops |-> o, done |-> y]
OBVIOUS

\* The append is the moment a batch takes effect.
LEMMA AppendTakesEffect ==
  ASSUME Types, Good, ~leaked, NEW t \in Threads, AppendBatch(t)
  PROVE  M!Next
<1>1. th[t].pc = "append" /\ th' = [th EXCEPT ![t].pc = "apply"]
  BY DEF AppendBatch
<1>2. th[t].ops # <<>>
  BY <1>1 DEF Good, Shape, ShapeOf
<1>3. th'[t].pc = "apply" /\ th'[t].ops = th[t].ops /\ Others(t)
  BY <1>1 DEF Types, Locals, Others
<1>4. CallOf(th[t]) = [ops |-> th[t].ops, done |-> FALSE]
  <2>1. (th[t].pc \in Done) = FALSE
    BY <1>1 DEF Done
  <2> QED BY <1>2, <2>1 DEF CallOf
<1>5. CallOf(th'[t]) = [ops |-> th[t].ops, done |-> TRUE]
  <2>1. (th'[t].pc \in Done) = TRUE
    BY <1>3 DEF Done
  <2> QED BY <1>2, <1>3, <2>1 DEF CallOf
<1>6. Calls[t] = [ops |-> th[t].ops, done |-> FALSE]
  BY <1>4, CallsAre
<1>7. Calls' = [Calls EXCEPT ![t] = [ops |-> th[t].ops, done |-> TRUE]]
  BY <1>3, <1>5, CallChanges
<1>8. Calls' = [Calls EXCEPT ![t].done = TRUE]
  <2> DEFINE c == Calls
             o == th[t].ops
  <2>1. c[t] = [ops |-> o, done |-> FALSE]
    BY <1>6
  <2> HIDE DEF c, o
  <2>2. [c[t] EXCEPT !.done = TRUE] = [ops |-> o, done |-> TRUE]
    <3> DEFINE F == FALSE
               T == TRUE
    <3>1. c[t] = [ops |-> o, done |-> F]
      BY <2>1
    <3> HIDE DEF F, T
    <3>2. [c[t] EXCEPT !.done = T] = [ops |-> o, done |-> T]
      BY <3>1, DoneIs
    <3> QED BY <3>2 DEF T
  <2>3. [c EXCEPT ![t] = [ops |-> o, done |-> TRUE]] = [c EXCEPT ![t].done = TRUE]
    BY <2>2
  <2> QED BY <1>7, <2>3 DEF c, o
<1>9. Calls[t] # M!NoCall /\ ~Calls[t].done /\ Calls[t].ops = th[t].ops
  BY <1>2, <1>6 DEF M!NoCall
<1>10. Recovered' = M!Applied(Recovered, Calls[t].ops, Len(Calls[t].ops))
  BY <1>9, AppendKeeps
<1> QED BY <1>8, <1>9, <1>10 DEF M!Next, M!TakeEffect

LEMMA EndSteps ==
  ASSUME Types, Good, ~leaked, ~leaked', NEW t \in Threads,
         \/ OpenFails(t) \/ Decline(t) \/ AppendFails(t) \/ CompactFails(t)
         \/ Apply(t) \/ Reset(t)
  PROVE  [M!Next]_(M!vars)
<1>1. th \in [Threads -> Locals]
  BY DEF Types
<1>2. CASE OpenFails(t) \/ Decline(t) \/ AppendFails(t) \/ CompactFails(t)
  <2>1. UNCHANGED disk /\ th' = [th EXCEPT ![t] = Idle]
    BY <1>2 DEF disk, OpenFails, Decline, AppendFails, CompactFails, Ends
  <2>2. Recovered' = Recovered
    BY <2>1, DiskKept DEF SameFiles
  <2> QED BY <1>1, <2>1, <2>2, EndAnswers
<1>3. CASE Reset(t)
  BY <1>1, <1>3, ResetKeeps, EndAnswers
<1>4. CASE Apply(t)
  <2>1. /\ th[t].pc = "apply" /\ UNCHANGED disk
        /\ th' = [th EXCEPT ![t].pc = "read"] \/ th' = [th EXCEPT ![t] = Idle]
    BY <1>4 DEF Apply, Ends
  <2>2. Recovered' = Recovered
    BY <2>1, DiskKept DEF SameFiles
  <2>3. CASE th' = [th EXCEPT ![t].pc = "read"]
    <3>1. th'[t].pc = "read" /\ th'[t].ops = th[t].ops /\ Others(t)
      BY <1>1, <2>3 DEF Locals, Others
    <3>2. (th'[t].pc \in Done) = (th[t].pc \in Done)
      BY <2>1, <3>1 DEF Done
    <3>3. CallOf(th'[t]) = CallOf(th[t])
      BY <3>1, <3>2 DEF CallOf
    <3>4. Calls' = Calls
      BY <3>1, <3>3, CallStutters
    <3> QED BY <2>2, <3>4 DEF M!vars
  <2>4. CASE th' = [th EXCEPT ![t] = Idle]
    BY <1>1, <2>2, <2>4, EndAnswers
  <2> QED BY <2>1, <2>3, <2>4
<1> QED BY <1>2, <1>3, <1>4

LEMMA CrashStep ==
  ASSUME Types, Good, ~leaked, Crash
  PROVE  M!Next
<1>1. Calls' = [t \in Threads |-> M!NoCall]
  <2>1. \A t \in Threads : CallOf(th'[t]) = M!NoCall
    BY DEF Crash, CallOf, Idle
  <2> QED BY <2>1, CallsAre
<1>2. CASE Recovered' = Recovered
  BY <1>1, <1>2 DEF M!Next, M!Crash
<1>3. ASSUME NEW t \in Threads, NEW k \in 1..Len(th[t].ops), th[t].pc = "append",
             Recovered' = M!Applied(Recovered, th[t].ops, k)
      PROVE  M!Next
  <2>1. th[t].ops # <<>>
    BY <1>3 DEF Good, Shape, ShapeOf
  <2>2. Calls[t] = [ops |-> th[t].ops, done |-> FALSE]
    <3>1. (th[t].pc \in Done) = FALSE
      BY <1>3 DEF Done
    <3> QED BY <2>1, <3>1, CallsAre DEF CallOf
  <2>3. Calls[t].ops = th[t].ops /\ ~Calls[t].done
    BY <2>2
  <2>4. k \in 1..Len(Calls[t].ops) /\ Recovered' = M!Applied(Recovered, Calls[t].ops, k)
    BY <1>3, <2>3
  <2> QED BY <1>1, <2>3, <2>4 DEF M!Next, M!Crash
<1> QED BY <1>2, <1>3, CrashKeeps

-----------------------------------------------------------------------------
(* The theorems *)

LEMMA InitGood ==
  ASSUME Init
  PROVE  IInv
<1>1. Types
  <2>1. <<>> \in Seq(Rec) /\ 0 \in Nat
    OBVIOUS
  <2>2. snap \in [here : BOOLEAN, map : Maps, wm : Nat]
    BY Constants DEF Init
  <2> QED BY <2>1, <2>2, IdleType DEF Init, Types
<1>2. \A u \in Threads : /\ th[u] = Idle /\ th[u].st = 0 /\ th[u].pc \notin Holding
                         /\ th[u].pc \notin Writing /\ ShapeOf(th[u])
  BY DEF Init, Idle, Holding, Writing, ShapeOf
<1>3. \A i \in Ids : i # 0 /\ stores[i] = NoStore /\ stores[i].lock = Free
  BY Constants DEF Init, NoStore
<1>4. \A i \in Ids : ~InUse(i)
  BY <1>2, <1>3 DEF Init, InUse
<1>5. Good
  BY <1>2, <1>3, <1>4, Constants
  DEF Init, Good, Shape, Locks, OneInstance, Gone, Numbered, Current, Landing, Compacting, Snapped, Writing
<1> QED BY <1>1, <1>5 DEF IInv, Init

\* Every step keeps the invariant and is a step of the abstract map or none at all,
\* unless a refused batch lies in the log.
LEMMA StepGood ==
  ASSUME Types, Good, Next, ~split'
  PROVE  Types' /\ Good' /\ ([M!Next]_(M!vars) \/ leaked \/ leaked')
<1>1. CASE Read
  <2>1. UNCHANGED <<snap, legacy, log, th>>
    BY <1>1 DEF Read
  <2>2. Recovered' = Recovered /\ Calls' = Calls
    BY <2>1, FilesKept DEF SameFiles, Calls, Landed
  <2> QED BY <1>1, <2>2, ReadKeeps DEF M!vars
<1>2. CASE Crash
  BY <1>2, CrashKeeps, CrashStep
<1>3. ASSUME NEW t \in Threads,
             StartStore(t) \/ StartRetract(t) \/ StartCompact(t) \/ StartEvict(t)
      PROVE  Types' /\ Good' /\ ([M!Next]_(M!vars) \/ leaked \/ leaked')
  BY <1>3, StartKeeps, StartCalls
<1>4. ASSUME NEW t \in Threads, Open(t) \/ Begin(t) \/ CompactTaken(t) \/ TakeSlot(t) \/ ReadMap(t)
      PROVE  Types' /\ Good' /\ ([M!Next]_(M!vars) \/ leaked \/ leaked')
  BY <1>4, OpenKeeps, BeginKeeps, TakeKeeps, ReadMapKeeps, QuietSteps
<1>5. ASSUME NEW t \in Threads, WriteSnapshot(t) \/ RetireLegacy(t)
      PROVE  Types' /\ Good' /\ ([M!Next]_(M!vars) \/ leaked \/ leaked')
  BY <1>5, SnapshotKeeps, RetireKeeps, SnapshotSteps
<1>6. ASSUME NEW t \in Threads, AppendBatch(t)
      PROVE  Types' /\ Good' /\ ([M!Next]_(M!vars) \/ leaked \/ leaked')
  BY <1>6, AppendKeeps, AppendTakesEffect
<1>7. ASSUME NEW t \in Threads,
             \/ OpenFails(t) \/ Decline(t) \/ AppendFails(t) \/ CompactFails(t)
             \/ Apply(t) \/ Reset(t)
      PROVE  Types' /\ Good' /\ ([M!Next]_(M!vars) \/ leaked \/ leaked')
  BY <1>7, ReleaseKeeps, RefuseKeeps, ApplyKeeps, ResetKeeps, EndSteps
<1> QED BY <1>1, <1>2, <1>3, <1>4, <1>5, <1>6, <1>7 DEF Next

LEMMA SplitStays ==
  ASSUME Next, split \in BOOLEAN
  PROVE  split' \in BOOLEAN /\ (split => split')
<1>1. ASSUME NEW t \in Threads,
             \/ StartStore(t) \/ StartRetract(t) \/ StartCompact(t) \/ OpenFails(t)
             \/ Begin(t) \/ Decline(t) \/ AppendBatch(t) \/ AppendFails(t)
      PROVE  split' = split
  BY <1>1 DEF StartStore, StartRetract, StartCompact, OpenFails, Begin, Decline, AppendBatch, AppendFails
<1>2. ASSUME NEW t \in Threads,
             \/ Apply(t) \/ ReadMap(t) \/ WriteSnapshot(t) \/ CompactFails(t) \/ RetireLegacy(t)
             \/ Reset(t) \/ StartEvict(t) \/ TakeSlot(t) \/ CompactTaken(t)
      PROVE  split' = split
  BY <1>2 DEF Apply, ReadMap, WriteSnapshot, CompactFails, RetireLegacy, Reset, StartEvict, TakeSlot,
              CompactTaken
<1>3. ASSUME NEW t \in Threads, Open(t) PROVE split' \in BOOLEAN /\ (split => split')
  BY <1>3 DEF Open, Load
<1>4. CASE Read
  BY <1>4 DEF Read, Load
<1>5. CASE Crash
  BY <1>5 DEF Crash
<1> QED BY <1>1, <1>2, <1>3, <1>4, <1>5 DEF Next

\* What holds in every state while no instance was loaded over another.
LEMMA Invariant == Spec => []IInv
<1>1. Init => IInv
  BY InitGood
<1>2. IInv /\ [Next]_vars => IInv'
  <2> SUFFICES ASSUME IInv, [Next]_vars PROVE IInv'
    OBVIOUS
  <2>1. CASE UNCHANGED vars
    <3>1. /\ UNCHANGED <<disk, snap, legacy, log, stores, slot, th, writes, split, leaked>>
          /\ Recovered' = Recovered /\ Top(snap.wm)' = Top(snap.wm)
      BY <2>1, DiskKept DEF vars, disk, SameFiles
    <3>2. Types' <=> Types
      BY <3>1 DEF Types
    <3>3. /\ Shape' <=> Shape
          /\ Locks' <=> Locks
          /\ OneInstance' <=> OneInstance
          /\ Gone' <=> Gone
          /\ Numbered' <=> Numbered
      BY <3>1 DEF Shape, Locks, OneInstance, Gone, Numbered, InUse
    <3>4. /\ Current' <=> Current
          /\ Landing' <=> Landing
          /\ Compacting' <=> Compacting
          /\ Snapped' <=> Snapped
      BY <3>1 DEF Current, InUse, Landing, Compacting, Snapped, My
    <3> QED BY <3>1, <3>2, <3>3, <3>4 DEF IInv, Good
  <2>2. CASE Next
    <3>1. split' \in BOOLEAN /\ (split => split')
      BY <2>2, SplitStays DEF IInv
    <3>2. ASSUME ~split' PROVE Types' /\ Good'
      BY <2>2, <3>1, <3>2, StepGood DEF IInv
    <3> QED BY <3>1, <3>2 DEF IInv
  <2> QED BY <2>1, <2>2
<1> QED BY <1>1, <1>2, PTL DEF Spec

\* PassageStore implements the durable map: whatever is interrupted, fails or is
\* evicted, the files change only by a batch's own append, as one step, or by a crash
\* after some of its records.  The exceptions are KeepsTheMap's: an instance loaded over
\* one still in use, and the time from a failed rollback to the next load, restart or
\* emptied log.
THEOREM ImplementsDurableMap == Spec => KeepsTheMap
<1>1. IInv /\ [Next]_vars => [M!Next \/ split' \/ leaked \/ leaked']_(M!vars)
  <2> SUFFICES ASSUME IInv, [Next]_vars PROVE [M!Next \/ split' \/ leaked \/ leaked']_(M!vars)
    OBVIOUS
  <2>1. CASE UNCHANGED vars
    BY <2>1 DEF M!vars, Recovered, Survivors, Base, Calls, Landed, vars, disk
  <2>2. CASE Next /\ ~split'
    BY <2>2, SplitStays, StepGood DEF IInv
  <2>3. CASE split'
    BY <2>3
  <2> QED BY <2>1, <2>2, <2>3
<1> QED BY <1>1, Invariant, PTL DEF Spec, KeepsTheMap

\* ServedIsDurable: whenever the resident store is not being written to, it serves the
\* map a restart would load, under the number a restart would continue with, unless a
\* refused batch's rollback failed since the last load.
THEOREM MemoryIsTheFiles == Spec => []ServedIsDurable
<1>1. IInv => ServedIsDurable
  <2> SUFFICES ASSUME IInv, slot # 0, ~split, ~leaked, stores[slot].lock = Free
               PROVE  stores[slot].map = Recovered /\ stores[slot].next = Top(snap.wm) + 1
    BY DEF ServedIsDurable
  <2>1. Types /\ Good /\ slot \in Ids
    BY DEF IInv, Types
  <2>2. ASSUME NEW t \in Threads, th[t].pc = "apply" PROVE FALSE
    <3>1. th[t].pc \in Writing /\ th[t].pc \in Holding
      BY <2>2 DEF Writing, Holding
    <3>2. th[t].st \in Ids /\ stores[th[t].st].lock = t
      BY <2>1, <3>1, OneWriter
    <3>3. th[t].st = slot
      BY <2>1, <3>2, Constants DEF Good, OneInstance
    <3> QED BY <3>2, <3>3, Constants
  <2> QED BY <2>1, <2>2 DEF Good, Current, InUse
<1> QED BY <1>1, Invariant, PTL
=============================================================================
