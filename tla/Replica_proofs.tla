--------------------------- MODULE Replica_proofs ---------------------------
(***************************************************************************)
(* Proofs about Replica, for any number of readers, operations, manifests, *)
(* generations, failed calls and crashes.                                  *)
(***************************************************************************)
EXTENDS Replica, SequenceTheorems, WellFoundedInduction, TLAPS

-----------------------------------------------------------------------------
(* Types *)

Images == [here : BOOLEAN, ops : Seq(Nat)]
Lanes == [series : Nat, lo : Nat \ {0}, recs : Seq(Nat)]
Sigs == [img : Images, lane : Lanes, meta : Nat]
Manifests == [stamp : Nat, sig : Sigs]
Objects ==
  [img : Images, lane : Lanes, lanes : SUBSET Lanes, meta : Nat, read : Lanes, stage : 0..5,
   man : Manifests]

Live == {"Pending", "InFlight", "Done"}
States == Live \cup {"absent", "Vetoed"}
PCs == {"down", "idle", "manifest", "retarget", "deregister", "shared", "ensure", "image", "lane",
        "settle", "refresh", "readimg", "readlane", "finish"}

Locals == [pc : PCs, gen : Nat, sig : Sigs, want : Sigs, round : Nat, img : Images]
Hydrators == [gen : Nat, sig : Sigs, state : States, done : Sigs, drift : BOOLEAN]
Entries == [reg : BOOLEAN, hot : BOOLEAN, ops : Seq(Nat), meta : Nat]
Tailers ==
  [gen : Nat, stamp : Nat, sig : Sigs, applied : Nat \X Nat, debt : BOOLEAN, failed : BOOLEAN,
   blind : BOOLEAN]

\* What the bucket's writers keep, and what the replica keeps.
UpstreamType ==
  /\ hist \in [Gens -> Seq(Nat)] /\ past \subseteq Seq(Nat) /\ store \in [Gens -> Objects]
  /\ acked \in Nat /\ cycles \in Nat
LocalType ==
  /\ disk \in Sigs /\ record \in Nat /\ hyd \in Hydrators /\ ent \in Entries
  /\ lock \in Threads \cup {Free} /\ th \in [Threads -> Locals] /\ tail \in Tailers
  /\ faults \in Nat
TypeOK == UpstreamType /\ LocalType

-----------------------------------------------------------------------------
(* Histories, and what is cut from them *)

\* h is continued by k.
Begins(h, k) == Len(h) <= Len(k) /\ \A i \in 1..Len(h) : h[i] = k[i]

LEMMA BeginsPrefix ==
  ASSUME NEW h \in Seq(Nat), NEW k \in Seq(Nat), Begins(h, k)
  PROVE  IsPrefix(h, k)
<1>1. SubSeq(h, 1, Len(h)) = h
  OBVIOUS
<1>2. /\ SubSeq(k, 1, Len(h)) \in Seq(Nat) /\ Len(SubSeq(k, 1, Len(h))) = Len(h)
      /\ \A i \in 1..Len(h) : SubSeq(k, 1, Len(h))[i] = k[i]
  BY DEF Begins
<1>3. SubSeq(k, 1, Len(h)) = h
  BY <1>2, SeqEqual DEF Begins
<1> QED BY <1>1, <1>3 DEF IsPrefix, Begins

LEMMA TailOf ==
  ASSUME NEW s \in Seq(Nat), NEW a \in Nat \ {0}
  PROVE  LET r == SubSeq(s, a, Len(s))
         IN /\ r \in Seq(Nat)
            /\ Len(r) = IF a <= Len(s) THEN Len(s) + 1 - a ELSE 0
            /\ \A i \in 1..Len(r) : r[i] = s[a + i - 1]
<1>1. Len(s) \in Nat /\ a \in Int
  OBVIOUS
<1>2. CASE a <= Len(s)
  <2>1. \A i \in a..Len(s) : s[i] \in Nat
    BY <1>1
  <2> QED BY <1>1, <1>2, <2>1, SubSeqProperties
<1>3. CASE ~(a <= Len(s))
  <2>1. SubSeq(s, a, Len(s)) = <<>>
    BY <1>1, <1>3, SubSeqEmpty
  <2> QED BY <1>1, <1>3, <2>1
<1> QED BY <1>2, <1>3

LEMMA Joined ==
  ASSUME NEW s \in Seq(Nat), NEW t \in Seq(Nat)
  PROVE  /\ s \o t \in Seq(Nat) /\ Len(s \o t) = Len(s) + Len(t)
         /\ \A i \in 1..(Len(s) + Len(t)) : (s \o t)[i] = IF i <= Len(s) THEN s[i] ELSE t[i - Len(s)]
BY ConcatProperties

LEMMA Fields ==
  /\ \A img \in Images : img.ops \in Seq(Nat) /\ Len(img.ops) \in Nat
  /\ \A lane \in Lanes : lane.recs \in Seq(Nat) /\ Len(lane.recs) \in Nat /\ lane.lo \in Nat \ {0}
BY DEF Images, Lanes
\* What is loaded from an image and a lane cut from one history is a beginning of it.
LEMMA LoadedType ==
  ASSUME NEW img \in Images, NEW lane \in Lanes PROVE Loaded(img, lane) \in Seq(Nat)
<1>1. img.ops \in Seq(Nat) /\ lane.recs \in Seq(Nat) /\ Len(img.ops) + 1 - lane.lo \in Int
  BY Fields
<1>2. (IF Len(img.ops) + 1 - lane.lo > 0 THEN Len(img.ops) + 1 - lane.lo + 1 ELSE 1) \in Nat \ {0}
  BY <1>1
<1> QED BY <1>1, <1>2, TailOf, Joined DEF Loaded

LEMMA LoadedAgrees ==
  ASSUME NEW img \in Images, NEW lane \in Lanes, NEW h \in Seq(Nat), CutFrom(img, lane, h)
  PROVE  Begins(Loaded(img, lane), h)
<1> DEFINE n == Len(img.ops)
           m == Len(lane.recs)
           lo == lane.lo
           x == Len(h)
           from == n + 2 - lo
           rest == SubSeq(lane.recs, from, Len(lane.recs))
           r == Len(rest)
           all == img.ops \o rest
<1>1. img.ops \in Seq(Nat) /\ lane.recs \in Seq(Nat)
  BY Fields
<1>2. n \in Nat /\ m \in Nat /\ lo \in Nat \ {0} /\ x \in Nat
  BY Fields
<1>3. /\ n <= x /\ \A i \in 1..n : img.ops[i] = h[i]
      /\ lo <= n + 1 /\ lo - 1 + m <= x
      /\ \A i \in 1..m : lane.recs[i] = h[lo - 1 + i]
  BY DEF CutFrom, Stretch
<1>4. Loaded(img, lane) = all
  <2> DEFINE skip == n + 1 - lo
  <2>1. Loaded(img, lane) = img.ops \o SubSeq(lane.recs, IF skip > 0 THEN skip + 1 ELSE 1, m)
    BY DEF Loaded
  <2> HIDE DEF n, m, lo, x
  <2>2. (IF skip > 0 THEN skip + 1 ELSE 1) = from
    BY <1>2, <1>3
  <2> QED BY <2>1, <2>2 DEF m
<1> SUFFICES Begins(all, h)
  BY <1>4
<1> HIDE DEF n, m, lo, x
<1>5. from \in Nat \ {0} /\ lo - 1 + from = n + 1
  BY <1>2, <1>3
<1> HIDE DEF from
<1>6. /\ rest \in Seq(Nat) /\ r \in Nat
      /\ r = IF from <= m THEN m + 1 - from ELSE 0
      /\ \A i \in 1..r : rest[i] = lane.recs[from + i - 1]
  BY <1>1, <1>5, TailOf DEF m
<1> HIDE DEF rest
<1>7. /\ Len(all) = n + r
      /\ \A i \in 1..(n + r) : all[i] = IF i <= n THEN img.ops[i] ELSE rest[i - n]
  BY <1>1, <1>6, Joined DEF n
<1> HIDE DEF all, r
<1>8. n + r <= x
  BY <1>2, <1>3, <1>5, <1>6
<1>9. ASSUME NEW i \in 1..(n + r) PROVE all[i] = h[i]
  <2>1. CASE i <= n
    BY <1>2, <1>3, <1>7, <2>1
  <2>2. CASE ~(i <= n)
    <3>1. i - n \in 1..r /\ from + (i - n) - 1 \in 1..m /\ lo - 1 + (from + (i - n) - 1) = i
      BY <1>2, <1>5, <1>6, <2>2
    <3>2. all[i] = rest[i - n]
      BY <1>7, <2>2
    <3>3. rest[i - n] = lane.recs[from + (i - n) - 1]
      BY <1>6, <3>1
    <3> QED BY <1>3, <3>1, <3>2, <3>3
  <2> QED BY <2>1, <2>2
<1> QED BY <1>7, <1>8, <1>9 DEF Begins, x

-----------------------------------------------------------------------------
(* The bucket *)

UpInv == UpstreamType /\ 1 \in Complete

\* The manifest a poll would find now, and the ones it may have found.
Current(g, s) == g = NewestComplete /\ s = store[g].man.stamp
Stamped(g, s) == g = 0 \/ (g \in Gens /\ s \in 1..store[g].man.stamp)

LEMMA GensAreNumbers == Gens \subseteq Nat \ {0} /\ 1 \in Gens /\ MaxGen \in Nat
BY ReplicaConstants DEF Gens

\* There is a newest complete generation.
LEMMA NatMin ==
  ASSUME NEW T \in SUBSET Nat, T # {}
  PROVE  \E x \in T : \A y \in T : x <= y
<1>1. PICK x \in T : \A y \in T : ~(<<y, x>> \in OpToRel(<, Nat))
  BY NatLessThanWellFounded, WFMin
<1>2. \A y \in T : ~(y < x)
  BY <1>1 DEF OpToRel
<1> QED BY <1>2

LEMMA Greatest ==
  ASSUME NEW C \in SUBSET Gens, 1 \in C
  PROVE  \E g \in C : \A h \in C : h <= g
<1>1. C \subseteq 1..MaxGen /\ MaxGen \in Nat
  BY GensAreNumbers DEF Gens
<1> DEFINE above == { k \in Nat : \A h \in C : h <= k }
<1>2. MaxGen \in above
  BY <1>1
<1>3. PICK m \in above : \A k \in above : m <= k
  BY <1>2, NatMin
<1>4. m \in C
  <2> SUFFICES ASSUME m \notin C PROVE FALSE
    OBVIOUS
  <2>1. m >= 1 /\ m \in Nat
    BY <1>1
  <2>2. \A h \in C : h <= m - 1
    BY <1>1
  <2>3. m - 1 \in above
    BY <2>1, <2>2
  <2> QED BY <1>3, <2>1, <2>3
<1> QED BY <1>4

LEMMA Newest ==
  ASSUME UpInv
  PROVE  /\ NewestComplete \in Complete /\ \A h \in Complete : h <= NewestComplete
         /\ NewestComplete \in Gens
<1>1. Complete \subseteq Gens /\ 1 \in Complete
  BY DEF Complete, UpInv
<1> QED BY <1>1, Greatest DEF NewestComplete

LEMMA NewestNext ==
  ASSUME UpInv'
  PROVE  /\ NewestComplete' \in Complete' /\ \A h \in Complete' : h <= NewestComplete'
         /\ NewestComplete' \in Gens
<1>1. Complete' \subseteq Gens /\ 1 \in Complete'
  BY DEF Complete, UpInv
<1> QED BY <1>1, Greatest DEF NewestComplete
\* What a step of a writer or a shipper does to one generation: a manifest is left alone or
\* stamped anew.
Writes(g, o) ==
  /\ g \in Gens /\ o \in Objects /\ store' = [store EXCEPT ![g] = o]
  /\ hist' \in [Gens -> Seq(Nat)] /\ past' \subseteq Seq(Nat) /\ acked' \in Nat /\ cycles' \in Nat
  /\ o.man = store[g].man \/ o.man.stamp > store[g].man.stamp

LEMMA WritesKeepUp ==
  ASSUME UpInv, NEW g, NEW o, Writes(g, o) PROVE UpInv'
<1>1. store \in [Gens -> Objects] /\ g \in Gens /\ o \in Objects
  BY DEF UpInv, UpstreamType, Writes
<1>2. /\ store' \in [Gens -> Objects] /\ store'[g] = o
      /\ \A e \in Gens : e # g => store'[e] = store[e]
  BY <1>1 DEF Writes
<1>3. UpstreamType'
  BY <1>2 DEF UpstreamType, Writes
<1>4. 1 \in Complete'
  <2>1. 1 \in Gens /\ store[1].man.stamp > 0 /\ store[1].man.stamp \in Nat /\ o.man.stamp \in Nat
    BY <1>1 DEF UpInv, Complete, Objects, Manifests
  <2>2. g = 1 => o.man.stamp > 0
    BY <2>1 DEF Writes
  <2> QED BY <1>2, <2>1, <2>2 DEF Complete
<1> QED BY <1>3, <1>4 DEF UpInv

\* A stamp that was found before and is current after a step was current before it, and
\* names the same manifest.
LEMMA WritesKeepStamps ==
  ASSUME UpInv, NEW g, NEW o, Writes(g, o), NEW a \in Nat, NEW s \in Nat, Stamped(a, s)
  PROVE  /\ Stamped(a, s)'
         /\ Current(a, s)' => a \in Gens /\ Current(a, s) /\ store'[a].man = store[a].man
<1>1. /\ store \in [Gens -> Objects] /\ g \in Gens /\ o \in Objects
      /\ o.man = store[g].man \/ o.man.stamp > store[g].man.stamp
  BY DEF UpInv, UpstreamType, Writes
<1>2. store'[g] = o /\ \A e \in Gens : e # g => store'[e] = store[e]
  BY <1>1 DEF Writes
<1>3. \A e \in Gens : store[e].man.stamp \in Nat /\ o.man.stamp \in Nat
  BY <1>1 DEF Objects, Manifests
<1>4. Stamped(a, s)'
  <2>1. CASE a = 0
    BY <2>1 DEF Stamped
  <2>2. CASE a \in Gens /\ s \in 1..store[a].man.stamp
    <3>1. store[a].man.stamp <= store'[a].man.stamp /\ store'[a].man.stamp \in Nat
      BY <1>1, <1>2, <1>3, <2>2
    <3>2. s \in 1..store'[a].man.stamp
      BY <1>3, <2>2, <3>1
    <3> QED BY <2>2, <3>2 DEF Stamped
  <2> QED BY <2>1, <2>2 DEF Stamped
<1>5. ASSUME Current(a, s)' PROVE a \in Gens /\ Current(a, s) /\ store'[a].man = store[a].man
  <2>1. /\ NewestComplete' \in Complete' /\ \A k \in Complete' : k <= NewestComplete'
        /\ NewestComplete' \in Gens
    <3>1. UpInv'
      BY WritesKeepUp
    <3> QED BY <3>1, NewestNext
  <2>2. a = NewestComplete' /\ s = store'[a].man.stamp
    BY <1>5 DEF Current
  <2>3. a \in Gens /\ s \in 1..store[a].man.stamp
    BY <2>1, <2>2, GensAreNumbers DEF Stamped
  <2>4. store'[a].man = store[a].man
    BY <1>1, <1>2, <1>3, <2>2, <2>3
  <2>5. a \in Complete
    BY <1>3, <2>3 DEF Complete
  <2>6. \A k \in Complete : k \in Complete'
    BY <1>1, <1>2, <1>3 DEF Complete
  <2>7. NewestComplete \in Complete /\ \A k \in Complete : k <= NewestComplete
    BY Newest
  <2>8. a <= NewestComplete /\ NewestComplete <= a
    BY <2>1, <2>2, <2>5, <2>6, <2>7
  <2>9. a = NewestComplete
    <3>1. a \in Nat /\ NewestComplete \in Nat
      BY <2>3, <2>7, GensAreNumbers DEF Complete
    <3> QED BY <2>8, <3>1
  <2> QED BY <2>2, <2>3, <2>4, <2>9 DEF Current
<1> QED BY <1>4, <1>5
LEMMA NoImageType == NoImage \in Images /\ NoImage.ops = <<>> /\ ~NoImage.here
BY EmptySeq DEF NoImage, Images
LEMMA NoLaneType == NoLane \in Lanes /\ NoLane.lo = 1 /\ NoLane.recs = <<>>
BY EmptySeq DEF NoLane, Lanes
LEMMA ImageType == ASSUME NEW h \in Seq(Nat) PROVE Image(h) \in Images /\ Image(h).ops = h /\ Image(h).here
BY DEF Image, Images

\* What a writer acknowledges, an image and a lane taken from it.
LEMMA Numbers ==
  ASSUME NEW a \in Nat, NEW k \in Nat PROVE [i \in 1..k |-> a + i] \in Seq(Nat)
<1>1. [i \in 1..k |-> a + i] \in [1..k -> Nat]
  OBVIOUS
<1> QED BY <1>1, SeqDef

LEMMA WrittenType ==
  ASSUME UpInv, NEW g \in Gens, NEW n \in acked..MaxOps
  PROVE  n \in Nat /\ Written(g, n) \in Seq(Nat)
<1>1. acked \in Nat /\ hist[g] \in Seq(Nat) /\ MaxOps \in Nat
  BY ReplicaConstants DEF UpInv, UpstreamType
<1>2. n \in Nat /\ n - acked \in Nat
  BY <1>1
<1> DEFINE k == n - acked
           a == acked
<1>3. [i \in 1..k |-> a + i] \in Seq(Nat)
  <2>1. k \in Nat /\ a \in Nat
    BY <1>1, <1>2
  <2> HIDE DEF k, a
  <2> QED BY <2>1, Numbers
<1> QED BY <1>1, <1>2, <1>3, Joined DEF Written

LEMMA BeginningType ==
  ASSUME NEW h \in Seq(Nat), NEW m \in 0..Len(h) PROVE SubSeq(h, 1, m) \in Seq(Nat)
<1>1. m \in Nat /\ \A i \in 1..m : i \in 1..Len(h)
  OBVIOUS
<1>2. \A i \in 1..m : h[i] \in Nat
  BY <1>1
<1> QED BY <1>1, <1>2, SubSeqProperties

LEMMA LaneOfType ==
  ASSUME NEW h \in Seq(Nat), NEW series \in Nat, NEW lo \in Nat \ {0}
  PROVE  LaneOf(series, lo, h) \in Lanes
<1> DEFINE r == SubSeq(h, lo, Len(h))
           from == IF r = <<>> THEN 1 ELSE lo
<1>1. r \in Seq(Nat)
  BY TailOf
<1>2. from \in Nat \ {0}
  OBVIOUS
<1>3. LaneOf(series, lo, h) = [series |-> series, lo |-> from, recs |-> r]
  BY DEF LaneOf
<1> HIDE DEF r, from
<1> QED BY <1>1, <1>2, <1>3 DEF Lanes

\* Every step of a cycle puts objects of the right type and names no manifest but its own.
LEMMA PutsWrites ==
  ASSUME UpInv, NEW g \in Gens, NEW o \in Objects, Puts(g, o),
         hist' \in [Gens -> Seq(Nat)], acked' \in Nat,
         o.man = store[g].man \/ o.man.stamp > store[g].man.stamp
  PROVE  Writes(g, o)
<1>1. store' = [store EXCEPT ![g] = o] /\ past' = past
  BY DEF Puts
<1>2. cycles' \in Nat
  <2>1. cycles \in Nat /\ cycles + 1 \in Nat
    BY DEF UpInv, UpstreamType
  <2> QED BY <2>1 DEF Puts
<1> QED BY <1>1, <1>2 DEF Writes, UpInv, UpstreamType

LEMMA SameHistories == ASSUME UpInv, UNCHANGED <<hist, acked>> PROVE hist' \in [Gens -> Seq(Nat)] /\ acked' \in Nat
BY DEF UpInv, UpstreamType

LEMMA AcknowledgedType ==
  ASSUME UpInv, NEW g \in Gens, NEW n \in acked..MaxOps, Acknowledge(g, n)
  PROVE  hist' \in [Gens -> Seq(Nat)] /\ acked' \in Nat
<1>1. n \in Nat /\ Written(g, n) \in Seq(Nat) /\ hist \in [Gens -> Seq(Nat)]
  BY WrittenType DEF UpInv, UpstreamType
<1> HIDE DEF Written
<1> QED BY <1>1 DEF Acknowledge

LEMMA StoreType ==
  ASSUME UpInv, NEW g \in Gens
  PROVE  /\ store[g] \in Objects /\ store[g].lane \in Lanes /\ store[g].lane.series \in Nat
         /\ store[g].lanes \subseteq Lanes /\ store[g].read \in Lanes /\ store[g].img \in Images
         /\ store[g].meta \in Nat /\ store[g].meta + 1 \in Nat /\ store[g].stage \in 0..5
         /\ store[g].man \in Manifests
BY DEF UpInv, UpstreamType, Objects, Lanes

LEMMA RecreateWrites ==
  ASSUME UpInv, NEW g \in Gens, Recreate(g) PROVE Writes(g, store[g])
<1>1. /\ past' = past \cup {hist[g]} /\ hist' = [hist EXCEPT ![g] = <<>>]
      /\ UNCHANGED <<acked, cycles, store>>
  BY DEF Recreate
<1>2. hist \in [Gens -> Seq(Nat)] /\ past \subseteq Seq(Nat) /\ store \in [Gens -> Objects]
      /\ acked \in Nat /\ cycles \in Nat
  BY DEF UpInv, UpstreamType
<1>3. past' \subseteq Seq(Nat) /\ hist' \in [Gens -> Seq(Nat)]
  BY <1>1, <1>2, EmptySeq
<1>4. store' = [store EXCEPT ![g] = store[g]]
  BY <1>1, <1>2
<1> QED BY <1>1, <1>2, <1>3, <1>4 DEF Writes

LEMMA RetireFileWrites ==
  ASSUME UpInv, NEW g \in Gens, RetireFile(g) PROVE \E o : Writes(g, o)
<1> DEFINE old == store[g]
           c == IF old.stage = 3 THEN 4 ELSE 1
           o == [old EXCEPT !.img = NoImage, !.stage = c]
<1>1. Puts(g, o) /\ UNCHANGED <<hist, acked>>
  BY DEF RetireFile
<1>2. c \in 0..5 /\ old \in Objects
  BY StoreType
<1> HIDE DEF c, old
<1>3. o \in Objects /\ o.man = old.man
  BY <1>2, NoImageType DEF Objects
<1> HIDE DEF o
<1> QED BY <1>1, <1>3, PutsWrites, SameHistories DEF old

LEMMA RetireLaneWrites ==
  ASSUME UpInv, NEW g \in Gens, RetireLane(g) PROVE \E o : Writes(g, o)
<1> DEFINE old == store[g]
           c == 1
           o == [old EXCEPT !.lane = NoLane, !.lanes = {}, !.stage = c]
<1>1. Puts(g, o) /\ UNCHANGED <<hist, acked>>
  BY DEF RetireLane
<1>2. c \in 0..5 /\ old \in Objects /\ {} \in SUBSET Lanes
  BY StoreType
<1> HIDE DEF c, old
<1>3. o \in Objects /\ o.man = old.man
  BY <1>2, NoLaneType DEF Objects
<1> HIDE DEF o
<1> QED BY <1>1, <1>3, PutsWrites, SameHistories DEF old

LEMMA ShipImageWrites ==
  ASSUME UpInv, NEW g \in Gens, ShipImage(g) PROVE \E o : Writes(g, o)
<1> DEFINE old == store[g]
           c == IF old.stage = 3 THEN 4 ELSE 2
           k == old.meta + 1
           O(i) == [old EXCEPT !.img = i, !.meta = k, !.stage = c]
<1>1. PICK n \in acked..MaxOps : \E m \in 0..Len(Written(g, n)) :
        Acknowledge(g, n) /\ Puts(g, O(Image(SubSeq(Written(g, n), 1, m))))
  BY DEF ShipImage
<1> DEFINE h == Written(g, n)
<1>2. PICK m \in 0..Len(h) : Acknowledge(g, n) /\ Puts(g, O(Image(SubSeq(h, 1, m))))
  BY <1>1
<1>3. h \in Seq(Nat)
  BY WrittenType
<1>4. hist' \in [Gens -> Seq(Nat)] /\ acked' \in Nat
  BY <1>2, AcknowledgedType
<1> HIDE DEF h
<1> DEFINE i == Image(SubSeq(h, 1, m))
<1>5. i \in Images
  BY <1>3, BeginningType, ImageType
<1>6. c \in 0..5 /\ old \in Objects /\ k \in Nat
  BY StoreType
<1> DEFINE o == O(i)
<1>7. Puts(g, o)
  BY <1>2
<1> HIDE DEF c, old, k, i
<1>8. o \in Objects /\ o.man = old.man
  BY <1>5, <1>6 DEF Objects
<1> HIDE DEF o
<1> QED BY <1>4, <1>7, <1>8, PutsWrites DEF old

LEMMA ShipLaneWrites ==
  ASSUME UpInv, NEW g \in Gens, ShipLane(g) PROVE \E o : Writes(g, o)
<1> DEFINE old == store[g]
           c == 5
           O(l) == [old EXCEPT !.lane = l, !.lanes = @ \cup {l}, !.stage = c]
<1>1. PICK n \in acked..MaxOps : \E lo \in 1..(Len(Written(g, n)) + 1) :
        Acknowledge(g, n) /\ Puts(g, O(LaneOf(old.lane.series, lo, Written(g, n))))
  BY DEF ShipLane
<1> DEFINE h == Written(g, n)
<1>2. PICK lo \in 1..(Len(h) + 1) : Acknowledge(g, n) /\ Puts(g, O(LaneOf(old.lane.series, lo, h)))
  BY <1>1
<1>3. h \in Seq(Nat)
  BY WrittenType
<1>4. hist' \in [Gens -> Seq(Nat)] /\ acked' \in Nat
  BY <1>2, AcknowledgedType
<1> HIDE DEF h
<1> DEFINE l == LaneOf(old.lane.series, lo, h)
           s == old.lanes \cup {l}
<1>5. c \in 0..5 /\ old \in Objects /\ old.lane.series \in Nat /\ old.lanes \subseteq Lanes
  BY StoreType
<1>6. l \in Lanes
  <2>1. lo \in Nat \ {0}
    BY <1>3
  <2> HIDE DEF old
  <2> QED BY <1>3, <1>5, <2>1, LaneOfType
<1>7. s \in SUBSET Lanes
  BY <1>5, <1>6
<1> DEFINE o == [old EXCEPT !.lane = l, !.lanes = s, !.stage = c]
<1>8. Puts(g, o)
  BY <1>2
<1> HIDE DEF c, old, l, s
<1>9. o \in Objects /\ o.man = old.man
  BY <1>5, <1>6, <1>7 DEF Objects
<1> HIDE DEF o
<1> QED BY <1>4, <1>8, <1>9, PutsWrites DEF old

LEMMA ReadLaneWrites ==
  ASSUME UpInv, NEW g \in Gens, ReadLane(g) PROVE \E o : Writes(g, o)
<1> DEFINE old == store[g]
           c == 3
           next == old.lane.series + 1
           O(l) == [old EXCEPT !.read = l, !.stage = c]
<1>1. PICK n \in acked..MaxOps : \E lo \in 1..(Len(Written(g, n)) + 1) :
        Acknowledge(g, n) /\ Puts(g, O(LaneOf(next, lo, Written(g, n))))
  BY DEF ReadLane
<1> DEFINE h == Written(g, n)
<1>2. PICK lo \in 1..(Len(h) + 1) : Acknowledge(g, n) /\ Puts(g, O(LaneOf(next, lo, h)))
  BY <1>1
<1>3. h \in Seq(Nat)
  BY WrittenType
<1>4. hist' \in [Gens -> Seq(Nat)] /\ acked' \in Nat
  BY <1>2, AcknowledgedType
<1> HIDE DEF h
<1> DEFINE l == LaneOf(next, lo, h)
<1>5. c \in 0..5 /\ old \in Objects /\ next \in Nat
  BY StoreType
<1>6. l \in Lanes
  <2>1. lo \in Nat \ {0}
    BY <1>3
  <2> HIDE DEF next
  <2> QED BY <1>3, <1>5, <2>1, LaneOfType
<1> DEFINE o == O(l)
<1>7. Puts(g, o)
  BY <1>2
<1> HIDE DEF c, old, l, next
<1>8. o \in Objects /\ o.man = old.man
  BY <1>5, <1>6 DEF Objects
<1> HIDE DEF o
<1> QED BY <1>4, <1>7, <1>8, PutsWrites DEF old

LEMMA ShipSeriesWrites ==
  ASSUME UpInv, NEW g \in Gens, ShipSeries(g) PROVE \E o : Writes(g, o)
<1> DEFINE old == store[g]
           c == 5
           l == old.read
           s == old.lanes \cup {l}
           o == [old EXCEPT !.lane = l, !.lanes = s, !.read = NoLane, !.stage = c]
<1>1. Puts(g, o) /\ UNCHANGED <<hist, acked>>
  BY DEF ShipSeries
<1>2. c \in 0..5 /\ old \in Objects /\ l \in Lanes /\ s \in SUBSET Lanes
  BY StoreType
<1> HIDE DEF c, old, l, s
<1>3. o \in Objects /\ o.man = old.man
  BY <1>2, NoLaneType DEF Objects
<1> HIDE DEF o
<1> QED BY <1>1, <1>3, PutsWrites, SameHistories DEF old

LEMMA CycleFailsWrites ==
  ASSUME UpInv, NEW g \in Gens, CycleFails(g) PROVE \E o : Writes(g, o)
<1> DEFINE old == store[g]
           c == 0
           o == [old EXCEPT !.read = NoLane, !.stage = c]
<1>1. Puts(g, o) /\ UNCHANGED <<hist, acked>>
  BY DEF CycleFails
<1>2. c \in 0..5 /\ old \in Objects
  BY StoreType
<1> HIDE DEF c, old
<1>3. o \in Objects /\ o.man = old.man
  BY <1>2, NoLaneType DEF Objects
<1> HIDE DEF o
<1> QED BY <1>1, <1>3, PutsWrites, SameHistories DEF old

LEMMA ShipManifestWrites ==
  ASSUME UpInv, NEW g \in Gens, ShipManifest(g) PROVE \E o : Writes(g, o)
<1> DEFINE old == store[g]
           c == 0
           m == [stamp |-> old.man.stamp + 1, sig |-> Described(g)]
           o == [old EXCEPT !.man = m, !.stage = c]
<1>1. Puts(g, o) /\ UNCHANGED <<hist, acked>>
  BY DEF ShipManifest
<1>2. c \in 0..5 /\ old \in Objects /\ old.man.stamp \in Nat
  BY StoreType DEF Manifests
<1>3. Described(g) \in Sigs
  BY StoreType DEF Described, Sigs
<1>4. m \in Manifests /\ m.stamp > old.man.stamp
  <2> HIDE DEF old
  <2>1. old.man.stamp + 1 \in Nat /\ old.man.stamp + 1 > old.man.stamp
    BY <1>2
  <2> QED BY <1>3, <2>1 DEF Manifests
<1> HIDE DEF c, old, m
<1>5. o \in Objects /\ o.man = m
  BY <1>2, <1>4 DEF Objects
<1> HIDE DEF o
<1> QED BY <1>1, <1>4, <1>5, PutsWrites, SameHistories DEF old

LEMMA ShippedType ==
  ASSUME NEW sig \in Sigs
  PROVE  Shipped(sig) \in Objects /\ Shipped(sig).man.stamp = 1 /\ Shipped(sig).man.sig = sig
<1>1. sig.img \in Images /\ sig.lane \in Lanes /\ sig.meta \in Nat
  BY DEF Sigs
<1>2. [stamp |-> 1, sig |-> sig] \in Manifests
  BY DEF Manifests
<1> QED BY <1>1, <1>2, NoLaneType DEF Shipped, Objects

LEMMA TakeOverWrites ==
  ASSUME UpInv, TakeOver PROVE \E g, o : Writes(g, o)
<1> DEFINE g == NewestComplete
           t == store[g].man.sig
           s == [t EXCEPT !.lane.series = 0]
           h == Loaded(s.img, s.lane)
           o == Shipped(s)
<1>1. /\ g < MaxGen /\ past' = past /\ acked' = acked /\ cycles' = cycles + 1
      /\ hist' = [hist EXCEPT ![g + 1] = h] /\ store' = [store EXCEPT ![g + 1] = o]
  BY DEF TakeOver
<1>2. g \in Complete /\ (\A k \in Complete : k <= g) /\ g \in Gens
  BY Newest
<1>3. g \in Nat /\ g + 1 \in Gens /\ g + 1 \notin Complete
  BY <1>1, <1>2, GensAreNumbers DEF Gens
<1>4. store[g + 1].man.stamp = 0
  <2>1. store[g + 1].man.stamp \in Nat
    BY <1>3 DEF UpInv, UpstreamType, Objects, Manifests
  <2> QED BY <1>3, <2>1 DEF Complete
<1>5. s \in Sigs
  <2>1. t \in Sigs
    BY <1>2, StoreType DEF Manifests
  <2> DEFINE z == 0
             l == [t.lane EXCEPT !.series = z]
  <2>2. s = [t EXCEPT !.lane = l]
    OBVIOUS
  <2> HIDE DEF t
  <2>3. l \in Lanes
    <3>1. z \in Nat /\ t.lane \in Lanes
      BY <2>1 DEF Sigs
    <3> HIDE DEF z
    <3> QED BY <3>1 DEF Lanes
  <2> HIDE DEF l
  <2> QED BY <2>1, <2>2, <2>3 DEF Sigs
<1> HIDE DEF s
<1>6. s.img \in Images /\ s.lane \in Lanes
  BY <1>5 DEF Sigs
<1>7. h \in Seq(Nat)
  BY <1>6, LoadedType
<1>8. o \in Objects /\ o.man.stamp = 1
  BY <1>5, ShippedType
<1> HIDE DEF h, g, o
<1>9. hist' \in [Gens -> Seq(Nat)] /\ past' \subseteq Seq(Nat) /\ acked' \in Nat /\ cycles' \in Nat
  BY <1>1, <1>3, <1>7 DEF UpInv, UpstreamType
<1>10. o.man.stamp > store[g + 1].man.stamp
  BY <1>4, <1>8
<1>11. Writes(g + 1, o)
  BY <1>1, <1>3, <1>8, <1>9, <1>10 DEF Writes
<1> QED BY <1>11

LEMMA UpstreamWrites == ASSUME UpInv, Upstream PROVE \E g, o : Writes(g, o)
<1>1. ASSUME NEW g \in Gens, Recreate(g) \/ Shipper(g) PROVE \E o : Writes(g, o)
  BY <1>1, RecreateWrites, RetireFileWrites, RetireLaneWrites, ShipImageWrites, ShipLaneWrites,
     ReadLaneWrites, ShipSeriesWrites, CycleFailsWrites, ShipManifestWrites DEF Shipper
<1> QED BY <1>1, TakeOverWrites DEF Upstream

\* No step of a writer touches the replica.
LEMMA UpstreamLeaves ==
  ASSUME Upstream, faults \in Nat
  PROVE  UNCHANGED <<disk, record, hyd, ent, lock, th, tail>> /\ faults' \in Nat
<1>1. ASSUME NEW g \in Gens, Recreate(g) PROVE UNCHANGED <<disk, record, hyd, ent, lock, th, tail, faults>>
  BY <1>1 DEF Recreate
<1>2. ASSUME NEW g \in Gens, Shipper(g) PROVE UNCHANGED <<disk, record, hyd, ent, lock, th, tail>>
  BY <1>2 DEF Shipper, RetireFile, RetireLane, ShipImage, ShipLane, ReadLane, ShipSeries, CycleFails,
              ShipManifest, Puts
<1>3. ASSUME NEW g \in Gens, Shipper(g) PROVE faults' \in Nat
  <2>1. faults + 1 \in Nat
    OBVIOUS
  <2> QED BY <1>3, <2>1 DEF Shipper, RetireFile, RetireLane, ShipImage, ShipLane, ReadLane, ShipSeries,
             CycleFails, ShipManifest, Fault
<1>4. CASE TakeOver
  BY <1>4 DEF TakeOver
<1> QED BY <1>1, <1>2, <1>3, <1>4 DEF Upstream

-----------------------------------------------------------------------------
(* The replica *)

p == th[Tailer].pc
Fetching(t) == th[t].pc \in {"image", "lane", "settle"}
Reading(t) == th[t].pc \in {"readimg", "readlane"}

\* One fetch at a time, for the hydrator's target; what it landed is what it wanted.
Fetches ==
  \A t \in Threads :
    /\ Fetching(t) => hyd.state = "InFlight" /\ th[t].sig = hyd.sig /\ th[t].gen \in Gens
    /\ \A u \in Threads : Fetching(t) /\ Fetching(u) => t = u
    /\ th[t].pc \in {"lane", "settle"} =>
         /\ disk.img = th[t].want.img
         /\ th[t].want.meta = hyd.sig.meta => disk.meta = hyd.sig.meta
    /\ th[t].pc = "settle" => disk.lane = th[t].want.lane

\* A load reads the files under the entry's lock.
Locks ==
  /\ \A t \in Threads : /\ Reading(t) => lock = t
                        /\ lock = t => Reading(t) \/ Fetching(t) \/ th[t].pc = "ensure"
  /\ lock # Free => ent.reg
  /\ ent.hot => ent.reg

\* The target has an image while the family is live, and Done is its exact slice.
Targets ==
  /\ hyd.sig.img.here <=> hyd.state \in Live
  /\ hyd.state \in Live => hyd.gen \in Gens
  /\ tail.debt => hyd.state \in Live
  /\ hyd.state = "Done" => hyd.done = hyd.sig /\ (hyd.drift \/ disk = hyd.sig)

\* While no refresh is owed the entry shows the target.
Shown ==
  ~tail.debt /\ hyd.state \in Live =>
    /\ ent.reg
    /\ ent.meta = hyd.sig.meta \/ (hyd.state = "Done" /\ hyd.drift)
    /\ ent.hot => hyd.state = "Done" /\ (hyd.drift \/ ent.ops = Loaded(hyd.sig.img, hyd.sig.lane))
    /\ \A t \in Threads : /\ Reading(t) => hyd.state = "Done"
                          /\ th[t].pc = "readlane" => hyd.drift \/ th[t].img = hyd.sig.img

\* A family the manifest does not have is not registered.
Lost ==
  /\ hyd.state = "Vetoed" /\ p # "deregister" => ~ent.reg
  /\ hyd.state = "absent" /\ ~tail.blind => ~ent.reg
  /\ p = "deregister" => hyd.state = "Vetoed" /\ ~tail.debt

\* Where a poll stands, and what it has done by then.
Polls ==
  /\ p \notin {"down", "idle", "manifest", "retarget"} => hyd.sig = tail.sig
  /\ p \in {"ensure", "image", "lane", "settle", "refresh"} /\ lock # Tailer => ent.reg /\ tail.debt
  /\ p = "refresh" => hyd.state = "Done"
  /\ p \in {"shared", "finish"} /\ ~tail.debt /\ tail.sig.img.here => hyd.state = "Done"
  /\ lock = Tailer => ~tail.debt /\ hyd.state = "Done" /\ p \in {"ensure", "readimg", "readlane"}
  /\ p = "finish" /\ ~tail.failed => ~tail.debt

DownIsBlank ==
  p = "down" =>
    /\ hyd = NoHydrator /\ ent = NoEntry /\ lock = Free /\ tail = NewTailer
    /\ \A r \in Readers : th[r].pc = "idle"

\* What the stamps a poll compares stand for.
Stamps ==
  /\ Stamped(tail.applied[1], tail.applied[2]) /\ Stamped(tail.gen, tail.stamp)
  /\ p \notin {"idle", "down"} => tail.gen \in Gens /\ ~Current(tail.applied[1], tail.applied[2])
  /\ p \notin {"down", "idle", "manifest"} /\ Current(tail.gen, tail.stamp) =>
       tail.sig = store[tail.gen].man.sig
  /\ p = "idle" /\ Current(tail.applied[1], tail.applied[2]) =>
       /\ hyd.sig = store[NewestComplete].man.sig /\ ~tail.debt
       /\ hyd.sig.img.here => hyd.state = "Done"

IInv ==
  /\ UpInv /\ LocalType /\ Fetches /\ Locks /\ Targets /\ Shown /\ Lost /\ Polls /\ DownIsBlank
  /\ Stamps

-----------------------------------------------------------------------------
(* Steps of the bucket's writers *)

LEMMA UpstreamKeeps == ASSUME IInv, Upstream PROVE IInv'
<1>1. PICK g, o : Writes(g, o)
  BY UpstreamWrites DEF IInv
<1>2. UNCHANGED <<disk, record, hyd, ent, lock, th, tail>> /\ faults' \in Nat
  BY UpstreamLeaves DEF IInv, LocalType
<1>3. UpInv'
  BY <1>1, WritesKeepUp DEF IInv
<1>4. LocalType' /\ Fetches' /\ Locks' /\ Targets' /\ Shown' /\ Lost' /\ Polls' /\ DownIsBlank'
  <2>1. LocalType'
    BY <1>2 DEF IInv, LocalType
  <2>2. Fetches' /\ Locks' /\ Targets'
    BY <1>2 DEF IInv, Fetches, Locks, Targets, Fetching, Reading
  <2>3. Shown' /\ Lost' /\ Polls' /\ DownIsBlank'
    BY <1>2 DEF IInv, Shown, Lost, Polls, DownIsBlank, Reading, p
  <2> QED BY <2>1, <2>2, <2>3
<1>5. Stamps'
  <2> DEFINE a == tail.applied[1]
             b == tail.applied[2]
             c == tail.gen
             d == tail.stamp
  <2>1. a \in Nat /\ b \in Nat /\ c \in Nat /\ d \in Nat
    BY DEF IInv, LocalType, Tailers
  <2>2. Stamped(a, b) /\ Stamped(c, d)
    BY DEF IInv, Stamps
  <2>3. ASSUME NEW x \in Nat, NEW y \in Nat, Stamped(x, y)
        PROVE  /\ x = 0 \/ (x \in Gens /\ y \in 1..store'[x].man.stamp)
               /\ x = NewestComplete' /\ y = store'[x].man.stamp =>
                    x \in Gens /\ Current(x, y) /\ store'[x].man = store[x].man
    BY <1>1, <2>3, WritesKeepStamps DEF IInv, Stamped, Current
  <2>4. /\ a = 0 \/ (a \in Gens /\ b \in 1..store'[a].man.stamp)
        /\ a = NewestComplete' /\ b = store'[a].man.stamp =>
             a \in Gens /\ Current(a, b) /\ store'[a].man = store[a].man
    BY <2>1, <2>2, <2>3
  <2>5. /\ c = 0 \/ (c \in Gens /\ d \in 1..store'[c].man.stamp)
        /\ c = NewestComplete' /\ d = store'[c].man.stamp =>
             c \in Gens /\ Current(c, d) /\ store'[c].man = store[c].man
    BY <2>1, <2>2, <2>3
  <2>6. Stamps
    BY DEF IInv
  <2> QED BY <1>2, <2>4, <2>5, <2>6 DEF Stamps, Stamped, Current, p
<1> QED BY <1>3, <1>4, <1>5 DEF IInv

-----------------------------------------------------------------------------
(* Steps of the replica *)

LEMMA Quiet ==
  ASSUME UpInv, UNCHANGED upstream
  PROVE  /\ UpInv' /\ NewestComplete' = NewestComplete /\ store' = store
         /\ \A a, s : Current(a, s)' <=> Current(a, s)
         /\ \A a, s : Stamped(a, s)' <=> Stamped(a, s)
<1>1. UNCHANGED <<hist, past, acked, cycles, store>>
  BY DEF upstream
<1>2. Complete' = Complete
  BY <1>1 DEF Complete
<1>3. NewestComplete' = NewestComplete
  BY <1>2 DEF NewestComplete
<1>4. UpInv'
  BY <1>1, <1>2 DEF UpInv, UpstreamType
<1> QED BY <1>1, <1>2, <1>3, <1>4 DEF Current, Stamped

\* One thread moves.
LEMMA Moved ==
  ASSUME LocalType, NEW t \in Threads, NEW w \in Locals, th' = [th EXCEPT ![t] = w]
  PROVE  /\ th' \in [Threads -> Locals] /\ th'[t] = w
         /\ \A u \in Threads : u # t => th'[u] = th[u]
BY DEF LocalType

LEMMA Stepped ==
  ASSUME LocalType, NEW t \in Threads, NEW pc \in PCs, Step(t, pc)
  PROVE  /\ th' \in [Threads -> Locals]
         /\ th'[t].pc = pc /\ th'[t].gen = th[t].gen /\ th'[t].sig = th[t].sig /\ th'[t].want = th[t].want
         /\ th'[t].img = th[t].img
         /\ \A u \in Threads : u # t => th'[u] = th[u]
<1> DEFINE w == [th[t] EXCEPT !.pc = pc]
<1>1. w \in Locals /\ w.pc = pc /\ w.gen = th[t].gen /\ w.sig = th[t].sig /\ w.want = th[t].want
      /\ w.img = th[t].img
  BY DEF LocalType, Locals
<1>2. th' = [th EXCEPT ![t] = w]
  BY DEF Step
<1> HIDE DEF w
<1> QED BY <1>1, <1>2, Moved

LEMMA TailerThread == Tailer \in Threads /\ Free \notin Threads /\ Tailer \notin Readers /\ Readers \subseteq Threads
BY ReplicaConstants DEF Threads

LEMMA NoSigType ==
  /\ NoSig \in Sigs /\ ~NoSig.img.here /\ NoFamily = NoSig /\ Idle \in Locals /\ Idle.pc = "idle"
  /\ NoHydrator \in Hydrators /\ NoEntry \in Entries /\ NewTailer \in Tailers
<1>1. NoSig \in Sigs /\ ~NoSig.img.here
  BY NoImageType, NoLaneType DEF NoSig, Sigs
<1>2. NoFamily = NoSig
  BY DEF NoFamily, NoSig
<1>3. Idle \in Locals /\ Idle.pc = "idle"
  BY <1>1, NoImageType DEF Idle, Locals, PCs
<1>4. NoHydrator \in Hydrators
  BY <1>1 DEF NoHydrator, Hydrators, States
<1>5. NoEntry \in Entries
  BY EmptySeq DEF NoEntry, Entries
<1>6. NewTailer \in Tailers
  BY <1>1 DEF NewTailer, Tailers
<1> QED BY <1>1, <1>2, <1>3, <1>4, <1>5, <1>6

LEMMA BucketKept == ASSUME IInv, UNCHANGED upstream PROVE UpInv'
BY Quiet DEF IInv

LEMMA EnsureClaimsKeeps == ASSUME IInv, NEW t \in Threads, EnsureClaims(t) PROVE IInv'
<1>1. /\ th[t].pc = "ensure" /\ hyd.state = "Pending" /\ hyd' = [hyd EXCEPT !.state = "InFlight"]
      /\ UNCHANGED <<upstream, disk, record, ent, lock, tail, faults>>
  BY DEF EnsureClaims
<1>2. LocalType /\ Fetches /\ Locks /\ Targets /\ Shown /\ Lost /\ Polls /\ DownIsBlank /\ Stamps
  BY DEF IInv
<1>3. /\ hyd' \in Hydrators /\ hyd'.state = "InFlight" /\ hyd'.sig = hyd.sig /\ hyd'.done = hyd.done
      /\ hyd'.gen = hyd.gen /\ hyd'.drift = hyd.drift
  BY <1>1, <1>2 DEF LocalType, Hydrators, States, Live
<1> DEFINE z == 0
           w == [th[t] EXCEPT !.pc = "image", !.gen = hyd.gen, !.round = z, !.sig = hyd.sig, !.want = hyd.sig]
<1>4. th' = [th EXCEPT ![t] = w]
  BY DEF EnsureClaims
<1>5. w \in Locals /\ w.pc = "image" /\ w.sig = hyd.sig /\ w.gen = hyd.gen
  <2>1. th[t] \in Locals /\ hyd.gen \in Nat /\ hyd.sig \in Sigs /\ z \in Nat
    BY <1>2 DEF LocalType, Hydrators
  <2> HIDE DEF z
  <2> QED BY <2>1 DEF Locals, PCs
<1> HIDE DEF w
<1>6. /\ th' \in [Threads -> Locals] /\ th'[t] = w
      /\ \A u \in Threads : u # t => th'[u] = th[u]
  BY <1>2, <1>4, <1>5, Moved
<1>7. LocalType'
  BY <1>1, <1>2, <1>3, <1>6 DEF LocalType
<1>8. Fetches'
  BY <1>1, <1>2, <1>3, <1>5, <1>6 DEF Fetches, Fetching, Targets, Live
<1>9. Locks'
  BY <1>1, <1>2, <1>5, <1>6 DEF Locks, Fetching, Reading
<1>10. Targets'
  BY <1>1, <1>2, <1>3 DEF Targets, Live
<1>11. Shown'
  BY <1>1, <1>2, <1>3, <1>5, <1>6 DEF Shown, Live, Reading
<1>12. Lost' /\ DownIsBlank'
  BY <1>1, <1>2, <1>3, <1>5, <1>6, TailerThread DEF Lost, DownIsBlank, NoEntry, NoHydrator, p
<1>13. Polls'
  BY <1>1, <1>2, <1>3, <1>5, <1>6, TailerThread DEF Polls, p
<1>14. Stamps'
  BY <1>1, <1>2, <1>3, <1>5, <1>6, TailerThread, Quiet DEF IInv, Stamps, Targets, Live, p
<1>15. UpInv'
  BY <1>1, <1>3, BucketKept
<1> QED BY <1>7, <1>8, <1>9, <1>10, <1>11, <1>12, <1>13, <1>14, <1>15 DEF IInv

LEMMA EnsurePassesKeeps == ASSUME IInv, NEW t \in Threads, EnsurePasses(t) PROVE IInv'
<1>1. /\ th[t].pc = "ensure" /\ hyd.state \in {"absent", "Done", "Vetoed"}
      /\ UNCHANGED <<upstream, disk, record, hyd, ent, lock, tail, faults>>
  BY DEF EnsurePasses
<1>2. LocalType /\ Fetches /\ Locks /\ Targets /\ Shown /\ Lost /\ Polls /\ DownIsBlank /\ Stamps
  BY DEF IInv
<1>3. Step(t, Ensured(t)) /\ Ensured(t) \in PCs
  BY DEF EnsurePasses, Ensured, PCs
<1>4. Ensured(t) = IF lock = t THEN "readimg" ELSE IF t = Tailer THEN "refresh" ELSE "idle"
  BY DEF Ensured
<1>5. /\ th' \in [Threads -> Locals] /\ th'[t].pc = Ensured(t)
      /\ \A u \in Threads : u # t => th'[u] = th[u]
  BY <1>2, <1>3, Stepped
<1>6. LocalType'
  BY <1>1, <1>2, <1>5 DEF LocalType
<1>7. Fetches' /\ Targets'
  BY <1>1, <1>2, <1>4, <1>5 DEF Fetches, Fetching, Targets
<1>8. Locks'
  BY <1>1, <1>2, <1>4, <1>5 DEF Locks, Fetching, Reading
<1>9. Shown'
  BY <1>1, <1>2, <1>4, <1>5 DEF Shown, Live, Reading
<1>10. Lost' /\ DownIsBlank'
  BY <1>1, <1>2, <1>4, <1>5, TailerThread DEF Lost, DownIsBlank, p
<1>11. Polls'
  BY <1>1, <1>2, <1>4, <1>5, TailerThread DEF Polls, Targets, Live, p
<1>12. Stamps'
  BY <1>1, <1>2, <1>4, <1>5, TailerThread, Quiet DEF IInv, Stamps, p
<1>13. UpInv'
  BY <1>1, BucketKept
<1> QED BY <1>6, <1>7, <1>8, <1>9, <1>10, <1>11, <1>12, <1>13 DEF IInv

LEMMA FetchImageKeeps == ASSUME IInv, NEW t \in Threads, FetchImage(t) PROVE IInv'
<1>1. /\ th[t].pc = "image"
      /\ UNCHANGED <<upstream, record, hyd, ent, lock, tail, faults>>
  BY DEF FetchImage
<1>2. LocalType /\ Fetches /\ Locks /\ Targets /\ Shown /\ Lost /\ Polls /\ DownIsBlank /\ Stamps
  BY DEF IInv
<1>3. disk' \in Sigs /\ disk'.img = th[t].want.img /\ disk'.meta = th[t].want.meta
  <2>1. th[t].want \in Sigs /\ disk \in Sigs
    BY <1>2 DEF LocalType, Locals
  <2>2. disk' = [disk EXCEPT !.img = th[t].want.img, !.meta = th[t].want.meta]
    BY DEF FetchImage
  <2> QED BY <2>1, <2>2 DEF Sigs
<1> DEFINE z == 0
           w == [th[t] EXCEPT !.pc = "lane", !.round = z]
<1>4. th' = [th EXCEPT ![t] = w]
  BY DEF FetchImage
<1>5. w \in Locals /\ w.pc = "lane" /\ w.gen = th[t].gen /\ w.sig = th[t].sig /\ w.want = th[t].want
  <2>1. th[t] \in Locals /\ z \in Nat
    BY <1>2 DEF LocalType
  <2> HIDE DEF z
  <2> QED BY <2>1 DEF Locals, PCs
<1> HIDE DEF w
<1>6. /\ th' \in [Threads -> Locals] /\ th'[t] = w
      /\ \A u \in Threads : u # t => th'[u] = th[u]
  BY <1>2, <1>4, <1>5, Moved
<1>7. LocalType'
  BY <1>1, <1>2, <1>3, <1>6 DEF LocalType
<1>8. Fetches'
  BY <1>1, <1>2, <1>3, <1>5, <1>6 DEF Fetches, Fetching
<1>9. hyd.state = "InFlight"
  BY <1>1, <1>2 DEF Fetches, Fetching
<1>10. Locks' /\ Targets'
  BY <1>1, <1>2, <1>5, <1>6, <1>9 DEF Locks, Targets, Fetching, Reading
<1>11. Shown'
  BY <1>1, <1>2, <1>5, <1>6 DEF Shown, Reading
<1>12. Lost' /\ DownIsBlank'
  BY <1>1, <1>2, <1>5, <1>6, TailerThread DEF Lost, DownIsBlank, p
<1>13. Polls'
  BY <1>1, <1>2, <1>5, <1>6, TailerThread DEF Polls, p
<1>14. Stamps'
  BY <1>1, <1>2, <1>5, <1>6, TailerThread, Quiet DEF IInv, Stamps, p
<1>15. UpInv'
  BY <1>1, BucketKept
<1> QED BY <1>7, <1>8, <1>10, <1>11, <1>12, <1>13, <1>14, <1>15 DEF IInv

LEMMA FetchLaneKeeps == ASSUME IInv, NEW t \in Threads, FetchLane(t) PROVE IInv'
<1>1. /\ th[t].pc = "lane" /\ Step(t, "settle")
      /\ UNCHANGED <<upstream, record, hyd, ent, lock, tail, faults>>
  BY DEF FetchLane
<1>2. LocalType /\ Fetches /\ Locks /\ Targets /\ Shown /\ Lost /\ Polls /\ DownIsBlank /\ Stamps
  BY DEF IInv
<1>3. disk' \in Sigs /\ disk'.img = disk.img /\ disk'.meta = disk.meta /\ disk'.lane = th[t].want.lane
  <2>1. th[t].want \in Sigs /\ disk \in Sigs
    BY <1>2 DEF LocalType, Locals
  <2>2. disk' = [disk EXCEPT !.lane = th[t].want.lane]
    BY DEF FetchLane
  <2> QED BY <2>1, <2>2 DEF Sigs
<1>4. "settle" \in PCs
  BY DEF PCs
<1>5. /\ th' \in [Threads -> Locals] /\ th'[t].pc = "settle" /\ th'[t].sig = th[t].sig
      /\ th'[t].want = th[t].want /\ th'[t].gen = th[t].gen
      /\ \A u \in Threads : u # t => th'[u] = th[u]
  BY <1>1, <1>2, <1>4, Stepped
<1>6. LocalType'
  BY <1>1, <1>2, <1>3, <1>5 DEF LocalType
<1>7. Fetches'
  BY <1>1, <1>2, <1>3, <1>5 DEF Fetches, Fetching
<1>8. hyd.state = "InFlight"
  BY <1>1, <1>2 DEF Fetches, Fetching
<1>9. Locks' /\ Targets'
  BY <1>1, <1>2, <1>5, <1>8 DEF Locks, Targets, Fetching, Reading
<1>10. Shown'
  BY <1>1, <1>2, <1>5 DEF Shown, Reading
<1>11. Lost' /\ DownIsBlank'
  BY <1>1, <1>2, <1>5, TailerThread DEF Lost, DownIsBlank, p
<1>12. Polls'
  BY <1>1, <1>2, <1>5, TailerThread DEF Polls, p
<1>13. Stamps'
  BY <1>1, <1>2, <1>5, TailerThread, Quiet DEF IInv, Stamps, p
<1>14. UpInv'
  BY <1>1, BucketKept
<1> QED BY <1>6, <1>7, <1>9, <1>10, <1>11, <1>12, <1>13, <1>14 DEF IInv

LEMMA RefreshExtentKeeps == ASSUME IInv, NEW t \in Threads, RefreshExtent(t) PROVE IInv'
<1>1. /\ Mismatch(t) /\ Refreshed(t).img.here
      /\ UNCHANGED <<upstream, disk, record, hyd, ent, lock, tail, faults>>
  BY DEF RefreshExtent, Rot
<1>2. LocalType /\ Fetches /\ Locks /\ Targets /\ Shown /\ Lost /\ Polls /\ DownIsBlank /\ Stamps
  BY DEF IInv
<1>3. th[t].pc \in {"image", "lane"}
  BY <1>1 DEF Mismatch
<1> DEFINE n == th[t].round + 1
           old == th[t].want
           now == Refreshed(t)
           want == IF th[t].pc = "image" THEN [old EXCEPT !.img = now.img, !.meta = now.meta]
                   ELSE [old EXCEPT !.lane = now.lane]
           w == [th[t] EXCEPT !.round = n, !.want = want]
<1>4. th' = [th EXCEPT ![t] = w]
  BY DEF RefreshExtent
<1>5. th[t] \in Locals /\ old \in Sigs /\ n \in Nat
  BY <1>2 DEF LocalType, Locals
<1>6. want \in Sigs /\ (th[t].pc = "lane" => want.img = old.img /\ want.meta = old.meta)
  <2>1. now \in Sigs
    <3>1. th[t].gen \in Gens
      BY <1>2, <1>3 DEF Fetches, Fetching
    <3> QED BY <3>1 DEF Refreshed, IInv, UpInv, UpstreamType, Objects, Manifests
  <2> HIDE DEF now, old
  <2> QED BY <1>5, <2>1 DEF Sigs
<1> HIDE DEF want, n
<1>7. /\ w \in Locals /\ w.pc = th[t].pc /\ w.gen = th[t].gen /\ w.sig = th[t].sig /\ w.want = want
      /\ w.img = th[t].img
  BY <1>5, <1>6 DEF Locals
<1> HIDE DEF w
<1>8. /\ th' \in [Threads -> Locals] /\ th'[t] = w
      /\ \A u \in Threads : u # t => th'[u] = th[u]
  BY <1>2, <1>4, <1>7, Moved
<1>9. \A u \in Threads : th'[u].pc = th[u].pc /\ th'[u].sig = th[u].sig /\ th'[u].gen = th[u].gen /\ th'[u].img = th[u].img
  BY <1>7, <1>8
<1>10. LocalType'
  BY <1>1, <1>2, <1>8 DEF LocalType
<1>11. Fetches'
  BY <1>1, <1>2, <1>3, <1>6, <1>7, <1>8 DEF Fetches, Fetching
<1>12. Locks' /\ Targets' /\ Shown' /\ Lost'
  BY <1>1, <1>2, <1>9, TailerThread DEF Locks, Targets, Shown, Lost, Fetching, Reading, p
<1>13. DownIsBlank' /\ Polls'
  BY <1>1, <1>2, <1>9, TailerThread DEF DownIsBlank, Polls, p
<1>14. Stamps'
  BY <1>1, <1>2, <1>9, TailerThread, Quiet DEF IInv, Stamps, p
<1>15. UpInv'
  BY <1>1, BucketKept
<1> QED BY <1>10, <1>11, <1>12, <1>13, <1>14, <1>15 DEF IInv

LEMMA SettleKeeps == ASSUME IInv, NEW t \in Threads, Settle(t) PROVE IInv'
<1>1. /\ th[t].pc = "settle"
      /\ UNCHANGED <<upstream, disk, record, ent, lock, tail, faults>>
  BY DEF Settle
<1>2. LocalType /\ Fetches /\ Locks /\ Targets /\ Shown /\ Lost /\ Polls /\ DownIsBlank /\ Stamps
  BY DEF IInv
<1>3. /\ hyd.state = "InFlight" /\ th[t].sig = hyd.sig /\ disk.img = th[t].want.img
      /\ th[t].want.meta = hyd.sig.meta => disk.meta = hyd.sig.meta
      /\ disk.lane = th[t].want.lane
  BY <1>1, <1>2 DEF Fetches, Fetching
<1> DEFINE d == th[t].want # th[t].sig
<1>4. hyd' = [hyd EXCEPT !.state = "Done", !.done = th[t].sig, !.drift = d]
  BY <1>3 DEF Settle
<1>5. /\ hyd' \in Hydrators /\ hyd'.state = "Done" /\ hyd'.done = hyd.sig /\ hyd'.sig = hyd.sig
      /\ hyd'.drift = d /\ hyd'.gen = hyd.gen
  <2>1. hyd \in Hydrators /\ th[t].sig \in Sigs /\ d \in BOOLEAN
    BY <1>2 DEF LocalType, Locals
  <2> HIDE DEF d
  <2> QED BY <1>3, <1>4, <2>1 DEF Hydrators, States, Live
<1>6. hyd'.drift \/ disk = hyd.sig
  <2>1. disk \in Sigs /\ hyd.sig \in Sigs
    BY <1>2 DEF LocalType, Hydrators
  <2>2. CASE th[t].want = th[t].sig
    BY <1>3, <2>1, <2>2 DEF Sigs
  <2>3. CASE th[t].want # th[t].sig
    BY <1>5, <2>3
  <2> QED BY <2>2, <2>3
<1> HIDE DEF d
<1> DEFINE w == [Idle EXCEPT !.pc = Ensured(t)]
<1>7. th' = [th EXCEPT ![t] = w]
  BY DEF Settle
<1>8. w \in Locals /\ w.pc = Ensured(t)
  <2>1. Ensured(t) \in PCs
    BY DEF Ensured, PCs
  <2> QED BY <2>1, NoSigType DEF Locals
<1>9. Ensured(t) = IF lock = t THEN "readimg" ELSE IF t = Tailer THEN "refresh" ELSE "idle"
  BY DEF Ensured
<1> HIDE DEF w
<1>10. /\ th' \in [Threads -> Locals] /\ th'[t].pc = Ensured(t)
       /\ \A u \in Threads : u # t => th'[u] = th[u]
  BY <1>2, <1>7, <1>8, Moved
<1>11. LocalType'
  BY <1>1, <1>2, <1>5, <1>10 DEF LocalType
<1>12. Fetches'
  BY <1>1, <1>2, <1>9, <1>10 DEF Fetches, Fetching
<1>13. Locks'
  BY <1>1, <1>2, <1>9, <1>10 DEF Locks, Fetching, Reading
<1>14. Targets'
  BY <1>1, <1>2, <1>3, <1>5, <1>6 DEF Targets, Live
<1>15. Shown'
  BY <1>1, <1>2, <1>3, <1>5, <1>9, <1>10 DEF Shown, Live, Reading
<1>16. Lost' /\ DownIsBlank'
  BY <1>1, <1>2, <1>3, <1>5, <1>9, <1>10, TailerThread DEF Lost, DownIsBlank, NoHydrator, p
<1>17. Polls'
  BY <1>1, <1>2, <1>3, <1>5, <1>9, <1>10, TailerThread DEF Polls, p
<1>18. Stamps'
  BY <1>1, <1>2, <1>3, <1>5, <1>9, <1>10, TailerThread, Quiet DEF IInv, Stamps, Targets, Live, p
<1>19. UpInv'
  BY <1>1, <1>5, BucketKept
<1> QED BY <1>11, <1>12, <1>13, <1>14, <1>15, <1>16, <1>17, <1>18, <1>19 DEF IInv

\* A thread gives up, or is through: a reader is idle again, the tailer winds its poll up.
Left(t) == IF t = Tailer THEN "finish" ELSE "idle"

LEMMA Leaves ==
  ASSUME LocalType, NEW t \in Threads,
         th' = [th EXCEPT ![t] = [Idle EXCEPT !.pc = IF t = Tailer THEN "finish" ELSE "idle"]]
  PROVE  /\ th' \in [Threads -> Locals] /\ th'[t].pc = Left(t)
         /\ \A u \in Threads : u # t => th'[u] = th[u]
<1> DEFINE w == [Idle EXCEPT !.pc = Left(t)]
<1>1. th' = [th EXCEPT ![t] = w]
  BY DEF Left
<1>2. w \in Locals /\ w.pc = Left(t)
  <2>1. Left(t) \in PCs
    BY DEF Left, PCs
  <2> QED BY <2>1, NoSigType DEF Locals
<1> HIDE DEF w
<1> QED BY <1>1, <1>2, Moved

LEMMA Abandons ==
  ASSUME LocalType, NEW t \in Threads, Abandon(t)
  PROVE  /\ th' \in [Threads -> Locals] /\ th'[t].pc = Left(t)
         /\ \A u \in Threads : u # t => th'[u] = th[u]
         /\ lock' = IF lock = t THEN Free ELSE lock
         /\ tail' \in Tailers /\ tail'.gen = tail.gen /\ tail'.stamp = tail.stamp /\ tail'.sig = tail.sig
         /\ tail'.applied = tail.applied /\ tail'.debt = tail.debt /\ tail'.blind = tail.blind
         /\ tail'.failed = (tail.failed \/ (t = Tailer /\ lock # t))
<1>1. /\ th' \in [Threads -> Locals] /\ th'[t].pc = Left(t)
      /\ \A u \in Threads : u # t => th'[u] = th[u]
  BY Leaves DEF Abandon
<1> DEFINE f == tail.failed \/ (t = Tailer /\ lock # t)
<1>2. tail' = [tail EXCEPT !.failed = f] /\ lock' = IF lock = t THEN Free ELSE lock
  BY DEF Abandon, Unlocked
<1>3. f \in BOOLEAN /\ tail \in Tailers
  BY DEF LocalType
<1> HIDE DEF f
<1>4. /\ tail' \in Tailers /\ tail'.gen = tail.gen /\ tail'.stamp = tail.stamp /\ tail'.sig = tail.sig
      /\ tail'.applied = tail.applied /\ tail'.debt = tail.debt /\ tail'.blind = tail.blind
      /\ tail'.failed = f
  BY <1>2, <1>3 DEF Tailers
<1> QED BY <1>1, <1>2, <1>4 DEF f

LEMMA FetchFailsKeeps == ASSUME IInv, NEW t \in Threads, FetchFails(t) PROVE IInv'
<1>1. /\ hyd' = [hyd EXCEPT !.state = "Pending"] /\ Abandon(t)
      /\ UNCHANGED <<upstream, disk, record, ent>>
  BY DEF FetchFails
<1>2. LocalType /\ Fetches /\ Locks /\ Targets /\ Shown /\ Lost /\ Polls /\ DownIsBlank /\ Stamps
  BY DEF IInv
<1>3. th[t].pc \in {"image", "lane"} /\ faults' \in Nat
  BY <1>2 DEF FetchFails, Rot, Mismatch, Fault, LocalType
<1>4. hyd.state = "InFlight"
  BY <1>2, <1>3 DEF Fetches, Fetching
<1>5. /\ hyd' \in Hydrators /\ hyd'.state = "Pending" /\ hyd'.sig = hyd.sig /\ hyd'.done = hyd.done
      /\ hyd'.drift = hyd.drift /\ hyd'.gen = hyd.gen
  BY <1>1, <1>2 DEF LocalType, Hydrators, States, Live
<1>6. /\ th' \in [Threads -> Locals] /\ th'[t].pc = Left(t)
      /\ \A u \in Threads : u # t => th'[u] = th[u]
      /\ lock' = IF lock = t THEN Free ELSE lock
      /\ tail' \in Tailers /\ tail'.gen = tail.gen /\ tail'.stamp = tail.stamp /\ tail'.sig = tail.sig
      /\ tail'.applied = tail.applied /\ tail'.debt = tail.debt /\ tail'.blind = tail.blind
      /\ tail'.failed = (tail.failed \/ (t = Tailer /\ lock # t))
  BY <1>1, <1>2, Abandons
<1>7. lock # Tailer
  BY <1>2, <1>4 DEF Polls
<1>8. LocalType'
  BY <1>1, <1>2, <1>3, <1>5, <1>6 DEF LocalType
<1>9. Fetches'
  BY <1>1, <1>2, <1>3, <1>6 DEF Fetches, Fetching, Left
<1>10. Locks'
  BY <1>1, <1>2, <1>3, <1>6, TailerThread DEF Locks, Fetching, Reading, Left
<1>11. Targets'
  BY <1>1, <1>2, <1>4, <1>5, <1>6 DEF Targets, Live
<1>12. Shown'
  BY <1>1, <1>2, <1>4, <1>5, <1>6 DEF Shown, Live, Reading, Left
<1>13. Lost' /\ DownIsBlank'
  BY <1>1, <1>2, <1>4, <1>5, <1>6, TailerThread DEF Lost, DownIsBlank, NoHydrator, Left, p
<1>14. Polls'
  BY <1>1, <1>2, <1>3, <1>4, <1>5, <1>6, <1>7, TailerThread DEF Polls, Left, p
<1>15. Stamps'
  BY <1>1, <1>2, <1>3, <1>4, <1>5, <1>6, TailerThread, Quiet DEF IInv, Stamps, Targets, Live, Left, p
<1>16. UpInv'
  BY <1>1, <1>5, <1>6, BucketKept
<1> QED BY <1>8, <1>9, <1>10, <1>11, <1>12, <1>13, <1>14, <1>15, <1>16 DEF IInv

LEMMA StartLoadKeeps == ASSUME IInv, NEW r \in Readers, StartLoad(r) PROVE IInv'
<1>1. /\ th[r].pc = "idle" /\ ent.reg /\ ~ent.hot /\ lock = Free /\ lock' = r /\ Step(r, "ensure")
      /\ UNCHANGED <<upstream, disk, record, hyd, ent, tail, faults>>
  BY DEF StartLoad
<1>2. LocalType /\ Fetches /\ Locks /\ Targets /\ Shown /\ Lost /\ Polls /\ DownIsBlank /\ Stamps
  BY DEF IInv
<1>3. r \in Threads /\ r # Tailer /\ "ensure" \in PCs
  BY TailerThread DEF PCs
<1>4. /\ th' \in [Threads -> Locals] /\ th'[r].pc = "ensure"
      /\ \A u \in Threads : u # r => th'[u] = th[u]
  BY <1>1, <1>2, <1>3, Stepped
<1>5. LocalType'
  BY <1>1, <1>2, <1>3, <1>4 DEF LocalType
<1>6. Fetches' /\ Targets'
  BY <1>1, <1>2, <1>4 DEF Fetches, Fetching, Targets
<1>7. Locks'
  BY <1>1, <1>2, <1>3, <1>4, TailerThread DEF Locks, Fetching, Reading
<1>8. Shown'
  BY <1>1, <1>2, <1>4 DEF Shown, Reading
<1>9. Lost' /\ DownIsBlank'
  BY <1>1, <1>2, <1>3, <1>4, TailerThread DEF Lost, DownIsBlank, NoEntry, p
<1>10. Polls'
  BY <1>1, <1>2, <1>3, <1>4, TailerThread DEF Polls, p
<1>11. Stamps'
  BY <1>1, <1>2, <1>3, <1>4, TailerThread, Quiet DEF IInv, Stamps, p
<1>12. UpInv'
  BY <1>1, BucketKept
<1> QED BY <1>5, <1>6, <1>7, <1>8, <1>9, <1>10, <1>11, <1>12 DEF IInv

LEMMA TouchKeeps == ASSUME IInv, NEW r \in Readers, Touch(r) PROVE IInv'
<1>1. /\ th[r].pc = "idle" /\ ent.reg /\ Step(r, "ensure")
      /\ UNCHANGED <<upstream, disk, record, hyd, ent, lock, tail, faults>>
  BY DEF Touch
<1>2. LocalType /\ Fetches /\ Locks /\ Targets /\ Shown /\ Lost /\ Polls /\ DownIsBlank /\ Stamps
  BY DEF IInv
<1>3. r \in Threads /\ r # Tailer /\ "ensure" \in PCs
  BY TailerThread DEF PCs
<1>4. /\ th' \in [Threads -> Locals] /\ th'[r].pc = "ensure"
      /\ \A u \in Threads : u # r => th'[u] = th[u]
  BY <1>1, <1>2, <1>3, Stepped
<1>5. LocalType'
  BY <1>1, <1>2, <1>4 DEF LocalType
<1>6. Fetches' /\ Targets' /\ Shown'
  BY <1>1, <1>2, <1>4 DEF Fetches, Fetching, Targets, Shown, Reading
<1>7. Locks'
  BY <1>1, <1>2, <1>3, <1>4 DEF Locks, Fetching, Reading
<1>8. Lost' /\ DownIsBlank'
  BY <1>1, <1>2, <1>3, <1>4, TailerThread DEF Lost, DownIsBlank, NoEntry, p
<1>9. Polls'
  BY <1>1, <1>2, <1>3, <1>4, TailerThread DEF Polls, p
<1>10. Stamps'
  BY <1>1, <1>2, <1>3, <1>4, TailerThread, Quiet DEF IInv, Stamps, p
<1>11. UpInv'
  BY <1>1, BucketKept
<1> QED BY <1>5, <1>6, <1>7, <1>8, <1>9, <1>10, <1>11 DEF IInv

LEMMA ReadImageKeeps == ASSUME IInv, NEW t \in Threads, ReadImage(t) PROVE IInv'
<1>1. /\ th[t].pc = "readimg"
      /\ UNCHANGED <<upstream, disk, record, hyd, ent, lock, tail, faults>>
  BY DEF ReadImage
<1>2. LocalType /\ Fetches /\ Locks /\ Targets /\ Shown /\ Lost /\ Polls /\ DownIsBlank /\ Stamps
  BY DEF IInv
<1> DEFINE w == [th[t] EXCEPT !.pc = "readlane", !.img = disk.img]
<1>3. th' = [th EXCEPT ![t] = w]
  BY DEF ReadImage
<1>4. w \in Locals /\ w.pc = "readlane" /\ w.img = disk.img
  <2>1. th[t] \in Locals /\ disk.img \in Images
    BY <1>2 DEF LocalType, Sigs
  <2> QED BY <2>1 DEF Locals, PCs
<1> HIDE DEF w
<1>5. /\ th' \in [Threads -> Locals] /\ th'[t].pc = "readlane" /\ th'[t].img = disk.img
      /\ \A u \in Threads : u # t => th'[u] = th[u]
  BY <1>2, <1>3, <1>4, Moved
<1>6. LocalType'
  BY <1>1, <1>2, <1>5 DEF LocalType
<1>7. Fetches' /\ Targets'
  BY <1>1, <1>2, <1>5 DEF Fetches, Fetching, Targets
<1>8. Locks'
  BY <1>1, <1>2, <1>5 DEF Locks, Fetching, Reading
<1>9. Shown'
  BY <1>1, <1>2, <1>5 DEF Shown, Targets, Reading
<1>10. Lost' /\ DownIsBlank'
  BY <1>1, <1>2, <1>5, TailerThread DEF Lost, DownIsBlank, p
<1>11. Polls'
  BY <1>1, <1>2, <1>5, TailerThread DEF Polls, p
<1>12. Stamps'
  BY <1>1, <1>2, <1>5, TailerThread, Quiet DEF IInv, Stamps, p
<1>13. UpInv'
  BY <1>1, BucketKept
<1> QED BY <1>6, <1>7, <1>8, <1>9, <1>10, <1>11, <1>12, <1>13 DEF IInv

LEMMA ImageUnreadableKeeps == ASSUME IInv, NEW t \in Threads, ImageUnreadable(t) PROVE IInv'
<1>1. /\ th[t].pc = "readimg" /\ Abandon(t)
      /\ UNCHANGED <<upstream, disk, record, hyd, ent, faults>>
  BY DEF ImageUnreadable
<1>2. LocalType /\ Fetches /\ Locks /\ Targets /\ Shown /\ Lost /\ Polls /\ DownIsBlank /\ Stamps
  BY DEF IInv
<1>3. lock = t
  BY <1>1, <1>2 DEF Locks, Reading
<1>4. /\ th' \in [Threads -> Locals] /\ th'[t].pc = Left(t)
      /\ \A u \in Threads : u # t => th'[u] = th[u]
      /\ lock' = Free
      /\ tail' \in Tailers /\ tail'.gen = tail.gen /\ tail'.stamp = tail.stamp /\ tail'.sig = tail.sig
      /\ tail'.applied = tail.applied /\ tail'.debt = tail.debt /\ tail'.blind = tail.blind
      /\ tail'.failed = (tail.failed \/ (t = Tailer /\ lock # t))
  BY <1>1, <1>2, <1>3, Abandons
<1>5. LocalType'
  BY <1>1, <1>2, <1>4 DEF LocalType
<1>6. Fetches' /\ Targets'
  BY <1>1, <1>2, <1>4 DEF Fetches, Fetching, Targets, Left
<1>7. Locks'
  BY <1>1, <1>2, <1>3, <1>4, TailerThread DEF Locks, Fetching, Reading, Left
<1>8. Shown'
  BY <1>1, <1>2, <1>4 DEF Shown, Reading, Left
<1>9. Lost' /\ DownIsBlank'
  BY <1>1, <1>2, <1>3, <1>4, TailerThread DEF Lost, DownIsBlank, Left, p
<1>10. Polls'
  BY <1>1, <1>2, <1>3, <1>4, TailerThread DEF Polls, Left, p
<1>11. Stamps'
  BY <1>1, <1>2, <1>4, TailerThread, Quiet DEF IInv, Stamps, Left, p
<1>12. UpInv'
  BY <1>1, <1>4, BucketKept
<1> QED BY <1>5, <1>6, <1>7, <1>8, <1>9, <1>10, <1>11, <1>12 DEF IInv

LEMMA ReplayLaneKeeps == ASSUME IInv, NEW t \in Threads, ReplayLane(t) PROVE IInv'
<1> DEFINE ops == Loaded(th[t].img, disk.lane)
<1>1. /\ th[t].pc = "readlane" /\ ent' = [ent EXCEPT !.hot = TRUE, !.ops = ops]
      /\ th' = [th EXCEPT ![t] = [Idle EXCEPT !.pc = IF t = Tailer THEN "finish" ELSE "idle"]]
      /\ UNCHANGED <<upstream, disk, record, hyd, tail, faults>>
  BY DEF ReplayLane
<1>2. LocalType /\ Fetches /\ Locks /\ Targets /\ Shown /\ Lost /\ Polls /\ DownIsBlank /\ Stamps
  BY DEF IInv
<1>3. lock = t /\ lock' = Free /\ ent.reg
  BY <1>1, <1>2, TailerThread DEF Locks, Reading, ReplayLane, Unlocked
<1>4. ops \in Seq(Nat)
  <2>1. th[t].img \in Images /\ disk.lane \in Lanes
    BY <1>2 DEF LocalType, Locals, Sigs
  <2> QED BY <2>1, LoadedType
<1>5. ent' \in Entries /\ ent'.hot /\ ent'.reg /\ ent'.ops = ops /\ ent'.meta = ent.meta
  <2> HIDE DEF ops
  <2>1. ent \in Entries
    BY <1>2 DEF LocalType
  <2>2. ent' \in Entries /\ ent'.hot = TRUE /\ ent'.reg = ent.reg /\ ent'.ops = ops /\ ent'.meta = ent.meta
    BY <1>1, <1>4, <2>1 DEF Entries
  <2> QED BY <1>3, <2>2
<1>6. /\ th' \in [Threads -> Locals] /\ th'[t].pc = Left(t)
      /\ \A u \in Threads : u # t => th'[u] = th[u]
  BY <1>1, <1>2, Leaves
<1>7. LocalType'
  BY <1>1, <1>2, <1>3, <1>5, <1>6 DEF LocalType
<1>8. Fetches' /\ Targets'
  BY <1>1, <1>2, <1>6 DEF Fetches, Fetching, Targets, Left
<1>9. Locks'
  BY <1>1, <1>2, <1>3, <1>5, <1>6, TailerThread DEF Locks, Fetching, Reading, Left
<1>10. ~tail.debt /\ hyd.state \in Live =>
         hyd.state = "Done" /\ (hyd.drift \/ ops = Loaded(hyd.sig.img, hyd.sig.lane))
  BY <1>1, <1>2 DEF Shown, Targets, Reading
<1> HIDE DEF ops
<1>11. Shown'
  BY <1>1, <1>2, <1>5, <1>6, <1>10 DEF Shown, Reading, Left
<1>12. Lost' /\ DownIsBlank'
  BY <1>1, <1>2, <1>3, <1>5, <1>6, TailerThread DEF Lost, DownIsBlank, Left, p
<1>13. Polls'
  BY <1>1, <1>2, <1>3, <1>5, <1>6, TailerThread DEF Polls, Left, p
<1>14. Stamps'
  BY <1>1, <1>2, <1>6, TailerThread, Quiet DEF IInv, Stamps, Left, p
<1>15. UpInv'
  BY <1>1, BucketKept
<1> QED BY <1>7, <1>8, <1>9, <1>11, <1>12, <1>13, <1>14, <1>15 DEF IInv

LEMMA EvictKeeps == ASSUME IInv, Evict PROVE IInv'
<1>1. /\ ent.hot /\ ent' = [ent EXCEPT !.hot = FALSE, !.ops = <<>>]
      /\ UNCHANGED <<upstream, disk, record, hyd, lock, th, tail, faults>>
  BY DEF Evict
<1>2. LocalType /\ Fetches /\ Locks /\ Targets /\ Shown /\ Lost /\ Polls /\ DownIsBlank /\ Stamps
  BY DEF IInv
<1>3. ent' \in Entries /\ ent'.hot = FALSE /\ ent'.reg = ent.reg /\ ent'.meta = ent.meta
  BY <1>1, <1>2, EmptySeq DEF LocalType, Entries
<1>4. LocalType'
  BY <1>1, <1>2, <1>3 DEF LocalType
<1>5. Fetches' /\ Targets'
  BY <1>1, <1>2 DEF Fetches, Fetching, Targets
<1>6. Locks' /\ Shown'
  BY <1>1, <1>2, <1>3 DEF Locks, Shown, Fetching, Reading
<1>7. Lost' /\ DownIsBlank'
  BY <1>1, <1>2, <1>3 DEF Lost, DownIsBlank, NoEntry, p
<1>8. Polls'
  BY <1>1, <1>2, <1>3 DEF Polls, p
<1>9. Stamps'
  BY <1>1, <1>2, Quiet DEF IInv, Stamps, p
<1>10. UpInv'
  BY <1>1, BucketKept
<1> QED BY <1>4, <1>5, <1>6, <1>7, <1>8, <1>9, <1>10 DEF IInv

\* What a poll leaves for the next one.
LEMMA BetweenType ==
  ASSUME LocalType
  PROVE  /\ Between \in Tailers /\ Between.gen = 0 /\ Between.stamp = 0 /\ Between.sig = NoSig
         /\ Between.applied = tail.applied /\ Between.debt = tail.debt /\ Between.blind = tail.blind
         /\ \A a \in Nat \X Nat :
              LET b == [Between EXCEPT !.applied = a]
              IN /\ b \in Tailers /\ b.gen = 0 /\ b.stamp = 0 /\ b.sig = NoSig
                 /\ b.applied = a /\ b.debt = tail.debt /\ b.blind = tail.blind
<1>1. NewTailer \in Tailers /\ tail \in Tailers
  BY NoSigType DEF LocalType
<1>2. NewTailer.gen = 0 /\ NewTailer.stamp = 0 /\ NewTailer.sig = NoSig
  BY DEF NewTailer
<1>3. Between = [NewTailer EXCEPT !.applied = tail.applied, !.debt = tail.debt, !.blind = tail.blind]
  BY DEF Between
<1>4. /\ Between \in Tailers /\ Between.gen = 0 /\ Between.stamp = 0 /\ Between.sig = NoSig
      /\ Between.applied = tail.applied /\ Between.debt = tail.debt /\ Between.blind = tail.blind
  BY <1>1, <1>2, <1>3 DEF Tailers
<1> QED BY <1>4 DEF Tailers

LEMMA PollLooksKeeps == ASSUME IInv, PollLooks PROVE IInv'
<1> DEFINE g == NewestComplete
           s == store[g].man.stamp
<1>1. /\ p = "idle" /\ <<g, s>> # tail.applied /\ Step(Tailer, "manifest")
      /\ tail' = [tail EXCEPT !.gen = g, !.stamp = s, !.failed = FALSE]
      /\ UNCHANGED <<upstream, disk, record, hyd, ent, lock, faults>>
  BY DEF PollLooks, p
<1>2. LocalType /\ Fetches /\ Locks /\ Targets /\ Shown /\ Lost /\ Polls /\ DownIsBlank /\ Stamps
  BY DEF IInv
<1>3. g \in Gens /\ g \in Nat /\ s \in Nat /\ s > 0
  BY Newest, GensAreNumbers DEF IInv, UpInv, UpstreamType, Complete, Objects, Manifests
<1>4. ~Current(tail.applied[1], tail.applied[2]) /\ Stamped(g, s)
  <2>1. tail.applied \in Nat \X Nat
    BY <1>2 DEF LocalType, Tailers
  <2>2. tail.applied = <<tail.applied[1], tail.applied[2]>>
    BY <2>1
  <2>3. ~(tail.applied[1] = g /\ tail.applied[2] = s)
    BY <1>1, <2>2
  <2>4. s \in 1..s
    BY <1>3
  <2> QED BY <1>3, <2>3, <2>4 DEF Current, Stamped
<1> HIDE DEF g, s
<1>5. /\ tail' \in Tailers /\ tail'.gen = g /\ tail'.stamp = s /\ tail'.sig = tail.sig
      /\ tail'.applied = tail.applied /\ tail'.debt = tail.debt /\ tail'.blind = tail.blind
  BY <1>1, <1>2, <1>3 DEF LocalType, Tailers
<1>6. "manifest" \in PCs
  BY DEF PCs
<1>7. /\ th' \in [Threads -> Locals] /\ th'[Tailer].pc = "manifest"
      /\ \A u \in Threads : u # Tailer => th'[u] = th[u]
  BY <1>1, <1>2, <1>6, TailerThread, Stepped
<1>8. LocalType'
  BY <1>1, <1>2, <1>5, <1>7 DEF LocalType
<1>9. Fetches' /\ Targets'
  BY <1>1, <1>2, <1>5, <1>7 DEF Fetches, Fetching, Targets
<1>10. Locks'
  BY <1>1, <1>2, <1>7, TailerThread DEF Locks, Fetching, Reading, Polls
<1>11. Shown'
  BY <1>1, <1>2, <1>5, <1>7 DEF Shown, Reading
<1>12. Lost' /\ DownIsBlank' /\ Polls'
  BY <1>1, <1>2, <1>5, <1>7 DEF Lost, DownIsBlank, Polls, p
<1>13. Stamps'
  BY <1>1, <1>2, <1>3, <1>4, <1>5, <1>7, Quiet DEF IInv, Stamps, p
<1>14. UpInv'
  BY <1>1, <1>5, BucketKept
<1> QED BY <1>8, <1>9, <1>10, <1>11, <1>12, <1>13, <1>14 DEF IInv

LEMMA PollReadsKeeps == ASSUME IInv, PollReads PROVE IInv'
<1> DEFINE s == store[tail.gen].man.sig
<1>1. /\ p = "manifest" /\ Step(Tailer, "retarget") /\ tail' = [tail EXCEPT !.sig = s]
      /\ UNCHANGED <<upstream, disk, record, hyd, ent, lock, faults>>
  BY DEF PollReads, p
<1>2. LocalType /\ Fetches /\ Locks /\ Targets /\ Shown /\ Lost /\ Polls /\ DownIsBlank /\ Stamps
  BY DEF IInv
<1>3. tail.gen \in Gens
  BY <1>1, <1>2 DEF Stamps
<1>4. s \in Sigs
  BY <1>3 DEF IInv, UpInv, UpstreamType, Objects, Manifests
<1>5. /\ tail' \in Tailers /\ tail'.gen = tail.gen /\ tail'.stamp = tail.stamp /\ tail'.sig = s
      /\ tail'.applied = tail.applied /\ tail'.debt = tail.debt /\ tail'.blind = tail.blind
  BY <1>1, <1>2, <1>4 DEF LocalType, Tailers
<1>6. "retarget" \in PCs
  BY DEF PCs
<1>7. /\ th' \in [Threads -> Locals] /\ th'[Tailer].pc = "retarget"
      /\ \A u \in Threads : u # Tailer => th'[u] = th[u]
  BY <1>1, <1>2, <1>6, TailerThread, Stepped
<1>8. LocalType'
  BY <1>1, <1>2, <1>5, <1>7 DEF LocalType
<1>9. Fetches' /\ Targets'
  BY <1>1, <1>2, <1>5, <1>7 DEF Fetches, Fetching, Targets
<1>10. Locks'
  BY <1>1, <1>2, <1>7, TailerThread DEF Locks, Fetching, Reading, Polls
<1>11. Shown'
  BY <1>1, <1>2, <1>5, <1>7 DEF Shown, Reading
<1>12. Lost' /\ DownIsBlank' /\ Polls'
  BY <1>1, <1>2, <1>5, <1>7 DEF Lost, DownIsBlank, Polls, p
<1>13. Stamps'
  BY <1>1, <1>2, <1>5, <1>7, Quiet DEF IInv, Stamps, p
<1>14. UpInv'
  BY <1>1, <1>4, <1>5, Quiet DEF IInv
<1> QED BY <1>8, <1>9, <1>10, <1>11, <1>12, <1>13, <1>14 DEF IInv

\* A poll is given up or ends: nothing of it is applied, or what it looked at is.
LEMMA EndOfPoll ==
  ASSUME IInv, p \in {"manifest", "shared", "finish"}, Step(Tailer, "idle"),
         UNCHANGED <<upstream, disk, hyd, ent, lock>>, record' \in Nat, faults' \in Nat,
         \/ tail' = Between
         \/ p = "finish" /\ ~tail.failed /\ tail' = [Between EXCEPT !.applied = <<tail.gen, tail.stamp>>]
  PROVE  IInv'
<1>2. LocalType /\ Fetches /\ Locks /\ Targets /\ Shown /\ Lost /\ Polls /\ DownIsBlank /\ Stamps
  BY DEF IInv
<1>3. <<tail.gen, tail.stamp>> \in Nat \X Nat /\ tail.applied \in Nat \X Nat
  BY <1>2 DEF LocalType, Tailers
<1>4. /\ tail' \in Tailers /\ tail'.gen = 0 /\ tail'.stamp = 0 /\ tail'.sig = NoSig
      /\ tail'.debt = tail.debt /\ tail'.blind = tail.blind
      /\ \/ tail'.applied = tail.applied
         \/ p = "finish" /\ ~tail.failed /\ tail'.applied = <<tail.gen, tail.stamp>>
  BY <1>2, <1>3, BetweenType
<1>5. "idle" \in PCs
  BY DEF PCs
<1>6. /\ th' \in [Threads -> Locals] /\ th'[Tailer].pc = "idle"
      /\ \A u \in Threads : u # Tailer => th'[u] = th[u]
  BY <1>2, <1>5, TailerThread, Stepped
<1>7. LocalType'
  BY <1>2, <1>4, <1>6 DEF LocalType
<1>8. Fetches' /\ Targets'
  BY <1>2, <1>4, <1>6 DEF Fetches, Fetching, Targets
<1>9. Locks'
  BY <1>2, <1>6, TailerThread DEF Locks, Fetching, Reading, Polls
<1>10. Shown'
  BY <1>2, <1>4, <1>6 DEF Shown, Reading
<1>11. Lost' /\ DownIsBlank' /\ Polls'
  BY <1>2, <1>4, <1>6 DEF Lost, DownIsBlank, Polls, p
<1>12. Stamps'
  <2> DEFINE a == tail'.applied[1]
             b == tail'.applied[2]
  <2>1. Stamped(a, b)
    BY <1>2, <1>4 DEF Stamps
  <2>2. ASSUME Current(a, b)
        PROVE  /\ hyd.sig = store[NewestComplete].man.sig /\ ~tail.debt
               /\ hyd.sig.img.here => hyd.state = "Done"
    <3>1. ~(tail'.applied = tail.applied)
      BY <1>2, <2>2 DEF Stamps
    <3>2. p = "finish" /\ ~tail.failed /\ a = tail.gen /\ b = tail.stamp
      BY <1>4, <3>1
    <3>3. Current(tail.gen, tail.stamp)
      BY <2>2, <3>2
    <3>4. tail.sig = store[tail.gen].man.sig /\ tail.gen = NewestComplete
      BY <1>2, <3>2, <3>3 DEF Stamps, Current
    <3> QED BY <1>2, <3>2, <3>4 DEF Polls
  <2>3. /\ \A x, y : Current(x, y)' <=> Current(x, y)
        /\ \A x, y : Stamped(x, y)' <=> Stamped(x, y)
        /\ NewestComplete' = NewestComplete /\ store' = store
    BY Quiet DEF IInv
  <2>4. Stamped(0, 0)
    BY DEF Stamped
  <2>5. /\ Stamped(tail.applied[1], tail.applied[2])' /\ Stamped(tail.gen, tail.stamp)'
        /\ Current(tail.applied[1], tail.applied[2])' => Current(a, b)
    BY <1>4, <2>1, <2>3, <2>4 DEF Stamped, Current
  <2> QED BY <1>4, <1>6, <2>2, <2>3, <2>5 DEF Stamps, p
<1>13. UpInv'
  BY <1>4, Quiet DEF IInv
<1> QED BY <1>7, <1>8, <1>9, <1>10, <1>11, <1>12, <1>13 DEF IInv

LEMMA PollFailsKeeps == ASSUME IInv, PollFails PROVE IInv'
BY EndOfPoll DEF PollFails, Fault, IInv, LocalType, p
LEMMA SharedRotKeeps == ASSUME IInv, SharedRot PROVE IInv'
BY EndOfPoll DEF SharedRot, IInv, LocalType, p
LEMMA PollEndsKeeps == ASSUME IInv, PollEnds PROVE IInv'
<1>1. record' \in Nat /\ faults' \in Nat
  BY DEF PollEnds, IInv, LocalType, Tailers
<1> QED BY <1>1, EndOfPoll DEF PollEnds, p

\* A retarget waits out a fetch: the family is settled or pending when it is re-aimed.
LEMMA RetargetKeeps == ASSUME IInv, Retarget PROVE IInv'
<1> DEFINE st == StateUnder(tail.sig)
           pc == IF Vanished THEN "deregister" ELSE "shared"
           owed == Owed
<1>1. /\ p = "retarget" /\ hyd.state # "InFlight" /\ Step(Tailer, pc)
      /\ hyd' = [hyd EXCEPT !.gen = tail.gen, !.sig = tail.sig, !.state = st]
      /\ tail' = [tail EXCEPT !.debt = owed]
      /\ UNCHANGED <<upstream, disk, record, ent, lock, faults>>
  BY DEF Retarget, p
<1>2. LocalType /\ Fetches /\ Locks /\ Targets /\ Shown /\ Lost /\ Polls /\ DownIsBlank /\ Stamps
  BY DEF IInv
<1>3. /\ st = IF tail.sig.img.here
              THEN IF hyd.state = "Done" /\ hyd.done = tail.sig THEN "Done" ELSE "Pending"
              ELSE IF hyd.state = "absent" THEN "absent" ELSE "Vetoed"
      /\ st \in States /\ pc \in PCs
  BY DEF StateUnder, States, Live, PCs
<1>4. /\ Vanished <=> ~tail.sig.img.here /\ hyd.state \notin {"absent", "Vetoed"}
      /\ owed <=> ~Vanished /\ (tail.debt \/ (tail.sig.img.here /\ ~(hyd.state = "Done" /\ hyd.done = tail.sig)))
      /\ owed \in BOOLEAN
  BY <1>2 DEF Vanished, Owed, Stale, LocalType, Tailers
<1>5. /\ tail.gen \in Gens /\ tail.gen \in Nat /\ tail.sig \in Sigs /\ hyd \in Hydrators /\ tail \in Tailers
  BY <1>1, <1>2, GensAreNumbers DEF LocalType, Tailers, Stamps
<1> HIDE DEF st, owed
<1>6. /\ hyd' \in Hydrators /\ hyd'.gen = tail.gen /\ hyd'.sig = tail.sig /\ hyd'.state = st
      /\ hyd'.done = hyd.done /\ hyd'.drift = hyd.drift
  BY <1>1, <1>3, <1>5 DEF Hydrators
<1>7. /\ tail' \in Tailers /\ tail'.gen = tail.gen /\ tail'.stamp = tail.stamp /\ tail'.sig = tail.sig
      /\ tail'.applied = tail.applied /\ tail'.debt = owed /\ tail'.blind = tail.blind
  BY <1>1, <1>4, <1>5 DEF Tailers
<1>8. /\ th' \in [Threads -> Locals] /\ th'[Tailer].pc = pc
      /\ \A u \in Threads : u # Tailer => th'[u] = th[u]
  BY <1>1, <1>2, <1>3, TailerThread, Stepped
<1>9. LocalType'
  BY <1>1, <1>2, <1>6, <1>7, <1>8 DEF LocalType
<1>10. Fetches'
  BY <1>1, <1>2, <1>8 DEF Fetches, Fetching
<1>11. Locks'
  BY <1>1, <1>2, <1>8, TailerThread DEF Locks, Fetching, Reading, Polls
<1>12. st \in Live <=> tail.sig.img.here
  BY <1>3 DEF Live
<1>13. st = "Done" => hyd.state = "Done" /\ hyd.done = tail.sig /\ hyd.sig = tail.sig
  BY <1>2, <1>3 DEF Targets
<1>14. owed => tail.sig.img.here
  BY <1>2, <1>4 DEF Targets, Live
<1>15. Targets'
  BY <1>1, <1>2, <1>5, <1>6, <1>7, <1>12, <1>13, <1>14 DEF Targets
<1>16. ~owed /\ st \in Live => ~tail.debt /\ st = "Done"
  BY <1>3, <1>4, <1>12
<1>17. Shown'
  BY <1>1, <1>2, <1>6, <1>7, <1>8, <1>13, <1>16 DEF Shown, Reading, Live
<1>18. Lost'
  <2>1. st = "Vetoed" /\ ~Vanished => hyd.state = "Vetoed"
    BY <1>3, <1>4
  <2>2. st = "absent" => hyd.state = "absent"
    BY <1>3
  <2>3. Vanished => st = "Vetoed" /\ ~owed
    BY <1>3, <1>4
  <2> QED BY <1>1, <1>2, <1>6, <1>7, <1>8, <2>1, <2>2, <2>3 DEF Lost, p
<1>19. DownIsBlank' /\ Polls'
  BY <1>1, <1>2, <1>6, <1>7, <1>8, <1>12, <1>16 DEF DownIsBlank, Polls, p
<1>20. Stamps'
  BY <1>1, <1>2, <1>7, <1>8, Quiet DEF IInv, Stamps, p
<1>21. UpInv'
  BY <1>1, <1>6, <1>7, Quiet DEF IInv
<1> QED BY <1>9, <1>10, <1>11, <1>15, <1>17, <1>18, <1>19, <1>20, <1>21 DEF IInv

LEMMA DeregisterKeeps == ASSUME IInv, Deregister PROVE IInv'
<1>1. /\ p = "deregister" /\ lock = Free /\ ent' = NoEntry /\ Step(Tailer, "shared")
      /\ UNCHANGED <<upstream, disk, record, hyd, lock, tail, faults>>
  BY DEF Deregister, p
<1>2. LocalType /\ Fetches /\ Locks /\ Targets /\ Shown /\ Lost /\ Polls /\ DownIsBlank /\ Stamps
  BY DEF IInv
<1>3. ent' \in Entries /\ ~ent'.reg /\ ~ent'.hot
  BY <1>1, NoSigType DEF NoEntry
<1>4. "shared" \in PCs
  BY DEF PCs
<1>5. /\ th' \in [Threads -> Locals] /\ th'[Tailer].pc = "shared"
      /\ \A u \in Threads : u # Tailer => th'[u] = th[u]
  BY <1>1, <1>2, <1>4, TailerThread, Stepped
<1>6. hyd.state = "Vetoed" /\ ~tail.debt
  BY <1>1, <1>2 DEF Lost
<1>7. LocalType'
  BY <1>1, <1>2, <1>3, <1>5 DEF LocalType
<1>8. Fetches' /\ Targets'
  BY <1>1, <1>2, <1>5 DEF Fetches, Fetching, Targets
<1>9. Locks'
  BY <1>1, <1>2, <1>3, <1>5, TailerThread DEF Locks, Fetching, Reading, Polls
<1>10. Shown' /\ Lost' /\ DownIsBlank'
  BY <1>1, <1>3, <1>5, <1>6 DEF Shown, Lost, DownIsBlank, Live, p
<1>11. Polls'
  BY <1>1, <1>2, <1>5, <1>6, TailerThread DEF Polls, Targets, Live, p
<1>12. Stamps'
  BY <1>1, <1>2, <1>5, Quiet DEF IInv, Stamps, p
<1>13. UpInv'
  BY <1>1, BucketKept
<1> QED BY <1>7, <1>8, <1>9, <1>10, <1>11, <1>12, <1>13 DEF IInv

\* Landing the shared files keeps what a fetch and a settled family rely on.
LEMMA Landing ==
  ASSUME UpInv, disk \in Sigs, NEW g \in Gens, NEW sig \in Sigs, NEW d \in SharedLanding(g, sig)
  PROVE  /\ d \in Sigs
         /\ sig.img.here => d.img = disk.img /\ d.lane = disk.lane /\ (disk.meta = sig.meta => d = disk)
         /\ sig.img.here /\ sig.meta = store[g].man.sig.meta => d.meta = sig.meta
<1>1. store[g].man.sig.meta \in Nat /\ sig.meta \in Nat
  BY DEF UpInv, UpstreamType, Objects, Manifests, Sigs
<1>2. CASE ~sig.img.here
  BY <1>2, NoSigType DEF SharedLanding
<1>3. ASSUME sig.img.here, NEW m \in Nat, d = [disk EXCEPT !.meta = m], disk.meta = sig.meta => m = sig.meta,
             sig.meta = store[g].man.sig.meta => m = sig.meta
      PROVE  /\ d \in Sigs /\ d.img = disk.img /\ d.lane = disk.lane /\ (disk.meta = sig.meta => d = disk)
             /\ sig.meta = store[g].man.sig.meta => d.meta = sig.meta
  BY <1>3 DEF Sigs
<1>4. CASE sig.img.here /\ sig.meta \in {disk.meta, store[g].meta}
  <2>1. d = [disk EXCEPT !.meta = sig.meta]
    BY <1>4 DEF SharedLanding
  <2> QED BY <1>1, <1>3, <1>4, <2>1
<1>5. CASE sig.img.here /\ sig.meta \notin {disk.meta, store[g].meta}
  <2>1. PICK m \in {store[g].man.sig.meta} \cap {store[g].meta} : d = [disk EXCEPT !.meta = m]
    BY <1>5 DEF SharedLanding
  <2>2. m \in Nat /\ m = store[g].man.sig.meta
    BY <1>1, <2>1
  <2> QED BY <1>1, <1>3, <1>5, <2>1, <2>2
<1> QED BY <1>2, <1>4, <1>5

LEMMA HydrateSharedKeeps == ASSUME IInv, HydrateShared PROVE IInv'
<1> DEFINE pc == IF tail.debt THEN "ensure" ELSE "finish"
<1>1. /\ p = "shared" /\ disk' \in SharedLanding(tail.gen, tail.sig) /\ Step(Tailer, pc)
      /\ ent' = IF tail.debt /\ ~ent.reg THEN [NoEntry EXCEPT !.reg = TRUE, !.meta = disk'.meta] ELSE ent
      /\ UNCHANGED <<upstream, record, hyd, lock, tail, faults>>
  BY DEF HydrateShared, p
<1>2. LocalType /\ Fetches /\ Locks /\ Targets /\ Shown /\ Lost /\ Polls /\ DownIsBlank /\ Stamps
  BY DEF IInv
<1>3. tail.gen \in Gens /\ tail.sig \in Sigs /\ disk \in Sigs /\ hyd.sig = tail.sig
  BY <1>1, <1>2 DEF LocalType, Tailers, Stamps, Polls
<1>4. /\ disk' \in Sigs
      /\ hyd.sig.img.here =>
           disk'.img = disk.img /\ disk'.lane = disk.lane /\ (disk.meta = hyd.sig.meta => disk' = disk)
  BY <1>1, <1>3, Landing DEF IInv
<1>5. /\ ent' \in Entries /\ (tail.debt => ent'.reg) /\ (~tail.debt => ent' = ent)
      /\ (ent.reg => ent' = ent) /\ (ent'.hot => ent'.reg)
  <2>1. CASE tail.debt /\ ~ent.reg
    <3>1. disk'.meta \in Nat
      BY <1>4 DEF Sigs
    <3> DEFINE y == TRUE
               m == disk'.meta
    <3>2. ent' = [NoEntry EXCEPT !.reg = y, !.meta = m] /\ y \in BOOLEAN
      BY <1>1, <2>1
    <3>3. NoEntry.hot = FALSE
      BY DEF NoEntry
    <3> HIDE DEF y, m
    <3>4. ent' \in Entries /\ ent'.reg = y /\ ent'.hot = FALSE
      BY <3>1, <3>2, <3>3, NoSigType DEF Entries, m
    <3> QED BY <2>1, <3>4 DEF y
  <2>2. CASE ~(tail.debt /\ ~ent.reg)
    <3>1. ent' = ent /\ ent \in Entries /\ (ent.hot => ent.reg)
      BY <1>1, <1>2, <2>2 DEF LocalType, Locks
    <3> QED BY <2>2, <3>1
  <2> QED BY <2>1, <2>2
<1>6. pc \in PCs
  BY DEF PCs
<1>7. /\ th' \in [Threads -> Locals] /\ th'[Tailer].pc = pc
      /\ \A u \in Threads : u # Tailer => th'[u] = th[u]
  BY <1>1, <1>2, <1>6, TailerThread, Stepped
<1>8. LocalType'
  BY <1>1, <1>2, <1>4, <1>5, <1>7 DEF LocalType
<1>9. Fetches'
  BY <1>1, <1>2, <1>4, <1>7 DEF Fetches, Fetching, Targets, Live, p
<1>10. Locks'
  BY <1>1, <1>2, <1>5, <1>7, TailerThread DEF Locks, Fetching, Reading, p
<1>11. Targets'
  BY <1>1, <1>2, <1>4 DEF Targets, Live
<1>12. Shown'
  BY <1>1, <1>2, <1>5, <1>7 DEF Shown, Reading
<1>13. Lost' /\ DownIsBlank'
  BY <1>1, <1>2, <1>5, <1>7 DEF Lost, DownIsBlank, Targets, Live, p
<1>14. Polls'
  BY <1>1, <1>2, <1>5, <1>7 DEF Polls, p
<1>15. Stamps'
  BY <1>1, <1>2, <1>7, Quiet DEF IInv, Stamps, p
<1>16. UpInv'
  BY <1>1, BucketKept
<1> QED BY <1>8, <1>9, <1>10, <1>11, <1>12, <1>13, <1>14, <1>15, <1>16 DEF IInv

LEMMA RefreshKeeps == ASSUME IInv, Refresh PROVE IInv'
<1> DEFINE pc == IF Pinned THEN "ensure" ELSE "finish"
<1>1. /\ p = "refresh" /\ lock = Free /\ Step(Tailer, pc)
      /\ ent' = [ent EXCEPT !.meta = disk.meta, !.hot = FALSE, !.ops = <<>>]
      /\ tail' = [tail EXCEPT !.debt = FALSE] /\ lock' = IF Pinned THEN Tailer ELSE Free
      /\ UNCHANGED <<upstream, disk, record, hyd, faults>>
  BY DEF Refresh, p
<1>2. LocalType /\ Fetches /\ Locks /\ Targets /\ Shown /\ Lost /\ Polls /\ DownIsBlank /\ Stamps
  BY DEF IInv
<1>3. hyd.state = "Done" /\ ent.reg /\ hyd.sig = tail.sig
  BY <1>1, <1>2, TailerThread DEF Polls
<1>4. ent' \in Entries /\ ent'.reg = ent.reg /\ ent'.hot = FALSE /\ ent'.meta = disk.meta
  <2>1. ent \in Entries /\ disk.meta \in Nat /\ <<>> \in Seq(Nat)
    BY <1>2 DEF LocalType, Sigs
  <2> QED BY <1>1, <2>1 DEF Entries
<1>5. /\ tail' \in Tailers /\ tail'.gen = tail.gen /\ tail'.stamp = tail.stamp /\ tail'.sig = tail.sig
      /\ tail'.applied = tail.applied /\ tail'.debt = FALSE /\ tail'.blind = tail.blind
  BY <1>1, <1>2 DEF LocalType, Tailers
<1>6. pc \in PCs
  BY DEF PCs
<1>7. /\ th' \in [Threads -> Locals] /\ th'[Tailer].pc = pc
      /\ \A u \in Threads : u # Tailer => th'[u] = th[u]
  BY <1>1, <1>2, <1>6, TailerThread, Stepped
<1>8. LocalType'
  BY <1>1, <1>2, <1>4, <1>5, <1>7, TailerThread DEF LocalType
<1>9. Fetches'
  BY <1>1, <1>2, <1>3, <1>7 DEF Fetches, Fetching
<1>10. Locks'
  BY <1>1, <1>2, <1>3, <1>4, <1>7, TailerThread DEF Locks, Fetching, Reading
<1>11. Targets'
  BY <1>1, <1>2, <1>3, <1>5 DEF Targets
<1>12. Shown'
  <2>1. \A t \in Threads : th[t].pc \notin {"readimg", "readlane"}
    BY <1>1, <1>2, TailerThread DEF Locks, Reading
  <2>2. hyd.drift \/ disk.meta = hyd.sig.meta
    BY <1>2, <1>3 DEF Targets
  <2> QED BY <1>1, <1>3, <1>4, <1>7, <2>1, <2>2 DEF Shown, Reading
<1>13. Lost' /\ DownIsBlank'
  BY <1>1, <1>2, <1>3, <1>5, <1>7 DEF Lost, DownIsBlank, p
<1>14. Polls'
  BY <1>1, <1>2, <1>3, <1>4, <1>5, <1>7, TailerThread DEF Polls, p
<1>15. Stamps'
  BY <1>1, <1>2, <1>5, <1>7, Quiet DEF IInv, Stamps, p
<1>16. UpInv'
  BY <1>1, <1>5, BucketKept
<1> QED BY <1>8, <1>9, <1>10, <1>11, <1>12, <1>13, <1>14, <1>15, <1>16 DEF IInv

-----------------------------------------------------------------------------
(* The replica's process *)

\* A replica that is down, or has just started without a target.
LEMMA Blank ==
  ASSUME UpInv', disk' \in Sigs, record' \in Nat, faults' \in Nat, hyd' = NoHydrator, lock' = Free,
         th' = [t \in Threads |-> IF t = Tailer THEN [Idle EXCEPT !.pc = "down"] ELSE Idle],
         ent' = NoEntry, tail' = NewTailer
  PROVE  IInv'
<1> DEFINE w == [Idle EXCEPT !.pc = "down"]
<1>1. w \in Locals /\ w.pc = "down" /\ Idle \in Locals /\ Idle.pc = "idle"
  BY NoSigType DEF Locals, PCs
<1> HIDE DEF w
<1>2. th' \in [Threads -> Locals] /\ th'[Tailer].pc = "down" /\ \A r \in Threads : r # Tailer => th'[r].pc = "idle"
  BY <1>1, TailerThread DEF w
<1>3. /\ NoHydrator.sig = NoSig /\ NoHydrator.state = "absent" /\ ~NoSig.img.here
      /\ ~NoEntry.reg /\ ~NoEntry.hot
      /\ NewTailer.sig = NoSig /\ NewTailer.applied[1] = 0 /\ NewTailer.gen = 0 /\ ~NewTailer.debt
  BY NoSigType DEF NoHydrator, NoEntry, NewTailer
<1>4. LocalType'
  BY <1>2, NoSigType, TailerThread DEF LocalType
<1>5. Fetches' /\ Locks'
  BY <1>2, <1>3, TailerThread DEF Fetches, Fetching, Locks, Reading
<1>6. Targets' /\ Shown' /\ Lost'
  BY <1>2, <1>3 DEF Targets, Shown, Lost, Live, p
<1>7. Polls' /\ DownIsBlank'
  BY <1>2, <1>3, TailerThread DEF Polls, DownIsBlank, p
<1>8. Stamps'
  BY <1>2, <1>3 DEF Stamps, Stamped, p
<1> QED BY <1>4, <1>5, <1>6, <1>7, <1>8 DEF IInv

LEMMA CrashKeeps == ASSUME IInv, Crash PROVE IInv'
<1>1. UpInv'
  BY Quiet DEF Crash, IInv
<1>2. disk' \in Sigs /\ record' \in Nat /\ faults' \in Nat
  BY DEF Crash, Fault, IInv, LocalType
<1> QED BY <1>1, <1>2, Blank DEF Crash

LEMMA BootHydratesKeeps == ASSUME IInv, BootHydrates PROVE IInv'
<1> DEFINE g == NewestComplete
           sig == store[g].man.sig
           st == StateUnder(sig)
<1>1. /\ p = "down" /\ Step(Tailer, "idle") /\ disk' \in SharedLanding(g, sig)
      /\ hyd' = [NoHydrator EXCEPT !.gen = g, !.sig = sig, !.state = st]
      /\ ent' = [NoEntry EXCEPT !.reg = sig.img.here, !.meta = disk'.meta]
      /\ record' = g
      /\ UNCHANGED <<upstream, lock, tail, faults>>
  BY DEF BootHydrates, p
<1>2. LocalType /\ DownIsBlank
  BY DEF IInv
<1>3. /\ hyd = NoHydrator /\ lock = Free /\ tail = NewTailer /\ \A r \in Readers : th[r].pc = "idle"
  BY <1>1, <1>2 DEF DownIsBlank
<1>4. g \in Gens /\ g \in Nat /\ sig \in Sigs
  BY Newest, GensAreNumbers DEF IInv, UpInv, UpstreamType, Objects, Manifests
<1>5. disk' \in Sigs /\ (sig.img.here => disk'.meta = sig.meta)
  BY <1>1, <1>2, <1>4, Landing DEF IInv, LocalType
<1>6. st = IF sig.img.here THEN "Pending" ELSE "absent"
  BY <1>3 DEF StateUnder, NoHydrator
<1> HIDE DEF st, sig
<1>7. /\ hyd' \in Hydrators /\ hyd'.gen = g /\ hyd'.sig = sig /\ hyd'.state = st
  BY <1>1, <1>4, <1>6, NoSigType DEF Hydrators, States, Live
<1>8. ent' \in Entries /\ ent'.reg = sig.img.here /\ ent'.hot = FALSE /\ ent'.meta = disk'.meta
  <2>1. sig.img.here \in BOOLEAN /\ disk'.meta \in Nat /\ NoEntry.hot = FALSE
    BY <1>4, <1>5 DEF Sigs, Images, NoEntry
  <2> DEFINE y == sig.img.here
             m == disk'.meta
  <2>2. ent' = [NoEntry EXCEPT !.reg = y, !.meta = m]
    BY <1>1
  <2> HIDE DEF y, m
  <2>3. ent' \in Entries /\ ent'.reg = y /\ ent'.hot = FALSE /\ ent'.meta = m
    BY <2>1, <2>2, NoSigType DEF Entries, y, m
  <2> QED BY <2>3 DEF y, m
<1>9. /\ ~tail.debt /\ tail.applied[1] = 0 /\ tail.gen = 0 /\ tail.sig = NoSig
  BY <1>3 DEF NewTailer
<1>10. "idle" \in PCs
  BY DEF PCs
<1>11. /\ th' \in [Threads -> Locals] /\ th'[Tailer].pc = "idle"
       /\ \A u \in Threads : u # Tailer => th'[u] = th[u]
  BY <1>1, <1>2, <1>10, TailerThread, Stepped
<1>12. \A u \in Threads : th'[u].pc = "idle"
  BY <1>3, <1>11 DEF Threads
<1>13. LocalType'
  BY <1>1, <1>2, <1>4, <1>5, <1>7, <1>8, <1>11 DEF LocalType
<1>14. Fetches' /\ Locks'
  BY <1>1, <1>3, <1>8, <1>12, TailerThread DEF Fetches, Fetching, Locks, Reading
<1>15. Targets'
  BY <1>1, <1>4, <1>6, <1>7, <1>9 DEF Targets, Live
<1>16. Shown'
  BY <1>1, <1>5, <1>6, <1>7, <1>8, <1>12 DEF Shown, Live, Reading
<1>17. Lost' /\ DownIsBlank'
  BY <1>6, <1>7, <1>8, <1>11 DEF Lost, DownIsBlank, p
<1>18. Polls'
  BY <1>1, <1>3, <1>11, TailerThread DEF Polls, p
<1>19. Stamps'
  <2>1. tail'.applied[1] = 0 /\ tail'.gen = 0
    BY <1>1, <1>9
  <2>2. ~(0 = NewestComplete')
    BY <1>1, <1>4, Quiet, GensAreNumbers DEF IInv
  <2> QED BY <1>11, <2>1, <2>2 DEF Stamps, Stamped, Current, p
<1>20. UpInv'
  BY <1>1, <1>4, <1>7, <1>9, Quiet DEF IInv
<1> QED BY <1>13, <1>14, <1>15, <1>16, <1>17, <1>18, <1>19, <1>20 DEF IInv

LEMMA BootDegradedKeeps == ASSUME IInv, BootDegraded PROVE IInv'
<1>1. /\ p = "down" /\ Step(Tailer, "idle")
      /\ ent' = [NoEntry EXCEPT !.reg = disk.img.here, !.meta = disk.meta]
      /\ tail' = [NewTailer EXCEPT !.blind = TRUE]
      /\ UNCHANGED <<upstream, disk, record, hyd, lock, faults>>
  BY DEF BootDegraded, p
<1>2. LocalType /\ DownIsBlank
  BY DEF IInv
<1>3. /\ hyd = NoHydrator /\ lock = Free /\ \A r \in Readers : th[r].pc = "idle"
  BY <1>1, <1>2 DEF DownIsBlank
<1>4. hyd.sig = NoSig /\ hyd.state = "absent" /\ ~NoSig.img.here
  BY <1>3, NoSigType DEF NoHydrator
<1>5. ent' \in Entries /\ ent'.hot = FALSE
  <2>1. disk.img.here \in BOOLEAN /\ disk.meta \in Nat /\ NoEntry.hot = FALSE
    BY <1>2 DEF LocalType, Sigs, Images, NoEntry
  <2> QED BY <1>1, <2>1, NoSigType DEF Entries
<1>6. /\ tail' \in Tailers /\ tail'.gen = 0 /\ tail'.applied[1] = 0 /\ tail'.sig = NoSig /\ tail'.debt = FALSE
      /\ tail'.blind = TRUE
  <2>1. NewTailer.gen = 0 /\ NewTailer.applied[1] = 0 /\ NewTailer.sig = NoSig /\ NewTailer.debt = FALSE
    BY DEF NewTailer
  <2> QED BY <1>1, <2>1, NoSigType DEF Tailers
<1>7. "idle" \in PCs
  BY DEF PCs
<1>8. /\ th' \in [Threads -> Locals] /\ th'[Tailer].pc = "idle"
      /\ \A u \in Threads : u # Tailer => th'[u] = th[u]
  BY <1>1, <1>2, <1>7, TailerThread, Stepped
<1>9. \A u \in Threads : th'[u].pc = "idle"
  BY <1>3, <1>8 DEF Threads
<1>10. LocalType'
  BY <1>1, <1>2, <1>5, <1>6, <1>8 DEF LocalType
<1>11. Fetches' /\ Locks'
  BY <1>1, <1>3, <1>5, <1>9, TailerThread DEF Fetches, Fetching, Locks, Reading
<1>12. Targets' /\ Shown'
  BY <1>1, <1>4, <1>6 DEF Targets, Shown, Live
<1>13. Lost' /\ DownIsBlank'
  BY <1>1, <1>4, <1>6, <1>8 DEF Lost, DownIsBlank, p
<1>14. Polls'
  BY <1>1, <1>3, <1>8, TailerThread DEF Polls, p
<1>15. Stamps'
  <2>1. ~(0 = NewestComplete')
    BY <1>1, Newest, Quiet, GensAreNumbers DEF IInv
  <2> QED BY <1>6, <1>8, <2>1 DEF Stamps, Stamped, Current, p
<1>16. UpInv'
  BY <1>1, <1>4, <1>6, Quiet DEF IInv
<1> QED BY <1>10, <1>11, <1>12, <1>13, <1>14, <1>15, <1>16 DEF IInv

-----------------------------------------------------------------------------
(* The invariant *)

LEMMA InitEstablishes == ASSUME Init PROVE IInv
<1> DEFINE l == LaneOf(0, 1, hist[1])
           e == 1
           first == [img |-> Image(<<>>), lane |-> l, meta |-> e]
           o == Shipped(first)
<1>1. acked \in Nat
  BY ReplicaConstants DEF Init
<1>2. hist \in [Gens -> Seq(Nat)] /\ hist[1] \in Seq(Nat)
  <2> DEFINE k == acked
             h == [i \in 1..k |-> i]
  <2>1. h \in Seq(Nat)
    <3>1. k \in Nat
      BY <1>1
    <3> HIDE DEF k
    <3>2. h \in [1..k -> Nat]
      BY <3>1
    <3> QED BY <3>1, <3>2, SeqDef
  <2>2. hist = [g \in Gens |-> IF g = 1 THEN h ELSE <<>>]
    BY DEF Init
  <2> HIDE DEF h
  <2> QED BY <2>1, <2>2, EmptySeq, GensAreNumbers
<1>3. l \in Lanes
  BY <1>2, LaneOfType
<1>4. Image(<<>>) \in Images
  BY ImageType, EmptySeq
<1>5. store = [g \in Gens |-> IF g > 1 THEN EmptyStore ELSE o] /\ past = {} /\ cycles = 0
  BY DEF Init
<1>6. first \in Sigs
  <2>1. e \in Nat
    OBVIOUS
  <2> HIDE DEF l, e
  <2> QED BY <1>3, <1>4, <2>1 DEF Sigs
<1> HIDE DEF first
<1>7. o \in Objects /\ o.man.stamp = 1
  BY <1>6, ShippedType
<1> HIDE DEF o
<1>8. EmptyStore \in Objects
  BY NoImageType, NoLaneType, NoSigType DEF EmptyStore, NoManifest, Objects, Manifests
<1>9. UpInv
  <2>1. store \in [Gens -> Objects] /\ store[1] = o /\ 1 \in Gens
    BY <1>5, <1>7, <1>8, GensAreNumbers
  <2>2. 1 \in Complete
    BY <1>7, <2>1 DEF Complete
  <2>3. cycles \in Nat /\ past \subseteq Seq(Nat)
    BY <1>5
  <2> QED BY <1>1, <1>2, <2>1, <2>2, <2>3 DEF UpInv, UpstreamType
<1>10. disk \in Sigs
  <2> DEFINE i == Image(<<>>)
             d == [NoFamily EXCEPT !.img = i]
  <2>1. disk \in {NoFamily, d}
    BY DEF Init
  <2>2. NoFamily \in Sigs
    BY NoSigType
  <2>3. d \in Sigs
    <3> HIDE DEF i
    <3> QED BY <1>4, <2>2 DEF Sigs, i
  <2> QED BY <2>1, <2>2, <2>3
<1>11. record \in Nat
  BY DEF Init
<1>12. /\ faults = 0 /\ hyd = NoHydrator /\ lock = Free /\ ent = NoEntry /\ tail = NewTailer
       /\ th = [t \in Threads |-> IF t = Tailer THEN [Idle EXCEPT !.pc = "down"] ELSE Idle]
  BY DEF Init
<1> DEFINE w == [Idle EXCEPT !.pc = "down"]
<1>13. w \in Locals /\ w.pc = "down" /\ Idle \in Locals /\ Idle.pc = "idle"
  BY NoSigType DEF Locals, PCs
<1> HIDE DEF w
<1>14. th \in [Threads -> Locals] /\ th[Tailer].pc = "down" /\ \A r \in Threads : r # Tailer => th[r].pc = "idle"
  BY <1>12, <1>13, TailerThread DEF w
<1>15. /\ NoHydrator.sig = NoSig /\ NoHydrator.state = "absent" /\ ~NoSig.img.here
       /\ ~NoEntry.reg /\ ~NoEntry.hot
       /\ NewTailer.sig = NoSig /\ NewTailer.applied[1] = 0 /\ NewTailer.gen = 0 /\ ~NewTailer.debt
  BY NoSigType DEF NoHydrator, NoEntry, NewTailer
<1>16. LocalType
  BY <1>10, <1>11, <1>12, <1>14, NoSigType, TailerThread DEF LocalType
<1>17. Fetches /\ Locks
  BY <1>12, <1>14, <1>15, TailerThread DEF Fetches, Fetching, Locks, Reading
<1>18. Targets /\ Shown /\ Lost
  BY <1>12, <1>14, <1>15 DEF Targets, Shown, Lost, Live, p
<1>19. Polls /\ DownIsBlank
  BY <1>12, <1>14, <1>15, TailerThread DEF Polls, DownIsBlank, p
<1>20. Stamps
  BY <1>12, <1>14, <1>15 DEF Stamps, Stamped, p
<1> QED BY <1>9, <1>16, <1>17, <1>18, <1>19, <1>20 DEF IInv

LEMMA NextKeeps == ASSUME IInv, [Next]_vars PROVE IInv'
<1>1. CASE Upstream
  BY <1>1, UpstreamKeeps
<1>2. ASSUME NEW t \in Threads, Ensure(t) PROVE IInv'
  BY <1>2, EnsureClaimsKeeps, EnsurePassesKeeps, FetchImageKeeps, FetchLaneKeeps, RefreshExtentKeeps,
     SettleKeeps, FetchFailsKeeps DEF Ensure
<1>3. ASSUME NEW t \in Threads, Load(t) PROVE IInv'
  BY <1>3, ReadImageKeeps, ImageUnreadableKeeps, ReplayLaneKeeps DEF Load
<1>4. ASSUME NEW r \in Readers, StartLoad(r) \/ Touch(r) PROVE IInv'
  BY <1>4, StartLoadKeeps, TouchKeeps
<1>5. CASE Poll
  BY <1>5, PollLooksKeeps, PollReadsKeeps, PollFailsKeeps, RetargetKeeps, DeregisterKeeps,
     HydrateSharedKeeps, SharedRotKeeps, RefreshKeeps, PollEndsKeeps DEF Poll
<1>6. CASE Evict \/ Crash \/ BootHydrates \/ BootDegraded
  BY <1>6, EvictKeeps, CrashKeeps, BootHydratesKeeps, BootDegradedKeeps
<1>7. CASE UNCHANGED vars
  <2>1. UNCHANGED <<upstream, disk, record, hyd, ent, lock, th, tail, faults>>
    BY <1>7 DEF vars
  <2>2. LocalType /\ Fetches /\ Locks /\ Targets /\ Shown /\ Lost /\ Polls /\ DownIsBlank /\ Stamps
    BY DEF IInv
  <2>3. LocalType' /\ Fetches' /\ Locks' /\ Targets'
    BY <2>1, <2>2 DEF LocalType, Fetches, Locks, Targets, Fetching, Reading
  <2>4. Shown' /\ Lost' /\ Polls' /\ DownIsBlank'
    BY <2>1, <2>2 DEF Shown, Lost, Polls, DownIsBlank, Reading, p
  <2>5. Stamps'
    BY <2>1, <2>2, Quiet DEF IInv, Stamps, p
  <2>6. UpInv'
    BY <2>1, BucketKept
  <2> QED BY <2>3, <2>4, <2>5, <2>6 DEF IInv
<1> QED BY <1>1, <1>2, <1>3, <1>4, <1>5, <1>6, <1>7 DEF Next

\* The inductive invariant holds in every behaviour.
THEOREM Invariance == Spec => []IInv
<1>1. Init => IInv
  BY InitEstablishes
<1>2. IInv /\ [Next]_vars => IInv'
  BY NextKeeps
<1> QED BY <1>1, <1>2, PTL DEF Spec

-----------------------------------------------------------------------------
(* What it says of reads *)

LEMMA ReadsFit == ASSUME IInv PROVE DebtFreeReadsArePrefix
<1>1. LocalType /\ Locks /\ Targets /\ Shown /\ Lost
  BY DEF IInv
<1>2. SUFFICES ASSUME Whole(hyd.sig),
                      ~tail.debt, p # "deregister", ~(tail.blind /\ hyd.state = "absent"),
                      ~(hyd.state = "Done" /\ hyd.drift), ent.hot
               PROVE  Prefix(ent.ops)
  BY DEF DebtFreeReadsArePrefix, SteadyReadsArePrefix, ReadsArePrefix, p
<1>3. ent.reg
  BY <1>1, <1>2 DEF Locks
<1>4. hyd.state \in Live
  <2>1. hyd.state \in States
    BY <1>1 DEF LocalType, Hydrators
  <2> QED BY <1>1, <1>2, <1>3, <2>1 DEF Lost, States
<1>5. ent.ops = Loaded(hyd.sig.img, hyd.sig.lane)
  BY <1>1, <1>2, <1>4 DEF Shown
<1>6. hyd.sig.img \in Images /\ hyd.sig.lane \in Lanes
  BY <1>1 DEF LocalType, Hydrators, Sigs
<1>7. PICK h \in Histories : CutFrom(hyd.sig.img, hyd.sig.lane, h)
  BY <1>2 DEF Whole
<1>8. h \in Seq(Nat)
  BY DEF IInv, UpInv, UpstreamType, Histories
<1>9. IsPrefix(ent.ops, h)
  BY <1>5, <1>6, <1>7, <1>8, LoadedAgrees, LoadedType, BeginsPrefix
<1> QED BY <1>9 DEF Prefix

LEMMA AppliedFits == ASSUME IInv PROVE AppliedMeansCurrent
<1> DEFINE g == NewestComplete
           sig == store[g].man.sig
<1>1. LocalType /\ Locks /\ Targets /\ Shown /\ Lost /\ Stamps
  BY DEF IInv
<1>2. SUFFICES ASSUME p = "idle", tail.applied = <<g, store[g].man.stamp>>
               PROVE  IF sig.img.here
                      THEN /\ ent.reg
                           /\ hyd.drift \/ (ent.meta = sig.meta /\ disk = sig)
                           /\ hyd.drift \/ ~ent.hot \/ ent.ops = Loaded(sig.img, sig.lane)
                      ELSE ~ent.reg \/ tail.blind
  BY DEF AppliedMeansCurrent, p
<1>3. Current(tail.applied[1], tail.applied[2])
  BY <1>2 DEF Current
<1>4. hyd.sig = sig /\ ~tail.debt /\ (sig.img.here => hyd.state = "Done")
  BY <1>1, <1>2, <1>3 DEF Stamps
<1>5. CASE sig.img.here
  BY <1>1, <1>4, <1>5 DEF Shown, Targets, Live
<1>6. CASE ~sig.img.here
  <2>1. hyd.state \in States /\ hyd.state \notin Live
    BY <1>1, <1>4, <1>6 DEF LocalType, Hydrators, Targets
  <2> QED BY <1>1, <1>2, <1>6, <2>1 DEF Lost, States
<1> QED BY <1>5, <1>6

\* replica.rs: while the hydrator aims at a manifest cut from one history and no refresh is
\* owed, every read is an exact prefix of a history the writer acknowledged, with the
\* exceptions the definition names.
THEOREM ReadsServePrefixes == Spec => []DebtFreeReadsArePrefix
<1>1. IInv => DebtFreeReadsArePrefix
  BY ReadsFit
<1> QED BY <1>1, Invariance, PTL

\* A poll that finds its stamp applied has nothing of an earlier manifest left to refresh.
THEOREM AppliedIsCurrent == Spec => []AppliedMeansCurrent
<1>1. IInv => AppliedMeansCurrent
  BY AppliedFits
<1> QED BY <1>1, Invariance, PTL

\* Every variable keeps its type.
THEOREM TypeCorrect == Spec => []TypeOK
<1>1. IInv => TypeOK
  BY DEF IInv, UpInv, TypeOK
<1> QED BY <1>1, Invariance, PTL

=============================================================================
