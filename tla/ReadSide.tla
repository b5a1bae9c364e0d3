------------------------------ MODULE ReadSide ------------------------------
(***************************************************************************)
(* What readers of one context are told while others write to it: the     *)
(* revision counters (registry.rs), the retrieval cache keyed on them     *)
(* (registry/retrieval_cache.rs), the lexical index the passage search    *)
(* reads (registry.rs refresh_bm25, registry/search.rs bm25_index) and    *)
(* the change feed a syncing client polls (registry/changes.rs).          *)
(*                                                                         *)
(* Every change of what the context serves is a fresh number, and a part  *)
(* of the context is the set of changes it shows.  A response is what the *)
(* parts it was computed from showed.                                      *)
(*                                                                         *)
(* Retrievals and the syncing client only observe the writers, never one   *)
(* another, so a behaviour has observers of one kind (client.on) and       *)
(* keeps the ring, which nothing else reads, only for a client.            *)
(***************************************************************************)
EXTENDS Naturals, Sequences, FiniteSets

CONSTANTS
  Writers,      \* request threads: passage stores, retractions, vector refreshes
  Readers,      \* request threads: recalls and passage searches
  RingCap,      \* CHANGE_RING_CAP
  Budget,       \* the cache's byte budget; an ordinary response costs 1
  MaxChanges,   \* bound on changes
  MaxBirths,    \* bound on creations of the context
  MaxReads      \* bound on retrievals

ASSUME ReadSideConstants ==
  /\ RingCap \in Nat \ {0} /\ Budget \in Nat
  /\ MaxChanges \in Nat /\ MaxBirths \in Nat \ {0} /\ MaxReads \in Nat

VARIABLES
  entry,      \* the registered context: what it shows, its counters, its nonce
  index,      \* Entry::bm25: resident or not, and the changes folded into it
  ring,       \* Entry::changes
  cache,      \* RetrievalCache, stalest slot first
  rd,         \* each reader's request
  wr,         \* each writer's request
  client,     \* a client syncing through the feed (external)
  mint,       \* the last change, cache identity, ring epoch, creation and retrieval
  acked,      \* changes whose call has returned, by the part they changed
  overtaken,  \* changes another batch's bump named before they were folded
  quiet       \* changes no event follows

vars == <<entry, index, ring, cache, rd, wr, client, mint, acked, overtaken, quiet>>

Parts == {"graph", "store", "index", "config"}
Synced == {"graph", "store"}
Ops == {"recall", "search"}
Idle == [pc |-> "idle"]

-----------------------------------------------------------------------------
(* The change ring. *)

\* push: the oldest event makes room.
Push(r, parts) ==
  [r EXCEPT !.next = @ + 1,
            !.events = Append(IF Len(@) = RingCap THEN Tail(@) ELSE @,
                              [seq |-> r.next, parts |-> parts])]

\* an off-by-one in the eviction test
MutIsStale(r, cursor) ==
  \/ cursor.epoch # r.epoch
  \/ cursor.seq > r.next - 1
  \/ r.events # <<>> /\ cursor.seq + 2 < Head(r.events).seq

\* The cursor is another ring's, from this ring's future, or what follows it
\* has been evicted.
IsStale(r, cursor) ==
  \/ cursor.epoch # r.epoch
  \/ cursor.seq > r.next - 1
  \/ r.events # <<>> /\ cursor.seq + 1 < Head(r.events).seq

\* read: at most limit events after the cursor.
Page(r, cursor, limit) ==
  LET after == {i \in DOMAIN r.events : r.events[i].seq > cursor.seq}
      page  == {i \in after : Cardinality({j \in after : j <= i}) <= limit}
      last  == CHOOSE i \in page : \A j \in page : j <= i
      upto  == IF page = {} THEN cursor.seq ELSE r.events[last].seq
  IN  [next |-> upto, more |-> upto < r.next - 1,
       parts |-> UNION {r.events[i].parts : i \in page}]

-----------------------------------------------------------------------------
(* The retrieval cache. *)

\* op_lanes: the counters the operation's key carries.
OpLanes(op) == IF op = "recall" THEN <<entry.graph, entry.passages>>
                                ELSE <<entry.passages, entry.config>>

\* The parts a response is computed from, in the order they are read.
Reads(op) == IF op = "recall" THEN <<"graph", "store">> ELSE <<"index", "config">>

RetrievalKey(op) == [op |-> op, id |-> entry.id, lanes |-> OpLanes(op)]

Slots(key) == {i \in DOMAIN cache : cache[i].key = key}

\* A key has one slot at most.
Slot(key) == CHOOSE i \in Slots(key) : TRUE
Without(key) ==
  IF Slots(key) = {} THEN cache
  ELSE SubSeq(cache, 1, Slot(key) - 1) \o SubSeq(cache, Slot(key) + 1, Len(cache))

\* lookup: a hit becomes the most recent slot.
Touched(key) == Append(Without(key), cache[Slot(key)])

\* insert: a response past a quarter of the budget is not filed; a twin is
\* replaced; the stalest slots go until the new one fits.
Insert(key, value, cost) ==
  IF cost > Budget \div 4 THEN cache
  ELSE LET rest == Without(key)
           over == IF Len(rest) + cost > Budget THEN Len(rest) + cost - Budget ELSE 0
       IN  Append(SubSeq(rest, over + 1, Len(rest)), [key |-> key, value |-> value])

-----------------------------------------------------------------------------
(* The context and the changes made to it. *)

Newborn(n, c) ==
  [live |-> TRUE, id |-> n, birth |-> n, graph |-> 0, passages |-> 0, config |-> 0,
   watermark |-> 0, shows |-> [p \in Parts \ {"index"} |-> {c}]]

Init ==
  /\ mint = [change |-> 0, id |-> 1, epoch |-> 1, birth |-> 1, reads |-> 0]
  /\ entry = Newborn(1, 0)
  /\ index = [resident |-> FALSE, shows |-> {}]
  /\ ring = [epoch |-> 1, next |-> 1, events |-> <<>>]
  /\ cache = <<>>
  /\ rd = [r \in Readers |-> Idle]
  /\ wr = [w \in Writers |-> Idle]
  /\ \E on \in BOOLEAN :
       client = [on |-> on, cursor |-> [epoch |-> 0, seq |-> 0], pull |-> {}, more |-> TRUE,
                 saw |-> 0, mirror |-> [p \in Synced |-> {}]]
  /\ acked = [p \in Parts |-> {0}]
  /\ overtaken = {}
  /\ quiet = {}

Fresh == mint.change + 1
Showing(part) == [entry.shows EXCEPT ![part] = @ \cup {Fresh}]
MayChange == entry.live /\ mint.change < MaxChanges

Ack(parts, c) == acked' = [p \in Parts |-> acked[p] \cup IF p \in parts THEN {c} ELSE {}]

\* The shared fence (a read lock of inner): the writers and readers holding it.
Fenced == \/ \E w \in Writers : wr[w].pc \in {"fold", "bump", "max", "feed"}
          \/ \E r \in Readers : rd[r].pc = "second" /\ rd[r].key.op = "search"

\* extend: one event per source of a batch, one for any other call.
Announce(n, parts) ==
  CASE n = 0 \/ ~client.on -> ring
    [] n = 1 /\ client.on -> Push(ring, parts)
    [] n = 2 /\ client.on -> Push(Push(ring, parts), parts)

\* logged_write: apply, count and announce under the entry's exclusive lock.
LoggedWrite(announced) ==
  /\ MayChange /\ ~Fenced
  /\ mint' = [mint EXCEPT !.change = Fresh]
  /\ entry' = [entry EXCEPT !.shows = Showing("graph"), !.graph = @ + 1]
  /\ ring' = Announce(1, announced)
  /\ Ack({"graph"}, Fresh)
  /\ UNCHANGED <<index, cache, rd, client, overtaken, quiet>>

Write == LoggedWrite({"graph"}) /\ UNCHANGED wr

\* retract_source, the graph half; touched says whether it found anything.
RetractGraph(w) ==
  /\ wr[w].pc = "idle" /\ entry.live
  /\ \E touched \in BOOLEAN :
       /\ wr' = [wr EXCEPT ![w] = [pc |-> "passage", touched |-> touched]]
       /\ IF touched THEN LoggedWrite(Synced)
          ELSE UNCHANGED <<entry, index, ring, cache, rd, client, mint, acked, overtaken, quiet>>

\* A batch of the passage store, logged and applied under its writer mutex.
PassageBatch(w, events) ==
  /\ MayChange
  /\ mint' = [mint EXCEPT !.change = Fresh]
  /\ entry' = [entry EXCEPT !.shows = Showing("store"), !.watermark = @ + 1]
  /\ wr' = [wr EXCEPT ![w] = [pc |-> "fold", change |-> Fresh, seq |-> entry.watermark + 1,
                              events |-> events]]
  /\ UNCHANGED <<index, ring, cache, rd, client, acked, overtaken, quiet>>

\* store_passages announces every source of the batch.
StorePassages(w) ==
  /\ wr[w].pc = "idle"
  /\ \E sources \in 1..2 : PassageBatch(w, sources)

\* retract_source, the passage half: announced only when the graph half was not.
RetractPassage(w) ==
  /\ wr[w].pc = "passage"
  /\ PassageBatch(w, IF wr[w].touched THEN 0 ELSE 1)

\* Nothing to remove, the removal failed, or the context is gone.
RetractNothing(w) ==
  /\ wr[w].pc = "passage"
  /\ wr' = [wr EXCEPT ![w] = Idle]
  /\ UNCHANGED <<entry, index, ring, cache, rd, client, mint, acked, overtaken, quiet>>

\* refresh_bm25: fold the batch's sources into a resident index.
Fold(w) ==
  /\ wr[w].pc = "fold"
  /\ index' = IF index.resident THEN [index EXCEPT !.shows = @ \cup {wr[w].change}] ELSE index
  /\ wr' = [wr EXCEPT ![w].pc = "bump"]
  /\ UNCHANGED <<entry, ring, cache, rd, client, mint, acked, overtaken, quiet>>

\* store.watermark(), the argument of the bump: it covers every applied batch.
ReadWatermark(w) ==
  /\ wr[w].pc = "bump"
  /\ wr' = [wr EXCEPT ![w] = [pc |-> "max", change |-> @.change, seq |-> entry.watermark,
                              events |-> @.events]]
  /\ UNCHANGED <<entry, index, ring, cache, rd, client, mint, acked, overtaken, quiet>>

\* passage_revision.fetch_max
FetchMax(w) == IF wr[w].seq > entry.passages THEN wr[w].seq ELSE entry.passages

BumpPassages(w) ==
  /\ wr[w].pc = "max"
  /\ entry' = [entry EXCEPT !.passages = FetchMax(w)]
  /\ overtaken' = overtaken \cup
       {wr[x].change : x \in {y \in Writers : wr[y].pc = "fold" /\ wr[y].seq <= wr[w].seq}}
  /\ wr' = [wr EXCEPT ![w].pc = "feed"]
  /\ UNCHANGED <<index, ring, cache, rd, client, mint, acked, quiet>>

\* The events, the end of the fence, the answer.
Feed(w) ==
  /\ wr[w].pc = "feed"
  /\ ring' = Announce(wr[w].events, {"store"})
  /\ quiet' = IF wr[w].events = 0 THEN quiet \cup {wr[w].change} ELSE quiet
  /\ Ack({"store", "index"}, wr[w].change)
  /\ wr' = [wr EXCEPT ![w] = Idle]
  /\ UNCHANGED <<entry, index, cache, rd, client, mint, overtaken>>

\* refresh_passage_embeddings: publish the vectors under the fence ...
PublishVectors(w) ==
  /\ wr[w].pc = "idle" /\ MayChange
  /\ mint' = [mint EXCEPT !.change = Fresh]
  /\ entry' = [entry EXCEPT !.shows = Showing("config")]
  /\ wr' = [wr EXCEPT ![w] = [pc |-> "vectors", change |-> Fresh, birth |-> entry.birth]]
  /\ UNCHANGED <<index, ring, cache, rd, client, acked, overtaken, quiet>>

\* ... and bump after it, unless the entry is a tombstone by then.
BumpConfig(w) ==
  /\ wr[w].pc = "vectors" /\ ~Fenced
  /\ wr' = [wr EXCEPT ![w] = Idle]
  /\ IF entry.live /\ entry.birth = wr[w].birth
     THEN entry' = [entry EXCEPT !.config = @ + 1] /\ Ack({"config"}, wr[w].change)
     ELSE UNCHANGED <<entry, acked>>
  /\ UNCHANGED <<index, ring, cache, rd, client, mint, overtaken, quiet>>

\* update_meta that changed something and whose sidecar was written.
UpdateMeta ==
  /\ MayChange /\ ~Fenced
  /\ mint' = [mint EXCEPT !.change = Fresh]
  /\ entry' = [entry EXCEPT !.shows = Showing("config"), !.config = @ + 1]
  /\ Ack({"config"}, Fresh)
  /\ UNCHANGED <<index, ring, cache, rd, wr, client, overtaken, quiet>>

\* put_schema of a new document: also a new identity and an event.
PutSchema ==
  /\ MayChange /\ ~Fenced
  /\ mint' = [mint EXCEPT !.change = Fresh, !.id = @ + 1]
  /\ entry' = [entry EXCEPT !.shows = Showing("config"), !.config = @ + 1,
                            !.id = mint.id + 1]
  /\ ring' = Announce(1, {})
  /\ Ack({"config"}, Fresh)
  /\ UNCHANGED <<index, cache, rd, wr, client, overtaken, quiet>>

\* compact_context: other graph content under unmoved counters, a new identity.
Compacted == [entry EXCEPT !.shows = Showing("graph"), !.id = mint.id + 1]

Compact ==
  /\ MayChange /\ ~Fenced
  /\ mint' = [mint EXCEPT !.change = Fresh, !.id = @ + 1]
  /\ entry' = Compacted
  /\ quiet' = quiet \cup {Fresh}
  /\ Ack({"graph"}, Fresh)
  /\ UNCHANGED <<index, ring, cache, rd, wr, client, overtaken>>

\* evict_entry drops the index; the next search builds it again.
EvictIndex ==
  /\ index.resident
  /\ \A r \in Readers : rd[r].pc = "second" => rd[r].key.op # "search"
  /\ index' = [resident |-> FALSE, shows |-> {}]
  /\ UNCHANGED <<entry, ring, cache, rd, wr, client, mint, acked, overtaken, quiet>>

Delete ==
  /\ entry.live /\ ~Fenced
  /\ entry' = [entry EXCEPT !.live = FALSE]
  /\ UNCHANGED <<index, ring, cache, rd, wr, client, mint, acked, overtaken, quiet>>

\* create_if_absent under the same id: new counters, ring, identity, index.
Recreate ==
  /\ ~entry.live /\ mint.birth < MaxBirths /\ mint.change < MaxChanges
  /\ mint' = [mint EXCEPT !.change = Fresh, !.id = @ + 1, !.epoch = @ + 1, !.birth = @ + 1]
  /\ entry' = [Newborn(mint.id + 1, Fresh) EXCEPT !.birth = mint.birth + 1]
  /\ index' = [resident |-> FALSE, shows |-> {}]
  /\ ring' = [epoch |-> mint.epoch + 1, next |-> 1, events |-> <<>>]
  /\ acked' = [p \in Parts |-> {Fresh}]
  /\ UNCHANGED <<cache, rd, wr, client, overtaken, quiet>>

-----------------------------------------------------------------------------
(* A retrieval: the key, the cache, the search, the filing. *)

MintKey(r) ==
  /\ rd[r].pc \in {"idle", "done"} /\ entry.live /\ ~client.on /\ mint.reads < MaxReads
  /\ mint' = [mint EXCEPT !.reads = @ + 1]
  /\ \E op \in Ops :
       rd' = [rd EXCEPT ![r] = [pc |-> "probe", key |-> RetrievalKey(op), birth |-> entry.birth,
                                value |-> <<>>,
                                due |-> [i \in 1..2 |-> acked[Reads(op)[i]]]]]
  /\ UNCHANGED <<entry, index, ring, cache, wr, client, acked, overtaken, quiet>>

Hit(r) ==
  /\ rd[r].pc = "probe"
  /\ \E i \in Slots(rd[r].key) :
       rd' = [rd EXCEPT ![r].pc = "done", ![r].value = cache[i].value]
  /\ cache' = Touched(rd[r].key)
  /\ UNCHANGED <<entry, index, ring, wr, client, mint, acked, overtaken, quiet>>

\* bm25_index: a cold index is built from the store.
Built == IF index.resident THEN index ELSE [resident |-> TRUE, shows |-> entry.shows.store]

\* A miss, and the first part of the search.
First(r) ==
  /\ rd[r].pc = "probe" /\ Slots(rd[r].key) = {}
  /\ IF ~entry.live
     THEN rd' = [rd EXCEPT ![r] = Idle] /\ UNCHANGED index
     ELSE IF rd[r].key.op = "search"
     THEN /\ index' = Built
          /\ rd' = [rd EXCEPT ![r].pc = "second", ![r].value = <<Built.shows>>]
     ELSE /\ rd' = [rd EXCEPT ![r].pc = "second", ![r].value = <<entry.shows.graph>>]
          /\ UNCHANGED index
  /\ UNCHANGED <<entry, ring, cache, wr, client, mint, acked, overtaken, quiet>>

Second(r) ==
  /\ rd[r].pc = "second"
  /\ rd' = [rd EXCEPT ![r].pc = "file",
                      ![r].value = Append(@, IF entry.live
                                             THEN entry.shows[Reads(rd[r].key.op)[2]] ELSE {})]
  /\ UNCHANGED <<entry, index, ring, cache, wr, client, mint, acked, overtaken, quiet>>

\* the key computed after the search
MutFiledUnder(r) == RetrievalKey(rd[r].key.op)

\* The key minted before the search.
FiledUnder(r) == rd[r].key

File(r) ==
  /\ rd[r].pc = "file"
  /\ \E cost \in {1, Budget} : cache' = Insert(FiledUnder(r), rd[r].value, cost)
  /\ rd' = [rd EXCEPT ![r].pc = "done"]
  /\ UNCHANGED <<entry, index, ring, wr, client, mint, acked, overtaken, quiet>>

-----------------------------------------------------------------------------
(* A syncing client (external): it takes a cursor, pulls everything, polls, *)
(* pulls again what the events name, and starts over on stale_cursor.       *)

\* since = None: a page with nothing but the cursor to poll from.
StartTailing ==
  /\ entry.live /\ client.on /\ client.cursor.epoch = 0
  /\ client' = [client EXCEPT !.cursor = [epoch |-> ring.epoch, seq |-> ring.next - 1],
                              !.pull = Synced, !.more = FALSE, !.saw = ring.next]
  /\ UNCHANGED <<entry, index, ring, cache, rd, wr, mint, acked, overtaken, quiet>>

\* context_changes
Poll ==
  /\ entry.live /\ client.cursor.epoch # 0 /\ client.pull = {}
  /\ \E limit \in 1..2 :
       LET page == Page(ring, client.cursor, limit)
       IN  client' = IF IsStale(ring, client.cursor)
                     THEN [client EXCEPT !.cursor = [epoch |-> 0, seq |-> 0], !.more = TRUE]
                     ELSE [client EXCEPT !.cursor = [@ EXCEPT !.seq = page.next],
                                         !.pull = page.parts, !.more = page.more,
                                         !.saw = ring.next]
  /\ UNCHANGED <<entry, index, ring, cache, rd, wr, mint, acked, overtaken, quiet>>

Pull ==
  /\ entry.live
  /\ \E p \in client.pull :
       client' = [client EXCEPT !.pull = @ \ {p}, !.mirror = [@ EXCEPT ![p] = entry.shows[p]]]
  /\ UNCHANGED <<entry, index, ring, cache, rd, wr, mint, acked, overtaken, quiet>>

-----------------------------------------------------------------------------
Next ==
  \/ Write \/ UpdateMeta \/ PutSchema \/ Compact \/ EvictIndex \/ Delete \/ Recreate
  \/ \E w \in Writers :
       \/ RetractGraph(w) \/ StorePassages(w) \/ RetractPassage(w) \/ RetractNothing(w)
       \/ Fold(w) \/ ReadWatermark(w) \/ BumpPassages(w) \/ Feed(w)
       \/ PublishVectors(w) \/ BumpConfig(w)
  \/ \E r \in Readers :
       \/ MintKey(r) \/ Hit(r) \/ First(r) \/ Second(r) \/ File(r)
  \/ StartTailing \/ Poll \/ Pull

Spec == Init /\ [][Next]_vars

-----------------------------------------------------------------------------
\* A retrieval shows every change whose call had returned when its key was
\* minted, answered from the cache or not: the key is taken before the search
\* and the counters move after the publish (retrieval_cache.rs retrieval_key,
\* EntryInner::cache_identity).  Excluded are passage batches that another
\* batch's bump named before they were folded into the index.
SearchesShowAcked ==
  \A r \in Readers :
    (rd[r].pc = "done" /\ entry.live /\ rd[r].birth = entry.birth)
      => \A i \in 1..2 : rd[r].due[i] \ overtaken \subseteq rd[r].value[i]

\* The same without the exclusion: what retrieval_cache.rs says of every hit.
HitsAreAsNewAsTheirKey ==
  \A r \in Readers :
    (rd[r].pc = "done" /\ entry.live /\ rd[r].birth = entry.birth)
      => \A i \in 1..2 : rd[r].due[i] \subseteq rd[r].value[i]

\* A client that polled until no more was promised, pulled what the events
\* named and saw no event since has every change that is announced: the ring
\* skips nothing without answering stale_cursor (changes.rs ChangeRing::read).
FeedSkipsNothing ==
  (/\ entry.live /\ client.cursor.epoch = ring.epoch
   /\ client.pull = {} /\ ~client.more /\ client.saw = ring.next
   /\ \A w \in Writers : wr[w].pc \in {"idle", "passage", "vectors"})
     => \A p \in Synced : entry.shows[p] \ quiet \subseteq client.mirror[p]
=============================================================================
