--------------------------- MODULE ReadSide_proofs ---------------------------
(***************************************************************************)
(* What readers of a context are told, proved for any number of writers    *)
(* and readers, any ring capacity and any cache budget: a retrieval shows  *)
(* what had been acknowledged when its key was minted, and the change feed *)
(* skips nothing.  FeedInv carries the feed, WriteInv what writers leave    *)
(* the context serving, ReadInv the responses readers hold or have filed.   *)
(***************************************************************************)
EXTENDS ReadSide, FiniteSetTheorems, SequenceTheorems, WellFoundedInduction, TLAPS

-----------------------------------------------------------------------------
(* Types *)

Folding == {"fold", "bump", "max", "feed"}
Changes == SUBSET Nat

Entry == [live : BOOLEAN, id : Nat, birth : Nat, graph : Nat, passages : Nat, config : Nat,
          watermark : Nat, shows : [Parts \ {"index"} -> Changes]]
Index == [resident : BOOLEAN, shows : Changes]
Event == [seq : Nat, parts : SUBSET Synced]
Ring == [epoch : Nat, next : Nat, events : Seq(Event)]
Key == [op : Ops, id : Nat, lanes : Nat \X Nat]
Response == [key : Key, value : Seq(Changes)]
Request == [pc : {"probe", "second", "file", "done"}, key : Key, birth : Nat,
            value : Seq(Changes), due : [1..2 -> Changes]]
Batch == [pc : Folding, change : Nat, seq : Nat, events : 0..2]
Retraction == [pc : {"passage"}, touched : BOOLEAN]
Refresh == [pc : {"vectors"}, change : Nat, birth : Nat]
Client == [on : BOOLEAN, cursor : [epoch : Nat, seq : Nat], pull : SUBSET Synced, more : BOOLEAN,
           saw : Nat, mirror : [Synced -> Changes]]
Mint == [change : Nat, id : Nat, epoch : Nat, birth : Nat, reads : Nat]

TypeOK ==
  /\ entry \in Entry /\ index \in Index /\ ring \in Ring /\ cache \in Seq(Response)
  /\ rd \in [Readers -> {Idle} \cup Request]
  /\ wr \in [Writers -> {Idle} \cup Batch \cup Retraction \cup Refresh]
  /\ client \in Client /\ mint \in Mint
  /\ acked \in [Parts -> Changes] /\ overtaken \in Changes /\ quiet \in Changes

\* The shape of a request follows from its program counter.
LEMMA WriterShape ==
  ASSUME TypeOK, NEW w \in Writers
  PROVE  /\ wr[w].pc \in Folding => wr[w] \in Batch
         /\ wr[w].pc = "passage" => wr[w] \in Retraction
         /\ wr[w].pc = "vectors" => wr[w] \in Refresh
         /\ wr[w].pc \in Folding \cup {"idle", "passage", "vectors"}
<1>1. wr[w] \in {Idle} \cup Batch \cup Retraction \cup Refresh
  BY DEF TypeOK
<1>2. Idle.pc = "idle"
  BY DEF Idle
<1> QED BY <1>1, <1>2 DEF Batch, Retraction, Refresh, Folding

LEMMA ReaderShape ==
  ASSUME TypeOK, NEW r \in Readers
  PROVE  /\ rd[r].pc # "idle" => rd[r] \in Request
         /\ rd[r].pc \in {"idle", "probe", "second", "file", "done"}
<1>1. rd[r] \in {Idle} \cup Request
  BY DEF TypeOK
<1>2. Idle.pc = "idle"
  BY DEF Idle
<1> QED BY <1>1, <1>2 DEF Request

LEMMA ShowsType ==
  ASSUME TypeOK
  PROVE  /\ entry.shows \in [Parts \ {"index"} -> Changes]
         /\ entry.shows.graph \in Changes /\ entry.shows.store \in Changes
         /\ entry.shows.config \in Changes
BY DEF TypeOK, Entry, Parts

LEMMA FreshType == TypeOK => Fresh \in Nat
BY DEF TypeOK, Fresh, Mint

LEMMA InitType == Init => TypeOK
<1> SUFFICES ASSUME Init PROVE TypeOK
  OBVIOUS
<1>1. PICK on \in BOOLEAN :
        client = [on |-> on, cursor |-> [epoch |-> 0, seq |-> 0], pull |-> {}, more |-> TRUE,
                  saw |-> 0, mirror |-> [p \in Synced |-> {}]]
  BY DEF Init
<1>2. client \in Client
  BY <1>1 DEF Client, Changes
<1>3. entry \in Entry
  BY DEF Init, Newborn, Entry, Changes
<1>4. index \in Index /\ ring \in Ring /\ cache \in Seq(Response) /\ mint \in Mint
  BY DEF Init, Index, Ring, Mint, Changes
<1> QED BY <1>2, <1>3, <1>4 DEF Init, TypeOK, Changes

-----------------------------------------------------------------------------
(* What an action makes of the entry *)

LEMMA ShowingSays ==
  ASSUME TypeOK, NEW p \in Parts \ {"index"}
  PROVE  /\ Showing(p) \in [Parts \ {"index"} -> Changes]
         /\ Showing(p)[p] = entry.shows[p] \cup {Fresh}
         /\ \A q \in Parts \ {"index"} : q # p => Showing(p)[q] = entry.shows[q]
BY FreshType, ShowsType DEF Showing, Changes

LEMMA LoggedWriteEntry ==
  ASSUME TypeOK, entry' = [entry EXCEPT !.shows = Showing("graph"), !.graph = @ + 1]
  PROVE  /\ entry' \in Entry /\ entry'.shows = Showing("graph") /\ entry'.live = entry.live /\ entry'.id = entry.id
         /\ entry'.birth = entry.birth /\ entry'.graph = entry.graph + 1
         /\ entry'.passages = entry.passages /\ entry'.config = entry.config
         /\ entry'.watermark = entry.watermark
<1> DEFINE sh == Showing("graph")
<1> HIDE DEF sh
<1>1. sh \in [Parts \ {"index"} -> Changes]
  BY ShowingSays DEF sh, Parts
<1>2. entry' = [entry EXCEPT !.shows = sh, !.graph = @ + 1]
  BY DEF sh
<1>3. entry \in Entry /\ mint \in Mint
  BY DEF TypeOK
<1>4. /\ entry.live \in BOOLEAN /\ entry.id \in Nat /\ entry.birth \in Nat /\ entry.graph \in Nat
      /\ entry.passages \in Nat /\ entry.config \in Nat /\ entry.watermark \in Nat
      /\ entry.graph + 1 \in Nat
  BY <1>3 DEF Entry, Mint
<1>5. entry' = [live |-> entry.live, id |-> entry.id, birth |-> entry.birth, graph |-> entry.graph + 1,
                passages |-> entry.passages, config |-> entry.config, watermark |-> entry.watermark, shows |-> sh]
  BY <1>2, <1>3 DEF Entry
<1>6. [live |-> entry.live, id |-> entry.id, birth |-> entry.birth, graph |-> entry.graph + 1,
                passages |-> entry.passages, config |-> entry.config, watermark |-> entry.watermark, shows |-> sh]
        \in Entry
  BY <1>1, <1>4 DEF Entry
<1> QED BY <1>5, <1>6 DEF sh

LEMMA CompactEntry ==
  ASSUME TypeOK, entry' = [entry EXCEPT !.shows = Showing("graph"), !.id = mint.id + 1]
  PROVE  /\ entry' \in Entry /\ entry'.shows = Showing("graph") /\ entry'.live = entry.live /\ entry'.id = mint.id + 1
         /\ entry'.birth = entry.birth /\ entry'.graph = entry.graph
         /\ entry'.passages = entry.passages /\ entry'.config = entry.config
         /\ entry'.watermark = entry.watermark
<1> DEFINE sh == Showing("graph")
<1> HIDE DEF sh
<1>1. sh \in [Parts \ {"index"} -> Changes]
  BY ShowingSays DEF sh, Parts
<1>2. entry' = [entry EXCEPT !.shows = sh, !.id = mint.id + 1]
  BY DEF sh
<1>3. entry \in Entry /\ mint \in Mint
  BY DEF TypeOK
<1>4. /\ entry.live \in BOOLEAN /\ entry.id \in Nat /\ entry.birth \in Nat /\ entry.graph \in Nat
      /\ entry.passages \in Nat /\ entry.config \in Nat /\ entry.watermark \in Nat
      /\ mint.id + 1 \in Nat
  BY <1>3 DEF Entry, Mint
<1>5. entry' = [live |-> entry.live, id |-> mint.id + 1, birth |-> entry.birth, graph |-> entry.graph,
                passages |-> entry.passages, config |-> entry.config, watermark |-> entry.watermark, shows |-> sh]
  BY <1>2, <1>3 DEF Entry
<1>6. [live |-> entry.live, id |-> mint.id + 1, birth |-> entry.birth, graph |-> entry.graph,
                passages |-> entry.passages, config |-> entry.config, watermark |-> entry.watermark, shows |-> sh]
        \in Entry
  BY <1>1, <1>4 DEF Entry
<1> QED BY <1>5, <1>6 DEF sh

LEMMA BatchEntry ==
  ASSUME TypeOK, entry' = [entry EXCEPT !.shows = Showing("store"), !.watermark = @ + 1]
  PROVE  /\ entry' \in Entry /\ entry'.shows = Showing("store") /\ entry'.live = entry.live /\ entry'.id = entry.id
         /\ entry'.birth = entry.birth /\ entry'.graph = entry.graph
         /\ entry'.passages = entry.passages /\ entry'.config = entry.config
         /\ entry'.watermark = entry.watermark + 1
<1> DEFINE sh == Showing("store")
<1> HIDE DEF sh
<1>1. sh \in [Parts \ {"index"} -> Changes]
  BY ShowingSays DEF sh, Parts
<1>2. entry' = [entry EXCEPT !.shows = sh, !.watermark = @ + 1]
  BY DEF sh
<1>3. entry \in Entry /\ mint \in Mint
  BY DEF TypeOK
<1>4. /\ entry.live \in BOOLEAN /\ entry.id \in Nat /\ entry.birth \in Nat /\ entry.graph \in Nat
      /\ entry.passages \in Nat /\ entry.config \in Nat /\ entry.watermark \in Nat
      /\ entry.watermark + 1 \in Nat
  BY <1>3 DEF Entry, Mint
<1>5. entry' = [live |-> entry.live, id |-> entry.id, birth |-> entry.birth, graph |-> entry.graph,
                passages |-> entry.passages, config |-> entry.config, watermark |-> entry.watermark + 1, shows |-> sh]
  BY <1>2, <1>3 DEF Entry
<1>6. [live |-> entry.live, id |-> entry.id, birth |-> entry.birth, graph |-> entry.graph,
                passages |-> entry.passages, config |-> entry.config, watermark |-> entry.watermark + 1, shows |-> sh]
        \in Entry
  BY <1>1, <1>4 DEF Entry
<1> QED BY <1>5, <1>6 DEF sh

LEMMA VectorsEntry ==
  ASSUME TypeOK, entry' = [entry EXCEPT !.shows = Showing("config")]
  PROVE  /\ entry' \in Entry /\ entry'.shows = Showing("config") /\ entry'.live = entry.live /\ entry'.id = entry.id
         /\ entry'.birth = entry.birth /\ entry'.graph = entry.graph
         /\ entry'.passages = entry.passages /\ entry'.config = entry.config
         /\ entry'.watermark = entry.watermark
<1> DEFINE sh == Showing("config")
<1> HIDE DEF sh
<1>1. sh \in [Parts \ {"index"} -> Changes]
  BY ShowingSays DEF sh, Parts
<1>2. entry' = [entry EXCEPT !.shows = sh]
  BY DEF sh
<1>3. entry \in Entry /\ mint \in Mint
  BY DEF TypeOK
<1>4. /\ entry.live \in BOOLEAN /\ entry.id \in Nat /\ entry.birth \in Nat /\ entry.graph \in Nat
      /\ entry.passages \in Nat /\ entry.config \in Nat /\ entry.watermark \in Nat
  BY <1>3 DEF Entry
<1>5. entry' = [live |-> entry.live, id |-> entry.id, birth |-> entry.birth, graph |-> entry.graph,
                passages |-> entry.passages, config |-> entry.config, watermark |-> entry.watermark, shows |-> sh]
  BY <1>2, <1>3 DEF Entry
<1>6. [live |-> entry.live, id |-> entry.id, birth |-> entry.birth, graph |-> entry.graph,
                passages |-> entry.passages, config |-> entry.config, watermark |-> entry.watermark, shows |-> sh]
        \in Entry
  BY <1>1, <1>4 DEF Entry
<1> QED BY <1>5, <1>6 DEF sh

LEMMA MetaEntry ==
  ASSUME TypeOK, entry' = [entry EXCEPT !.shows = Showing("config"), !.config = @ + 1]
  PROVE  /\ entry' \in Entry /\ entry'.shows = Showing("config") /\ entry'.live = entry.live /\ entry'.id = entry.id
         /\ entry'.birth = entry.birth /\ entry'.graph = entry.graph
         /\ entry'.passages = entry.passages /\ entry'.config = entry.config + 1
         /\ entry'.watermark = entry.watermark
<1> DEFINE sh == Showing("config")
<1> HIDE DEF sh
<1>1. sh \in [Parts \ {"index"} -> Changes]
  BY ShowingSays DEF sh, Parts
<1>2. entry' = [entry EXCEPT !.shows = sh, !.config = @ + 1]
  BY DEF sh
<1>3. entry \in Entry /\ mint \in Mint
  BY DEF TypeOK
<1>4. /\ entry.live \in BOOLEAN /\ entry.id \in Nat /\ entry.birth \in Nat /\ entry.graph \in Nat
      /\ entry.passages \in Nat /\ entry.config \in Nat /\ entry.watermark \in Nat
      /\ entry.config + 1 \in Nat
  BY <1>3 DEF Entry, Mint
<1>5. entry' = [live |-> entry.live, id |-> entry.id, birth |-> entry.birth, graph |-> entry.graph,
                passages |-> entry.passages, config |-> entry.config + 1, watermark |-> entry.watermark, shows |-> sh]
  BY <1>2, <1>3 DEF Entry
<1>6. [live |-> entry.live, id |-> entry.id, birth |-> entry.birth, graph |-> entry.graph,
                passages |-> entry.passages, config |-> entry.config + 1, watermark |-> entry.watermark, shows |-> sh]
        \in Entry
  BY <1>1, <1>4 DEF Entry
<1> QED BY <1>5, <1>6 DEF sh

LEMMA SchemaEntry ==
  ASSUME TypeOK, entry' = [entry EXCEPT !.shows = Showing("config"), !.config = @ + 1, !.id = mint.id + 1]
  PROVE  /\ entry' \in Entry /\ entry'.shows = Showing("config") /\ entry'.live = entry.live /\ entry'.id = mint.id + 1
         /\ entry'.birth = entry.birth /\ entry'.graph = entry.graph
         /\ entry'.passages = entry.passages /\ entry'.config = entry.config + 1
         /\ entry'.watermark = entry.watermark
<1> DEFINE sh == Showing("config")
<1> HIDE DEF sh
<1>1. sh \in [Parts \ {"index"} -> Changes]
  BY ShowingSays DEF sh, Parts
<1>2. entry' = [entry EXCEPT !.shows = sh, !.config = @ + 1, !.id = mint.id + 1]
  BY DEF sh
<1>3. entry \in Entry /\ mint \in Mint
  BY DEF TypeOK
<1>4. /\ entry.live \in BOOLEAN /\ entry.id \in Nat /\ entry.birth \in Nat /\ entry.graph \in Nat
      /\ entry.passages \in Nat /\ entry.config \in Nat /\ entry.watermark \in Nat
      /\ entry.config + 1 \in Nat /\ mint.id + 1 \in Nat
  BY <1>3 DEF Entry, Mint
<1>5. entry' = [live |-> entry.live, id |-> mint.id + 1, birth |-> entry.birth, graph |-> entry.graph,
                passages |-> entry.passages, config |-> entry.config + 1, watermark |-> entry.watermark, shows |-> sh]
  BY <1>2, <1>3 DEF Entry
<1>6. [live |-> entry.live, id |-> mint.id + 1, birth |-> entry.birth, graph |-> entry.graph,
                passages |-> entry.passages, config |-> entry.config + 1, watermark |-> entry.watermark, shows |-> sh]
        \in Entry
  BY <1>1, <1>4 DEF Entry
<1> QED BY <1>5, <1>6 DEF sh

LEMMA BumpPassagesEntry ==
  ASSUME TypeOK, NEW n \in Nat, entry' = [entry EXCEPT !.passages = n]
  PROVE  /\ entry' \in Entry /\ entry'.shows = entry.shows /\ entry'.live = entry.live /\ entry'.id = entry.id
         /\ entry'.birth = entry.birth /\ entry'.graph = entry.graph
         /\ entry'.passages = n /\ entry'.config = entry.config
         /\ entry'.watermark = entry.watermark
<1>1. entry.shows \in [Parts \ {"index"} -> Changes]
  BY ShowsType
<1>3. entry \in Entry /\ mint \in Mint
  BY DEF TypeOK
<1>4. /\ entry.live \in BOOLEAN /\ entry.id \in Nat /\ entry.birth \in Nat /\ entry.graph \in Nat
      /\ entry.passages \in Nat /\ entry.config \in Nat /\ entry.watermark \in Nat
      /\ n \in Nat
  BY <1>3 DEF Entry, Mint
<1>5. entry' = [live |-> entry.live, id |-> entry.id, birth |-> entry.birth, graph |-> entry.graph,
                passages |-> n, config |-> entry.config, watermark |-> entry.watermark, shows |-> entry.shows]
  BY <1>3 DEF Entry
<1>6. [live |-> entry.live, id |-> entry.id, birth |-> entry.birth, graph |-> entry.graph,
                passages |-> n, config |-> entry.config, watermark |-> entry.watermark, shows |-> entry.shows]
        \in Entry
  BY <1>1, <1>4 DEF Entry
<1> QED BY <1>5, <1>6

LEMMA BumpConfigEntry ==
  ASSUME TypeOK, entry' = [entry EXCEPT !.config = @ + 1]
  PROVE  /\ entry' \in Entry /\ entry'.shows = entry.shows /\ entry'.live = entry.live /\ entry'.id = entry.id
         /\ entry'.birth = entry.birth /\ entry'.graph = entry.graph
         /\ entry'.passages = entry.passages /\ entry'.config = entry.config + 1
         /\ entry'.watermark = entry.watermark
<1>1. entry.shows \in [Parts \ {"index"} -> Changes]
  BY ShowsType
<1>3. entry \in Entry /\ mint \in Mint
  BY DEF TypeOK
<1>4. /\ entry.live \in BOOLEAN /\ entry.id \in Nat /\ entry.birth \in Nat /\ entry.graph \in Nat
      /\ entry.passages \in Nat /\ entry.config \in Nat /\ entry.watermark \in Nat
      /\ entry.config + 1 \in Nat
  BY <1>3 DEF Entry, Mint
<1>5. entry' = [live |-> entry.live, id |-> entry.id, birth |-> entry.birth, graph |-> entry.graph,
                passages |-> entry.passages, config |-> entry.config + 1,
                watermark |-> entry.watermark, shows |-> entry.shows]
  BY <1>3 DEF Entry
<1>6. [live |-> entry.live, id |-> entry.id, birth |-> entry.birth, graph |-> entry.graph,
                passages |-> entry.passages, config |-> entry.config + 1,
                watermark |-> entry.watermark, shows |-> entry.shows]
        \in Entry
  BY <1>1, <1>4 DEF Entry
<1> QED BY <1>5, <1>6

LEMMA DeleteEntry ==
  ASSUME TypeOK, entry' = [entry EXCEPT !.live = FALSE]
  PROVE  /\ entry' \in Entry /\ entry'.shows = entry.shows /\ entry'.live = FALSE /\ entry'.id = entry.id
         /\ entry'.birth = entry.birth /\ entry'.graph = entry.graph
         /\ entry'.passages = entry.passages /\ entry'.config = entry.config
         /\ entry'.watermark = entry.watermark
<1>1. entry.shows \in [Parts \ {"index"} -> Changes]
  BY ShowsType
<1>3. entry \in Entry /\ mint \in Mint
  BY DEF TypeOK
<1>4. /\ entry.live \in BOOLEAN /\ entry.id \in Nat /\ entry.birth \in Nat /\ entry.graph \in Nat
      /\ entry.passages \in Nat /\ entry.config \in Nat /\ entry.watermark \in Nat
      /\ FALSE \in BOOLEAN
  BY <1>3 DEF Entry, Mint
<1>5. entry' = [live |-> FALSE, id |-> entry.id, birth |-> entry.birth, graph |-> entry.graph,
                passages |-> entry.passages, config |-> entry.config,
                watermark |-> entry.watermark, shows |-> entry.shows]
  BY <1>3 DEF Entry
<1>6. [live |-> FALSE, id |-> entry.id, birth |-> entry.birth, graph |-> entry.graph,
                passages |-> entry.passages, config |-> entry.config,
                watermark |-> entry.watermark, shows |-> entry.shows]
        \in Entry
  BY <1>1, <1>4 DEF Entry
<1> QED BY <1>5, <1>6

LEMMA WrPut ==
  ASSUME TypeOK, NEW w \in Writers, NEW x \in {Idle} \cup Batch \cup Retraction \cup Refresh,
         wr' = [wr EXCEPT ![w] = x]
  PROVE  /\ wr' \in [Writers -> {Idle} \cup Batch \cup Retraction \cup Refresh]
         /\ wr'[w] = x /\ \A y \in Writers : y # w => wr'[y] = wr[y]
BY DEF TypeOK

LEMMA WrPc ==
  ASSUME TypeOK, NEW w \in Writers, NEW q \in Folding, wr[w].pc \in Folding,
         wr' = [wr EXCEPT ![w].pc = q]
  PROVE  /\ wr' \in [Writers -> {Idle} \cup Batch \cup Retraction \cup Refresh]
         /\ wr'[w].pc = q /\ wr'[w].change = wr[w].change /\ wr'[w].seq = wr[w].seq
         /\ wr'[w].events = wr[w].events /\ \A y \in Writers : y # w => wr'[y] = wr[y]
<1> DEFINE x == [wr[w] EXCEPT !.pc = q]
<1>1. wr[w] \in Batch
  BY WriterShape
<1>2. x \in Batch /\ x.pc = q /\ x.change = wr[w].change /\ x.seq = wr[w].seq /\ x.events = wr[w].events
  BY <1>1 DEF Batch
<1>3. wr' = [wr EXCEPT ![w] = x]
  BY DEF TypeOK
<1> HIDE DEF x
<1> QED BY <1>2, <1>3, WrPut

LEMMA RdPut ==
  ASSUME TypeOK, NEW r \in Readers, NEW x \in {Idle} \cup Request, rd' = [rd EXCEPT ![r] = x]
  PROVE  /\ rd' \in [Readers -> {Idle} \cup Request]
         /\ rd'[r] = x /\ \A y \in Readers : y # r => rd'[y] = rd[y]
BY DEF TypeOK

LEMMA RdTurn ==
  ASSUME TypeOK, NEW r \in Readers, NEW q \in {"probe", "second", "file", "done"}, rd[r].pc # "idle",
         NEW v \in Seq(Changes), rd' = [rd EXCEPT ![r].pc = q, ![r].value = v]
  PROVE  /\ rd' \in [Readers -> {Idle} \cup Request]
         /\ rd'[r].pc = q /\ rd'[r].value = v /\ rd'[r].key = rd[r].key /\ rd'[r].due = rd[r].due
         /\ rd'[r].birth = rd[r].birth /\ \A y \in Readers : y # r => rd'[y] = rd[y]
<1> DEFINE x == [[rd[r] EXCEPT !.pc = q] EXCEPT !.value = v]
<1>1. rd[r] \in Request
  BY ReaderShape
<1>2. x \in Request /\ x.pc = q /\ x.key = rd[r].key /\ x.value = v /\ x.due = rd[r].due
      /\ x.birth = rd[r].birth
  BY <1>1 DEF Request
<1>3. rd' = [rd EXCEPT ![r] = x]
  BY DEF TypeOK
<1> HIDE DEF x
<1> QED BY <1>2, <1>3, RdPut

LEMMA RdPc ==
  ASSUME TypeOK, NEW r \in Readers, NEW q \in {"probe", "second", "file", "done"}, rd[r].pc # "idle",
         rd' = [rd EXCEPT ![r].pc = q]
  PROVE  /\ rd' \in [Readers -> {Idle} \cup Request]
         /\ rd'[r].pc = q /\ rd'[r].value = rd[r].value /\ rd'[r].key = rd[r].key /\ rd'[r].due = rd[r].due
         /\ rd'[r].birth = rd[r].birth /\ \A y \in Readers : y # r => rd'[y] = rd[y]
<1> DEFINE x == [rd[r] EXCEPT !.pc = q]
<1>1. rd[r] \in Request
  BY ReaderShape
<1>2. x \in Request /\ x.pc = q /\ x.key = rd[r].key /\ x.value = rd[r].value /\ x.due = rd[r].due
      /\ x.birth = rd[r].birth
  BY <1>1 DEF Request
<1>3. rd' = [rd EXCEPT ![r] = x]
  BY DEF TypeOK
<1> HIDE DEF x
<1> QED BY <1>2, <1>3, RdPut

LEMMA Minted ==
  ASSUME TypeOK
  PROVE  /\ mint' = [mint EXCEPT !.change = Fresh]
             => mint' \in Mint /\ mint'.id = mint.id /\ mint'.epoch = mint.epoch /\ mint'.birth = mint.birth
         /\ mint' = [mint EXCEPT !.change = Fresh, !.id = @ + 1]
             => mint' \in Mint /\ mint'.id = mint.id + 1 /\ mint'.epoch = mint.epoch /\ mint'.birth = mint.birth
         /\ mint' = [mint EXCEPT !.reads = @ + 1]
             => mint' \in Mint /\ mint'.id = mint.id /\ mint'.epoch = mint.epoch /\ mint'.birth = mint.birth
         /\ mint' = [mint EXCEPT !.change = Fresh, !.id = @ + 1, !.epoch = @ + 1, !.birth = @ + 1]
             => mint' \in Mint /\ mint'.id = mint.id + 1 /\ mint'.epoch = mint.epoch + 1 /\ mint'.birth = mint.birth + 1
<1>1. mint \in Mint /\ Fresh \in Nat
  BY FreshType DEF TypeOK
<1>2. ASSUME mint' = [mint EXCEPT !.change = Fresh]
      PROVE  mint' \in Mint /\ mint'.id = mint.id /\ mint'.epoch = mint.epoch /\ mint'.birth = mint.birth
  BY <1>1, <1>2 DEF Mint
<1>3. ASSUME mint' = [mint EXCEPT !.change = Fresh, !.id = @ + 1]
      PROVE  mint' \in Mint /\ mint'.id = mint.id + 1 /\ mint'.epoch = mint.epoch /\ mint'.birth = mint.birth
  <2>1. mint' = [change |-> Fresh, id |-> mint.id + 1, epoch |-> mint.epoch, birth |-> mint.birth,
                 reads |-> mint.reads]
    BY <1>1, <1>3 DEF Mint
  <2>2. [change |-> Fresh, id |-> mint.id + 1, epoch |-> mint.epoch, birth |-> mint.birth,
         reads |-> mint.reads] \in Mint
    BY <1>1 DEF Mint
  <2> QED BY <2>1, <2>2
<1>4. ASSUME mint' = [mint EXCEPT !.reads = @ + 1]
      PROVE  mint' \in Mint /\ mint'.id = mint.id /\ mint'.epoch = mint.epoch /\ mint'.birth = mint.birth
  BY <1>1, <1>4 DEF Mint
<1>5. ASSUME mint' = [mint EXCEPT !.change = Fresh, !.id = @ + 1, !.epoch = @ + 1, !.birth = @ + 1]
      PROVE  mint' \in Mint /\ mint'.id = mint.id + 1 /\ mint'.epoch = mint.epoch + 1 /\ mint'.birth = mint.birth + 1
  <2>1. mint' = [change |-> Fresh, id |-> mint.id + 1, epoch |-> mint.epoch + 1, birth |-> mint.birth + 1,
                 reads |-> mint.reads]
    BY <1>1, <1>5 DEF Mint
  <2>2. [change |-> Fresh, id |-> mint.id + 1, epoch |-> mint.epoch + 1, birth |-> mint.birth + 1,
         reads |-> mint.reads] \in Mint
    BY <1>1 DEF Mint
  <2> QED BY <2>1, <2>2
<1> QED BY <1>2, <1>3, <1>4, <1>5

-----------------------------------------------------------------------------
(* The ring *)

\* Events carry growing numbers below the next one, which is at least 1.
Ordered(r) ==
  /\ r.next > 0
  /\ \A i, j \in DOMAIN r.events : i < j => r.events[i].seq < r.events[j].seq
  /\ \A i \in DOMAIN r.events : r.events[i].seq < r.next

\* An event after c names p; events after c have been evicted.
UnreadIn(r, c, p) == \E i \in DOMAIN r.events : r.events[i].seq > c /\ p \in r.events[i].parts
EvictedIn(r, c) == r.events # <<>> /\ c + 1 < Head(r.events).seq

\* r2 is r with further events, one of them naming each of parts.
Extends(r, r2, parts) ==
  /\ r2 \in Ring /\ Ordered(r2) /\ r2.epoch = r.epoch /\ r.next <= r2.next
  /\ \A c \in Nat :
       /\ EvictedIn(r, c) => EvictedIn(r2, c)
       /\ \A p \in Synced : UnreadIn(r, c, p) => UnreadIn(r2, c, p) \/ EvictedIn(r2, c)
       /\ \A p \in parts : c < r.next => UnreadIn(r2, c, p) \/ EvictedIn(r2, c)

LEMMA PushExtends ==
  ASSUME NEW r \in Ring, Ordered(r), NEW parts \in SUBSET Synced, NEW r2, r2 = Push(r, parts)
  PROVE  Extends(r, r2, parts)
<1> DEFINE kept == IF Len(r.events) = RingCap THEN Tail(r.events) ELSE r.events
           new == [seq |-> r.next, parts |-> parts]
<1> HIDE DEF kept, new
<1>1. /\ r.events \in Seq(Event) /\ Len(r.events) \in Nat /\ r.next \in Nat /\ r.epoch \in Nat
      /\ DOMAIN r.events = 1..Len(r.events)
      /\ \A i \in 1..Len(r.events) : r.events[i].seq \in Nat /\ r.events[i].parts \in SUBSET Synced
  <2>1. r.events \in Seq(Event) /\ r.next \in Nat /\ r.epoch \in Nat
    BY DEF Ring
  <2>2. Len(r.events) \in Nat /\ DOMAIN r.events = 1..Len(r.events)
    BY <2>1, LenProperties
  <2>3. \A i \in 1..Len(r.events) : r.events[i] \in Event
    BY <2>1, ElementOfSeq
  <2> QED BY <2>1, <2>2, <2>3 DEF Event
<1>2. new \in Event /\ new.seq = r.next /\ new.parts = parts
  BY <1>1 DEF new, Event
<1>3. PICK d \in {0, 1} :
        /\ kept \in Seq(Event) /\ Len(kept) = Len(r.events) - d /\ d <= Len(r.events)
        /\ \A i \in 1..Len(kept) : kept[i] = r.events[i + d]
  <2>1. CASE Len(r.events) = RingCap
    <3>1. r.events # <<>>
      BY <2>1, ReadSideConstants
    <3> QED BY <1>1, <2>1, <3>1, HeadTailProperties DEF kept
  <2>2. CASE Len(r.events) # RingCap
    BY <1>1, <2>2 DEF kept
  <2> QED BY <2>1, <2>2
<1>4. r2.events = Append(kept, new) /\ r2.next = r.next + 1 /\ r2.epoch = r.epoch
      /\ r2 \in [epoch : Nat, next : Nat, events : Seq(Event)]
  <2>1. r2 = [r EXCEPT !.next = @ + 1, !.events = Append(kept, new)]
    BY DEF Push, kept, new
  <2>2. Append(kept, new) \in Seq(Event)
    BY <1>2, <1>3, AppendProperties
  <2>3. r2 = [epoch |-> r.epoch, next |-> r.next + 1, events |-> Append(kept, new)]
    BY <2>1 DEF Ring
  <2> QED BY <1>1, <2>2, <2>3
<1>5. /\ Len(r2.events) = Len(kept) + 1 /\ DOMAIN r2.events = 1..(Len(kept) + 1) /\ Len(kept) \in Nat
      /\ \A i \in 1..Len(kept) : r2.events[i] = r.events[i + d] /\ i + d \in 1..Len(r.events)
      /\ r2.events[Len(kept) + 1] = new
  <2>1. Len(kept) \in Nat /\ \A i \in 1..Len(kept) : i + d \in 1..Len(r.events)
    BY <1>1, <1>3, LenProperties
  <2>2. /\ Append(kept, new) \in Seq(Event) /\ Len(Append(kept, new)) = Len(kept) + 1
        /\ \A i \in 1..Len(kept) : Append(kept, new)[i] = kept[i]
        /\ Append(kept, new)[Len(kept) + 1] = new
    BY <1>2, <1>3, AppendProperties
  <2>3. DOMAIN Append(kept, new) = 1..(Len(kept) + 1)
    BY <2>2, LenProperties
  <2> QED BY <1>3, <1>4, <2>1, <2>2, <2>3
<1> DEFINE n == Len(kept)
<1>n. n \in Nat /\ Len(r.events) = n + d /\ d \in Nat /\ DOMAIN r2.events = 1..(n + 1)
  BY <1>1, <1>3, <1>5
<1>s. /\ \A i \in 1..n : r2.events[i].seq = r.events[i + d].seq /\ r2.events[i].parts = r.events[i + d].parts
      /\ r2.events[n + 1].seq = r.next /\ r2.events[n + 1].parts = parts
  BY <1>2, <1>5
<1>o. /\ \A i, j \in 1..(n + d) : i < j => r.events[i].seq < r.events[j].seq
      /\ \A i \in 1..(n + d) : r.events[i].seq < r.next /\ r.events[i].seq \in Nat
  BY <1>1, <1>n DEF Ordered
<1> HIDE DEF n
<1>6. Ordered(r2)
  <2>1. ASSUME NEW i \in 1..(n + 1), NEW j \in 1..(n + 1), i < j PROVE r2.events[i].seq < r2.events[j].seq
    <3>1. i \in 1..n /\ i + d \in 1..(n + d) /\ r2.events[i].seq = r.events[i + d].seq
      BY <1>n, <1>s, <2>1
    <3>2. CASE j = n + 1
      BY <1>s, <1>o, <3>1, <3>2
    <3>3. CASE j # n + 1
      <4>1. j \in 1..n /\ j + d \in 1..(n + d) /\ i + d < j + d
        BY <1>n, <2>1, <3>3
      <4> QED BY <1>s, <1>o, <3>1, <4>1
    <3> QED BY <3>2, <3>3
  <2>2. ASSUME NEW i \in 1..(n + 1) PROVE r2.events[i].seq < r.next + 1
    <3>1. CASE i = n + 1
      BY <1>1, <1>s, <3>1
    <3>2. CASE i # n + 1
      <4>1. i \in 1..n /\ i + d \in 1..(n + d)
        BY <1>n, <3>2
      <4>2. r2.events[i].seq < r.next /\ r2.events[i].seq \in Nat
        BY <1>s, <1>o, <4>1
      <4> QED BY <1>1, <4>2
    <3> QED BY <3>1, <3>2
  <2>3. r2.next > 0
    BY <1>1, <1>4
  <2> QED BY <1>4, <1>n, <2>1, <2>2, <2>3 DEF Ordered
<1>7. r2.events # <<>> /\ Head(r2.events) = r2.events[1]
  BY <1>4, <1>5, HeadTailProperties
<1>f. /\ r2.events[1].seq \in Nat
      /\ n + d > 0 => r.events[1].seq <= r2.events[1].seq
      /\ d = 1 => r.events[1].seq < r2.events[1].seq
  <2>1. CASE n = 0
    BY <1>1, <1>n, <1>s, <1>o, <2>1
  <2>2. CASE n > 0
    <3>1. 1 \in 1..n /\ 1 + d \in 1..(n + d) /\ r2.events[1].seq = r.events[1 + d].seq
      BY <1>n, <1>s, <2>2
    <3> QED BY <1>n, <1>o, <3>1
  <2> QED BY <1>n, <2>1, <2>2
<1>8. ASSUME NEW c \in Nat, EvictedIn(r, c) PROVE EvictedIn(r2, c)
  <2>1. n + d > 0 /\ c + 1 < r.events[1].seq
    BY <1>1, <1>n, <1>8, EmptySeq DEF EvictedIn
  <2>2. r.events[1].seq \in Nat
    BY <1>o, <1>n, <2>1
  <2> QED BY <1>7, <1>f, <2>1, <2>2 DEF EvictedIn
<1>9. ASSUME NEW c \in Nat, NEW p \in Synced, UnreadIn(r, c, p) PROVE UnreadIn(r2, c, p) \/ EvictedIn(r2, c)
  <2>1. PICK i \in 1..(n + d) : r.events[i].seq > c /\ p \in r.events[i].parts
    BY <1>1, <1>n, <1>9 DEF UnreadIn
  <2>2. CASE i > d
    <3>1. i - d \in 1..n /\ (i - d) + d = i /\ i - d \in DOMAIN r2.events
      BY <1>n, <2>2
    <3>2. r2.events[i - d].seq = r.events[i].seq /\ r2.events[i - d].parts = r.events[i].parts
      BY <1>s, <3>1
    <3> QED BY <2>1, <3>1, <3>2 DEF UnreadIn
  <2>3. CASE i <= d
    <3>1. i = 1 /\ d = 1
      BY <2>3
    <3> QED BY <1>7, <1>f, <1>o, <2>1, <3>1 DEF EvictedIn
  <2> QED BY <1>n, <2>2, <2>3
<1>10. ASSUME NEW c \in Nat, NEW p \in parts, c < r.next PROVE UnreadIn(r2, c, p)
  <2>1. n + 1 \in DOMAIN r2.events
    BY <1>n
  <2> QED BY <1>1, <1>s, <1>10, <2>1 DEF UnreadIn
<1> QED BY <1>1, <1>4, <1>6, <1>8, <1>9, <1>10 DEF Extends, Ring

LEMMA NothingExtends ==
  ASSUME NEW r \in Ring, Ordered(r)
  PROVE  Extends(r, r, {})
<1>1. r.next \in Nat
  BY DEF Ring
<1> QED BY <1>1 DEF Extends

LEMMA ExtendsTwice ==
  ASSUME NEW r \in Ring, NEW r1, NEW r2, NEW parts \in SUBSET Synced, Extends(r, r1, parts), Extends(r1, r2, parts)
  PROVE  Extends(r, r2, parts)
<1>1. r.next \in Nat /\ r1.next \in Nat /\ r2.next \in Nat /\ r1 \in Ring
  BY DEF Ring, Extends
<1>2. ASSUME NEW c \in Nat, NEW p \in parts, c < r.next PROVE UnreadIn(r2, c, p) \/ EvictedIn(r2, c)
  <2>1. c < r1.next
    BY <1>1, <1>2 DEF Extends
  <2> QED BY <1>2, <2>1 DEF Extends
<1> QED BY <1>1, <1>2 DEF Extends

LEMMA AnnounceExtends ==
  ASSUME TypeOK, Ordered(ring), NEW n \in 0..2, NEW parts \in SUBSET Synced
  PROVE  Extends(ring, Announce(n, parts), IF n > 0 /\ client.on THEN parts ELSE {})
<1>1. ring \in Ring
  BY DEF TypeOK
<1>2. CASE n = 0 \/ ~client.on
  BY <1>1, <1>2, NothingExtends DEF Announce
<1>3. CASE n = 1 /\ client.on
  BY <1>1, <1>3, PushExtends DEF Announce
<1>4. CASE n = 2 /\ client.on
  <2>1. Announce(n, parts) = Push(Push(ring, parts), parts)
    BY <1>4 DEF Announce
  <2>2. Extends(ring, Push(ring, parts), parts)
    BY <1>1, PushExtends
  <2>3. Extends(Push(ring, parts), Push(Push(ring, parts), parts), parts)
    BY <2>2, PushExtends DEF Extends
  <2> QED BY <1>1, <1>4, <2>1, <2>2, <2>3, ExtendsTwice
<1> QED BY <1>2, <1>3, <1>4

-----------------------------------------------------------------------------
(* The cache *)

\* Every response is an old one, or the one just filed.
LEMMA WithoutSays ==
  ASSUME NEW key, TypeOK
  PROVE  /\ Without(key) \in Seq(Response)
         /\ \A i \in DOMAIN Without(key) : \E j \in DOMAIN cache : Without(key)[i] = cache[j]
<1>1. cache \in Seq(Response) /\ Len(cache) \in Nat /\ DOMAIN cache = 1..Len(cache)
  BY LenProperties DEF TypeOK
<1>2. CASE Slots(key) = {}
  BY <1>1, <1>2 DEF Without
<1>3. CASE Slots(key) # {}
  <2> DEFINE k == Slot(key)
             a == SubSeq(cache, 1, k - 1)
             b == SubSeq(cache, k + 1, Len(cache))
  <2> HIDE DEF k, a, b
  <2>1. k \in 1..Len(cache)
    BY <1>1, <1>3 DEF k, Slots, Slot
  <2>2. \A i \in 1..Len(cache) : cache[i] \in Response
    BY <1>1, ElementOfSeq
  <2>3. a \in Seq(Response) /\ Len(a) = k - 1 /\ \A i \in 1..(k - 1) : a[i] = cache[i]
    <3>1. \A i \in 1..(k - 1) : cache[i] \in Response
      BY <1>1, <2>1, <2>2
    <3> QED BY <1>1, <2>1, <3>1, SubSeqProperties DEF a
  <2>4. b \in Seq(Response) /\ Len(b) = Len(cache) - k /\ \A i \in 1..(Len(cache) - k) : b[i] = cache[k + i]
    <3>1. \A i \in (k + 1)..Len(cache) : cache[i] \in Response
      BY <1>1, <2>1, <2>2
    <3>2. k + 1 \in 1..(Len(cache) + 1) /\ Len(cache) \in Nat
      BY <1>1, <2>1
    <3>3. b \in Seq(Response) /\ Len(b) = (IF k + 1 <= Len(cache) THEN Len(cache) - (k + 1) + 1 ELSE 0)
          /\ \A i \in 1..(Len(cache) - (k + 1) + 1) : b[i] = cache[k + 1 + i - 1]
      BY <1>1, <3>1, <3>2, SubSeqProperties DEF b
    <3>4. \A i \in 1..(Len(cache) - k) : i \in 1..(Len(cache) - (k + 1) + 1) /\ k + 1 + i - 1 = k + i
      BY <1>1, <2>1
    <3>5. CASE k + 1 <= Len(cache)
      BY <1>1, <2>1, <3>3, <3>4, <3>5
    <3>6. CASE k + 1 > Len(cache)
      <4>1. Len(cache) = k
        BY <2>1, <3>2, <3>6
      <4> QED BY <2>1, <3>3, <3>4, <3>6, <4>1
    <3> QED BY <2>1, <3>2, <3>5, <3>6
  <2>5. Without(key) = a \o b
    BY <1>3 DEF Without, k, a, b
  <2>6. a \o b \in Seq(Response) /\ Len(a \o b) = Len(a) + Len(b)
        /\ \A i \in 1..(Len(a) + Len(b)) : (a \o b)[i] = IF i <= Len(a) THEN a[i] ELSE b[i - Len(a)]
    BY <2>3, <2>4, ConcatProperties
  <2>7. DOMAIN (a \o b) = 1..(Len(a) + Len(b))
    BY <2>6, LenProperties
  <2>8. ASSUME NEW i \in 1..(Len(a) + Len(b)) PROVE \E j \in DOMAIN cache : (a \o b)[i] = cache[j]
    <3>1. CASE i <= Len(a)
      <4>1. i \in 1..(k - 1) /\ i \in 1..Len(cache)
        BY <1>1, <2>1, <2>3, <3>1
      <4>2. (a \o b)[i] = a[i]
        BY <2>6, <3>1
      <4> QED BY <1>1, <2>3, <4>1, <4>2
    <3>2. CASE i > Len(a)
      <4>1. i - Len(a) \in 1..(Len(cache) - k) /\ k + (i - Len(a)) \in 1..Len(cache)
        BY <1>1, <2>1, <2>3, <2>4, <3>2
      <4>2. (a \o b)[i] = b[i - Len(a)]
        BY <2>3, <2>6, <3>2
      <4> QED BY <1>1, <2>4, <4>1, <4>2
    <3> QED BY <2>1, <2>3, <3>1, <3>2
  <2> QED BY <2>5, <2>6, <2>7, <2>8
<1> QED BY <1>2, <1>3

LEMMA TouchedSays ==
  ASSUME TypeOK, NEW key, Slots(key) # {}
  PROVE  /\ Touched(key) \in Seq(Response)
         /\ \A i \in DOMAIN Touched(key) : \E j \in DOMAIN cache : Touched(key)[i] = cache[j]
<1> DEFINE s == Without(key)
           x == cache[Slot(key)]
<1>1. s \in Seq(Response) /\ \A i \in DOMAIN s : \E j \in DOMAIN cache : s[i] = cache[j]
  BY WithoutSays
<1>2. Slot(key) \in DOMAIN cache
  BY DEF Slots, Slot
<1>3. x \in Response
  BY <1>2, LenProperties, ElementOfSeq DEF TypeOK
<1>4. Touched(key) = Append(s, x)
  BY DEF Touched
<1> HIDE DEF s
<1>5. /\ Append(s, x) \in Seq(Response) /\ Len(s) \in Nat /\ DOMAIN s = 1..Len(s)
      /\ DOMAIN Append(s, x) = 1..(Len(s) + 1)
      /\ \A i \in 1..Len(s) : Append(s, x)[i] = s[i]
      /\ Append(s, x)[Len(s) + 1] = x
  BY <1>1, <1>3, AppendProperties, LenProperties
<1> QED BY <1>1, <1>2, <1>4, <1>5

LEMMA InsertSays ==
  ASSUME TypeOK, NEW key \in Key, NEW value \in Seq(Changes), NEW cost \in Nat
  PROVE  /\ Insert(key, value, cost) \in Seq(Response)
         /\ \A i \in DOMAIN Insert(key, value, cost) :
              \/ \E j \in DOMAIN cache : Insert(key, value, cost)[i] = cache[j]
              \/ Insert(key, value, cost)[i] = [key |-> key, value |-> value]
<1> DEFINE s == Without(key)
           over == IF Len(s) + cost > Budget THEN Len(s) + cost - Budget ELSE 0
           t == SubSeq(s, over + 1, Len(s))
           x == [key |-> key, value |-> value]
<1>1. s \in Seq(Response) /\ \A i \in DOMAIN s : \E j \in DOMAIN cache : s[i] = cache[j]
  BY WithoutSays
<1>2. CASE cost > Budget \div 4
  BY <1>2 DEF Insert, TypeOK
<1>3. CASE ~(cost > Budget \div 4)
  <2>1. Insert(key, value, cost) = Append(t, x)
    BY <1>3 DEF Insert
  <2>2. x \in Response
    BY DEF Response
  <2> HIDE DEF s, x
  <2> HIDE DEF over
  <2>3. Len(s) \in Nat /\ DOMAIN s = 1..Len(s) /\ (\A i \in 1..Len(s) : s[i] \in Response)
    BY <1>1, LenProperties, ElementOfSeq
  <2>4. over \in Nat /\ Budget \in Nat
    BY <2>3, ReadSideConstants DEF over
  <2>5. over <= Len(s)
    BY <1>3, <2>3, <2>4 DEF over
  <2>6. /\ t \in Seq(Response) /\ Len(t) = Len(s) - over
        /\ \A i \in 1..(Len(s) - over) : t[i] = s[over + i]
    <3>0. Len(s) \in Nat
      BY <2>3
    <3>1. \A i \in (over + 1)..Len(s) : s[i] \in Response
      BY <2>3, <2>4
    <3>2. over + 1 \in 1..(Len(s) + 1)
      BY <2>3, <2>4, <2>5
    <3>3. t \in Seq(Response) /\ Len(t) = (IF over + 1 <= Len(s) THEN Len(s) - (over + 1) + 1 ELSE 0)
          /\ \A i \in 1..(Len(s) - (over + 1) + 1) : t[i] = s[over + 1 + i - 1]
      BY <1>1, <2>3, <3>1, <3>2, SubSeqProperties
    <3>4. \A i \in 1..(Len(s) - over) : i \in 1..(Len(s) - (over + 1) + 1) /\ over + 1 + i - 1 = over + i
      BY <2>3, <2>4, <2>5
    <3>5. CASE over + 1 <= Len(s)
      BY <2>3, <2>4, <3>3, <3>4, <3>5
    <3>6. CASE over + 1 > Len(s)
      <4>1. Len(s) = over
        BY <2>4, <2>5, <3>0, <3>6
      <4> QED BY <2>4, <3>3, <3>4, <3>6, <4>1
    <3> QED BY <2>4, <3>0, <3>5, <3>6
  <2> HIDE DEF t
  <2>7. /\ Append(t, x) \in Seq(Response) /\ Len(t) \in Nat
        /\ DOMAIN Append(t, x) = 1..(Len(t) + 1)
        /\ \A i \in 1..Len(t) : Append(t, x)[i] = t[i]
        /\ Append(t, x)[Len(t) + 1] = x
    BY <2>2, <2>6, AppendProperties, LenProperties
  <2>8. ASSUME NEW i \in 1..(Len(t) + 1)
        PROVE  (\E j \in DOMAIN cache : Append(t, x)[i] = cache[j]) \/ Append(t, x)[i] = x
    <3>1. CASE i = Len(t) + 1
      BY <2>7, <3>1
    <3>2. CASE i # Len(t) + 1
      <4>0. i \in 1..Len(t)
        BY <2>7, <3>2
      <4>1. i \in 1..(Len(s) - over) /\ over + i \in DOMAIN s
        BY <2>3, <2>4, <2>5, <2>6, <4>0
      <4>2. Append(t, x)[i] = s[over + i]
        BY <2>6, <2>7, <4>0, <4>1
      <4> QED BY <1>1, <4>1, <4>2
    <3> QED BY <3>1, <3>2
  <2> QED BY <2>1, <2>7, <2>8 DEF x
<1> QED BY <1>2, <1>3

-----------------------------------------------------------------------------
(* Type correctness *)

LEMMA ReadsParts ==
  ASSUME NEW op \in Ops
  PROVE  /\ \A i \in 1..2 : Reads(op)[i] \in Parts
         /\ Reads(op)[2] \in Parts \ {"index"}
         /\ op = "search" => Reads(op)[1] = "index" /\ Reads(op)[2] = "config"
         /\ op # "search" => Reads(op)[1] = "graph" /\ Reads(op)[2] = "store"
<1>1. op = "recall" \/ op = "search"
  BY DEF Ops
<1> QED BY <1>1 DEF Reads, Parts

LEMMA KeyType ==
  ASSUME TypeOK, NEW op \in Ops
  PROVE  /\ RetrievalKey(op) \in Key /\ RetrievalKey(op).op = op /\ RetrievalKey(op).id = entry.id
         /\ RetrievalKey(op).lanes = OpLanes(op)
<1>1. OpLanes(op) \in Nat \X Nat /\ entry.id \in Nat
  BY DEF TypeOK, Entry, OpLanes
<1> QED BY <1>1 DEF RetrievalKey, Key

LEMMA AckSays ==
  ASSUME TypeOK, NEW parts, NEW c \in Nat, Ack(parts, c)
  PROVE  /\ acked' \in [Parts -> Changes]
         /\ \A p \in Parts : acked'[p] = acked[p] \cup IF p \in parts THEN {c} ELSE {}
BY DEF TypeOK, Ack, Changes

LEMMA AnnounceType ==
  ASSUME TypeOK, Ordered(ring), NEW n \in 0..2, NEW parts \in SUBSET Synced
  PROVE  Announce(n, parts) \in Ring
BY AnnounceExtends DEF Extends

LEMMA ShowsInClient ==
  ASSUME TypeOK
  PROVE  /\ client.on \in BOOLEAN /\ client.cursor \in [epoch : Nat, seq : Nat] /\ client.pull \in SUBSET Synced
         /\ client.more \in BOOLEAN /\ client.saw \in Nat /\ client.mirror \in [Synced -> Changes]
         /\ client.cursor.epoch \in Nat /\ client.cursor.seq \in Nat
BY DEF TypeOK, Client

\* A client record from its fields.
LEMMA ClientAt ==
  ASSUME TypeOK, NEW cursor \in [epoch : Nat, seq : Nat], NEW pull \in SUBSET Synced,
         NEW more \in BOOLEAN, NEW saw \in Nat, NEW mirror \in [Synced -> Changes],
         client' = [on |-> client.on, cursor |-> cursor, pull |-> pull, more |-> more, saw |-> saw,
                    mirror |-> mirror]
  PROVE  client' \in Client
<1>1. client.on \in BOOLEAN
  BY ShowsInClient
<1>2. [on |-> client.on, cursor |-> cursor, pull |-> pull, more |-> more, saw |-> saw, mirror |-> mirror] \in Client
  BY <1>1 DEF Client
<1> QED BY <1>2

LEMMA StartTailingSays ==
  ASSUME TypeOK, Ordered(ring), StartTailing
  PROVE  /\ client' \in Client /\ client'.cursor.epoch = ring.epoch /\ client'.cursor.seq = ring.next - 1
         /\ client'.pull = Synced /\ client'.more = FALSE /\ client'.saw = ring.next /\ client'.on = client.on
         /\ client'.mirror = client.mirror
<1> DEFINE cu == [epoch |-> ring.epoch, seq |-> ring.next - 1]
<1> HIDE DEF cu
<1>1. client' = [client EXCEPT !.cursor = cu, !.pull = Synced, !.more = FALSE, !.saw = ring.next]
  BY DEF StartTailing, cu
<1>2. client \in Client
  BY DEF TypeOK
<1>3. client' = [on |-> client.on, cursor |-> cu, pull |-> Synced, more |-> FALSE, saw |-> ring.next,
                 mirror |-> client.mirror]
  BY <1>1, <1>2 DEF Client
<1>4. ring.next \in Nat /\ ring.epoch \in Nat /\ ring.next - 1 \in Nat
  BY DEF TypeOK, Ring, Ordered
<1>5. cu \in [epoch : Nat, seq : Nat] /\ cu.epoch = ring.epoch /\ cu.seq = ring.next - 1
  BY <1>4 DEF cu
<1>6. client.mirror \in [Synced -> Changes]
  BY ShowsInClient
<1>7. client' \in Client
  BY <1>3, <1>4, <1>5, <1>6, ClientAt
<1> QED BY <1>3, <1>5, <1>7

\* A set of indices has a greatest one.
LEMMA GreatestIndex ==
  ASSUME NEW n \in Nat, NEW S \in SUBSET (1..n), S # {}
  PROVE  \E i \in S : \A j \in S : j <= i
<1> DEFINE R == OpToRel(<, Nat)
           T == {n - i : i \in S}
<1>0. \A i \in S : i \in 1..n /\ n - i \in Nat
  OBVIOUS
<1>1. T \subseteq Nat /\ T # {}
  BY <1>0
<1>2. \A x, y \in Nat : x < y => <<x, y>> \in R
  BY DEF OpToRel
<1>3. IsWellFoundedOn(R, Nat)
  BY NatLessThanWellFounded
<1> HIDE DEF R
<1>4. PICK x \in T : \A y \in T : ~(<<y, x>> \in R)
  <2> HIDE DEF T
  <2> QED BY <1>1, <1>3, WFMin
<1>5. PICK i \in S : x = n - i
  OBVIOUS
<1>6. ASSUME NEW j \in S PROVE j <= i
  <2>1. ~(n - j < n - i)
    BY <1>0, <1>2, <1>4, <1>5
  <2> QED BY <1>0, <2>1
<1> QED BY <1>6

\* What a page tells: the client is at the last event of the page, every event
\* up to it is in the page, and no more is promised only at the ring's end.
LEMMA PageSays ==
  ASSUME NEW r \in Ring, Ordered(r), NEW cursor \in [epoch : Nat, seq : Nat], NEW limit \in {1, 2},
         cursor.seq < r.next, NEW pg, pg = Page(r, cursor, limit)
  PROVE  /\ pg.next \in Nat /\ pg.next < r.next /\ cursor.seq <= pg.next /\ pg.parts \in SUBSET Synced
         /\ pg.more = (pg.next < r.next - 1) /\ (~(pg.next < r.next - 1) => pg.next = r.next - 1)
         /\ \A p \in Synced : UnreadIn(r, cursor.seq, p) => p \in pg.parts \/ UnreadIn(r, pg.next, p)
<1> DEFINE after == {i \in DOMAIN r.events : r.events[i].seq > cursor.seq}
           upTo(i) == {j \in after : j <= i}
           page == {i \in after : Cardinality(upTo(i)) <= limit}
           last == CHOOSE i \in page : \A j \in page : j <= i
           next == IF page = {} THEN cursor.seq ELSE r.events[last].seq
           parts == UNION {r.events[i].parts : i \in page}
<1>1. Page(r, cursor, limit) = [next |-> next, more |-> next < r.next - 1, parts |-> parts]
  BY DEF Page
<1>2. /\ r.next \in Nat /\ Len(r.events) \in Nat /\ DOMAIN r.events = 1..Len(r.events)
      /\ \A i \in 1..Len(r.events) : r.events[i].seq \in Nat /\ r.events[i].parts \in SUBSET Synced
  <2>1. r.events \in Seq(Event) /\ r.next \in Nat
    BY DEF Ring
  <2>2. Len(r.events) \in Nat /\ DOMAIN r.events = 1..Len(r.events)
    BY <2>1, LenProperties
  <2>3. \A i \in 1..Len(r.events) : r.events[i] \in Event
    BY <2>1, ElementOfSeq
  <2> QED BY <2>1, <2>2, <2>3 DEF Event
<1>3. cursor.seq \in Nat
  OBVIOUS
<1>o. /\ \A i, j \in 1..Len(r.events) : i < j => r.events[i].seq < r.events[j].seq
      /\ \A i \in 1..Len(r.events) : r.events[i].seq < r.next
  BY <1>2 DEF Ordered
<1>4. \A i \in after : IsFiniteSet(upTo(i))
  <2>1. IsFiniteSet(1..Len(r.events))
    <3>1. 1 \in Int /\ Len(r.events) \in Int
      BY <1>2
    <3> QED BY <3>1, FS_Interval
  <2> QED BY <1>2, <2>1, FS_Subset
\* a page is an initial segment of what follows the cursor
<1>5. ASSUME NEW i \in page, NEW j \in after, j <= i PROVE j \in page
  <2>1. upTo(j) \subseteq upTo(i)
    BY <1>2, <1>5
  <2>2. Cardinality(upTo(j)) <= Cardinality(upTo(i)) /\ Cardinality(upTo(j)) \in Nat
        /\ Cardinality(upTo(i)) \in Nat
    BY <1>4, <1>5, <2>1, FS_Subset, FS_CardinalityType
  <2> QED BY <1>5, <2>2
<1>6. page \subseteq after /\ after \subseteq 1..Len(r.events)
  BY <1>2
<1>u. \A i \in after : r.events[i].seq > cursor.seq
  OBVIOUS
<1> HIDE DEF page, after
<1>7. parts \in SUBSET Synced
  BY <1>2, <1>6
<1>8. ASSUME NEW p \in Synced, UnreadIn(r, cursor.seq, p)
      PROVE  \E i \in after : p \in r.events[i].parts
  BY <1>8 DEF UnreadIn, after
<1>9. /\ next \in Nat /\ next < r.next /\ cursor.seq <= next
      /\ \A p \in Synced : UnreadIn(r, cursor.seq, p) => p \in parts \/ UnreadIn(r, next, p)
  <2>1. CASE page = {}
    BY <1>3, <2>1
  <2>2. CASE page # {}
    <3> HIDE DEF last
    <3>1. last \in page /\ \A j \in page : j <= last
      <4>1. page \in SUBSET (1..Len(r.events)) /\ Len(r.events) \in Nat
        BY <1>2, <1>6
      <4>2. \E i \in page : \A j \in page : j <= i
        BY <2>2, <4>1, GreatestIndex
      <4> QED BY <4>2 DEF last
    <3>2. next = r.events[last].seq /\ last \in after /\ last \in 1..Len(r.events)
      BY <1>6, <2>2, <3>1
    <3>3. next \in Nat /\ next < r.next /\ cursor.seq <= next
      BY <1>2, <1>3, <1>o, <1>u, <3>2
    <3>4. ASSUME NEW p \in Synced, UnreadIn(r, cursor.seq, p) PROVE p \in parts \/ UnreadIn(r, next, p)
      <4>1. PICK i \in after : p \in r.events[i].parts
        BY <1>8, <3>4
      <4>2. i \in 1..Len(r.events)
        BY <1>6
      <4>3. CASE i <= last
        <5>1. i \in page
          BY <1>5, <3>1, <4>3
        <5> QED BY <4>1, <5>1
      <4>4. CASE i > last
        <5>1. r.events[i].seq > next
          BY <1>2, <1>o, <3>2, <4>2, <4>4
        <5> QED BY <1>2, <4>1, <4>2, <5>1 DEF UnreadIn
      <4> QED BY <1>2, <3>2, <4>2, <4>3, <4>4
    <3> QED BY <3>3, <3>4
  <2> QED BY <2>1, <2>2
<1> HIDE DEF next, parts
<1>10. ~(next < r.next - 1) => next = r.next - 1
  BY <1>2, <1>9
<1>11. pg.next = next /\ pg.parts = parts /\ pg.more = (next < r.next - 1)
  BY <1>1
<1> QED BY <1>7, <1>9, <1>10, <1>11

LEMMA PollSays ==
  ASSUME TypeOK, Ordered(ring), Poll
  PROVE  /\ client' \in Client /\ client'.on = client.on /\ client'.mirror = client.mirror
         /\ \/ client'.cursor.epoch = 0 /\ client'.cursor.seq = 0
            \/ /\ ~IsStale(ring, client.cursor) /\ client'.cursor.epoch = client.cursor.epoch
               /\ client'.cursor.seq < ring.next /\ client'.saw = ring.next
               /\ ~client'.more => client'.cursor.seq = ring.next - 1
               /\ \A p \in Synced : UnreadIn(ring, client.cursor.seq, p)
                     => p \in client'.pull \/ UnreadIn(ring, client'.cursor.seq, p)
<1> DEFINE pg(limit) == Page(ring, client.cursor, limit)
<1>1. PICK limit \in {1, 2} :
        client' = IF IsStale(ring, client.cursor)
                  THEN [client EXCEPT !.cursor = [epoch |-> 0, seq |-> 0], !.more = TRUE]
                  ELSE [client EXCEPT !.cursor = [@ EXCEPT !.seq = pg(limit).next], !.pull = pg(limit).parts,
                                      !.more = pg(limit).more, !.saw = ring.next]
  <2>1. 1..2 = {1, 2}
    OBVIOUS
  <2> QED BY <2>1 DEF Poll
<1>2. /\ client \in Client /\ client.mirror \in [Synced -> Changes] /\ client.pull \in SUBSET Synced
      /\ client.saw \in Nat /\ client.cursor \in [epoch : Nat, seq : Nat]
      /\ client.cursor.epoch \in Nat /\ client.cursor.seq \in Nat /\ ring.next \in Nat
      /\ ring \in Ring
  BY ShowsInClient DEF TypeOK, Ring
<1>3. CASE IsStale(ring, client.cursor)
  <2> DEFINE cu == [epoch |-> 0, seq |-> 0]
  <2>1. cu \in [epoch : Nat, seq : Nat] /\ cu.epoch = 0 /\ cu.seq = 0
    OBVIOUS
  <2> HIDE DEF cu
  <2>2. client' = [client EXCEPT !.cursor = cu, !.more = TRUE]
    BY <1>1, <1>3 DEF cu
  <2>3. client' = [on |-> client.on, cursor |-> cu, pull |-> client.pull, more |-> TRUE, saw |-> client.saw,
                   mirror |-> client.mirror]
    BY <1>2, <2>2 DEF Client
  <2>4. client' \in Client
    BY <1>2, <2>1, <2>3, ClientAt
  <2> QED BY <2>1, <2>3, <2>4
<1>4. CASE ~IsStale(ring, client.cursor)
  <2>1. client.cursor.seq < ring.next
    BY <1>2, <1>4 DEF IsStale
  <2> DEFINE nx == pg(limit).next
             parts == pg(limit).parts
             more == pg(limit).more
             cu == [epoch |-> client.cursor.epoch, seq |-> nx]
  <2> HIDE DEF pg
  <2>2. /\ nx \in Nat /\ nx < ring.next /\ client.cursor.seq <= nx /\ parts \in SUBSET Synced
        /\ more = (nx < ring.next - 1) /\ (~(nx < ring.next - 1) => nx = ring.next - 1)
        /\ \A p \in Synced : UnreadIn(ring, client.cursor.seq, p) => p \in parts \/ UnreadIn(ring, nx, p)
    BY <1>2, <2>1, PageSays DEF pg
  <2>3. cu = [client.cursor EXCEPT !.seq = nx]
    BY <1>2
  <2>4. client' = [client EXCEPT !.cursor = cu, !.pull = parts, !.more = more, !.saw = ring.next]
    BY <1>1, <1>2, <1>4, <2>3 DEF Client
  <2> HIDE DEF nx, parts, more
  <2>5. cu \in [epoch : Nat, seq : Nat] /\ cu.epoch = client.cursor.epoch /\ cu.seq = nx
    BY <1>2, <2>2
  <2> HIDE DEF cu
  <2>6. client' = [on |-> client.on, cursor |-> cu, pull |-> parts, more |-> more, saw |-> ring.next,
                   mirror |-> client.mirror]
    BY <1>2, <2>4 DEF Client
  <2>7. more \in BOOLEAN
    BY <2>2
  <2>8. client' \in Client
    BY <1>2, <2>2, <2>5, <2>6, <2>7, ClientAt
  <2>9. /\ client'.cursor = cu /\ client'.pull = parts /\ client'.more = more /\ client'.saw = ring.next
        /\ client'.on = client.on /\ client'.mirror = client.mirror
    BY <2>6
  <2>10. ~client'.more => nx = ring.next - 1
    BY <2>2, <2>9
  <2> QED BY <1>4, <2>2, <2>5, <2>8, <2>9, <2>10
<1> QED BY <1>3, <1>4

LEMMA PullSays ==
  ASSUME TypeOK, Pull
  PROVE  /\ client' \in Client /\ client'.on = client.on /\ client'.cursor = client.cursor
         /\ client'.saw = client.saw /\ client'.more = client.more
         /\ \E p \in Synced :
              /\ client'.pull = client.pull \ {p} /\ client'.mirror[p] = entry.shows[p]
              /\ \A q \in Synced : q # p => client'.mirror[q] = client.mirror[q]
<1>1. PICK p \in client.pull :
        client' = [client EXCEPT !.pull = @ \ {p}, !.mirror = [@ EXCEPT ![p] = entry.shows[p]]]
  BY DEF Pull
<1> DEFINE mi == [client.mirror EXCEPT ![p] = entry.shows[p]]
           pu == client.pull \ {p}
<1>2. /\ client \in Client /\ client.mirror \in [Synced -> Changes] /\ client.pull \in SUBSET Synced
      /\ client.saw \in Nat /\ client.cursor \in [epoch : Nat, seq : Nat] /\ client.more \in BOOLEAN
  BY ShowsInClient DEF TypeOK
<1>3. p \in Synced /\ entry.shows[p] \in Changes
  BY <1>2, ShowsType DEF Synced, Parts
<1>4. mi \in [Synced -> Changes] /\ mi[p] = entry.shows[p]
      /\ (\A q \in Synced : q # p => mi[q] = client.mirror[q])
  BY <1>2, <1>3
<1>5. pu \in SUBSET Synced
  BY <1>2
<1>6. client' = [client EXCEPT !.pull = pu, !.mirror = mi]
  BY <1>1, <1>2 DEF Client
<1> HIDE DEF mi, pu
<1>7. client' = [on |-> client.on, cursor |-> client.cursor, pull |-> pu, more |-> client.more,
                 saw |-> client.saw, mirror |-> mi]
  BY <1>2, <1>6 DEF Client
<1>8. client' \in Client
  BY <1>2, <1>4, <1>5, <1>7, ClientAt
<1>9. /\ client'.mirror = mi /\ client'.pull = pu /\ client'.on = client.on /\ client'.cursor = client.cursor
      /\ client'.saw = client.saw /\ client'.more = client.more
  BY <1>7
<1> QED BY <1>3, <1>4, <1>8, <1>9 DEF pu

LEMMA RecreateEntry ==
  ASSUME TypeOK, entry' = [Newborn(mint.id + 1, Fresh) EXCEPT !.birth = mint.birth + 1]
  PROVE  /\ entry' \in Entry /\ entry'.live = TRUE /\ entry'.id = mint.id + 1 /\ entry'.birth = mint.birth + 1
         /\ entry'.graph = 0 /\ entry'.passages = 0 /\ entry'.config = 0 /\ entry'.watermark = 0
         /\ entry'.shows = [p \in Parts \ {"index"} |-> {Fresh}]
<1> DEFINE sh == [p \in Parts \ {"index"} |-> {Fresh}]
<1>1. sh \in [Parts \ {"index"} -> Changes]
  BY FreshType DEF Changes
<1>2. mint.id + 1 \in Nat /\ mint.birth + 1 \in Nat
  BY DEF TypeOK, Mint
<1> HIDE DEF sh
<1>3. entry' = [live |-> TRUE, id |-> mint.id + 1, birth |-> mint.birth + 1, graph |-> 0, passages |-> 0,
                config |-> 0, watermark |-> 0, shows |-> sh]
  BY DEF Newborn, sh
<1>4. [live |-> TRUE, id |-> mint.id + 1, birth |-> mint.birth + 1, graph |-> 0, passages |-> 0,
       config |-> 0, watermark |-> 0, shows |-> sh] \in Entry
  BY <1>1, <1>2 DEF Entry
<1>5. /\ entry'.live = TRUE /\ entry'.id = mint.id + 1 /\ entry'.birth = mint.birth + 1
      /\ entry'.graph = 0 /\ entry'.passages = 0 /\ entry'.config = 0 /\ entry'.watermark = 0
      /\ entry'.shows = sh
  BY <1>3
<1>6. entry' \in Entry
  BY <1>3, <1>4
<1>7. sh = [p \in Parts \ {"index"} |-> {Fresh}]
  BY DEF sh
<1> QED BY <1>5, <1>6, <1>7

LEMMA LoggedWriteType ==
  ASSUME TypeOK, Ordered(ring), NEW announced \in SUBSET Synced, LoggedWrite(announced),
         wr' \in [Writers -> {Idle} \cup Batch \cup Retraction \cup Refresh]
  PROVE  TypeOK' /\ Ordered(ring)'
<1>1. entry' \in Entry
  BY LoggedWriteEntry DEF LoggedWrite
<1>2. mint' \in Mint
  BY Minted DEF LoggedWrite
<1>3. ring' \in Ring /\ Ordered(ring)'
  BY AnnounceExtends DEF LoggedWrite, Extends
<1>4. acked' \in [Parts -> Changes]
  BY FreshType, AckSays DEF LoggedWrite
<1> QED BY <1>1, <1>2, <1>3, <1>4 DEF LoggedWrite, TypeOK

LEMMA PassageBatchSays ==
  ASSUME TypeOK, NEW w \in Writers, NEW events \in 0..2, PassageBatch(w, events)
  PROVE  /\ TypeOK'
         /\ wr'[w].pc = "fold" /\ wr'[w].change = Fresh /\ wr'[w].seq = entry.watermark + 1
         /\ wr'[w].events = events /\ \A y \in Writers : y # w => wr'[y] = wr[y]
<1> DEFINE x == [pc |-> "fold", change |-> Fresh, seq |-> entry.watermark + 1, events |-> events]
<1>1. entry' \in Entry
  BY BatchEntry DEF PassageBatch
<1>2. mint' \in Mint
  BY Minted DEF PassageBatch
<1>3. entry.watermark + 1 \in Nat
  BY DEF TypeOK, Entry
<1>4. x \in Batch /\ x.pc = "fold" /\ x.change = Fresh /\ x.seq = entry.watermark + 1 /\ x.events = events
  BY <1>3, FreshType DEF Batch, Folding
<1>5. wr' = [wr EXCEPT ![w] = x]
  BY DEF PassageBatch
<1> HIDE DEF x
<1>6. /\ wr' \in [Writers -> {Idle} \cup Batch \cup Retraction \cup Refresh]
      /\ wr'[w] = x /\ \A y \in Writers : y # w => wr'[y] = wr[y]
  BY <1>4, <1>5, WrPut
<1>7. TypeOK'
  BY <1>1, <1>2, <1>6 DEF PassageBatch, TypeOK
<1> QED BY <1>4, <1>6, <1>7

LEMMA ReadWatermarkSays ==
  ASSUME TypeOK, NEW w \in Writers, ReadWatermark(w)
  PROVE  /\ wr' \in [Writers -> {Idle} \cup Batch \cup Retraction \cup Refresh]
         /\ wr'[w].pc = "max" /\ wr'[w].change = wr[w].change /\ wr'[w].seq = entry.watermark
         /\ wr'[w].events = wr[w].events /\ \A y \in Writers : y # w => wr'[y] = wr[y]
<1> DEFINE x == [pc |-> "max", change |-> wr[w].change, seq |-> entry.watermark, events |-> wr[w].events]
<1>1. wr[w] \in Batch
  BY WriterShape DEF ReadWatermark, Folding
<1>2. entry.watermark \in Nat
  BY DEF TypeOK, Entry
<1>3. x \in Batch /\ x.pc = "max" /\ x.change = wr[w].change /\ x.seq = entry.watermark
      /\ x.events = wr[w].events
  BY <1>1, <1>2 DEF Batch, Folding
<1>4. wr' = [wr EXCEPT ![w] = x]
  BY DEF ReadWatermark, TypeOK
<1> HIDE DEF x
<1> QED BY <1>3, <1>4, WrPut

LEMMA PublishVectorsSays ==
  ASSUME TypeOK, NEW w \in Writers, PublishVectors(w)
  PROVE  /\ wr' \in [Writers -> {Idle} \cup Batch \cup Retraction \cup Refresh]
         /\ wr'[w].pc = "vectors" /\ wr'[w].change = Fresh /\ wr'[w].birth = entry.birth
         /\ \A y \in Writers : y # w => wr'[y] = wr[y]
<1> DEFINE x == [pc |-> "vectors", change |-> Fresh, birth |-> entry.birth]
<1>1. entry.birth \in Nat
  BY DEF TypeOK, Entry
<1>2. x \in Refresh /\ x.pc = "vectors" /\ x.change = Fresh /\ x.birth = entry.birth
  BY <1>1, FreshType DEF Refresh
<1>3. wr' = [wr EXCEPT ![w] = x]
  BY DEF PublishVectors
<1> HIDE DEF x
<1> QED BY <1>2, <1>3, WrPut

LEMMA MintKeySays ==
  ASSUME TypeOK, NEW r \in Readers, MintKey(r)
  PROVE  /\ rd' \in [Readers -> {Idle} \cup Request]
         /\ \E op \in Ops : /\ rd'[r].key = RetrievalKey(op)
                            /\ rd'[r].due = [i \in 1..2 |-> acked[Reads(op)[i]]]
         /\ rd'[r].pc = "probe" /\ rd'[r].birth = entry.birth
         /\ \A y \in Readers : y # r => rd'[y] = rd[y]
<1> DEFINE x(op) == [pc |-> "probe", key |-> RetrievalKey(op), birth |-> entry.birth, value |-> <<>>,
                     due |-> [i \in 1..2 |-> acked[Reads(op)[i]]]]
<1>1. PICK op \in Ops : rd' = [rd EXCEPT ![r] = x(op)]
  BY DEF MintKey
<1> DEFINE due == [i \in 1..2 |-> acked[Reads(op)[i]]]
           key == RetrievalKey(op)
<1>2. due \in [1..2 -> Changes]
  BY ReadsParts DEF TypeOK
<1>3. key \in Key /\ entry.birth \in Nat
  BY KeyType DEF TypeOK, Entry
<1>4. x(op) = [pc |-> "probe", key |-> key, birth |-> entry.birth, value |-> <<>>, due |-> due]
  OBVIOUS
<1> HIDE DEF x, due, key
<1>5. x(op) \in Request /\ x(op).pc = "probe" /\ x(op).key = key /\ x(op).due = due
      /\ x(op).birth = entry.birth
  BY <1>2, <1>3, <1>4 DEF Request
<1>6. /\ rd' \in [Readers -> {Idle} \cup Request]
      /\ rd'[r] = x(op) /\ \A y \in Readers : y # r => rd'[y] = rd[y]
  BY <1>1, <1>5, RdPut
<1> QED BY <1>5, <1>6 DEF key, due

LEMMA FirstSays ==
  ASSUME TypeOK, NEW r \in Readers, First(r)
  PROVE  /\ rd' \in [Readers -> {Idle} \cup Request] /\ index' \in Index
         /\ \A y \in Readers : y # r => rd'[y] = rd[y]
         /\ \/ ~entry.live /\ rd'[r] = Idle /\ index' = index
            \/ /\ entry.live /\ rd[r].key.op = "search" /\ index' = Built
               /\ rd'[r].pc = "second" /\ rd'[r].value = <<Built.shows>>
               /\ rd'[r].key = rd[r].key /\ rd'[r].due = rd[r].due /\ rd'[r].birth = rd[r].birth
            \/ /\ entry.live /\ rd[r].key.op # "search" /\ index' = index
               /\ rd'[r].pc = "second" /\ rd'[r].value = <<entry.shows.graph>>
               /\ rd'[r].key = rd[r].key /\ rd'[r].due = rd[r].due /\ rd'[r].birth = rd[r].birth
<1>1. index \in Index /\ Built \in Index /\ Built.shows \in Changes
  BY ShowsType DEF TypeOK, Built, Index
<1>2. rd[r].pc # "idle"
  BY DEF First
<1>3. <<Built.shows>> \in Seq(Changes) /\ <<entry.shows.graph>> \in Seq(Changes)
  BY <1>1, ShowsType
<1>4. CASE ~entry.live
  BY <1>1, <1>4, RdPut DEF First
<1>5. CASE entry.live /\ rd[r].key.op = "search"
  <2>1. index' = Built /\ rd' = [rd EXCEPT ![r].pc = "second", ![r].value = <<Built.shows>>]
    BY <1>5 DEF First
  <2> QED BY <1>1, <1>2, <1>3, <1>5, <2>1, RdTurn
<1>6. CASE entry.live /\ rd[r].key.op # "search"
  <2>1. index' = index /\ rd' = [rd EXCEPT ![r].pc = "second", ![r].value = <<entry.shows.graph>>]
    BY <1>6 DEF First
  <2> QED BY <1>1, <1>2, <1>3, <1>6, <2>1, RdTurn
<1> QED BY <1>4, <1>5, <1>6

LEMMA SecondSays ==
  ASSUME TypeOK, NEW r \in Readers, Second(r)
  PROVE  /\ rd' \in [Readers -> {Idle} \cup Request]
         /\ \A y \in Readers : y # r => rd'[y] = rd[y]
         /\ rd[r].key.op \in Ops /\ rd[r].value \in Seq(Changes)
         /\ rd'[r].pc = "file" /\ rd'[r].key = rd[r].key /\ rd'[r].due = rd[r].due /\ rd'[r].birth = rd[r].birth
         /\ entry.live => rd'[r].value = Append(rd[r].value, entry.shows[Reads(rd[r].key.op)[2]])
         /\ ~entry.live => rd'[r].value = Append(rd[r].value, {})
<1> DEFINE more == IF entry.live THEN entry.shows[Reads(rd[r].key.op)[2]] ELSE {}
<1>1. rd[r].pc # "idle" /\ rd[r] \in Request
  BY ReaderShape DEF Second
<1>2. rd[r].key.op \in Ops /\ rd[r].value \in Seq(Changes)
  BY <1>1 DEF Request, Key
<1>3. more \in Changes
  BY <1>2, ReadsParts, ShowsType DEF Changes
<1>4. rd' = [rd EXCEPT ![r].pc = "file", ![r].value = Append(rd[r].value, more)]
  BY <1>1 DEF Second, TypeOK
<1> HIDE DEF more
<1>5. Append(rd[r].value, more) \in Seq(Changes)
  BY <1>2, <1>3, AppendProperties
<1>6. /\ rd' \in [Readers -> {Idle} \cup Request]
      /\ \A y \in Readers : y # r => rd'[y] = rd[y]
      /\ rd'[r].pc = "file" /\ rd'[r].key = rd[r].key /\ rd'[r].due = rd[r].due /\ rd'[r].birth = rd[r].birth
      /\ rd'[r].value = Append(rd[r].value, more)
  BY <1>1, <1>4, <1>5, RdTurn
<1> QED BY <1>2, <1>6 DEF more

LEMMA HitSays ==
  ASSUME TypeOK, NEW r \in Readers, Hit(r)
  PROVE  /\ rd' \in [Readers -> {Idle} \cup Request]
         /\ \A y \in Readers : y # r => rd'[y] = rd[y]
         /\ rd'[r].pc = "done" /\ rd'[r].key = rd[r].key /\ rd'[r].due = rd[r].due /\ rd'[r].birth = rd[r].birth
         /\ \E i \in DOMAIN cache : cache[i].key = rd[r].key /\ rd'[r].value = cache[i].value
         /\ cache' \in Seq(Response) /\ \A i \in DOMAIN cache' : \E j \in DOMAIN cache : cache'[i] = cache[j]
<1>1. PICK i \in Slots(rd[r].key) : rd' = [rd EXCEPT ![r].pc = "done", ![r].value = cache[i].value]
  BY DEF Hit
<1>2. i \in DOMAIN cache /\ cache[i].key = rd[r].key
  BY DEF Slots
<1>3. cache[i] \in Response
  BY <1>2, LenProperties, ElementOfSeq DEF TypeOK
<1>4. cache[i].value \in Seq(Changes) /\ rd[r].pc # "idle"
  BY <1>3 DEF Response, Hit
<1>5. cache' \in Seq(Response) /\ \A k \in DOMAIN cache' : \E j \in DOMAIN cache : cache'[k] = cache[j]
  <2>1. Slots(rd[r].key) # {} /\ cache' = Touched(rd[r].key)
    BY DEF Hit
  <2> QED BY <2>1, TouchedSays
<1>6. /\ rd' \in [Readers -> {Idle} \cup Request]
      /\ \A y \in Readers : y # r => rd'[y] = rd[y]
      /\ rd'[r].pc = "done" /\ rd'[r].key = rd[r].key /\ rd'[r].due = rd[r].due /\ rd'[r].birth = rd[r].birth
      /\ rd'[r].value = cache[i].value
  BY <1>1, <1>4, RdTurn
<1> QED BY <1>2, <1>5, <1>6

LEMMA FileSays ==
  ASSUME TypeOK, NEW r \in Readers, File(r)
  PROVE  /\ rd' \in [Readers -> {Idle} \cup Request]
         /\ \A y \in Readers : y # r => rd'[y] = rd[y]
         /\ rd'[r].pc = "done" /\ rd'[r].key = rd[r].key /\ rd'[r].due = rd[r].due /\ rd'[r].birth = rd[r].birth
         /\ rd'[r].value = rd[r].value
         /\ cache' \in Seq(Response)
         /\ \A i \in DOMAIN cache' : \/ \E j \in DOMAIN cache : cache'[i] = cache[j]
                                     \/ cache'[i] = [key |-> rd[r].key, value |-> rd[r].value]
<1>1. rd[r].pc # "idle" /\ rd[r] \in Request /\ rd' = [rd EXCEPT ![r].pc = "done"]
  BY ReaderShape DEF File
<1>2. rd[r].key \in Key /\ rd[r].value \in Seq(Changes) /\ Budget \in Nat
  BY <1>1, ReadSideConstants DEF Request
<1>3. PICK cost \in {1, Budget} : cache' = Insert(rd[r].key, rd[r].value, cost)
  BY DEF File, FiledUnder
<1>4. cost \in Nat
  BY <1>2
<1>5. /\ rd' \in [Readers -> {Idle} \cup Request]
      /\ \A y \in Readers : y # r => rd'[y] = rd[y]
      /\ rd'[r].pc = "done" /\ rd'[r].key = rd[r].key /\ rd'[r].due = rd[r].due /\ rd'[r].birth = rd[r].birth
      /\ rd'[r].value = rd[r].value
  BY <1>1, RdPc
<1>6. /\ cache' \in Seq(Response)
      /\ \A i \in DOMAIN cache' : \/ \E j \in DOMAIN cache : cache'[i] = cache[j]
                                  \/ cache'[i] = [key |-> rd[r].key, value |-> rd[r].value]
  BY <1>2, <1>3, <1>4, InsertSays
<1> QED BY <1>5, <1>6

LEMMA TypeStep ==
  ASSUME TypeOK, Ordered(ring), [Next]_vars
  PROVE  TypeOK' /\ Ordered(ring)'
<1> DEFINE WrOK == wr' \in [Writers -> {Idle} \cup Batch \cup Retraction \cup Refresh]
<1>0. Fresh \in Nat
  BY FreshType
<1>1. CASE Write
  <2>1. WrOK
    BY <1>1 DEF Write, TypeOK
  <2> QED BY <1>1, <2>1, LoggedWriteType DEF Write, Synced
<1>2. CASE UpdateMeta
  <2>1. entry' \in Entry /\ mint' \in Mint /\ acked' \in [Parts -> Changes]
    BY <1>0, <1>2, MetaEntry, Minted, AckSays DEF UpdateMeta
  <2> QED BY <1>2, <2>1 DEF UpdateMeta, TypeOK
<1>3. CASE PutSchema
  <2>1. entry' \in Entry /\ mint' \in Mint /\ acked' \in [Parts -> Changes]
    BY <1>0, <1>3, SchemaEntry, Minted, AckSays DEF PutSchema
  <2>2. ring' \in Ring /\ Ordered(ring)'
    BY <1>3, AnnounceExtends DEF PutSchema, Extends
  <2> QED BY <1>3, <2>1, <2>2 DEF PutSchema, TypeOK
<1>4. CASE Compact
  <2>1. entry' \in Entry /\ mint' \in Mint /\ acked' \in [Parts -> Changes]
    BY <1>0, <1>4, CompactEntry, Minted, AckSays DEF Compact, Compacted
  <2>2. quiet' \in Changes
    BY <1>0, <1>4 DEF Compact, TypeOK, Changes
  <2> QED BY <1>4, <2>1, <2>2 DEF Compact, TypeOK
<1>5. CASE EvictIndex
  <2>1. index' \in Index
    BY <1>5 DEF EvictIndex, Index, Changes
  <2> QED BY <1>5, <2>1 DEF EvictIndex, TypeOK
<1>6. CASE Delete
  BY <1>6, DeleteEntry DEF Delete, TypeOK
<1>7. CASE Recreate
  <2>1. entry' \in Entry /\ mint' \in Mint
    BY <1>7, RecreateEntry, Minted DEF Recreate
  <2>2. index' \in Index
    BY <1>7 DEF Recreate, Index, Changes
  <2>3. mint.epoch + 1 \in Nat
    BY DEF TypeOK, Mint
  <2>4. ring' \in Ring /\ Ordered(ring)'
    BY <1>7, <2>3 DEF Recreate, Ring, Ordered
  <2>5. acked' \in [Parts -> Changes]
    BY <1>0, <1>7 DEF Recreate, Changes
  <2> QED BY <1>7, <2>1, <2>2, <2>4, <2>5 DEF Recreate, TypeOK
<1>8. ASSUME NEW w \in Writers, RetractGraph(w) PROVE TypeOK' /\ Ordered(ring)'
  <2>1. PICK touched \in BOOLEAN :
          /\ wr' = [wr EXCEPT ![w] = [pc |-> "passage", touched |-> touched]]
          /\ IF touched THEN LoggedWrite(Synced)
             ELSE UNCHANGED <<entry, index, ring, cache, rd, client, mint, acked, overtaken, quiet>>
    BY <1>8 DEF RetractGraph
  <2>2. [pc |-> "passage", touched |-> touched] \in Retraction
    BY DEF Retraction
  <2>3. WrOK
    BY <2>1, <2>2, WrPut
  <2>4. CASE touched
    BY <2>1, <2>3, <2>4, LoggedWriteType
  <2>5. CASE ~touched
    BY <2>1, <2>3, <2>5 DEF TypeOK
  <2> QED BY <2>4, <2>5
<1>9. ASSUME NEW w \in Writers, StorePassages(w) \/ RetractPassage(w) PROVE TypeOK' /\ Ordered(ring)'
  <2>1. PICK n \in 0..2 : PassageBatch(w, n)
    <3>1. CASE StorePassages(w)
      BY <3>1 DEF StorePassages
    <3>2. CASE RetractPassage(w)
      BY <3>2 DEF RetractPassage
    <3> QED BY <1>9, <3>1, <3>2
  <2>2. TypeOK'
    BY <2>1, PassageBatchSays
  <2> QED BY <2>1, <2>2 DEF PassageBatch
<1>10. ASSUME NEW w \in Writers, RetractNothing(w) PROVE TypeOK' /\ Ordered(ring)'
  <2>1. WrOK
    BY <1>10, WrPut DEF RetractNothing
  <2> QED BY <1>10, <2>1 DEF RetractNothing, TypeOK
<1>11. ASSUME NEW w \in Writers, Fold(w) PROVE TypeOK' /\ Ordered(ring)'
  <2>1. wr[w] \in Batch /\ WrOK
    BY <1>11, WriterShape, WrPc DEF Fold, Folding
  <2>2. index' \in Index
    BY <1>11, <2>1 DEF Fold, TypeOK, Index, Batch, Changes
  <2> QED BY <1>11, <2>1, <2>2 DEF Fold, TypeOK
<1>12. ASSUME NEW w \in Writers, ReadWatermark(w) PROVE TypeOK' /\ Ordered(ring)'
  BY <1>12, ReadWatermarkSays DEF ReadWatermark, TypeOK
<1>13. ASSUME NEW w \in Writers, BumpPassages(w) PROVE TypeOK' /\ Ordered(ring)'
  <2>1. wr[w] \in Batch /\ WrOK
    BY <1>13, WriterShape, WrPc DEF BumpPassages, Folding
  <2>2. FetchMax(w) \in Nat
    BY <2>1 DEF FetchMax, Batch, TypeOK, Entry
  <2>3. entry' \in Entry
    BY <1>13, <2>2, BumpPassagesEntry DEF BumpPassages
  <2>4. \A y \in Writers : wr[y].pc = "fold" => wr[y].change \in Nat
    BY WriterShape DEF Batch, Folding
  <2>5. overtaken' \in Changes
    BY <1>13, <2>4 DEF BumpPassages, TypeOK, Changes
  <2> QED BY <1>13, <2>1, <2>3, <2>5 DEF BumpPassages, TypeOK
<1>14. ASSUME NEW w \in Writers, Feed(w) PROVE TypeOK' /\ Ordered(ring)'
  <2>1. wr[w] \in Batch /\ WrOK
    BY <1>14, WriterShape, WrPut DEF Feed, Folding
  <2>2. wr[w].events \in 0..2 /\ wr[w].change \in Nat
    BY <2>1 DEF Batch
  <2>3. ring' \in Ring /\ Ordered(ring)'
    BY <1>14, <2>2, AnnounceExtends DEF Feed, Extends, Synced
  <2>4. acked' \in [Parts -> Changes]
    BY <1>14, <2>2, AckSays DEF Feed
  <2>5. quiet' \in Changes
    BY <1>14, <2>2 DEF Feed, TypeOK, Changes
  <2> QED BY <1>14, <2>1, <2>3, <2>4, <2>5 DEF Feed, TypeOK
<1>15. ASSUME NEW w \in Writers, PublishVectors(w) PROVE TypeOK' /\ Ordered(ring)'
  <2>1. entry' \in Entry /\ mint' \in Mint /\ WrOK
    BY <1>15, VectorsEntry, Minted, PublishVectorsSays DEF PublishVectors
  <2> QED BY <1>15, <2>1 DEF PublishVectors, TypeOK
<1>16. ASSUME NEW w \in Writers, BumpConfig(w) PROVE TypeOK' /\ Ordered(ring)'
  <2>1. WrOK
    BY <1>16, WrPut DEF BumpConfig
  <2>2. entry' \in Entry /\ acked' \in [Parts -> Changes]
    <3>1. CASE entry.live /\ entry.birth = wr[w].birth
      <4>1. wr[w].change \in Nat
        BY <1>16, WriterShape DEF BumpConfig, Refresh
      <4> QED BY <1>16, <3>1, <4>1, BumpConfigEntry, AckSays DEF BumpConfig
    <3>2. CASE ~(entry.live /\ entry.birth = wr[w].birth)
      BY <1>16, <3>2 DEF BumpConfig, TypeOK
    <3> QED BY <3>1, <3>2
  <2> QED BY <1>16, <2>1, <2>2 DEF BumpConfig, TypeOK
<1>17. ASSUME NEW r \in Readers, MintKey(r) PROVE TypeOK' /\ Ordered(ring)'
  <2>1. rd' \in [Readers -> {Idle} \cup Request] /\ mint' \in Mint
    BY <1>17, MintKeySays, Minted DEF MintKey
  <2> QED BY <1>17, <2>1 DEF MintKey, TypeOK
<1>18. ASSUME NEW r \in Readers, Hit(r) PROVE TypeOK' /\ Ordered(ring)'
  BY <1>18, HitSays DEF Hit, TypeOK
<1>19. ASSUME NEW r \in Readers, First(r) PROVE TypeOK' /\ Ordered(ring)'
  BY <1>19, FirstSays DEF First, TypeOK
<1>20. ASSUME NEW r \in Readers, Second(r) PROVE TypeOK' /\ Ordered(ring)'
  BY <1>20, SecondSays DEF Second, TypeOK
<1>21. ASSUME NEW r \in Readers, File(r) PROVE TypeOK' /\ Ordered(ring)'
  BY <1>21, FileSays DEF File, TypeOK
<1>22. CASE StartTailing
  BY <1>22, StartTailingSays DEF StartTailing, TypeOK
<1>23. CASE Poll
  BY <1>23, PollSays DEF Poll, TypeOK
<1>24. CASE Pull
  BY <1>24, PullSays DEF Pull, TypeOK
<1>25. CASE UNCHANGED vars
  BY <1>25 DEF vars, TypeOK
<1> QED BY <1>1, <1>2, <1>3, <1>4, <1>5, <1>6, <1>7, <1>8, <1>9, <1>10, <1>11, <1>12, <1>13, <1>14, <1>15,
           <1>16, <1>17, <1>18, <1>19, <1>20, <1>21, <1>22, <1>23, <1>24, <1>25 DEF Next

-----------------------------------------------------------------------------
(* The change feed *)

Batching(w) == wr[w].pc \in Folding

\* Batches applied and not announced yet.
Unfed == {wr[w].change : w \in {x \in Writers : Batching(x)}}

\* What a client that has read everything must have of a part.
Owed(p) == entry.shows[p] \ (quiet \cup IF p = "store" THEN Unfed ELSE {})

\* The client has it, has been told to pull the part, will be told, or will be
\* sent back to the start.
Told(p) ==
  \/ p \in client.pull
  \/ UnreadIn(ring, client.cursor.seq, p)
  \/ EvictedIn(ring, client.cursor.seq)
  \/ Owed(p) \subseteq client.mirror[p]

FeedInv ==
  /\ Ordered(ring) /\ ring.epoch = mint.epoch /\ ring.epoch > 0
  /\ client.cursor.epoch <= ring.epoch /\ (~client.on => client.cursor.epoch = 0)
  /\ client.cursor.epoch = ring.epoch => client.cursor.seq < ring.next
  /\ client.cursor.epoch # 0 /\ ~client.more => client.saw <= client.cursor.seq + 1
  /\ entry.live /\ client.cursor.epoch = ring.epoch => \A p \in Synced : Told(p)

LEMMA FeedInit == Init => FeedInv
<1> SUFFICES ASSUME Init PROVE FeedInv
  OBVIOUS
<1>1. client.cursor.epoch = 0
  BY DEF Init
<1>2. ring.epoch = 1 /\ mint.epoch = 1 /\ ring.next = 1 /\ ring.events = <<>>
  BY DEF Init
<1>3. Ordered(ring)
  BY <1>2 DEF Ordered
<1> QED BY <1>1, <1>2, <1>3 DEF FeedInv

\* A step of anyone but the client: the ring tells what newly is owed.
LEMMA FeedStep ==
  ASSUME TypeOK, FeedInv, NEW told \in SUBSET Synced, client' = client, mint'.epoch = mint.epoch,
         Extends(ring, ring', told), entry'.live => entry.live,
         client.on => \A p \in Synced : p \in told \/ Owed(p)' \subseteq Owed(p)
  PROVE  FeedInv'
<1>1. /\ client.cursor.epoch \in Nat /\ client.cursor.seq \in Nat /\ ring.next \in Nat /\ ring'.next \in Nat
      /\ ring.epoch \in Nat /\ ring'.epoch = ring.epoch /\ ring.next <= ring'.next /\ Ordered(ring')
  BY ShowsInClient DEF TypeOK, Ring, Extends
<1>2. ASSUME entry'.live, client.cursor.epoch = ring.epoch, NEW p \in Synced PROVE Told(p)'
  <2>1. Told(p) /\ client.cursor.seq < ring.next /\ client.on
    BY <1>1, <1>2 DEF FeedInv
  <2>2. /\ EvictedIn(ring, client.cursor.seq) => EvictedIn(ring', client.cursor.seq)
        /\ UnreadIn(ring, client.cursor.seq, p)
             => UnreadIn(ring', client.cursor.seq, p) \/ EvictedIn(ring', client.cursor.seq)
        /\ p \in told => UnreadIn(ring', client.cursor.seq, p) \/ EvictedIn(ring', client.cursor.seq)
    BY <1>1, <1>2, <2>1 DEF Extends
  <2>3. p \in told \/ Owed(p)' \subseteq Owed(p)
    BY <2>1
  <2> QED BY <2>1, <2>2, <2>3 DEF Told
<1>3. client.cursor.epoch = ring.epoch => client.cursor.seq < ring'.next
  BY <1>1 DEF FeedInv
<1> QED BY <1>1, <1>2, <1>3 DEF FeedInv

\* A step that announces nothing and changes nothing a client mirrors.
LEMMA FeedQuiet ==
  ASSUME TypeOK, FeedInv, client' = client, mint'.epoch = mint.epoch, ring' = ring,
         entry'.live => entry.live, quiet \subseteq quiet',
         \A p \in Synced : entry'.shows[p] = entry.shows[p],
         \A w \in Writers : Batching(w) => Batching(w)' /\ wr'[w].change = wr[w].change
  PROVE  FeedInv'
<1>1. Extends(ring, ring', {})
  BY NothingExtends DEF TypeOK, FeedInv
<1>2. Unfed \subseteq Unfed'
  BY DEF Unfed
<1>3. \A p \in Synced : Owed(p)' \subseteq Owed(p)
  BY <1>2 DEF Owed
<1> QED BY <1>1, <1>3, FeedStep

LEMMA FeedStart ==
  ASSUME TypeOK, FeedInv, StartTailing
  PROVE  FeedInv'
<1>1. /\ client'.cursor.epoch = ring.epoch /\ client'.cursor.seq = ring.next - 1 /\ client'.pull = Synced
      /\ client'.saw = ring.next /\ client'.on = client.on
  BY StartTailingSays DEF FeedInv
<1>2. ring' = ring /\ mint' = mint /\ client.on
  BY DEF StartTailing
<1>3. ring.next \in Nat /\ ring.epoch \in Nat
  BY DEF TypeOK, Ring
<1>4. \A p \in Synced : Told(p)'
  BY <1>1 DEF Told
<1> QED BY <1>1, <1>2, <1>3, <1>4 DEF FeedInv

LEMMA FeedPoll ==
  ASSUME TypeOK, FeedInv, Poll
  PROVE  FeedInv'
<1>1. /\ client'.on = client.on /\ client'.mirror = client.mirror
      /\ \/ client'.cursor.epoch = 0 /\ client'.cursor.seq = 0
         \/ /\ ~IsStale(ring, client.cursor) /\ client'.cursor.epoch = client.cursor.epoch
            /\ client'.cursor.seq < ring.next /\ client'.saw = ring.next
            /\ ~client'.more => client'.cursor.seq = ring.next - 1
            /\ \A p \in Synced : UnreadIn(ring, client.cursor.seq, p)
                  => p \in client'.pull \/ UnreadIn(ring, client'.cursor.seq, p)
  BY PollSays DEF FeedInv
<1>2. /\ ring' = ring /\ mint' = mint /\ entry' = entry /\ wr' = wr /\ quiet' = quiet /\ client.pull = {}
      /\ entry.live /\ client.cursor.epoch # 0
  BY DEF Poll
<1>3. ring.next \in Nat /\ ring.epoch \in Nat
  BY DEF TypeOK, Ring
<1>4. CASE client'.cursor.epoch = 0
  BY <1>1, <1>2, <1>3, <1>4 DEF FeedInv
<1>5. CASE client'.cursor.epoch # 0
  <2>1. client.cursor.epoch = ring.epoch /\ ~EvictedIn(ring, client.cursor.seq)
    BY <1>1, <1>5 DEF IsStale, EvictedIn
  <2>2. ASSUME NEW p \in Synced PROVE Told(p)'
    <3>1. Told(p)
      BY <1>2, <2>1 DEF FeedInv
    <3>2. Owed(p)' = Owed(p)
      BY <1>2 DEF Owed, Unfed, Batching
    <3> QED BY <1>1, <1>2, <1>5, <2>1, <3>1, <3>2 DEF Told
  <2>3. ~client'.more => client'.saw <= client'.cursor.seq + 1
    BY <1>1, <1>3, <1>5
  <2> QED BY <1>1, <1>2, <1>3, <1>5, <2>1, <2>2, <2>3 DEF FeedInv
<1> QED BY <1>4, <1>5

LEMMA FeedPull ==
  ASSUME TypeOK, FeedInv, Pull
  PROVE  FeedInv'
<1>1. /\ client'.on = client.on /\ client'.cursor = client.cursor
      /\ client'.saw = client.saw /\ client'.more = client.more
  BY PullSays
<1>2. PICK p \in Synced :
        /\ client'.pull = client.pull \ {p} /\ client'.mirror[p] = entry.shows[p]
        /\ \A q \in Synced : q # p => client'.mirror[q] = client.mirror[q]
  BY PullSays
<1>3. ring' = ring /\ mint' = mint /\ entry' = entry /\ wr' = wr /\ quiet' = quiet
  BY DEF Pull
<1>4. ASSUME NEW q \in Synced, Told(q) PROVE Told(q)'
  <2>1. Owed(q)' = Owed(q)
    BY <1>3 DEF Owed, Unfed, Batching
  <2>2. CASE q = p
    <3>1. Owed(q) \subseteq entry.shows[p]
      BY <2>2 DEF Owed
    <3> QED BY <1>2, <2>1, <2>2, <3>1 DEF Told
  <2>3. CASE q # p
    BY <1>1, <1>2, <1>3, <1>4, <2>1, <2>3 DEF Told
  <2> QED BY <2>2, <2>3
<1> QED BY <1>1, <1>3, <1>4 DEF FeedInv

LEMMA FeedRecreate ==
  ASSUME TypeOK, FeedInv, Recreate
  PROVE  FeedInv'
<1>1. /\ ring'.epoch = mint.epoch + 1 /\ ring'.next = 1 /\ ring'.events = <<>> /\ client' = client
  BY DEF Recreate
<1>2. mint'.epoch = mint.epoch + 1
  BY Minted DEF Recreate
<1>3. Ordered(ring)'
  BY <1>1 DEF Ordered
<1>4. mint.epoch \in Nat /\ client.cursor.epoch \in Nat
  BY ShowsInClient DEF TypeOK, Mint
<1>5. client.cursor.epoch <= mint.epoch
  BY DEF FeedInv
<1>6. client.cursor.epoch # ring'.epoch /\ ring'.epoch > 0 /\ client.cursor.epoch <= ring'.epoch
  BY <1>1, <1>4, <1>5
<1> QED BY <1>1, <1>2, <1>3, <1>6 DEF FeedInv

LEMMA FeedLoggedWrite ==
  ASSUME TypeOK, FeedInv, NEW announced \in SUBSET Synced, "graph" \in announced, LoggedWrite(announced),
         \A w \in Writers : Batching(w) => Batching(w)' /\ wr'[w].change = wr[w].change
  PROVE  FeedInv'
<1> DEFINE told == IF 1 > 0 /\ client.on THEN announced ELSE {}
<1>1. Extends(ring, ring', told)
  BY AnnounceExtends DEF LoggedWrite, FeedInv
<1>2. /\ client' = client /\ quiet' = quiet /\ mint'.epoch = mint.epoch
      /\ entry'.live = entry.live /\ entry'.shows = Showing("graph")
  BY Minted, LoggedWriteEntry DEF LoggedWrite
<1>3. Unfed \subseteq Unfed'
  BY DEF Unfed
<1>4. entry'.shows["store"] = entry.shows["store"]
  BY <1>2, ShowingSays DEF Parts
<1>5. client.on => \A p \in Synced : p \in told \/ Owed(p)' \subseteq Owed(p)
  <2>1. client.on => told = announced
    OBVIOUS
  <2> QED BY <1>2, <1>3, <1>4, <2>1 DEF Owed, Synced
<1>6. told \in SUBSET Synced
  OBVIOUS
<1> HIDE DEF told
<1> QED BY <1>1, <1>2, <1>5, <1>6, FeedStep

LEMMA FeedBatch ==
  ASSUME TypeOK, FeedInv, NEW w \in Writers, NEW n \in 0..2, PassageBatch(w, n), ~Batching(w)
  PROVE  FeedInv'
<1>1. Extends(ring, ring', {})
  BY NothingExtends DEF TypeOK, FeedInv, PassageBatch
<1>2. /\ client' = client /\ quiet' = quiet /\ mint'.epoch = mint.epoch
      /\ entry'.live = entry.live /\ entry'.shows = Showing("store")
  BY Minted, BatchEntry DEF PassageBatch
<1>3. wr'[w].pc = "fold" /\ wr'[w].change = Fresh /\ \A y \in Writers : y # w => wr'[y] = wr[y]
  BY PassageBatchSays
<1>4. Unfed \subseteq Unfed' /\ Fresh \in Unfed'
  BY <1>3 DEF Unfed, Batching, Folding
<1>5. entry'.shows["graph"] = entry.shows["graph"] /\ entry'.shows["store"] = entry.shows["store"] \cup {Fresh}
  BY <1>2, ShowingSays DEF Parts
<1>6. \A p \in Synced : Owed(p)' \subseteq Owed(p)
  BY <1>2, <1>4, <1>5 DEF Owed, Synced
<1> QED BY <1>1, <1>2, <1>6, FeedStep

LEMMA FeedFeed ==
  ASSUME TypeOK, FeedInv, NEW w \in Writers, Feed(w)
  PROVE  FeedInv'
<1> DEFINE n == wr[w].events
           told == IF n > 0 /\ client.on THEN {"store"} ELSE {}
<1>1. wr[w] \in Batch /\ n \in 0..2 /\ {"store"} \in SUBSET Synced
  BY WriterShape DEF Feed, Folding, Batch, Synced
<1>2. Extends(ring, ring', told)
  BY <1>1, AnnounceExtends DEF Feed, FeedInv
<1>3. /\ client' = client /\ mint' = mint /\ entry' = entry
      /\ quiet' = IF n = 0 THEN quiet \cup {wr[w].change} ELSE quiet
  BY DEF Feed
<1>4. wr'[w] = Idle /\ \A y \in Writers : y # w => wr'[y] = wr[y]
  BY WrPut DEF Feed
<1>5. \A c \in Unfed : c \in Unfed' \/ c = wr[w].change
  BY <1>4 DEF Unfed, Batching
<1>6. client.on => \A p \in Synced : p \in told \/ Owed(p)' \subseteq Owed(p)
  <2>1. Owed("graph")' \subseteq Owed("graph")
    BY <1>3 DEF Owed
  <2>2. CASE n = 0
    BY <1>3, <1>5, <2>1, <2>2 DEF Owed, Synced
  <2>3. CASE n # 0
    <3>1. client.on => "store" \in told
      BY <1>1, <2>3
    <3> QED BY <2>1, <3>1 DEF Synced
  <2> QED BY <2>2, <2>3
<1>7. told \in SUBSET Synced
  BY <1>1
<1> HIDE DEF told, n
<1> QED BY <1>2, <1>3, <1>6, <1>7, FeedStep

LEMMA FeedNext ==
  ASSUME TypeOK, FeedInv, [Next]_vars
  PROVE  FeedInv'
<1> DEFINE Keeps == \A w \in Writers : Batching(w) => Batching(w)' /\ wr'[w].change = wr[w].change
<1>1. CASE Write
  <2>1. Keeps
    BY <1>1 DEF Write, Batching
  <2>2. {"graph"} \in SUBSET Synced
    BY DEF Synced
  <2> QED BY <1>1, <2>1, <2>2, FeedLoggedWrite DEF Write
<1>2. CASE UpdateMeta
  <2>1. entry'.live = entry.live /\ entry'.shows = Showing("config") /\ mint'.epoch = mint.epoch
    BY <1>2, MetaEntry, Minted DEF UpdateMeta
  <2>2. \A p \in Synced : entry'.shows[p] = entry.shows[p]
    BY <2>1, ShowingSays DEF Synced, Parts
  <2>3. Keeps /\ client' = client /\ ring' = ring /\ quiet' = quiet
    BY <1>2 DEF UpdateMeta, Batching
  <2> QED BY <2>1, <2>2, <2>3, FeedQuiet
<1>3. CASE PutSchema
  <2>1. entry'.live = entry.live /\ entry'.shows = Showing("config") /\ mint'.epoch = mint.epoch
    BY <1>3, SchemaEntry, Minted DEF PutSchema
  <2>2. \A p \in Synced : entry'.shows[p] = entry.shows[p]
    BY <2>1, ShowingSays DEF Synced, Parts
  <2>3. wr' = wr /\ client' = client /\ quiet' = quiet
    BY <1>3 DEF PutSchema
  <2>4. Extends(ring, ring', {})
    BY <1>3, AnnounceExtends DEF PutSchema, FeedInv
  <2>5. \A p \in Synced : Owed(p)' \subseteq Owed(p)
    BY <2>2, <2>3 DEF Owed, Unfed, Batching
  <2> QED BY <2>1, <2>3, <2>4, <2>5, FeedStep
<1>4. CASE Compact
  <2>1. entry'.live = entry.live /\ entry'.shows = Showing("graph") /\ mint'.epoch = mint.epoch
    BY <1>4, CompactEntry, Minted DEF Compact, Compacted
  <2>2. entry'.shows["store"] = entry.shows["store"] /\ entry'.shows["graph"] = entry.shows["graph"] \cup {Fresh}
    BY <2>1, ShowingSays DEF Parts
  <2>3. wr' = wr /\ client' = client /\ quiet' = quiet \cup {Fresh}
    BY <1>4 DEF Compact
  <2>4. Extends(ring, ring', {})
    BY <1>4, NothingExtends DEF Compact, FeedInv, TypeOK
  <2>5. \A p \in Synced : Owed(p)' \subseteq Owed(p)
    BY <2>2, <2>3 DEF Owed, Unfed, Batching, Synced
  <2> QED BY <2>1, <2>3, <2>4, <2>5, FeedStep
<1>5. CASE Delete
  <2>1. entry'.live = FALSE /\ entry'.shows = entry.shows
    BY <1>5, DeleteEntry DEF Delete
  <2>2. Keeps /\ client' = client /\ ring' = ring /\ quiet' = quiet /\ mint' = mint
    BY <1>5 DEF Delete, Batching
  <2> QED BY <2>1, <2>2, FeedQuiet
<1>6. CASE Recreate
  BY <1>6, FeedRecreate
<1>7. ASSUME NEW w \in Writers, RetractGraph(w) PROVE FeedInv'
  <2>1. PICK touched \in BOOLEAN :
          /\ wr' = [wr EXCEPT ![w] = [pc |-> "passage", touched |-> touched]]
          /\ IF touched THEN LoggedWrite(Synced)
             ELSE UNCHANGED <<entry, index, ring, cache, rd, client, mint, acked, overtaken, quiet>>
    BY <1>7 DEF RetractGraph
  <2>2. [pc |-> "passage", touched |-> touched] \in Retraction
    BY DEF Retraction
  <2>3. Keeps
    <3>1. ~Batching(w)
      BY <1>7 DEF RetractGraph, Batching, Folding
    <3>2. \A y \in Writers : y # w => wr'[y] = wr[y]
      BY <2>1, <2>2, WrPut
    <3> QED BY <3>1, <3>2 DEF Batching
  <2>4. CASE touched
    BY <2>1, <2>3, <2>4, FeedLoggedWrite DEF Synced
  <2>5. CASE ~touched
    BY <2>1, <2>3, <2>5, FeedQuiet
  <2> QED BY <2>4, <2>5
<1>8. ASSUME NEW w \in Writers, StorePassages(w) \/ RetractPassage(w) PROVE FeedInv'
  <2>1. PICK n \in 0..2 : PassageBatch(w, n)
    <3>1. CASE StorePassages(w)
      BY <3>1 DEF StorePassages
    <3>2. CASE RetractPassage(w)
      BY <3>2 DEF RetractPassage
    <3> QED BY <1>8, <3>1, <3>2
  <2>2. ~Batching(w)
    BY <1>8 DEF StorePassages, RetractPassage, Batching, Folding
  <2> QED BY <2>1, <2>2, FeedBatch
<1>9. ASSUME NEW w \in Writers, RetractNothing(w) PROVE FeedInv'
  <2>1. \A y \in Writers : y # w => wr'[y] = wr[y]
    BY <1>9, WrPut DEF RetractNothing
  <2>2. Keeps
    BY <1>9, <2>1 DEF RetractNothing, Batching, Folding
  <2> QED BY <1>9, <2>2, FeedQuiet DEF RetractNothing
<1>10. ASSUME NEW w \in Writers, Fold(w) PROVE FeedInv'
  <2>1. wr'[w].pc = "bump" /\ wr'[w].change = wr[w].change /\ \A y \in Writers : y # w => wr'[y] = wr[y]
    BY <1>10, WrPc DEF Fold, Folding
  <2>2. Keeps
    BY <2>1 DEF Batching, Folding
  <2> QED BY <1>10, <2>2, FeedQuiet DEF Fold
<1>11. ASSUME NEW w \in Writers, ReadWatermark(w) PROVE FeedInv'
  <2>1. wr'[w].pc = "max" /\ wr'[w].change = wr[w].change /\ \A y \in Writers : y # w => wr'[y] = wr[y]
    BY <1>11, ReadWatermarkSays
  <2>2. Keeps
    BY <2>1 DEF Batching, Folding
  <2> QED BY <1>11, <2>2, FeedQuiet DEF ReadWatermark
<1>12. ASSUME NEW w \in Writers, BumpPassages(w) PROVE FeedInv'
  <2>1. wr'[w].pc = "feed" /\ wr'[w].change = wr[w].change /\ \A y \in Writers : y # w => wr'[y] = wr[y]
    BY <1>12, WrPc DEF BumpPassages, Folding
  <2>2. Keeps
    BY <2>1 DEF Batching, Folding
  <2>3. wr[w] \in Batch /\ FetchMax(w) \in Nat
    BY <1>12, WriterShape DEF BumpPassages, Folding, FetchMax, Batch, TypeOK, Entry
  <2>4. entry'.live = entry.live /\ entry'.shows = entry.shows
    BY <1>12, <2>3, BumpPassagesEntry DEF BumpPassages
  <2> QED BY <1>12, <2>2, <2>4, FeedQuiet DEF BumpPassages
<1>13. ASSUME NEW w \in Writers, Feed(w) PROVE FeedInv'
  BY <1>13, FeedFeed
<1>14. ASSUME NEW w \in Writers, PublishVectors(w) PROVE FeedInv'
  <2>1. \A y \in Writers : y # w => wr'[y] = wr[y]
    BY <1>14, PublishVectorsSays
  <2>2. Keeps
    BY <1>14, <2>1 DEF PublishVectors, Batching, Folding
  <2>3. entry'.live = entry.live /\ entry'.shows = Showing("config") /\ mint'.epoch = mint.epoch
    BY <1>14, VectorsEntry, Minted DEF PublishVectors
  <2>4. \A p \in Synced : entry'.shows[p] = entry.shows[p]
    BY <2>3, ShowingSays DEF Synced, Parts
  <2> QED BY <1>14, <2>2, <2>3, <2>4, FeedQuiet DEF PublishVectors
<1>15. ASSUME NEW w \in Writers, BumpConfig(w) PROVE FeedInv'
  <2>1. \A y \in Writers : y # w => wr'[y] = wr[y]
    BY <1>15, WrPut DEF BumpConfig
  <2>2. Keeps
    BY <1>15, <2>1 DEF BumpConfig, Batching, Folding
  <2>3. entry'.live = entry.live /\ entry'.shows = entry.shows
    <3>1. CASE entry.live /\ entry.birth = wr[w].birth
      BY <1>15, <3>1, BumpConfigEntry DEF BumpConfig
    <3>2. CASE ~(entry.live /\ entry.birth = wr[w].birth)
      BY <1>15, <3>2 DEF BumpConfig
    <3> QED BY <3>1, <3>2
  <2> QED BY <1>15, <2>2, <2>3, FeedQuiet DEF BumpConfig
<1>16. ASSUME UNCHANGED <<entry, ring, wr, client, quiet>>, mint'.epoch = mint.epoch PROVE FeedInv'
  BY <1>16, FeedQuiet DEF Batching
<1>17. ASSUME NEW r \in Readers, MintKey(r) PROVE FeedInv'
  <2>1. mint'.epoch = mint.epoch
    BY <1>17, Minted DEF MintKey
  <2> QED BY <1>16, <1>17, <2>1 DEF MintKey
<1>18. ASSUME NEW r \in Readers, Hit(r) \/ First(r) \/ Second(r) \/ File(r) PROVE FeedInv'
  BY <1>16, <1>18 DEF Hit, First, Second, File
<1>19. CASE EvictIndex \/ UNCHANGED vars
  BY <1>16, <1>19 DEF EvictIndex, vars
<1>20. CASE StartTailing \/ Poll \/ Pull
  BY <1>20, FeedStart, FeedPoll, FeedPull
<1> QED BY <1>1, <1>2, <1>3, <1>4, <1>5, <1>6, <1>7, <1>8, <1>9, <1>10, <1>11, <1>12, <1>13, <1>14, <1>15,
           <1>17, <1>18, <1>19, <1>20 DEF Next

LEMMA FeedInvImplies ==
  ASSUME TypeOK, FeedInv
  PROVE  FeedSkipsNothing
<1> SUFFICES ASSUME entry.live, client.cursor.epoch = ring.epoch, client.pull = {}, ~client.more,
                    client.saw = ring.next,
                    \A w \in Writers : wr[w].pc \in {"idle", "passage", "vectors"},
                    NEW p \in Synced
             PROVE  entry.shows[p] \ quiet \subseteq client.mirror[p]
  BY DEF FeedSkipsNothing
<1> DEFINE c == client.cursor.seq
<1>1. Told(p) /\ ring.next <= c + 1
  BY DEF FeedInv
<1>2. c \in Nat /\ ring.next \in Nat
  BY ShowsInClient DEF TypeOK, Ring
<1>3. \A i \in DOMAIN ring.events : ring.events[i].seq \in Nat /\ ring.events[i].seq < ring.next
  <2>1. ring.events \in Seq(Event) /\ DOMAIN ring.events = 1..Len(ring.events)
    BY LenProperties DEF TypeOK, Ring
  <2>2. \A i \in 1..Len(ring.events) : ring.events[i] \in Event
    BY <2>1, ElementOfSeq
  <2> QED BY <2>1, <2>2 DEF FeedInv, Ordered, Event
<1>4. ~UnreadIn(ring, c, p)
  BY <1>1, <1>2, <1>3 DEF UnreadIn
<1>5. ~EvictedIn(ring, c)
  <2>1. ASSUME ring.events # <<>> PROVE Head(ring.events).seq \in Nat /\ Head(ring.events).seq < ring.next
    <3>1. Head(ring.events) = ring.events[1] /\ 1 \in DOMAIN ring.events
      BY <2>1, HeadTailProperties, EmptySeq, LenProperties DEF TypeOK, Ring
    <3> QED BY <1>3, <3>1
  <2> QED BY <1>1, <1>2, <2>1 DEF EvictedIn
<1>6. Unfed = {}
  BY DEF Unfed, Batching, Folding
<1> QED BY <1>1, <1>4, <1>5, <1>6 DEF Told, Owed

-----------------------------------------------------------------------------
(* What the context serves *)

\* What a passage search reads: the index, built from the store when cold.
Indexed == IF index.resident THEN index.shows ELSE entry.shows["store"]
Served(p) == IF p = "index" THEN Indexed ELSE entry.shows[p]

\* A batch is applied from the start and indexed from the fold on, unless a
\* bump named it before.
BatchOK(w) ==
  Batching(w) =>
    /\ entry.live /\ wr[w].change \in entry.shows["store"] /\ wr[w].seq <= entry.watermark
    /\ wr[w].pc = "fold" /\ wr[w].seq <= entry.passages => wr[w].change \in overtaken
    /\ wr[w].pc # "fold" => wr[w].change \in Indexed
    /\ wr[w].pc = "feed" => wr[w].seq <= entry.passages

VectorsOK(w) ==
  wr[w].pc = "vectors" =>
    /\ wr[w].birth <= entry.birth
    /\ wr[w].birth = entry.birth => wr[w].change \in entry.shows["config"]

WriteInv ==
  /\ acked["index"] = acked["store"]
  /\ entry.passages <= entry.watermark /\ entry.id <= mint.id /\ entry.birth = mint.birth
  /\ entry.live => \A p \in Parts : acked[p] \subseteq Served(p)
  /\ \A w \in Writers : BatchOK(w) /\ VectorsOK(w)

LEMMA WriteInit == Init => WriteInv
<1> SUFFICES ASSUME Init PROVE WriteInv
  OBVIOUS
<1>1. \A w \in Writers : wr[w].pc = "idle"
  BY DEF Init, Idle
<1>2. \A w \in Writers : BatchOK(w) /\ VectorsOK(w)
  BY <1>1 DEF BatchOK, VectorsOK, Batching, Folding
<1>3. \A p \in Parts \ {"index"} : entry.shows[p] = {0}
  BY DEF Init, Newborn
<1>4. ~index.resident /\ \A p \in Parts : acked[p] = {0}
  BY DEF Init
<1>5. \A p \in Parts : acked[p] \subseteq Served(p)
  BY <1>3, <1>4 DEF Served, Indexed, Parts
<1>6. entry.passages = 0 /\ entry.watermark = 0 /\ entry.id = 1 /\ entry.birth = 1 /\ mint.id = 1 /\ mint.birth = 1
  BY DEF Init, Newborn
<1> QED BY <1>2, <1>4, <1>5, <1>6 DEF WriteInv, Parts

\* A step within one life of the context in which what it serves only grows.
LEMMA WriteStep ==
  ASSUME TypeOK, TypeOK', WriteInv, acked'["index"] = acked'["store"],
         entry'.passages <= entry'.watermark, entry'.id <= mint'.id, entry'.birth = entry.birth,
         mint'.birth = mint.birth, entry'.live = entry.live, entry.watermark <= entry'.watermark,
         \A p \in Parts \ {"index"} : entry.shows[p] \subseteq entry'.shows[p],
         Indexed \subseteq Indexed', overtaken \subseteq overtaken',
         entry.live => \A p \in Parts : acked'[p] \subseteq acked[p] \cup Served(p)',
         \A w \in Writers : \/ wr'[w] = wr[w] /\ entry'.passages = entry.passages
                            \/ BatchOK(w)' /\ VectorsOK(w)'
  PROVE  WriteInv'
<1>1. /\ entry.watermark \in Nat /\ entry'.watermark \in Nat /\ entry.passages \in Nat
      /\ entry.shows["store"] \subseteq entry'.shows["store"]
      /\ entry.shows["config"] \subseteq entry'.shows["config"]
  BY DEF TypeOK, Entry, Parts
<1>2. \A p \in Parts : Served(p) \subseteq Served(p)'
  BY DEF Served
<1>3. entry'.live => \A p \in Parts : acked'[p] \subseteq Served(p)'
  BY <1>2 DEF WriteInv
<1>4. ASSUME NEW w \in Writers, wr'[w] = wr[w], entry'.passages = entry.passages PROVE BatchOK(w)' /\ VectorsOK(w)'
  <2>1. BatchOK(w) /\ VectorsOK(w)
    BY DEF WriteInv
  <2>2. VectorsOK(w)'
    BY <1>1, <1>4, <2>1 DEF VectorsOK
  <2>3. ASSUME Batching(w) PROVE wr[w].seq <= entry'.watermark
    <3>1. wr[w].seq \in Nat
      BY <2>3, WriterShape DEF Batching, Batch
    <3>2. wr[w].seq <= entry.watermark
      BY <2>1, <2>3 DEF BatchOK
    <3> QED BY <1>1, <3>1, <3>2
  <2>4. Batching(w)' <=> Batching(w)
    BY <1>4 DEF Batching
  <2>5. BatchOK(w)'
    BY <1>1, <1>4, <2>1, <2>3, <2>4 DEF BatchOK
  <2> QED BY <2>2, <2>5
<1>5. \A w \in Writers : BatchOK(w)' /\ VectorsOK(w)'
  BY <1>4
<1>6. entry'.birth = mint'.birth
  BY DEF WriteInv
<1> QED BY <1>3, <1>5, <1>6 DEF WriteInv

LEMMA ServesMore ==
  ASSUME TypeOK, NEW q \in Parts \ {"index"}, entry'.shows = Showing(q) \/ entry'.shows = entry.shows, index' = index
  PROVE  /\ \A p \in Parts \ {"index"} : entry.shows[p] \subseteq entry'.shows[p]
         /\ Indexed \subseteq Indexed' /\ (entry'.shows = Showing(q) => Fresh \in Served(q)')
<1>1. \A p \in Parts \ {"index"} : entry.shows[p] \subseteq entry'.shows[p]
  BY ShowingSays
<1>2. Indexed \subseteq Indexed'
  BY <1>1 DEF Indexed, Parts
<1>3. entry'.shows = Showing(q) => Fresh \in Served(q)'
  BY ShowingSays DEF Served
<1> QED BY <1>1, <1>2, <1>3

\* An acknowledged change of part q that the entry now shows.
LEMMA AckedNow ==
  ASSUME TypeOK, NEW q \in {"graph", "config"}, Ack({q}, Fresh), Fresh \in Served(q)', WriteInv
  PROVE  /\ acked'["index"] = acked'["store"]
         /\ \A p \in Parts : acked'[p] \subseteq acked[p] \cup Served(p)'
<1>1. \A p \in Parts : acked'[p] = acked[p] \cup IF p \in {q} THEN {Fresh} ELSE {}
  BY FreshType, AckSays
<1> QED BY <1>1 DEF WriteInv, Parts

LEMMA WriteLogged ==
  ASSUME TypeOK, TypeOK', WriteInv, NEW announced, LoggedWrite(announced),
         \A w \in Writers : wr'[w] = wr[w] \/ (BatchOK(w)' /\ VectorsOK(w)')
  PROVE  WriteInv'
<1>1. /\ entry'.shows = Showing("graph") /\ entry'.live = entry.live /\ entry'.id = entry.id
      /\ entry'.birth = entry.birth /\ entry'.passages = entry.passages /\ entry'.watermark = entry.watermark
  BY LoggedWriteEntry DEF LoggedWrite
<1>2. mint'.id = mint.id /\ mint'.birth = mint.birth
  BY Minted DEF LoggedWrite
<1>3. /\ \A p \in Parts \ {"index"} : entry.shows[p] \subseteq entry'.shows[p]
      /\ Indexed \subseteq Indexed' /\ Fresh \in Served("graph")'
  BY <1>1, ServesMore DEF LoggedWrite, Parts
<1>4. acked'["index"] = acked'["store"] /\ \A p \in Parts : acked'[p] \subseteq acked[p] \cup Served(p)'
  BY <1>3, AckedNow DEF LoggedWrite
<1>5. entry'.passages <= entry'.watermark /\ entry'.id <= mint'.id /\ entry.watermark <= entry'.watermark
  BY <1>1, <1>2 DEF WriteInv, TypeOK, Entry
<1>6. overtaken' = overtaken
  BY DEF LoggedWrite
<1> QED BY <1>1, <1>2, <1>3, <1>4, <1>5, <1>6, WriteStep

LEMMA WriteBatch ==
  ASSUME TypeOK, TypeOK', WriteInv, NEW w \in Writers, NEW n \in 0..2, PassageBatch(w, n)
  PROVE  WriteInv'
<1>1. /\ entry'.shows = Showing("store") /\ entry'.live = entry.live /\ entry'.id = entry.id
      /\ entry'.birth = entry.birth /\ entry'.passages = entry.passages
      /\ entry'.watermark = entry.watermark + 1 /\ entry.live
  BY BatchEntry DEF PassageBatch, MayChange
<1>2. mint'.id = mint.id /\ mint'.birth = mint.birth
  BY Minted DEF PassageBatch
<1>3. /\ \A p \in Parts \ {"index"} : entry.shows[p] \subseteq entry'.shows[p]
      /\ Indexed \subseteq Indexed' /\ Fresh \in entry'.shows["store"]
  BY <1>1, ServesMore DEF PassageBatch, Parts, Served
<1>4. acked' = acked /\ overtaken' = overtaken
  BY DEF PassageBatch
<1>n. entry.passages \in Nat /\ entry.watermark \in Nat /\ entry.passages <= entry.watermark
  BY DEF TypeOK, Entry, WriteInv
<1>5. entry'.passages <= entry'.watermark /\ entry.watermark <= entry'.watermark
  BY <1>1, <1>n
<1>6. wr'[w].pc = "fold" /\ wr'[w].change = Fresh /\ wr'[w].seq = entry.watermark + 1
      /\ \A y \in Writers : y # w => wr'[y] = wr[y]
  BY PassageBatchSays
<1>7. ~(wr'[w].seq <= entry'.passages) /\ wr'[w].seq <= entry'.watermark
  BY <1>1, <1>6, <1>n
<1>8. BatchOK(w)' /\ VectorsOK(w)'
  BY <1>1, <1>3, <1>6, <1>7 DEF BatchOK, VectorsOK
<1>9. acked'["index"] = acked'["store"] /\ entry'.id <= mint'.id
  BY <1>1, <1>2, <1>4 DEF WriteInv
<1> QED BY <1>1, <1>2, <1>3, <1>4, <1>5, <1>6, <1>8, <1>9, WriteStep

\* Steps that leave the entry, the index and the acknowledgements alone.
LEMMA WriteIdle ==
  ASSUME TypeOK, TypeOK', WriteInv, UNCHANGED <<entry, acked, overtaken>>, mint'.id = mint.id,
         mint'.birth = mint.birth, Indexed \subseteq Indexed',
         \A w \in Writers : wr'[w] = wr[w] \/ (BatchOK(w)' /\ VectorsOK(w)')
  PROVE  WriteInv'
<1>1. /\ acked'["index"] = acked'["store"] /\ entry'.passages <= entry'.watermark /\ entry'.id <= mint'.id
      /\ entry.watermark <= entry'.watermark
  BY DEF WriteInv, TypeOK, Entry
<1> QED BY <1>1, WriteStep

LEMMA WriteFold ==
  ASSUME TypeOK, TypeOK', WriteInv, NEW w \in Writers, Fold(w)
  PROVE  WriteInv'
<1>1. wr'[w].pc = "bump" /\ wr'[w].change = wr[w].change /\ wr'[w].seq = wr[w].seq
      /\ \A y \in Writers : y # w => wr'[y] = wr[y]
  BY WrPc DEF Fold, Folding
<1>2. BatchOK(w) /\ Batching(w)
  BY DEF Fold, WriteInv, Batching, Folding
<1>3. /\ entry' = entry /\ acked' = acked /\ overtaken' = overtaken /\ mint' = mint
      /\ index' = IF index.resident THEN [index EXCEPT !.shows = @ \cup {wr[w].change}] ELSE index
  BY DEF Fold
<1>4. Indexed \subseteq Indexed' /\ wr[w].change \in Indexed'
  <2>1. CASE index.resident
    <3>1. index'.resident = index.resident /\ index'.shows = index.shows \cup {wr[w].change}
      BY <1>3, <2>1 DEF TypeOK, Index
    <3> QED BY <2>1, <3>1 DEF Indexed
  <2>2. CASE ~index.resident
    BY <1>2, <1>3, <2>2 DEF Indexed, BatchOK
  <2> QED BY <2>1, <2>2
<1>5. BatchOK(w)' /\ VectorsOK(w)'
  BY <1>1, <1>2, <1>3, <1>4 DEF BatchOK, VectorsOK
<1> QED BY <1>1, <1>3, <1>4, <1>5, WriteIdle

LEMMA WriteWatermark ==
  ASSUME TypeOK, TypeOK', WriteInv, NEW w \in Writers, ReadWatermark(w)
  PROVE  WriteInv'
<1>1. wr'[w].pc = "max" /\ wr'[w].change = wr[w].change /\ wr'[w].seq = entry.watermark
      /\ \A y \in Writers : y # w => wr'[y] = wr[y]
  BY ReadWatermarkSays
<1>2. BatchOK(w) /\ Batching(w) /\ wr[w].pc = "bump"
  BY DEF ReadWatermark, WriteInv, Batching, Folding
<1>3. entry' = entry /\ acked' = acked /\ overtaken' = overtaken /\ mint' = mint /\ index' = index
  BY DEF ReadWatermark
<1>4. Indexed' = Indexed
  BY <1>3 DEF Indexed
<1>5. entry.watermark <= entry.watermark
  BY DEF TypeOK, Entry
<1>6. BatchOK(w)' /\ VectorsOK(w)'
  BY <1>1, <1>2, <1>3, <1>4, <1>5 DEF BatchOK, VectorsOK
<1> QED BY <1>1, <1>3, <1>4, <1>6, WriteIdle

LEMMA FetchMaxSays ==
  ASSUME TypeOK, NEW w \in Writers, wr[w].pc = "max"
  PROVE  /\ FetchMax(w) \in Nat /\ wr[w].seq \in Nat /\ entry.passages \in Nat /\ entry.watermark \in Nat
         /\ FetchMax(w) = wr[w].seq \/ FetchMax(w) = entry.passages
         /\ wr[w].seq <= FetchMax(w) /\ entry.passages <= FetchMax(w)
<1>1. wr[w].seq \in Nat
  BY WriterShape DEF Batch, Folding
<1>2. entry.passages \in Nat /\ entry.watermark \in Nat
  BY DEF TypeOK, Entry
<1> QED BY <1>1, <1>2 DEF FetchMax

LEMMA WriteBump ==
  ASSUME TypeOK, TypeOK', WriteInv, NEW w \in Writers, BumpPassages(w)
  PROVE  WriteInv'
<1>1. wr'[w].pc = "feed" /\ wr'[w].change = wr[w].change /\ wr'[w].seq = wr[w].seq
      /\ \A y \in Writers : y # w => wr'[y] = wr[y]
  BY WrPc DEF BumpPassages, Folding
<1>2. BatchOK(w) /\ Batching(w) /\ wr[w].pc = "max"
  BY DEF BumpPassages, WriteInv, Batching, Folding
<1>3. acked' = acked /\ mint' = mint /\ index' = index
      /\ overtaken' = overtaken \cup
           {wr[x].change : x \in {y \in Writers : wr[y].pc = "fold" /\ wr[y].seq <= wr[w].seq}}
  BY DEF BumpPassages
<1>4. /\ FetchMax(w) \in Nat /\ wr[w].seq \in Nat /\ entry.passages \in Nat /\ entry.watermark \in Nat
      /\ FetchMax(w) = wr[w].seq \/ FetchMax(w) = entry.passages
      /\ wr[w].seq <= FetchMax(w) /\ entry.passages <= FetchMax(w)
  BY <1>2, FetchMaxSays
<1>5. /\ entry'.shows = entry.shows /\ entry'.live = entry.live /\ entry'.id = entry.id
      /\ entry'.birth = entry.birth /\ entry'.passages = FetchMax(w) /\ entry'.watermark = entry.watermark
  BY <1>4, BumpPassagesEntry DEF BumpPassages
<1>6. FetchMax(w) <= entry.watermark
  BY <1>2, <1>4 DEF BatchOK, WriteInv
<1>7. Indexed' = Indexed
  BY <1>3, <1>5 DEF Indexed
<1>8. ASSUME NEW y \in Writers PROVE BatchOK(y)' /\ VectorsOK(y)'
  <2>1. BatchOK(y) /\ VectorsOK(y)
    BY DEF WriteInv
  <2>2. CASE y = w
    BY <1>1, <1>2, <1>3, <1>4, <1>5, <1>7, <2>1, <2>2 DEF BatchOK, VectorsOK
  <2>3. CASE y # w
    <3>1. wr'[y] = wr[y]
      BY <1>1, <2>3
    <3>2. VectorsOK(y)'
      BY <1>5, <2>1, <3>1 DEF VectorsOK
    <3>3. ASSUME Batching(y), wr[y].pc = "fold", wr[y].seq <= FetchMax(w) PROVE wr[y].change \in overtaken'
      <4>1. wr[y].seq <= wr[w].seq \/ wr[y].seq <= entry.passages
        BY <1>4, <3>3
      <4>2. wr[y].seq <= entry.passages => wr[y].change \in overtaken
        BY <2>1, <3>3 DEF BatchOK
      <4> QED BY <1>3, <3>3, <4>1, <4>2
    <3>4. ASSUME Batching(y), wr[y].seq <= entry.passages PROVE wr[y].seq <= FetchMax(w)
      <4>1. wr[y].seq \in Nat
        BY <3>4, WriterShape DEF Batching, Batch
      <4> QED BY <1>4, <3>4, <4>1
    <3>5. BatchOK(y)'
      <4>1. Batching(y)' <=> Batching(y)
        BY <3>1 DEF Batching
      <4> QED BY <1>5, <1>7, <2>1, <3>1, <3>3, <3>4, <4>1 DEF BatchOK
    <3> QED BY <3>2, <3>5
  <2> QED BY <2>2, <2>3
<1>9. /\ acked'["index"] = acked'["store"] /\ entry'.passages <= entry'.watermark /\ entry'.id <= mint'.id
      /\ entry.watermark <= entry'.watermark
  BY <1>3, <1>4, <1>5, <1>6 DEF WriteInv
<1> QED BY <1>3, <1>5, <1>7, <1>8, <1>9, WriteStep

LEMMA WriteFeed ==
  ASSUME TypeOK, TypeOK', WriteInv, NEW w \in Writers, Feed(w)
  PROVE  WriteInv'
<1>1. wr'[w] = Idle /\ \A y \in Writers : y # w => wr'[y] = wr[y]
  BY WrPut DEF Feed
<1>2. BatchOK(w) /\ Batching(w) /\ wr[w].pc = "feed" /\ wr[w].change \in Nat
  BY WriterShape DEF Feed, WriteInv, Batching, Folding, Batch
<1>3. entry' = entry /\ overtaken' = overtaken /\ mint' = mint /\ index' = index
  BY DEF Feed
<1>4. Indexed' = Indexed
  BY <1>3 DEF Indexed
<1>5. BatchOK(w)' /\ VectorsOK(w)'
  BY <1>1 DEF BatchOK, VectorsOK, Batching, Folding, Idle
<1>6. \A p \in Parts : acked'[p] = acked[p] \cup IF p \in {"store", "index"} THEN {wr[w].change} ELSE {}
  BY <1>2, AckSays DEF Feed
<1>7. acked'["index"] = acked'["store"]
  BY <1>6 DEF WriteInv, Parts
<1>9. entry'.passages <= entry'.watermark /\ entry'.id <= mint'.id /\ entry.watermark <= entry'.watermark
  BY <1>3 DEF WriteInv, TypeOK, Entry
<1>8. \A p \in Parts : acked'[p] \subseteq acked[p] \cup Served(p)'
  BY <1>2, <1>3, <1>4, <1>6 DEF Served, BatchOK
<1> QED BY <1>1, <1>3, <1>4, <1>5, <1>7, <1>8, <1>9, WriteStep

LEMMA WriteConfig ==
  ASSUME TypeOK, TypeOK', WriteInv, UpdateMeta \/ PutSchema
  PROVE  WriteInv'
<1>1. /\ entry'.shows = Showing("config") /\ entry'.live = entry.live /\ entry'.birth = entry.birth
      /\ entry'.passages = entry.passages /\ entry'.watermark = entry.watermark
      /\ \/ entry'.id = entry.id /\ mint'.id = mint.id
         \/ entry'.id = mint.id + 1 /\ mint'.id = mint.id + 1
      /\ mint'.birth = mint.birth
  BY MetaEntry, SchemaEntry, Minted DEF UpdateMeta, PutSchema
<1>2. index' = index /\ wr' = wr /\ overtaken' = overtaken /\ Ack({"config"}, Fresh)
  BY DEF UpdateMeta, PutSchema
<1>3. /\ \A p \in Parts \ {"index"} : entry.shows[p] \subseteq entry'.shows[p]
      /\ Indexed \subseteq Indexed' /\ Fresh \in Served("config")'
  BY <1>1, <1>2, ServesMore DEF Parts
<1>4. acked'["index"] = acked'["store"] /\ \A p \in Parts : acked'[p] \subseteq acked[p] \cup Served(p)'
  BY <1>2, <1>3, AckedNow
<1>5. entry'.passages <= entry'.watermark /\ entry'.id <= mint'.id /\ entry.watermark <= entry'.watermark
  BY <1>1 DEF WriteInv, TypeOK, Entry, Mint
<1> QED BY <1>1, <1>2, <1>3, <1>4, <1>5, WriteStep

LEMMA WriteCompact ==
  ASSUME TypeOK, TypeOK', WriteInv, Compact
  PROVE  WriteInv'
<1>1. /\ entry'.shows = Showing("graph") /\ entry'.live = entry.live /\ entry'.birth = entry.birth
      /\ entry'.passages = entry.passages /\ entry'.watermark = entry.watermark
      /\ entry'.id = mint.id + 1 /\ mint'.id = mint.id + 1 /\ mint'.birth = mint.birth
  BY CompactEntry, Minted DEF Compact, Compacted
<1>2. index' = index /\ wr' = wr /\ overtaken' = overtaken /\ Ack({"graph"}, Fresh)
  BY DEF Compact
<1>3. /\ \A p \in Parts \ {"index"} : entry.shows[p] \subseteq entry'.shows[p]
      /\ Indexed \subseteq Indexed' /\ Fresh \in Served("graph")'
  BY <1>1, <1>2, ServesMore DEF Parts
<1>4. acked'["index"] = acked'["store"] /\ \A p \in Parts : acked'[p] \subseteq acked[p] \cup Served(p)'
  BY <1>2, <1>3, AckedNow
<1>5. entry'.passages <= entry'.watermark /\ entry'.id <= mint'.id /\ entry.watermark <= entry'.watermark
  BY <1>1 DEF WriteInv, TypeOK, Entry, Mint
<1> QED BY <1>1, <1>2, <1>3, <1>4, <1>5, WriteStep

LEMMA WriteVectors ==
  ASSUME TypeOK, TypeOK', WriteInv, NEW w \in Writers, PublishVectors(w)
  PROVE  WriteInv'
<1>1. /\ entry'.shows = Showing("config") /\ entry'.live = entry.live /\ entry'.birth = entry.birth
      /\ entry'.passages = entry.passages /\ entry'.watermark = entry.watermark
      /\ entry'.id = entry.id /\ mint'.id = mint.id /\ mint'.birth = mint.birth
  BY VectorsEntry, Minted DEF PublishVectors
<1>2. index' = index /\ acked' = acked /\ overtaken' = overtaken
  BY DEF PublishVectors
<1>3. /\ \A p \in Parts \ {"index"} : entry.shows[p] \subseteq entry'.shows[p]
      /\ Indexed \subseteq Indexed' /\ Fresh \in entry'.shows["config"]
  BY <1>1, <1>2, ServesMore DEF Parts, Served
<1>4. /\ wr'[w].pc = "vectors" /\ wr'[w].change = Fresh /\ wr'[w].birth = entry.birth
      /\ \A y \in Writers : y # w => wr'[y] = wr[y]
  BY PublishVectorsSays
<1>5. entry.birth <= entry'.birth
  BY <1>1 DEF TypeOK, Entry
<1>6. BatchOK(w)' /\ VectorsOK(w)'
  BY <1>3, <1>4, <1>5 DEF BatchOK, VectorsOK, Batching, Folding
<1>7. entry'.passages <= entry'.watermark /\ entry'.id <= mint'.id /\ entry.watermark <= entry'.watermark
  BY <1>1 DEF WriteInv, TypeOK, Entry
<1>8. acked'["index"] = acked'["store"]
  BY <1>2 DEF WriteInv
<1> QED BY <1>1, <1>2, <1>3, <1>4, <1>6, <1>7, <1>8, WriteStep

LEMMA WriteBumpConfig ==
  ASSUME TypeOK, TypeOK', WriteInv, NEW w \in Writers, BumpConfig(w)
  PROVE  WriteInv'
<1>1. wr'[w] = Idle /\ \A y \in Writers : y # w => wr'[y] = wr[y]
  BY WrPut DEF BumpConfig
<1>2. BatchOK(w)' /\ VectorsOK(w)'
  BY <1>1 DEF BatchOK, VectorsOK, Batching, Folding, Idle
<1>3. index' = index /\ mint' = mint /\ overtaken' = overtaken
  BY DEF BumpConfig
<1>4. CASE entry.live /\ entry.birth = wr[w].birth
  <2>1. /\ entry'.shows = entry.shows /\ entry'.live = entry.live /\ entry'.birth = entry.birth
        /\ entry'.passages = entry.passages /\ entry'.watermark = entry.watermark /\ entry'.id = entry.id
    BY <1>4, BumpConfigEntry DEF BumpConfig
  <2>2. wr[w].change \in Nat /\ wr[w].change \in entry.shows["config"]
    BY <1>4, WriterShape DEF BumpConfig, Refresh, WriteInv, VectorsOK
  <2>3. \A p \in Parts : acked'[p] = acked[p] \cup IF p \in {"config"} THEN {wr[w].change} ELSE {}
    BY <1>4, <2>2, AckSays DEF BumpConfig
  <2>4. Indexed' = Indexed
    BY <1>3, <2>1 DEF Indexed
  <2>5. acked'["index"] = acked'["store"]
    BY <2>3 DEF WriteInv, Parts
  <2>6. \A p \in Parts : acked'[p] \subseteq acked[p] \cup Served(p)'
    BY <2>1, <2>2, <2>3 DEF Served
  <2>7. entry'.passages <= entry'.watermark /\ entry'.id <= mint'.id /\ entry.watermark <= entry'.watermark
    BY <1>3, <2>1 DEF WriteInv, TypeOK, Entry
  <2> QED BY <1>1, <1>2, <1>3, <2>1, <2>4, <2>5, <2>6, <2>7, WriteStep
<1>5. CASE ~(entry.live /\ entry.birth = wr[w].birth)
  <2>1. entry' = entry /\ acked' = acked
    BY <1>5 DEF BumpConfig
  <2>2. Indexed' = Indexed
    BY <1>3, <2>1 DEF Indexed
  <2> QED BY <1>1, <1>2, <1>3, <2>1, <2>2, WriteIdle
<1> QED BY <1>4, <1>5

\* An evicted index is built again from the store, which has everything.
LEMMA WriteEvict ==
  ASSUME TypeOK, WriteInv, EvictIndex
  PROVE  WriteInv'
<1>1. index'.resident = FALSE /\ UNCHANGED <<entry, acked, overtaken, wr, mint>>
  BY DEF EvictIndex
<1>2. Indexed' = entry.shows["store"]
  BY <1>1 DEF Indexed
<1>3. ASSUME entry.live, NEW p \in Parts PROVE acked[p] \subseteq Served(p)'
  <2>1. acked[p] \subseteq Served(p) /\ acked["store"] \subseteq Served("store") /\ acked["index"] = acked["store"]
    BY <1>3 DEF WriteInv, Parts
  <2> QED BY <1>1, <1>2, <2>1 DEF Served
<1>4. ASSUME NEW w \in Writers PROVE BatchOK(w)' /\ VectorsOK(w)'
  <2>1. BatchOK(w) /\ VectorsOK(w)
    BY DEF WriteInv
  <2> QED BY <1>1, <1>2, <2>1 DEF BatchOK, VectorsOK, Batching
<1> QED BY <1>1, <1>3, <1>4 DEF WriteInv

LEMMA WriteDelete ==
  ASSUME TypeOK, WriteInv, Delete
  PROVE  WriteInv'
<1>1. /\ entry'.shows = entry.shows /\ entry'.live = FALSE /\ entry'.birth = entry.birth
      /\ entry'.passages = entry.passages /\ entry'.watermark = entry.watermark /\ entry'.id = entry.id
  BY DeleteEntry DEF Delete
<1>2. UNCHANGED <<index, acked, overtaken, wr, mint>>
  BY DEF Delete
<1>3. ASSUME NEW w \in Writers PROVE BatchOK(w)' /\ VectorsOK(w)'
  <2>1. ~Batching(w)
    BY DEF Delete, Fenced, Batching, Folding
  <2>2. BatchOK(w)'
    BY <1>2, <2>1 DEF BatchOK, Batching
  <2>3. VectorsOK(w)'
    BY <1>1, <1>2 DEF WriteInv, VectorsOK
  <2> QED BY <2>2, <2>3
<1> QED BY <1>1, <1>2, <1>3 DEF WriteInv

LEMMA WriteRecreate ==
  ASSUME TypeOK, WriteInv, Recreate
  PROVE  WriteInv'
<1>1. /\ entry'.id = mint.id + 1 /\ entry'.birth = mint.birth + 1
      /\ entry'.passages = 0 /\ entry'.watermark = 0 /\ entry'.shows = [p \in Parts \ {"index"} |-> {Fresh}]
      /\ mint'.id = mint.id + 1 /\ mint'.birth = mint.birth + 1
  BY RecreateEntry, Minted DEF Recreate
<1>2. /\ index'.resident = FALSE /\ acked' = [p \in Parts |-> {Fresh}] /\ wr' = wr /\ ~entry.live
  BY DEF Recreate
<1>3. \A p \in Parts : acked'[p] \subseteq Served(p)'
  BY <1>1, <1>2 DEF Served, Indexed, Parts
<1>4. entry.birth = mint.birth /\ mint.birth \in Nat /\ mint.id \in Nat
  BY DEF TypeOK, Mint, WriteInv
<1>5. ASSUME NEW w \in Writers PROVE BatchOK(w)' /\ VectorsOK(w)'
  <2>1. ~Batching(w)
    BY <1>2 DEF WriteInv, BatchOK
  <2>2. BatchOK(w)'
    BY <1>2, <2>1 DEF BatchOK, Batching
  <2>3. ASSUME wr[w].pc = "vectors" PROVE wr[w].birth <= mint.birth + 1 /\ wr[w].birth # mint.birth + 1
    <3>1. wr[w].birth \in Nat
      BY <2>3, WriterShape DEF Refresh
    <3>2. wr[w].birth <= mint.birth
      BY <1>4, <2>3 DEF WriteInv, VectorsOK
    <3> QED BY <1>4, <3>1, <3>2
  <2>4. VectorsOK(w)'
    BY <1>1, <1>2, <2>3 DEF VectorsOK
  <2> QED BY <2>2, <2>4
<1>6. entry'.passages <= entry'.watermark /\ entry'.id <= mint'.id /\ entry'.birth = mint'.birth
  BY <1>1, <1>4
<1>7. acked'["index"] = acked'["store"]
  BY <1>2 DEF Parts
<1> QED BY <1>3, <1>5, <1>6, <1>7 DEF WriteInv

LEMMA WriteNext ==
  ASSUME TypeOK, TypeOK', WriteInv, [Next]_vars
  PROVE  WriteInv'
<1>1. CASE Write
  BY <1>1, WriteLogged DEF Write
<1>2. CASE UpdateMeta \/ PutSchema
  BY <1>2, WriteConfig
<1>3. CASE Compact
  BY <1>3, WriteCompact
<1>4. CASE EvictIndex \/ Delete \/ Recreate
  BY <1>4, WriteEvict, WriteDelete, WriteRecreate
<1>5. ASSUME NEW w \in Writers, wr' = [wr EXCEPT ![w] = Idle], UNCHANGED <<entry, index, acked, overtaken, mint>>
      PROVE  WriteInv'
  <2>1. wr'[w] = Idle /\ \A y \in Writers : y # w => wr'[y] = wr[y]
    BY <1>5, WrPut
  <2>2. BatchOK(w)' /\ VectorsOK(w)'
    BY <2>1 DEF BatchOK, VectorsOK, Batching, Folding, Idle
  <2>3. Indexed' = Indexed
    BY <1>5 DEF Indexed
  <2> QED BY <1>5, <2>1, <2>2, <2>3, WriteIdle
<1>6. ASSUME NEW w \in Writers, RetractGraph(w) PROVE WriteInv'
  <2>1. PICK touched \in BOOLEAN :
          /\ wr' = [wr EXCEPT ![w] = [pc |-> "passage", touched |-> touched]]
          /\ IF touched THEN LoggedWrite(Synced)
             ELSE UNCHANGED <<entry, index, ring, cache, rd, client, mint, acked, overtaken, quiet>>
    BY <1>6 DEF RetractGraph
  <2> DEFINE x == [pc |-> "passage", touched |-> touched]
  <2>2. x \in Retraction /\ x.pc = "passage"
    BY DEF Retraction
  <2> HIDE DEF x
  <2>3. wr'[w] = x /\ \A y \in Writers : y # w => wr'[y] = wr[y]
    BY <2>1, <2>2, WrPut DEF x
  <2>4. BatchOK(w)' /\ VectorsOK(w)'
    BY <2>2, <2>3 DEF BatchOK, VectorsOK, Batching, Folding
  <2>5. CASE touched
    BY <2>1, <2>3, <2>4, <2>5, WriteLogged
  <2>6. CASE ~touched
    <3>1. Indexed' = Indexed
      BY <2>1, <2>6 DEF Indexed
    <3> QED BY <2>1, <2>3, <2>4, <2>6, <3>1, WriteIdle
  <2> QED BY <2>5, <2>6
<1>7. ASSUME NEW w \in Writers, StorePassages(w) \/ RetractPassage(w) PROVE WriteInv'
  <2>1. PICK n \in 0..2 : PassageBatch(w, n)
    <3>1. CASE StorePassages(w)
      BY <3>1 DEF StorePassages
    <3>2. CASE RetractPassage(w)
      BY <3>2 DEF RetractPassage
    <3> QED BY <1>7, <3>1, <3>2
  <2> QED BY <2>1, WriteBatch
<1>8. ASSUME NEW w \in Writers, RetractNothing(w) PROVE WriteInv'
  BY <1>5, <1>8 DEF RetractNothing
<1>9. ASSUME NEW w \in Writers,
             Fold(w) \/ ReadWatermark(w) \/ BumpPassages(w) \/ Feed(w) \/ PublishVectors(w) \/ BumpConfig(w)
      PROVE  WriteInv'
  BY <1>9, WriteFold, WriteWatermark, WriteBump, WriteFeed, WriteVectors, WriteBumpConfig
<1>10. ASSUME UNCHANGED <<entry, acked, overtaken, wr>>, mint'.id = mint.id, mint'.birth = mint.birth,
              index' = index \/ index' = Built
       PROVE  WriteInv'
  <2>1. Indexed' = Indexed
    <3>1. CASE index' = index
      BY <1>10, <3>1 DEF Indexed
    <3>2. CASE index' = Built
      BY <1>10, <3>2 DEF Indexed, Built
    <3> QED BY <1>10, <3>1, <3>2
  <2> QED BY <1>10, <2>1, WriteIdle
<1>11. ASSUME NEW r \in Readers, MintKey(r) PROVE WriteInv'
  <2>1. mint'.id = mint.id /\ mint'.birth = mint.birth
    BY <1>11, Minted DEF MintKey
  <2> QED BY <1>10, <1>11, <2>1 DEF MintKey
<1>12. ASSUME NEW r \in Readers, First(r) PROVE WriteInv'
  <2>1. index' = index \/ index' = Built
    BY <1>12, FirstSays
  <2> QED BY <1>10, <1>12, <2>1 DEF First
<1>13. ASSUME NEW r \in Readers, Hit(r) \/ Second(r) \/ File(r) PROVE WriteInv'
  BY <1>10, <1>13 DEF Hit, Second, File
<1>14. CASE StartTailing \/ Poll \/ Pull \/ UNCHANGED vars
  BY <1>10, <1>14 DEF StartTailing, Poll, Pull, vars
<1> QED BY <1>1, <1>2, <1>3, <1>4, <1>6, <1>7, <1>8, <1>9, <1>11, <1>12, <1>13, <1>14 DEF Next

-----------------------------------------------------------------------------
(* Retrievals *)

\* Batches the passage counter names already: their calls may return, or have
\* returned, under an unmoved counter.
Named == {wr[w].change : w \in {x \in Writers : Batching(x) /\ wr[x].seq <= entry.passages}}
Settled(p) == acked[p] \cup IF p \in {"store", "index"} THEN Named ELSE {}

\* A key minted now would equal K; K was minted before.
Current(K) == entry.live /\ K.id = entry.id /\ K.lanes = OpLanes(K.op)
Old(K) ==
  /\ K.id <= mint.id
  /\ K.id = entry.id => K.lanes[1] <= OpLanes(K.op)[1] /\ K.lanes[2] <= OpLanes(K.op)[2]

\* The reader asks the context that is registered now.
Mine(r) == rd[r].pc # "idle" /\ entry.live /\ rd[r].birth = entry.birth

\* The first n parts of a response under K are v: filed, or about to be.
Holds(K, v, n) ==
  \/ n = 2 /\ \E i \in DOMAIN cache : cache[i].key = K /\ cache[i].value = v
  \/ \E r \in Readers : /\ rd[r].key = K /\ rd[r].value = v
                        /\ \/ n = 1 /\ rd[r].pc = "second"
                           \/ n = 2 /\ rd[r].pc = "file"

\* They show what is settled while K is current, and what any reader with that
\* key is due whenever it looks.
Good(K, v, n) ==
  /\ Current(K) => \A i \in 1..n : Settled(Reads(K.op)[i]) \ overtaken \subseteq v[i]
  /\ \A r \in Readers : Mine(r) /\ rd[r].key = K => \A i \in 1..n : rd[r].due[i] \ overtaken \subseteq v[i]

ReaderOK(r) ==
  rd[r].pc # "idle" =>
    /\ Old(rd[r].key) /\ rd[r].birth <= entry.birth
    /\ rd[r].pc = "second" => Len(rd[r].value) = 1
    /\ Mine(r) => \A i \in 1..2 : rd[r].due[i] \subseteq acked[Reads(rd[r].key.op)[i]]
    /\ Mine(r) /\ rd[r].pc = "done" => \A i \in 1..2 : rd[r].due[i] \ overtaken \subseteq rd[r].value[i]

ReadInv ==
  /\ \A K \in Key, v \in Seq(Changes), n \in {1, 2} : Holds(K, v, n) => Old(K) /\ Good(K, v, n)
  /\ \A r \in Readers : ReaderOK(r)

LEMMA ReadInit == Init => ReadInv
<1> SUFFICES ASSUME Init PROVE ReadInv
  OBVIOUS
<1>1. cache = <<>> /\ \A r \in Readers : rd[r].pc = "idle"
  BY DEF Init, Idle
<1>2. \A K \in Key, v \in Seq(Changes), n \in {1, 2} : ~Holds(K, v, n)
  BY <1>1 DEF Holds
<1> QED BY <1>1, <1>2 DEF ReadInv, ReaderOK

LEMMA LanesSay ==
  ASSUME TypeOK, NEW op \in Ops
  PROVE  /\ entry.graph \in Nat /\ entry.passages \in Nat /\ entry.config \in Nat
         /\ op = "search" => OpLanes(op)[1] = entry.passages /\ OpLanes(op)[2] = entry.config
         /\ op # "search" => OpLanes(op)[1] = entry.graph /\ OpLanes(op)[2] = entry.passages
         /\ OpLanes(op) \in Nat \X Nat
<1>1. op = "recall" \/ op = "search"
  BY DEF Ops
<1>2. entry.graph \in Nat /\ entry.passages \in Nat /\ entry.config \in Nat
  BY DEF TypeOK, Entry
<1> QED BY <1>1, <1>2 DEF OpLanes

\* What a step of a writer may do under the readers: take a fresh identity, or
\* let the counters grow; parts under unmoved counters settle no further.
Moves ==
  \/ entry'.id > mint.id
  \/ /\ entry'.id = entry.id /\ (entry'.live => entry.live)
     /\ entry.graph <= entry'.graph /\ entry.passages <= entry'.passages /\ entry.config <= entry'.config
     /\ entry'.graph = entry.graph /\ entry'.passages = entry.passages
          => Settled("graph")' \subseteq Settled("graph") /\ Settled("store")' \subseteq Settled("store")
     /\ entry'.passages = entry.passages /\ entry'.config = entry.config
          => Settled("index")' \subseteq Settled("index") /\ Settled("config")' \subseteq Settled("config")

LEMMA OldStep ==
  ASSUME TypeOK, TypeOK', NEW K \in Key, Old(K), mint.id <= mint'.id, Moves
  PROVE  /\ Old(K)'
         /\ Current(K)' => /\ Current(K)
                           /\ \A i \in 1..2 : Settled(Reads(K.op)[i])' \subseteq Settled(Reads(K.op)[i])
<1>0. /\ K.id \in Nat /\ K.op \in Ops /\ K.lanes \in Nat \X Nat /\ mint.id \in Nat /\ mint'.id \in Nat
      /\ entry.id \in Nat /\ entry'.id \in Nat /\ K.id <= mint.id
  BY DEF Key, TypeOK, Mint, Entry, Old
<1>1. CASE entry'.id > mint.id
  <2>1. K.id # entry'.id /\ K.id <= mint'.id
    BY <1>0, <1>1
  <2> QED BY <2>1 DEF Old, Current
<1>2. CASE ~(entry'.id > mint.id)
  <2>1. /\ entry'.id = entry.id /\ (entry'.live => entry.live)
        /\ entry.graph <= entry'.graph /\ entry.passages <= entry'.passages /\ entry.config <= entry'.config
    BY <1>2 DEF Moves
  <2> DEFINE L1 == OpLanes(K.op)[1]
             L2 == OpLanes(K.op)[2]
  <2>2. /\ L1 \in Nat /\ L2 \in Nat /\ OpLanes(K.op) = <<L1, L2>>
        /\ K.op = "search" => L1 = entry.passages /\ L2 = entry.config
        /\ K.op # "search" => L1 = entry.graph /\ L2 = entry.passages
    BY <1>0, LanesSay
  <2>3. /\ L1' \in Nat /\ L2' \in Nat /\ OpLanes(K.op)' = <<L1', L2'>>
        /\ K.op = "search" => L1' = entry'.passages /\ L2' = entry'.config
        /\ K.op # "search" => L1' = entry'.graph /\ L2' = entry'.passages
    <3>1. entry'.graph \in Nat /\ entry'.passages \in Nat /\ entry'.config \in Nat
      BY DEF TypeOK, Entry
    <3>2. K.op = "recall" \/ K.op = "search"
      BY <1>0 DEF Ops
    <3> QED BY <3>1, <3>2 DEF OpLanes
  <2> HIDE DEF L1, L2
  <2>4. L1 <= L1' /\ L2 <= L2'
    BY <2>1, <2>2, <2>3
  <2>5. ASSUME K.id = entry.id PROVE K.lanes[1] \in Nat /\ K.lanes[2] \in Nat /\ K.lanes[1] <= L1 /\ K.lanes[2] <= L2
    BY <1>0, <2>5 DEF Old, L1, L2
  <2>6. Old(K)'
    <3>1. K.id <= mint'.id
      BY <1>0
    <3>2. ASSUME K.id = entry'.id PROVE K.lanes[1] <= L1' /\ K.lanes[2] <= L2'
      BY <2>1, <2>2, <2>3, <2>4, <2>5, <3>2
    <3> QED BY <3>1, <3>2 DEF Old, L1, L2
  <2>7. ASSUME Current(K)'
        PROVE  Current(K) /\ \A i \in 1..2 : Settled(Reads(K.op)[i])' \subseteq Settled(Reads(K.op)[i])
    <3>1. entry.live /\ K.id = entry.id /\ K.lanes = <<L1', L2'>>
      BY <2>1, <2>3, <2>7 DEF Current
    <3>2. K.lanes[1] = L1' /\ K.lanes[2] = L2'
      BY <3>1
    <3>3. L1' = L1 /\ L2' = L2
      BY <2>2, <2>3, <2>4, <2>5, <3>1, <3>2
    <3>4. Current(K)
      BY <2>2, <3>1, <3>3 DEF Current
    <3>5. CASE K.op = "search"
      <4>1. Settled("index")' \subseteq Settled("index") /\ Settled("config")' \subseteq Settled("config")
        BY <1>2, <2>2, <2>3, <3>3, <3>5 DEF Moves
      <4>2. Reads(K.op)[1] = "index" /\ Reads(K.op)[2] = "config"
        BY <1>0, <3>5, ReadsParts
      <4> QED BY <3>4, <4>1, <4>2
    <3>6. CASE K.op # "search"
      <4>1. Settled("graph")' \subseteq Settled("graph") /\ Settled("store")' \subseteq Settled("store")
        BY <1>2, <2>2, <2>3, <3>3, <3>6 DEF Moves
      <4>2. Reads(K.op)[1] = "graph" /\ Reads(K.op)[2] = "store"
        BY <1>0, <3>6, ReadsParts
      <4> QED BY <3>4, <4>1, <4>2
    <3> QED BY <3>5, <3>6
  <2> QED BY <2>6, <2>7
<1> QED BY <1>1, <1>2

\* A step that leaves readers and cache alone.
LEMMA ReadStep ==
  ASSUME TypeOK, TypeOK', ReadInv, UNCHANGED <<cache, rd>>, overtaken \subseteq overtaken', mint.id <= mint'.id,
         Moves,
         \/ entry'.birth > entry.birth
         \/ /\ entry'.birth = entry.birth /\ (entry'.live => entry.live)
            /\ \A p \in Parts : acked[p] \subseteq acked'[p]
  PROVE  ReadInv'
<1>0. entry.birth \in Nat /\ entry'.birth \in Nat
  BY DEF TypeOK, Entry
<1>1. ASSUME NEW r \in Readers, Mine(r)' PROVE Mine(r) /\ entry'.birth = entry.birth
  <2>1. rd[r].pc # "idle" /\ entry'.live /\ rd[r].birth = entry'.birth
    BY <1>1 DEF Mine
  <2>2. rd[r].birth <= entry.birth
    BY <2>1 DEF ReadInv, ReaderOK
  <2> QED BY <1>0, <2>1, <2>2 DEF Mine
<1>2. ASSUME NEW K \in Key, NEW v \in Seq(Changes), NEW n \in {1, 2}, Holds(K, v, n)' PROVE Old(K)' /\ Good(K, v, n)'
  <2>1. Old(K) /\ Good(K, v, n)
    <3>1. Holds(K, v, n)
      BY <1>2 DEF Holds
    <3> QED BY <3>1 DEF ReadInv
  <2>2. /\ Old(K)'
        /\ Current(K)' => /\ Current(K)
                          /\ \A i \in 1..2 : Settled(Reads(K.op)[i])' \subseteq Settled(Reads(K.op)[i])
    BY <2>1, OldStep
  <2>3. ASSUME Current(K)', NEW i \in 1..n PROVE Settled(Reads(K.op)[i])' \ overtaken' \subseteq v[i]
    <3>1. i \in 1..2
      OBVIOUS
    <3>2. Settled(Reads(K.op)[i]) \ overtaken \subseteq v[i]
      BY <2>1, <2>2, <2>3 DEF Good
    <3> QED BY <2>2, <2>3, <3>1, <3>2
  <2>4. ASSUME NEW r \in Readers, Mine(r)', rd[r].key = K, NEW i \in 1..n PROVE rd[r].due[i] \ overtaken' \subseteq v[i]
    <3>1. rd[r].due[i] \ overtaken \subseteq v[i]
      BY <1>1, <2>1, <2>4 DEF Good
    <3> QED BY <3>1
  <2> QED BY <2>2, <2>3, <2>4 DEF Good
<1>3. ASSUME NEW r \in Readers PROVE ReaderOK(r)'
  <2> SUFFICES ASSUME rd[r].pc # "idle" PROVE ReaderOK(r)'
    BY DEF ReaderOK
  <2>1. ReaderOK(r) /\ rd[r] \in Request
    BY ReaderShape DEF ReadInv
  <2>2. rd[r].key \in Key /\ rd[r].birth \in Nat /\ rd[r].key.op \in Ops
    BY <2>1 DEF Request, Key
  <2>3. Old(rd[r].key)'
    <3> DEFINE K == rd[r].key
    <3>1. K \in Key /\ Old(K)
      BY <2>1, <2>2 DEF ReaderOK
    <3>2. K' = K
      OBVIOUS
    <3>3. ASSUME NEW J \in Key, Old(J) PROVE Old(J)'
      BY <3>3, OldStep
    <3> QED BY <3>1, <3>2, <3>3 DEF Old
  <2>4. rd[r].birth <= entry'.birth
    BY <1>0, <2>1, <2>2 DEF ReaderOK
  <2>5. ASSUME Mine(r)', NEW i \in 1..2
        PROVE  /\ rd[r].due[i] \subseteq acked'[Reads(rd[r].key.op)[i]]
               /\ rd[r].pc = "done" => rd[r].due[i] \ overtaken' \subseteq rd[r].value[i]
    <3>1. Mine(r) /\ entry'.birth = entry.birth
      BY <1>1, <2>5
    <3>2. \A p \in Parts : acked[p] \subseteq acked'[p]
      BY <1>0, <3>1
    <3>3. Reads(rd[r].key.op)[i] \in Parts
      BY <2>2, ReadsParts
    <3> QED BY <2>1, <3>1, <3>2, <3>3 DEF ReaderOK
  <2> QED BY <2>1, <2>3, <2>4, <2>5 DEF ReaderOK
<1> QED BY <1>2, <1>3 DEF ReadInv

\* What is settled is served.
LEMMA SettledServed ==
  ASSUME TypeOK, WriteInv, entry.live, NEW p \in Parts
  PROVE  Settled(p) \ overtaken \subseteq Served(p)
<1>1. acked[p] \subseteq Served(p)
  BY DEF WriteInv
<1>2. ASSUME NEW c \in Named, c \notin overtaken PROVE c \in entry.shows["store"] /\ c \in Indexed
  <2>1. PICK w \in Writers : Batching(w) /\ wr[w].seq <= entry.passages /\ c = wr[w].change
    BY DEF Named
  <2>2. BatchOK(w)
    BY DEF WriteInv
  <2> QED BY <1>2, <2>1, <2>2 DEF BatchOK
<1> QED BY <1>1, <1>2 DEF Settled, Served

\* Steps that leave the identity, the counters and the acknowledgements alone.
LEMMA ReadIdle ==
  ASSUME TypeOK, TypeOK', ReadInv, UNCHANGED <<cache, rd, acked, overtaken>>, mint'.id = mint.id,
         entry'.live = entry.live \/ ~entry'.live, entry'.id = entry.id, entry'.birth = entry.birth,
         entry'.graph = entry.graph, entry'.passages = entry.passages, entry'.config = entry.config,
         Named' \subseteq Named
  PROVE  ReadInv'
<1>1. /\ entry.graph <= entry'.graph /\ entry.passages <= entry'.passages /\ entry.config <= entry'.config
      /\ mint.id <= mint'.id
  BY DEF TypeOK, Entry, Mint
<1>2. \A p \in Parts : Settled(p)' \subseteq Settled(p)
  BY DEF Settled
<1>3. Moves
  BY <1>1, <1>2 DEF Moves, Parts
<1> QED BY <1>1, <1>3, ReadStep

LEMMA ReadLogged ==
  ASSUME TypeOK, TypeOK', ReadInv, NEW announced, LoggedWrite(announced), Named' \subseteq Named
  PROVE  ReadInv'
<1>1. /\ entry'.live = entry.live /\ entry'.id = entry.id /\ entry'.birth = entry.birth
      /\ entry'.graph = entry.graph + 1 /\ entry'.passages = entry.passages /\ entry'.config = entry.config
  BY LoggedWriteEntry DEF LoggedWrite
<1>2. mint'.id = mint.id /\ UNCHANGED <<cache, rd, overtaken>> /\ Ack({"graph"}, Fresh)
  BY Minted DEF LoggedWrite
<1>3. \A p \in Parts : acked'[p] = acked[p] \cup IF p \in {"graph"} THEN {Fresh} ELSE {}
  BY <1>2, FreshType, AckSays
<1>4. /\ entry.graph <= entry'.graph /\ entry.passages <= entry'.passages /\ entry.config <= entry'.config
      /\ entry'.graph # entry.graph /\ mint.id <= mint'.id
  BY <1>1, <1>2 DEF TypeOK, Entry, Mint
<1>5. Settled("index")' \subseteq Settled("index") /\ Settled("config")' \subseteq Settled("config")
  BY <1>3 DEF Settled, Parts
<1>6. Moves
  BY <1>1, <1>4, <1>5 DEF Moves
<1> QED BY <1>1, <1>2, <1>3, <1>4, <1>6, ReadStep

LEMMA ReadBatch ==
  ASSUME TypeOK, TypeOK', WriteInv, ReadInv, NEW w \in Writers, NEW n \in 0..2, PassageBatch(w, n)
  PROVE  ReadInv'
<1>1. /\ entry'.live = entry.live /\ entry'.id = entry.id /\ entry'.birth = entry.birth
      /\ entry'.graph = entry.graph /\ entry'.passages = entry.passages /\ entry'.config = entry.config
  BY BatchEntry DEF PassageBatch
<1>2. mint'.id = mint.id /\ UNCHANGED <<cache, rd, overtaken, acked>>
  BY Minted DEF PassageBatch
<1>3. wr'[w].seq = entry.watermark + 1 /\ \A y \in Writers : y # w => wr'[y] = wr[y]
  BY PassageBatchSays
<1>4. ~(wr'[w].seq <= entry.passages)
  BY <1>3 DEF WriteInv, TypeOK, Entry
<1>5. Named' \subseteq Named
  BY <1>1, <1>3, <1>4 DEF Named, Batching
<1> QED BY <1>1, <1>2, <1>5, ReadIdle

LEMMA ReadFold ==
  ASSUME TypeOK, TypeOK', ReadInv, NEW w \in Writers, Fold(w)
  PROVE  ReadInv'
<1>1. wr'[w].pc = "bump" /\ wr'[w].change = wr[w].change /\ wr'[w].seq = wr[w].seq
      /\ \A y \in Writers : y # w => wr'[y] = wr[y]
  BY WrPc DEF Fold, Folding
<1>2. UNCHANGED <<entry, cache, rd, mint, acked, overtaken>> /\ Batching(w)
  BY DEF Fold, Batching, Folding
<1>3. Named' \subseteq Named
  BY <1>1, <1>2 DEF Named, Batching
<1> QED BY <1>2, <1>3, ReadIdle

LEMMA ReadWatermarkRead ==
  ASSUME TypeOK, TypeOK', WriteInv, ReadInv, NEW w \in Writers, ReadWatermark(w)
  PROVE  ReadInv'
<1>1. wr'[w].change = wr[w].change /\ wr'[w].seq = entry.watermark
      /\ \A y \in Writers : y # w => wr'[y] = wr[y]
  BY ReadWatermarkSays
<1>2. UNCHANGED <<entry, cache, rd, mint, acked, overtaken>> /\ Batching(w)
  BY DEF ReadWatermark, Batching, Folding
<1>3. wr[w].seq <= entry.watermark /\ wr[w].seq \in Nat
  BY <1>2, WriterShape DEF WriteInv, BatchOK, Batching, Batch
<1>4. entry.watermark <= entry.passages => wr[w].seq <= entry.passages
  BY <1>3 DEF TypeOK, Entry
<1>5. Named' \subseteq Named
  BY <1>1, <1>2, <1>4 DEF Named, Batching
<1> QED BY <1>2, <1>5, ReadIdle

LEMMA ReadBump ==
  ASSUME TypeOK, TypeOK', ReadInv, NEW w \in Writers, BumpPassages(w)
  PROVE  ReadInv'
<1>1. wr'[w].pc = "feed" /\ wr'[w].change = wr[w].change /\ wr'[w].seq = wr[w].seq
      /\ \A y \in Writers : y # w => wr'[y] = wr[y]
  BY WrPc DEF BumpPassages, Folding
<1>2. /\ UNCHANGED <<cache, rd, mint, acked>> /\ Batching(w) /\ wr[w].pc = "max"
      /\ overtaken \subseteq overtaken'
  BY DEF BumpPassages, Batching, Folding
<1>3. FetchMax(w) \in Nat /\ entry.passages <= FetchMax(w)
  BY <1>2, FetchMaxSays
<1>4. /\ entry'.live = entry.live /\ entry'.id = entry.id /\ entry'.birth = entry.birth
      /\ entry'.graph = entry.graph /\ entry'.passages = FetchMax(w) /\ entry'.config = entry.config
  BY <1>3, BumpPassagesEntry DEF BumpPassages
<1>5. /\ entry.graph <= entry'.graph /\ entry.config <= entry'.config /\ mint.id <= mint'.id
  BY <1>2, <1>4 DEF TypeOK, Entry, Mint
<1>6. entry'.passages = entry.passages => Named' \subseteq Named
  BY <1>1, <1>2 DEF Named, Batching
<1>7. entry'.passages = entry.passages => \A p \in Parts : Settled(p)' \subseteq Settled(p)
  BY <1>2, <1>6 DEF Settled
<1>8. Moves
  BY <1>3, <1>4, <1>5, <1>7 DEF Moves, Parts
<1> QED BY <1>2, <1>4, <1>5, <1>8, ReadStep

\* The answer of a batch adds nothing: the counter named the batch before.
LEMMA ReadFeed ==
  ASSUME TypeOK, TypeOK', WriteInv, ReadInv, NEW w \in Writers, Feed(w)
  PROVE  ReadInv'
<1>1. wr'[w] = Idle /\ \A y \in Writers : y # w => wr'[y] = wr[y]
  BY WrPut DEF Feed
<1>2. UNCHANGED <<entry, cache, rd, mint, overtaken>> /\ Batching(w) /\ wr[w].change \in Nat
  BY WriterShape DEF Feed, Batching, Folding, Batch
<1>3. wr[w].change \in Named
  BY <1>2 DEF Named, WriteInv, BatchOK, Feed
<1>4. \A p \in Parts : acked'[p] = acked[p] \cup IF p \in {"store", "index"} THEN {wr[w].change} ELSE {}
  BY <1>2, AckSays DEF Feed
<1>5. Named' \subseteq Named
  BY <1>1, <1>2 DEF Named, Batching, Idle, Folding
<1>6. \A p \in Parts : Settled(p)' \subseteq Settled(p)
  BY <1>3, <1>4, <1>5 DEF Settled
<1>7. /\ entry.graph <= entry'.graph /\ entry.passages <= entry'.passages /\ entry.config <= entry'.config
      /\ mint.id <= mint'.id
  BY <1>2 DEF TypeOK, Entry, Mint
<1>8. Moves
  BY <1>2, <1>6, <1>7 DEF Moves, Parts
<1> QED BY <1>2, <1>4, <1>7, <1>8, ReadStep

LEMMA ReadVectors ==
  ASSUME TypeOK, TypeOK', ReadInv, NEW w \in Writers, PublishVectors(w)
  PROVE  ReadInv'
<1>1. /\ entry'.live = entry.live /\ entry'.id = entry.id /\ entry'.birth = entry.birth
      /\ entry'.graph = entry.graph /\ entry'.passages = entry.passages /\ entry'.config = entry.config
      /\ mint'.id = mint.id
  BY VectorsEntry, Minted DEF PublishVectors
<1>2. wr'[w].pc = "vectors" /\ \A y \in Writers : y # w => wr'[y] = wr[y]
  BY PublishVectorsSays
<1>3. Named' \subseteq Named
  BY <1>1, <1>2 DEF Named, Batching, Folding
<1> QED BY <1>1, <1>3, ReadIdle DEF PublishVectors

\* update_meta and a vector refresh: the configuration counter moves.
LEMMA ReadConfig ==
  ASSUME TypeOK, TypeOK', ReadInv, UNCHANGED <<cache, rd, overtaken>>, mint'.id = mint.id, NEW c \in Nat,
         Ack({"config"}, c), Named' \subseteq Named, entry'.live = entry.live, entry'.id = entry.id,
         entry'.birth = entry.birth, entry'.graph = entry.graph, entry'.passages = entry.passages,
         entry'.config = entry.config + 1
  PROVE  ReadInv'
<1>1. \A p \in Parts : acked'[p] = acked[p] \cup IF p \in {"config"} THEN {c} ELSE {}
  BY AckSays
<1>2. /\ entry.graph <= entry'.graph /\ entry.passages <= entry'.passages /\ entry.config <= entry'.config
      /\ entry'.config # entry.config /\ mint.id <= mint'.id
  BY DEF TypeOK, Entry, Mint
<1>3. Settled("graph")' \subseteq Settled("graph") /\ Settled("store")' \subseteq Settled("store")
  BY <1>1 DEF Settled, Parts
<1>4. Moves
  BY <1>2, <1>3 DEF Moves
<1> QED BY <1>1, <1>2, <1>4, ReadStep

LEMMA ReadBumpConfig ==
  ASSUME TypeOK, TypeOK', ReadInv, NEW w \in Writers, BumpConfig(w)
  PROVE  ReadInv'
<1>1. wr'[w] = Idle /\ \A y \in Writers : y # w => wr'[y] = wr[y]
  BY WrPut DEF BumpConfig
<1>2. UNCHANGED <<cache, rd, mint, overtaken>>
  BY DEF BumpConfig
<1>3. entry'.passages = entry.passages => Named' \subseteq Named
  BY <1>1 DEF Named, Batching, Idle, Folding
<1>4. CASE entry.live /\ entry.birth = wr[w].birth
  <2>1. /\ entry'.live = entry.live /\ entry'.id = entry.id /\ entry'.birth = entry.birth
        /\ entry'.graph = entry.graph /\ entry'.passages = entry.passages /\ entry'.config = entry.config + 1
    BY <1>4, BumpConfigEntry DEF BumpConfig
  <2>2. wr[w].change \in Nat /\ Ack({"config"}, wr[w].change)
    BY <1>4, WriterShape DEF BumpConfig, Refresh
  <2> QED BY <1>2, <1>3, <2>1, <2>2, ReadConfig
<1>5. CASE ~(entry.live /\ entry.birth = wr[w].birth)
  <2>1. entry' = entry /\ acked' = acked
    BY <1>5 DEF BumpConfig
  <2> QED BY <1>2, <1>3, <2>1, ReadIdle
<1> QED BY <1>4, <1>5

\* A fresh identity leaves every filed response behind.
LEMMA ReadNewId ==
  ASSUME TypeOK, TypeOK', ReadInv, UNCHANGED <<cache, rd, overtaken>>, entry'.id = mint.id + 1, mint'.id = mint.id + 1,
         \/ entry'.birth > entry.birth
         \/ /\ entry'.birth = entry.birth /\ (entry'.live => entry.live)
            /\ \A p \in Parts : acked[p] \subseteq acked'[p]
  PROVE  ReadInv'
<1>1. entry'.id > mint.id /\ mint.id <= mint'.id
  BY DEF TypeOK, Mint
<1>2. Moves
  BY <1>1 DEF Moves
<1> QED BY <1>1, <1>2, ReadStep

\* What readers do changes neither what is current nor what is settled; what a
\* reader is due stays, and is forgotten when it gives up.
LEMMA GoodKept ==
  ASSUME TypeOK, UNCHANGED <<entry, wr, acked, overtaken>>, NEW K, NEW v, NEW n \in {1, 2}, Good(K, v, n),
         \A y \in Readers : rd'[y].pc # "idle" =>
           /\ rd[y].pc # "idle" /\ rd'[y].key = rd[y].key /\ rd'[y].due = rd[y].due /\ rd'[y].birth = rd[y].birth
  PROVE  Good(K, v, n)'
<1>1. Current(K)' <=> Current(K)
  BY DEF Current, OpLanes
<1>2. \A p : Settled(p)' = Settled(p)
  BY DEF Settled, Named, Batching
<1>3. \A y \in Readers : Mine(y)' => Mine(y) /\ rd'[y].key = rd[y].key /\ rd'[y].due = rd[y].due
  BY DEF Mine
<1> QED BY <1>1, <1>2, <1>3 DEF Good, Reads

LEMMA OldKept ==
  ASSUME UNCHANGED entry, mint'.id = mint.id, NEW K
  PROVE  Old(K)' <=> Old(K)
BY DEF Old, OpLanes

\* A reader of the step that goes on, or stays.
LEMMA ReaderKept ==
  ASSUME UNCHANGED <<entry, acked, overtaken>>, mint'.id = mint.id, NEW y \in Readers, ReaderOK(y),
         rd'[y] = rd[y]
  PROVE  ReaderOK(y)'
<1>1. Old(rd[y].key)' <=> Old(rd[y].key)
  BY OldKept DEF Old, OpLanes
<1>2. Mine(y)' <=> Mine(y)
  BY DEF Mine
<1> QED BY <1>1, <1>2 DEF ReaderOK

\* A part just read shows all that is settled in it and all that any reader of
\* the registered context is due of it.
LEMMA PartIsGood ==
  ASSUME TypeOK, WriteInv, ReadInv, NEW K \in Key, NEW i \in 1..2, entry.live
  PROVE  /\ Settled(Reads(K.op)[i]) \ overtaken \subseteq Served(Reads(K.op)[i])
         /\ \A y \in Readers : Mine(y) /\ rd[y].key = K => rd[y].due[i] \ overtaken \subseteq Served(Reads(K.op)[i])
<1>1. K.op \in Ops
  BY DEF Key
<1>2. Reads(K.op)[i] \in Parts
  BY <1>1, ReadsParts
<1>3. Settled(Reads(K.op)[i]) \ overtaken \subseteq Served(Reads(K.op)[i])
  BY <1>2, SettledServed
<1>4. ASSUME NEW y \in Readers, Mine(y), rd[y].key = K PROVE rd[y].due[i] \ overtaken \subseteq Served(Reads(K.op)[i])
  <2>1. rd[y].due[i] \subseteq acked[Reads(K.op)[i]]
    BY <1>4 DEF ReadInv, ReaderOK, Mine
  <2>2. acked[Reads(K.op)[i]] \subseteq Served(Reads(K.op)[i])
    BY <1>2 DEF WriteInv
  <2> QED BY <2>1, <2>2
<1> QED BY <1>3, <1>4

LEMMA ReadMintKey ==
  ASSUME TypeOK, ReadInv, WriteInv, NEW r \in Readers, MintKey(r)
  PROVE  ReadInv'
<1>1. PICK op \in Ops : rd'[r].key = RetrievalKey(op) /\ rd'[r].due = [i \in 1..2 |-> acked[Reads(op)[i]]]
  BY MintKeySays
<1>2. rd'[r].pc = "probe" /\ rd'[r].birth = entry.birth /\ \A y \in Readers : y # r => rd'[y] = rd[y]
  BY MintKeySays
<1>3. /\ UNCHANGED <<entry, cache, wr, acked, overtaken>> /\ mint'.id = mint.id /\ entry.live
      /\ rd[r].pc \in {"idle", "done"}
  BY Minted DEF MintKey
<1> DEFINE key == RetrievalKey(op)
<1>4. key \in Key /\ key.op = op /\ key.id = entry.id /\ key.lanes = OpLanes(op)
  BY KeyType
<1>5. \A i \in 1..2 : rd'[r].due[i] = acked[Reads(op)[i]]
  BY <1>1
<1>6. rd'[r].key = key
  BY <1>1
<1> HIDE DEF key
<1>7. Current(key)
  BY <1>3, <1>4 DEF Current
<1>8. ASSUME NEW K \in Key, NEW v \in Seq(Changes), NEW n \in {1, 2}, Holds(K, v, n)' PROVE Old(K)' /\ Good(K, v, n)'
  <2>1. Holds(K, v, n)
    <3>1. ASSUME NEW y \in Readers, rd'[y].pc \in {"second", "file"} PROVE rd'[y] = rd[y]
      BY <1>2, <3>1
    <3> QED BY <1>3, <1>8, <3>1 DEF Holds
  <2>2. Old(K) /\ Good(K, v, n)
    BY <2>1 DEF ReadInv
  <2>3. Old(K)' /\ (Current(K)' <=> Current(K))
    BY <1>3, <2>2, OldKept DEF Current, OpLanes
  <2>4. \A p : Settled(p)' = Settled(p)
    BY <1>3 DEF Settled, Named, Batching
  <2>5. ASSUME NEW y \in Readers, Mine(y)', rd'[y].key = K, NEW i \in 1..n
        PROVE  rd'[y].due[i] \ overtaken \subseteq v[i]
    <3>1. CASE y = r
      <4>1. K = key /\ i \in 1..2
        BY <1>6, <2>5, <3>1
      <4>2. Settled(Reads(op)[i]) \ overtaken \subseteq v[i]
        BY <1>4, <1>7, <2>2, <4>1 DEF Good
      <4>3. rd'[y].due[i] \subseteq Settled(Reads(op)[i])
        BY <1>5, <3>1, <4>1 DEF Settled
      <4> QED BY <4>2, <4>3
    <3>2. CASE y # r
      <4>1. rd'[y] = rd[y] /\ Mine(y)
        BY <1>2, <1>3, <2>5, <3>2 DEF Mine
      <4> QED BY <2>2, <2>5, <4>1 DEF Good
    <3> QED BY <3>1, <3>2
  <2> QED BY <1>3, <2>2, <2>3, <2>4, <2>5 DEF Good, Reads
<1>9. ASSUME NEW y \in Readers PROVE ReaderOK(y)'
  <2>1. CASE y # r
    BY <1>2, <1>3, <2>1, ReaderKept DEF ReadInv
  <2>2. CASE y = r
    <3>1. key.id <= mint'.id /\ key.id = entry.id /\ entry.birth <= entry.birth
      BY <1>3, <1>4 DEF WriteInv, TypeOK, Entry
    <3>2. OpLanes(op)[1] \in Nat /\ OpLanes(op)[2] \in Nat
      BY LanesSay
    <3>3. key.lanes[1] <= OpLanes(key.op)[1] /\ key.lanes[2] <= OpLanes(key.op)[2]
      BY <1>4, <3>2
    <3>5. Old(rd[r].key)'
      BY <1>3, <1>6, <3>1, <3>3 DEF Old, OpLanes
    <3>6. \A i \in 1..2 : rd'[r].due[i] \subseteq acked'[Reads(rd'[r].key.op)[i]]
      BY <1>3, <1>4, <1>5, <1>6
    <3> QED BY <1>2, <1>3, <2>2, <3>1, <3>5, <3>6 DEF ReaderOK
  <2> QED BY <2>1, <2>2
<1> QED BY <1>8, <1>9 DEF ReadInv

\* A step of a reader that keeps its key: what it may file next is good, and so
\* is what it answers.
LEMMA ReadTurn ==
  ASSUME TypeOK, ReadInv, NEW r \in Readers, UNCHANGED <<entry, wr, acked, overtaken, mint>>,
         \A y \in Readers : y # r => rd'[y] = rd[y],
         \/ rd'[r] = Idle
         \/ /\ rd[r].pc # "idle" /\ rd'[r].pc \in {"second", "file", "done"} /\ rd'[r].key = rd[r].key
            /\ rd'[r].due = rd[r].due /\ rd'[r].birth = rd[r].birth
            /\ rd'[r].pc = "second" => Len(rd'[r].value) = 1 /\ Good(rd[r].key, rd'[r].value, 1)
            /\ rd'[r].pc = "file" => Good(rd[r].key, rd'[r].value, 2)
            /\ rd'[r].pc = "done" /\ Mine(r)
                 => \A i \in 1..2 : rd[r].due[i] \ overtaken \subseteq rd'[r].value[i],
         \A i \in DOMAIN cache' :
           \/ \E j \in DOMAIN cache : cache'[i] = cache[j]
           \/ cache'[i].key = rd[r].key /\ cache'[i].value = rd[r].value /\ rd[r].pc = "file"
  PROVE  ReadInv'
<1>1. Idle.pc = "idle"
  BY DEF Idle
<1>2. \A y \in Readers : rd'[y].pc # "idle" =>
        /\ rd[y].pc # "idle" /\ rd'[y].key = rd[y].key /\ rd'[y].due = rd[y].due /\ rd'[y].birth = rd[y].birth
  BY <1>1
<1>3. ASSUME NEW K \in Key, NEW v \in Seq(Changes), NEW n \in {1, 2}, Holds(K, v, n)' PROVE Old(K)' /\ Good(K, v, n)'
  <2>1. Old(K) /\ Good(K, v, n)
    <3>1. CASE n = 2 /\ \E i \in DOMAIN cache' : cache'[i].key = K /\ cache'[i].value = v
      <4>1. Holds(K, v, n)
        BY <3>1 DEF Holds
      <4> QED BY <4>1 DEF ReadInv
    <3>2. CASE \E y \in Readers : /\ rd'[y].key = K /\ rd'[y].value = v
                                  /\ \/ n = 1 /\ rd'[y].pc = "second"
                                     \/ n = 2 /\ rd'[y].pc = "file"
      <4>1. PICK y \in Readers : /\ rd'[y].key = K /\ rd'[y].value = v
                                 /\ \/ n = 1 /\ rd'[y].pc = "second"
                                    \/ n = 2 /\ rd'[y].pc = "file"
        BY <3>2
      <4>2. CASE y # r
        <5>1. Holds(K, v, n)
          BY <4>1, <4>2 DEF Holds
        <5> QED BY <5>1 DEF ReadInv
      <4>3. CASE y = r
        <5>1. rd'[r] # Idle /\ rd[r].key = K /\ rd[r].pc # "idle"
          BY <1>1, <4>1, <4>3
        <5>2. Old(K)
          BY <5>1 DEF ReadInv, ReaderOK
        <5> QED BY <4>1, <4>3, <5>1, <5>2
      <4> QED BY <4>2, <4>3
    <3> QED BY <1>3, <3>1, <3>2 DEF Holds
  <2> QED BY <1>2, <2>1, GoodKept, OldKept
<1>4. ASSUME NEW y \in Readers PROVE ReaderOK(y)'
  <2>1. CASE y # r
    BY <2>1, ReaderKept DEF ReadInv
  <2>2. CASE y = r /\ rd'[r] = Idle
    BY <1>1, <2>2 DEF ReaderOK
  <2>3. CASE y = r /\ rd'[r] # Idle
    <3>1. ReaderOK(r) /\ rd[r].pc # "idle" /\ rd'[r].pc \in {"second", "file", "done"} /\ rd'[r].key = rd[r].key
          /\ rd'[r].due = rd[r].due /\ rd'[r].birth = rd[r].birth
      BY <2>3 DEF ReadInv
    <3>2. Mine(r)' <=> Mine(r)
      BY <3>1 DEF Mine
    <3>3. Old(rd[r].key)'
      BY <3>1 DEF Old, OpLanes, ReaderOK
    <3>4. Mine(r) => \A i \in 1..2 : rd'[r].due[i] \subseteq acked'[Reads(rd'[r].key.op)[i]]
      BY <3>1 DEF ReaderOK
    <3>5. rd'[r].pc = "second" => Len(rd'[r].value) = 1
      BY <2>3
    <3>6. rd'[r].pc = "done" /\ Mine(r) => \A i \in 1..2 : rd'[r].due[i] \ overtaken \subseteq rd'[r].value[i]
      BY <2>3
    <3>7. rd'[r].birth <= entry'.birth
      BY <3>1 DEF ReaderOK
    <3> QED BY <2>3, <3>1, <3>2, <3>3, <3>4, <3>5, <3>6, <3>7 DEF ReaderOK
  <2> QED BY <2>1, <2>2, <2>3
<1> QED BY <1>3, <1>4 DEF ReadInv

LEMMA CacheEntry ==
  ASSUME TypeOK, NEW i \in DOMAIN cache
  PROVE  cache[i].key \in Key /\ cache[i].value \in Seq(Changes)
<1>1. cache[i] \in Response
  BY LenProperties, ElementOfSeq DEF TypeOK
<1> QED BY <1>1 DEF Response

LEMMA ReadHit ==
  ASSUME TypeOK, ReadInv, NEW r \in Readers, Hit(r)
  PROVE  ReadInv'
<1>1. /\ \A y \in Readers : y # r => rd'[y] = rd[y]
      /\ rd'[r].pc = "done" /\ rd'[r].key = rd[r].key /\ rd'[r].due = rd[r].due /\ rd'[r].birth = rd[r].birth
      /\ \A i \in DOMAIN cache' : \E j \in DOMAIN cache : cache'[i] = cache[j]
  BY HitSays
<1>2. PICK i \in DOMAIN cache : cache[i].key = rd[r].key /\ rd'[r].value = cache[i].value
  BY HitSays
<1>3. Good(rd[r].key, cache[i].value, 2)
  <2>1. cache[i].key \in Key /\ cache[i].value \in Seq(Changes) /\ Holds(cache[i].key, cache[i].value, 2)
    BY CacheEntry DEF Holds
  <2> QED BY <1>2, <2>1 DEF ReadInv
<1>4. Mine(r) => \A k \in 1..2 : rd[r].due[k] \ overtaken \subseteq rd'[r].value[k]
  BY <1>2, <1>3 DEF Good
<1>5. UNCHANGED <<entry, wr, acked, overtaken, mint>> /\ rd[r].pc # "idle"
  BY DEF Hit
<1> QED BY <1>1, <1>4, <1>5, ReadTurn

LEMMA ReadFirst ==
  ASSUME TypeOK, WriteInv, ReadInv, NEW r \in Readers, First(r)
  PROVE  ReadInv'
<1>1. UNCHANGED <<entry, wr, acked, overtaken, mint, cache>> /\ rd[r].pc = "probe"
  BY DEF First
<1>2. \A y \in Readers : y # r => rd'[y] = rd[y]
  BY FirstSays
<1>3. CASE ~entry.live
  <2>1. rd'[r] = Idle
    BY <1>3, FirstSays
  <2> QED BY <1>1, <1>2, <2>1, ReadTurn
<1>4. CASE entry.live
  <2> DEFINE K == rd[r].key
             x == Served(Reads(K.op)[1])
  <2>1. K \in Key /\ K.op \in Ops
    BY <1>1, ReaderShape DEF Request, Key
  <2>2. /\ rd'[r].pc = "second" /\ rd'[r].value = <<x>>
        /\ rd'[r].key = rd[r].key /\ rd'[r].due = rd[r].due /\ rd'[r].birth = rd[r].birth
    <3>1. CASE K.op = "search"
      <4>1. Built.shows = Indexed
        BY DEF Built, Indexed
      <4>2. Reads(K.op)[1] = "index"
        BY <2>1, <3>1, ReadsParts
      <4> QED BY <1>4, <3>1, <4>1, <4>2, FirstSays DEF Served
    <3>2. CASE K.op # "search"
      <4>1. Reads(K.op)[1] = "graph"
        BY <2>1, <3>2, ReadsParts
      <4> QED BY <1>4, <3>2, <4>1, FirstSays DEF Served
    <3> QED BY <3>1, <3>2
  <2>3. /\ Settled(Reads(K.op)[1]) \ overtaken \subseteq x
        /\ \A y \in Readers : Mine(y) /\ rd[y].key = K => rd[y].due[1] \ overtaken \subseteq x
    BY <1>4, <2>1, PartIsGood
  <2> HIDE DEF x
  <2>4. <<x>>[1] = x /\ Len(<<x>>) = 1 /\ \A i \in 1..1 : i = 1
    OBVIOUS
  <2>5. Good(K, <<x>>, 1)
    BY <2>3, <2>4 DEF Good
  <2> QED BY <1>1, <1>2, <2>2, <2>4, <2>5, ReadTurn
<1> QED BY <1>3, <1>4

LEMMA AppendOne ==
  ASSUME NEW S, NEW s \in Seq(S), Len(s) = 1, NEW e \in S
  PROVE  Append(s, e)[1] = s[1] /\ Append(s, e)[2] = e
<1>1. /\ \A i \in 1..Len(s) : Append(s, e)[i] = s[i]
      /\ Append(s, e)[Len(s) + 1] = e
  BY AppendProperties
<1>2. 1 \in 1..Len(s) /\ Len(s) + 1 = 2
  OBVIOUS
<1> QED BY <1>1, <1>2

LEMMA ReadSecond ==
  ASSUME TypeOK, WriteInv, ReadInv, NEW r \in Readers, Second(r)
  PROVE  ReadInv'
<1> DEFINE K == rd[r].key
           v == rd[r].value
           w == rd'[r].value
           x == entry.shows[Reads(K.op)[2]]
<1>1. UNCHANGED <<entry, wr, acked, overtaken, mint, cache>> /\ rd[r].pc = "second"
  BY DEF Second
<1>2. /\ \A y \in Readers : y # r => rd'[y] = rd[y]
      /\ v \in Seq(Changes) /\ rd'[r].pc = "file"
      /\ rd'[r].key = rd[r].key /\ rd'[r].due = rd[r].due /\ rd'[r].birth = rd[r].birth
      /\ entry.live => w = Append(v, x)
  BY SecondSays
<1>3. K \in Key /\ K.op \in Ops /\ Len(v) = 1
  BY <1>1, ReaderShape DEF Request, Key, ReadInv, ReaderOK
<1>4. Good(K, v, 1)
  <2>1. Holds(K, v, 1)
    BY <1>1 DEF Holds
  <2> QED BY <1>2, <1>3, <2>1 DEF ReadInv
<1>5. Good(K, w, 2)
  <2>1. CASE ~entry.live
    BY <2>1 DEF Good, Current, Mine
  <2>2. CASE entry.live
    <3>1. w = Append(v, x)
      BY <1>2, <2>2
    <3>2. x = Served(Reads(K.op)[2])
      BY <1>3, ReadsParts DEF Served
    <3>3. /\ Settled(Reads(K.op)[2]) \ overtaken \subseteq x
          /\ \A y \in Readers : Mine(y) /\ rd[y].key = K => rd[y].due[2] \ overtaken \subseteq x
      BY <1>3, <2>2, <3>2, PartIsGood
    <3>4. /\ Current(K) => Settled(Reads(K.op)[1]) \ overtaken \subseteq v[1]
          /\ \A y \in Readers : Mine(y) /\ rd[y].key = K => rd[y].due[1] \ overtaken \subseteq v[1]
      BY <1>4 DEF Good
    <3>7. x \in Changes
      BY <1>3, ReadsParts, ShowsType
    <3> HIDE DEF x, v, w, K
    <3>5. w[1] = v[1] /\ w[2] = x
      <4>1. v \in Seq(Changes) /\ Len(v) = 1 /\ w = Append(v, x)
        BY <1>2, <1>3, <3>1 DEF v, w, x, K
      <4>2. x \in Changes
        BY <3>7
      <4> QED BY <4>1, <4>2, AppendOne
    <3>6. \A i \in 1..2 : i = 1 \/ i = 2
      OBVIOUS
    <3> QED BY <3>3, <3>4, <3>5, <3>6 DEF Good
  <2> QED BY <2>1, <2>2
<1> QED BY <1>1, <1>2, <1>5, ReadTurn

LEMMA ReadFile ==
  ASSUME TypeOK, ReadInv, NEW r \in Readers, File(r)
  PROVE  ReadInv'
<1>1. UNCHANGED <<entry, wr, acked, overtaken, mint>> /\ rd[r].pc = "file"
  BY DEF File
<1>2. /\ \A y \in Readers : y # r => rd'[y] = rd[y]
      /\ rd'[r].pc = "done" /\ rd'[r].key = rd[r].key /\ rd'[r].due = rd[r].due /\ rd'[r].birth = rd[r].birth
      /\ rd'[r].value = rd[r].value
  BY FileSays
<1>3. \A i \in DOMAIN cache' :
        \/ \E j \in DOMAIN cache : cache'[i] = cache[j]
        \/ cache'[i].key = rd[r].key /\ cache'[i].value = rd[r].value /\ rd[r].pc = "file"
  BY <1>1, FileSays
<1>4. Good(rd[r].key, rd[r].value, 2)
  <2>1. rd[r].key \in Key /\ rd[r].value \in Seq(Changes)
    BY <1>1, ReaderShape DEF Request
  <2>2. Holds(rd[r].key, rd[r].value, 2)
    BY <1>1 DEF Holds
  <2> QED BY <2>1, <2>2 DEF ReadInv
<1>5. Mine(r) => \A k \in 1..2 : rd[r].due[k] \ overtaken \subseteq rd'[r].value[k]
  BY <1>2, <1>4 DEF Good
<1> QED BY <1>1, <1>2, <1>3, <1>5, ReadTurn

LEMMA ReadNext ==
  ASSUME TypeOK, TypeOK', WriteInv, ReadInv, [Next]_vars
  PROVE  ReadInv'
<1>1. CASE Write
  <2>1. Named' \subseteq Named
    <3>1. entry'.passages = entry.passages /\ wr' = wr
      BY <1>1, LoggedWriteEntry DEF Write, LoggedWrite
    <3> QED BY <3>1 DEF Named, Batching
  <2> QED BY <1>1, <2>1, ReadLogged DEF Write
<1>2. CASE UpdateMeta
  <2>1. /\ entry'.live = entry.live /\ entry'.id = entry.id /\ entry'.birth = entry.birth
        /\ entry'.graph = entry.graph /\ entry'.passages = entry.passages /\ entry'.config = entry.config + 1
        /\ mint'.id = mint.id /\ Fresh \in Nat
    BY <1>2, MetaEntry, Minted, FreshType DEF UpdateMeta
  <2>2. UNCHANGED <<cache, rd, wr, overtaken>> /\ Ack({"config"}, Fresh)
    BY <1>2 DEF UpdateMeta
  <2>3. Named' \subseteq Named
    BY <2>1, <2>2 DEF Named, Batching
  <2> QED BY <2>1, <2>2, <2>3, ReadConfig
<1>3. CASE PutSchema
  <2>1. /\ entry'.live = entry.live /\ entry'.birth = entry.birth
        /\ entry'.id = mint.id + 1 /\ mint'.id = mint.id + 1
    BY <1>3, SchemaEntry, Minted DEF PutSchema
  <2>2. UNCHANGED <<cache, rd, overtaken>> /\ \A p \in Parts : acked[p] \subseteq acked'[p]
    BY <1>3, AckSays, FreshType DEF PutSchema
  <2> QED BY <2>1, <2>2, ReadNewId
<1>4. CASE Compact
  <2>1. /\ entry'.live = entry.live /\ entry'.birth = entry.birth
        /\ entry'.id = mint.id + 1 /\ mint'.id = mint.id + 1
    BY <1>4, CompactEntry, Minted DEF Compact, Compacted
  <2>2. UNCHANGED <<cache, rd, overtaken>> /\ \A p \in Parts : acked[p] \subseteq acked'[p]
    BY <1>4, AckSays, FreshType DEF Compact
  <2> QED BY <2>1, <2>2, ReadNewId
<1>5. CASE Delete
  <2>1. /\ entry'.live = FALSE /\ entry'.id = entry.id /\ entry'.birth = entry.birth
        /\ entry'.graph = entry.graph /\ entry'.passages = entry.passages /\ entry'.config = entry.config
    BY <1>5, DeleteEntry DEF Delete
  <2>2. UNCHANGED <<cache, rd, wr, acked, overtaken, mint>>
    BY <1>5 DEF Delete
  <2>3. Named' \subseteq Named
    BY <2>1, <2>2 DEF Named, Batching
  <2> QED BY <2>1, <2>2, <2>3, ReadIdle
<1>6. CASE Recreate
  <2>1. entry'.id = mint.id + 1 /\ entry'.birth = mint.birth + 1 /\ mint'.id = mint.id + 1
    BY <1>6, RecreateEntry, Minted DEF Recreate
  <2>2. entry'.birth > entry.birth
    BY <2>1 DEF WriteInv, TypeOK, Mint
  <2>3. UNCHANGED <<cache, rd, overtaken>>
    BY <1>6 DEF Recreate
  <2> QED BY <2>1, <2>2, <2>3, ReadNewId
<1>7. ASSUME UNCHANGED <<entry, cache, rd, acked, overtaken, mint>>, Named' \subseteq Named PROVE ReadInv'
  BY <1>7, ReadIdle
<1>8. CASE EvictIndex \/ StartTailing \/ Poll \/ Pull \/ UNCHANGED vars
  <2>1. UNCHANGED <<entry, cache, rd, wr, acked, overtaken, mint>>
    BY <1>8 DEF EvictIndex, StartTailing, Poll, Pull, vars
  <2>2. Named' \subseteq Named
    BY <2>1 DEF Named, Batching
  <2> QED BY <1>7, <2>1, <2>2
<1>9. ASSUME NEW w \in Writers, RetractGraph(w) PROVE ReadInv'
  <2>1. PICK touched \in BOOLEAN :
          /\ wr' = [wr EXCEPT ![w] = [pc |-> "passage", touched |-> touched]]
          /\ IF touched THEN LoggedWrite(Synced)
             ELSE UNCHANGED <<entry, index, ring, cache, rd, client, mint, acked, overtaken, quiet>>
    BY <1>9 DEF RetractGraph
  <2> DEFINE x == [pc |-> "passage", touched |-> touched]
  <2>2. x \in Retraction /\ x.pc = "passage"
    BY DEF Retraction
  <2> HIDE DEF x
  <2>3. wr'[w] = x /\ \A y \in Writers : y # w => wr'[y] = wr[y]
    BY <2>1, <2>2, WrPut DEF x
  <2>4. entry'.passages = entry.passages
    BY <2>1, LoggedWriteEntry DEF LoggedWrite
  <2>5. Named' \subseteq Named
    BY <2>2, <2>3, <2>4 DEF Named, Batching, Folding
  <2>6. CASE touched
    BY <2>1, <2>5, <2>6, ReadLogged
  <2>7. CASE ~touched
    BY <1>7, <2>1, <2>5, <2>7
  <2> QED BY <2>6, <2>7
<1>10. ASSUME NEW w \in Writers, StorePassages(w) \/ RetractPassage(w) PROVE ReadInv'
  <2>1. PICK n \in 0..2 : PassageBatch(w, n)
    <3>1. CASE StorePassages(w)
      BY <3>1 DEF StorePassages
    <3>2. CASE RetractPassage(w)
      BY <3>2 DEF RetractPassage
    <3> QED BY <1>10, <3>1, <3>2
  <2> QED BY <2>1, ReadBatch
<1>11. ASSUME NEW w \in Writers, RetractNothing(w) PROVE ReadInv'
  <2>1. wr'[w] = Idle /\ \A y \in Writers : y # w => wr'[y] = wr[y]
    BY <1>11, WrPut DEF RetractNothing
  <2>2. Named' \subseteq Named
    BY <1>11, <2>1 DEF RetractNothing, Named, Batching, Folding, Idle
  <2> QED BY <1>7, <1>11, <2>2 DEF RetractNothing
<1>12. ASSUME NEW w \in Writers,
              Fold(w) \/ ReadWatermark(w) \/ BumpPassages(w) \/ Feed(w) \/ PublishVectors(w) \/ BumpConfig(w)
       PROVE  ReadInv'
  BY <1>12, ReadFold, ReadWatermarkRead, ReadBump, ReadFeed, ReadVectors, ReadBumpConfig
<1>13. ASSUME NEW r \in Readers, MintKey(r) \/ Hit(r) \/ First(r) \/ Second(r) \/ File(r) PROVE ReadInv'
  BY <1>13, ReadMintKey, ReadHit, ReadFirst, ReadSecond, ReadFile
<1> QED BY <1>1, <1>2, <1>3, <1>4, <1>5, <1>6, <1>8, <1>9, <1>10, <1>11, <1>12, <1>13 DEF Next

LEMMA ReadInvImplies ==
  ASSUME ReadInv
  PROVE  SearchesShowAcked
BY DEF ReadInv, ReaderOK, Mine, SearchesShowAcked

-----------------------------------------------------------------------------
(* Theorems *)

\* Type correctness: a request's shape is its program counter's, and what the
\* cache and the ring hold are responses and events.
THEOREM ReadSideType == Spec => []TypeOK
<1>1. Init => TypeOK /\ Ordered(ring)
  BY InitType, FeedInit DEF FeedInv
<1>2. TypeOK /\ Ordered(ring) /\ [Next]_vars => TypeOK' /\ Ordered(ring)'
  BY TypeStep
<1> QED BY <1>1, <1>2, PTL DEF Spec

\* The change feed skips nothing without answering stale_cursor (changes.rs
\* ChangeRing::push and read): a client that polled to the end and pulled what
\* the events named has every announced change, whatever was evicted meanwhile.
THEOREM FeedIsComplete == Spec => []FeedSkipsNothing
<1>1. Init => TypeOK /\ FeedInv
  BY InitType, FeedInit
<1>2. TypeOK /\ FeedInv /\ [Next]_vars => TypeOK' /\ FeedInv'
  BY TypeStep, FeedNext DEF FeedInv
<1>3. TypeOK /\ FeedInv => FeedSkipsNothing
  BY FeedInvImplies
<1> QED BY <1>1, <1>2, <1>3, PTL DEF Spec

\* No retrieval is older than its key (retrieval_cache.rs retrieval_key and
\* insert, registry.rs bump order): answered from the cache or not, it shows
\* every change acknowledged when the key was minted, the overtaken batches
\* excepted.
THEOREM RetrievalsAreFresh == Spec => []SearchesShowAcked
<1>1. Init => TypeOK /\ Ordered(ring) /\ WriteInv /\ ReadInv
  BY InitType, FeedInit, WriteInit, ReadInit DEF FeedInv
<1>2. TypeOK /\ Ordered(ring) /\ WriteInv /\ ReadInv /\ [Next]_vars
        => TypeOK' /\ Ordered(ring)' /\ WriteInv' /\ ReadInv'
  BY TypeStep, WriteNext, ReadNext
<1>3. ReadInv => SearchesShowAcked
  BY ReadInvImplies
<1> QED BY <1>1, <1>2, <1>3, PTL DEF Spec
=============================================================================
