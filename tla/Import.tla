------------------------------- MODULE Import -------------------------------
(***************************************************************************)
(* POST /import through the router: a stream of sources is split into      *)
(* chunks by the shard that owns each, preflighted, and dispatched chunk   *)
(* by chunk; a shard applies a source as a sequence of separately durable  *)
(* writes bracketed by a marker file.  Shards die, writes fail, calls time *)
(* out while the shard works on, and the client posts the stream again.    *)
(*                                                                         *)
(* A source is a context and one document of it.  Its content is what the  *)
(* graph, the passage store and the aliases each hold of it; the graph     *)
(* keeps every write apart, so that an association counted twice shows.    *)
(* Each write is durable when it returns (ContextStore, PassageStore).     *)
(***************************************************************************)
EXTENDS Integers, FiniteSets, TLC

CONSTANTS
  Shards,
  Sources,      \* 1..n, in stream order
  Versions,     \* what the stream says of a source: positive numbers
  Passaged,     \* the versions whose sources carry a passage
  Chunks,       \* MAX_ASSOCIATIONS_PER_REQUEST-sized parts of a source's associations
  Calls,        \* bound: the requests made, numbered
  MaxFaults     \* bound: failed writes, dead shards, lost answers and spent deadlines

ASSUME ImportConstants ==
  /\ IsFiniteSet(Sources) /\ Sources = 1..Cardinality(Sources) /\ Sources # {}
  /\ Calls \subseteq Nat \ {0} /\ Chunks \in Nat \ {0}
  /\ Versions \subseteq Nat \ {0} /\ Passaged \subseteq Versions /\ MaxFaults \in Nat

VARIABLES
  home,     \* the shard each source's context lives on
  graph,    \* per source: the associations, as <<call, version, chunk>>
  passage,  \* per source: the version of its passage, or 0
  aliases,  \* per source: the versions whose aliases have landed
  marker,   \* the sources whose import marker exists
  req,      \* per call: the router's, and so the client's, view of it
  run,      \* per call: the shard's handler
  late,     \* calls whose deadline on the shard has passed
  faults,   \* history
  latest,   \* history: per source, the call that last began on it
  done,     \* history: per call, the sources it saw through
  crossed   \* history: sources two calls have been at work on at once

store == <<graph, passage, aliases, marker>>
vars == <<home, store, req, run, late, faults, latest, done, crossed>>

-----------------------------------------------------------------------------

Unsent == [pc |-> "unsent", ver |-> 0, at |-> 0]
Handler(pc, s) == [pc |-> pc, at |-> s, chunk |-> 1, stale |-> FALSE]
Resting == Handler("idle", 0)

Works == UNCHANGED faults
Fails == faults < MaxFaults /\ faults' = faults + 1

\* A call is inside a source from its marker to its end.
Inside(c) == run[c].pc \notin {"idle", "batch", "mark"}
At(c) == run[c].at
Withdraws(c) == req[c].ver = 0

\* The next source belongs to the same request to the shard.
SameChunk(s) == s + 1 \in Sources /\ home[s + 1] = home[s]

Step(c, pc) == run' = [run EXCEPT ![c].pc = pc]

\* The shard's answer is a refusal: the router passes it on, if it still listens.
Refused(c) ==
  /\ run' = [run EXCEPT ![c] = Resting]
  /\ req' = [req EXCEPT ![c].pc = IF @ = "waiting" THEN "failed" ELSE @]

-----------------------------------------------------------------------------
(* The client and the router *)

\* The stream, new or again; the one client waits for its answer.
Post(c, v) ==
  /\ req[c].pc = "unsent"
  /\ \A d \in Calls : d < c => req[d].pc \in {"acked", "failed"}
  /\ req' = [req EXCEPT ![c] = [pc |-> "preflight", ver |-> v, at |-> 1]]
  /\ UNCHANGED <<home, store, run, late, faults, latest, done, crossed>>

\* DELETE of one source, the operator's repair: to its owner, without a preflight.
Withdraw(c, s) ==
  /\ req[c].pc = "unsent"
  /\ \A d \in Calls : d < c => req[d].pc \in {"acked", "failed"}
  /\ req' = [req EXCEPT ![c] = [pc |-> "waiting", ver |-> 0, at |-> s]]
  /\ run' = [run EXCEPT ![c] = Handler("mark", s)]
  /\ UNCHANGED <<home, store, late, faults, latest, done, crossed>>

\* Owners are found and every chunk dry-runs before anything ships.
Preflight(c) ==
  /\ req[c].pc = "preflight"
  /\ \E pc \in {"dispatch", "failed"} : req' = [req EXCEPT ![c].pc = pc]
  /\ UNCHANGED <<home, store, run, late, faults, latest, done, crossed>>

Dispatch(c) ==
  /\ req[c].pc = "dispatch"
  /\ req' = [req EXCEPT ![c].pc = "waiting"]
  /\ run' = [run EXCEPT ![c] = Handler("batch", req[c].at)]
  /\ late' = late \ {c}
  /\ UNCHANGED <<home, store, faults, latest, done, crossed>>

\* The chunk is answered: the next one, or the client's answer after the last.
MutAnswered(c) ==
  req' = [req EXCEPT ![c].pc = IF @ # "waiting" THEN @ ELSE "acked"]
Answered(c) ==
  LET s == At(c)
  IN req' = [req EXCEPT ![c] = IF @.pc # "waiting" THEN @
                               ELSE IF ~Withdraws(c) /\ s + 1 \in Sources
                               THEN [@ EXCEPT !.pc = "dispatch", !.at = s + 1]
                               ELSE [@ EXCEPT !.pc = "acked"]]

\* The router's budget is spent, or the connection is lost.  The shard works on.
TimesOut(c) ==
  /\ req[c].pc = "waiting" /\ Fails
  /\ req' = [req EXCEPT ![c].pc = "failed"]
  /\ UNCHANGED <<home, store, run, late, latest, done, crossed>>

\* The shard's own budget for the request is spent: its handler notices where it looks.
Expires(c) ==
  /\ run[c].pc # "idle" /\ c \notin late /\ ~Withdraws(c) /\ Fails
  /\ late' = late \cup {c}
  /\ UNCHANGED <<home, store, req, run, latest, done, crossed>>

\* A shard dies with every handler on it, and is started again.
ShardDies(h) ==
  LET gone == { c \in Calls : run[c].pc # "idle" /\ home[At(c)] = h }
  IN /\ gone # {} /\ Fails
     /\ run' = [c \in Calls |-> IF c \in gone THEN Resting ELSE run[c]]
     /\ req' = [c \in Calls |-> IF c \in gone /\ req[c].pc = "waiting"
                                THEN [req[c] EXCEPT !.pc = "failed"] ELSE req[c]]
     /\ UNCHANGED <<home, store, late, latest, done, crossed>>

-----------------------------------------------------------------------------
(* apply_batch on the shard; retract_source is its first half *)

\* The checkpoint between batches, the quota and the predicted rejections come before
\* the marker.
Begin(c) ==
  /\ run[c].pc = "batch"
  /\ \/ c \notin late /\ Works /\ Step(c, "mark") /\ UNCHANGED req
     \/ c \in late /\ Works /\ Refused(c)
     \/ c \notin late /\ Fails /\ Refused(c)
  /\ UNCHANGED <<home, store, late, latest, done, crossed>>

Marks(c) ==
  /\ run[c].pc = "mark"
  /\ \/ /\ Works /\ Step(c, "retract") /\ marker' = marker \cup {At(c)}
        /\ latest' = [latest EXCEPT ![At(c)] = c]
        /\ crossed' = IF \E d \in Calls \ {c} : Inside(d) /\ At(d) = At(c)
                      THEN crossed \cup {At(c)} ELSE crossed \ {At(c)}
        /\ UNCHANGED req
     \/ Fails /\ Refused(c) /\ UNCHANGED <<marker, latest, crossed>>
  /\ UNCHANGED <<home, graph, passage, aliases, late, done>>

\* retract_source_unmarked, the graph's half: everything of the source.
MutRetracts(c) ==
  /\ run[c].pc = "retract"
  /\ \/ Works /\ graph' = [graph EXCEPT ![At(c)] = {}] /\ Step(c, "unstore") /\ UNCHANGED req
     \/ Fails /\ Refused(c) /\ UNCHANGED graph
  /\ marker' = marker \ {At(c)}
  /\ UNCHANGED <<home, passage, aliases, late, latest, done, crossed>>
Retracts(c) ==
  /\ run[c].pc = "retract"
  /\ \/ Works /\ graph' = [graph EXCEPT ![At(c)] = {}] /\ Step(c, "unstore") /\ UNCHANGED req
     \/ Fails /\ Refused(c) /\ UNCHANGED graph
  /\ UNCHANGED <<home, passage, aliases, marker, late, latest, done, crossed>>

\* ... and the passage's: a failure is only noted.
Unstores(c) ==
  /\ run[c].pc = "unstore"
  /\ LET next == IF Withdraws(c) THEN "clear" ELSE "store"
     IN \/ Works /\ passage' = [passage EXCEPT ![At(c)] = 0] /\ Step(c, next)
        \/ /\ passage[At(c)] # 0 /\ Fails /\ UNCHANGED passage
           /\ run' = [run EXCEPT ![c].pc = next, ![c].stale = TRUE]
  /\ UNCHANGED <<home, graph, aliases, marker, req, late, latest, done, crossed>>

\* The new passage writes over what could not be removed; without one the batch is
\* refused instead.
Stores(c) ==
  /\ run[c].pc = "store"
  /\ IF req[c].ver \in Passaged
     THEN \/ /\ Works /\ passage' = [passage EXCEPT ![At(c)] = req[c].ver]
             /\ Step(c, "associate") /\ UNCHANGED req
          \/ Fails /\ Refused(c) /\ UNCHANGED passage
     ELSE /\ Works /\ UNCHANGED passage
          /\ IF run[c].stale THEN Refused(c) ELSE Step(c, "associate") /\ UNCHANGED req
  /\ UNCHANGED <<home, graph, aliases, marker, late, latest, done, crossed>>

\* Every chunk of associations looks at the deadline; one refused partway keeps the
\* items before the failing one.
Associates(c) ==
  /\ run[c].pc = "associate"
  /\ LET n == run[c].chunk
     IN \/ /\ c \notin late /\ Works
           /\ graph' = [graph EXCEPT ![At(c)] = @ \cup {<<c, req[c].ver, n>>}]
           /\ run' = [run EXCEPT ![c].chunk = n + 1,
                                 ![c].pc = IF n = Chunks THEN "alias" ELSE @]
           /\ UNCHANGED req
        \/ /\ c \notin late /\ Fails /\ Refused(c)
           /\ \E part \in {{}, {<<c, req[c].ver, n>>}} :
                graph' = [graph EXCEPT ![At(c)] = @ \cup part]
        \/ c \in late /\ Works /\ Refused(c) /\ UNCHANGED graph
  /\ UNCHANGED <<home, passage, aliases, marker, late, latest, done, crossed>>

Aliases(c) ==
  /\ run[c].pc = "alias"
  /\ \/ /\ Works /\ aliases' = [aliases EXCEPT ![At(c)] = @ \cup {req[c].ver}]
        /\ Step(c, "clear") /\ UNCHANGED req
     \/ Fails /\ Refused(c) /\ UNCHANGED aliases
  /\ UNCHANGED <<home, graph, passage, marker, late, latest, done, crossed>>

\* clear_import_marker, as well as it can, but not after a withdrawal that left the
\* passage; then the next source of the chunk or the answer.
Clears(c) ==
  /\ run[c].pc = "clear"
  /\ LET keeps == run[c].stale /\ Withdraws(c)
     IN \/ ~keeps /\ Works /\ marker' = marker \ {At(c)}
        \/ ~keeps /\ Fails /\ UNCHANGED marker
        \/ keeps /\ Works /\ UNCHANGED marker
  /\ done' = [done EXCEPT ![c] = @ \cup {At(c)}]
  /\ IF ~Withdraws(c) /\ SameChunk(At(c))
     THEN /\ run' = [run EXCEPT ![c] = Handler("batch", At(c) + 1)]
          /\ UNCHANGED req
     ELSE run' = [run EXCEPT ![c] = Resting] /\ Answered(c)
  /\ UNCHANGED <<home, graph, passage, aliases, late, latest, crossed>>

-----------------------------------------------------------------------------

Init ==
  /\ home \in [Sources -> Shards]
  /\ graph = [s \in Sources |-> {}] /\ passage = [s \in Sources |-> 0]
  /\ aliases = [s \in Sources |-> {}] /\ marker = {}
  /\ req = [c \in Calls |-> Unsent] /\ run = [c \in Calls |-> Resting]
  /\ late = {} /\ faults = 0
  /\ latest = [s \in Sources |-> 0] /\ done = [c \in Calls |-> {}] /\ crossed = {}

Apply(c) ==
  Begin(c) \/ Marks(c) \/ Retracts(c) \/ Unstores(c) \/ Stores(c) \/ Associates(c)
    \/ Aliases(c) \/ Clears(c)

Next ==
  \/ \E c \in Calls :
       \/ \E v \in Versions : Post(c, v)
       \/ \E s \in Sources : Withdraw(c, s)
       \/ Preflight(c) \/ Dispatch(c) \/ TimesOut(c) \/ Expires(c)
       \/ Apply(c)
  \/ \E h \in Shards : ShardDies(h)

Spec == Init /\ [][Next]_vars

ShardSymmetry == Permutations(Shards)

-----------------------------------------------------------------------------
(* Properties *)

\* A source is exactly one version's: each association once, its passage if it has
\* one, its aliases there.  Version 0 is nothing at all.
Exact(s, v) ==
  /\ { <<g[2], g[3]>> : g \in graph[s] } = IF v = 0 THEN {} ELSE {v} \X (1..Chunks)
  /\ Cardinality(graph[s]) = IF v = 0 THEN 0 ELSE Chunks
  /\ passage[s] = IF v \in Passaged THEN v ELSE 0
  /\ v = 0 \/ v \in aliases[s]
VersionOf(c) == IF c = 0 THEN 0 ELSE req[c].ver

\* rejection.rs: boot can name any batch that never finished.  A source without a marker
\* is exactly what the call that last began on it says, whatever died or failed before
\* or since, if no other call was at work on the source meanwhile.
TornIsMarked ==
  \A s \in Sources : s \in marker \/ s \in crossed \/ Exact(s, VersionOf(latest[s]))

\* An import the client is told of as applied has been: every source of the stream, on
\* every shard, through to its end, and nothing is counted twice, however many attempts
\* came before (route/import.rs: re-POSTing the stream is exact).
AckedIsExact ==
  [][\A c \in Calls : req[c].pc # "acked" /\ req'[c].pc = "acked" /\ ~Withdraws(c) =>
       /\ done'[c] = Sources
       /\ \A s \in Sources : latest'[s] = c /\ s \notin crossed' => Exact(s, req[c].ver)']_vars

=============================================================================
