---------------------------- MODULE Import_proofs ----------------------------
(***************************************************************************)
(* Proofs about Import, for any shards, sources, versions and calls, any   *)
(* placement of the sources and any number of faults.                      *)
(***************************************************************************)
EXTENDS Import, TLAPS, FiniteSetTheorems

RunPlaces == {"idle", "batch", "mark", "retract", "unstore", "store", "associate", "alias", "clear"}
ReqPlaces == {"unsent", "preflight", "dispatch", "waiting", "acked", "failed"}

Requests == [pc : ReqPlaces, ver : Versions \cup {0}, at : Sources \cup {0}]
Handlers == [pc : RunPlaces, at : Sources \cup {0}, chunk : Nat \ {0}, stale : BOOLEAN]

TypeOK ==
  /\ home \in [Sources -> Shards]
  /\ graph \in [Sources -> SUBSET (Calls \X (Versions \cup {0}) \X Nat)]
  /\ passage \in [Sources -> Versions \cup {0}]
  /\ aliases \in [Sources -> SUBSET (Versions \cup {0})] /\ marker \subseteq Sources
  /\ req \in [Calls -> Requests] /\ run \in [Calls -> Handlers]
  /\ late \subseteq Calls /\ faults \in Nat
  /\ latest \in [Sources -> Calls \cup {0}]
  /\ done \in [Calls -> SUBSET Sources] /\ crossed \subseteq Sources

Active(c) == run[c].pc # "idle"

\* The router's view and the shard's: a call is at work only after it was dispatched and
\* until it is answered, in stream order, and a withdrawal only retracts.
InStepAt(c) ==
  /\ req[c].pc \in {"unsent", "preflight", "dispatch", "acked"} => ~Active(c)
  /\ req[c].pc \in {"unsent", "preflight"} => done[c] = {}
  /\ req[c].pc = "preflight" => req[c].at = 1
  /\ req[c].pc \in {"preflight", "dispatch"} => req[c].ver # 0 /\ req[c].at \in Sources
  /\ req[c].pc = "dispatch" => done[c] = 1..(req[c].at - 1)
  /\ req[c].pc = "waiting" => Active(c)
  /\ Active(c) => run[c].at \in Sources
  /\ Active(c) /\ ~Withdraws(c) => done[c] = 1..(run[c].at - 1)
  /\ run[c].pc \in {"batch", "store", "associate", "alias"} => ~Withdraws(c)
  /\ run[c].pc \in {"batch", "mark"} => run[c].chunk = 1

InStep == \A c \in Calls : InStepAt(c)

\* The call that last began on a source has been sent.
Begun == \A s \in Sources : latest[s] # 0 => req[latest[s]].pc # "unsent"

\* The associations a call has written once k chunks have landed.
Part(c, k) == { <<c, req[c].ver, i>> : i \in 1..k }

\* A call inside a source: it is the last that began there, the marker stands, and the
\* source holds what the call has done so far.
Holds(c) ==
  /\ latest[At(c)] = c /\ At(c) \in marker
  /\ run[c].pc \in {"retract", "unstore", "store"} => run[c].chunk = 1
  /\ run[c].pc \in {"unstore", "store"} => graph[At(c)] = {}
  /\ run[c].pc = "store" /\ ~run[c].stale => passage[At(c)] = 0
  /\ run[c].pc = "clear" /\ Withdraws(c) =>
       graph[At(c)] = {} /\ (run[c].stale \/ passage[At(c)] = 0)
  /\ run[c].pc = "associate" =>
       run[c].chunk <= Chunks /\ graph[At(c)] = Part(c, run[c].chunk - 1)
  /\ run[c].pc \in {"alias", "clear"} /\ ~Withdraws(c) => graph[At(c)] = Part(c, Chunks)
  /\ run[c].pc \in {"associate", "alias", "clear"} /\ ~Withdraws(c) =>
       passage[At(c)] = IF req[c].ver \in Passaged THEN req[c].ver ELSE 0
  /\ run[c].pc = "clear" /\ ~Withdraws(c) => req[c].ver \in aliases[At(c)]

\* ... unless another call is at the same source.
Progress == \A c \in Calls : Inside(c) /\ At(c) \notin crossed => Holds(c)

\* What a call saw through and nobody has touched since is exactly its version, marker or
\* not: clearing the marker may fail.
SeenThrough ==
  \A c \in Calls : \A s \in done[c] :
    ~Withdraws(c) /\ latest[s] = c /\ s \notin crossed => Exact(s, req[c].ver)

IInv == TypeOK /\ InStep /\ Begun /\ Progress /\ SeenThrough /\ TornIsMarked

-----------------------------------------------------------------------------
(* The steps' effects, call by call *)

\* Nothing changes for the other calls, and this one keeps its version and its place.
Others(c) == \A d \in Calls \ {c} : run'[d] = run[d] /\ req'[d] = req[d]

LEMMA RestingType == Resting \in Handlers /\ Resting.pc = "idle" /\ Unsent \in Requests
BY DEF Resting, Handler, Handlers, RunPlaces, Unsent, Requests, ReqPlaces

LEMMA StartedAt ==
  ASSUME NEW p \in RunPlaces, NEW s \in Sources
  PROVE  /\ Handler(p, s) \in Handlers
         /\ Handler(p, s).pc = p /\ Handler(p, s).at = s /\ Handler(p, s).chunk = 1
BY DEF Handler, Handlers

LEMMA RefusedEffect ==
  ASSUME TypeOK, NEW c \in Calls, Refused(c)
  PROVE  /\ run' \in [Calls -> Handlers] /\ req' \in [Calls -> Requests] /\ Others(c)
         /\ run'[c] = Resting
         /\ req'[c].pc = IF req[c].pc = "waiting" THEN "failed" ELSE req[c].pc
         /\ req'[c].ver = req[c].ver /\ req'[c].at = req[c].at
<1>1. /\ run' = [run EXCEPT ![c] = Resting]
      /\ req' = [req EXCEPT ![c] = [req[c] EXCEPT !.pc = IF req[c].pc = "waiting" THEN "failed" ELSE req[c].pc]]
  BY DEF Refused
<1>2. run \in [Calls -> Handlers] /\ req \in [Calls -> Requests]
  BY DEF TypeOK
<1>3. run' \in [Calls -> Handlers] /\ run'[c] = Resting
  BY <1>1, <1>2, RestingType
<1>4. /\ [req[c] EXCEPT !.pc = IF req[c].pc = "waiting" THEN "failed" ELSE req[c].pc] \in Requests
  BY <1>2 DEF Requests, ReqPlaces
<1>5. req' \in [Calls -> Requests] /\ req'[c] = [req[c] EXCEPT !.pc = IF req[c].pc = "waiting" THEN "failed" ELSE req[c].pc]
  BY <1>1, <1>2, <1>4
<1>6. Others(c)
  BY <1>1, <1>2 DEF Others
<1> QED BY <1>2, <1>3, <1>5, <1>6 DEF Requests

LEMMA StepEffect ==
  ASSUME TypeOK, NEW c \in Calls, NEW p \in RunPlaces, Step(c, p), UNCHANGED req
  PROVE  /\ run' \in [Calls -> Handlers] /\ Others(c)
         /\ run'[c].pc = p /\ run'[c].at = run[c].at /\ run'[c].chunk = run[c].chunk
         /\ run'[c].stale = run[c].stale
<1>1. run \in [Calls -> Handlers] /\ run' = [run EXCEPT ![c].pc = p]
  BY DEF TypeOK, Step
<1>2. [run[c] EXCEPT !.pc = p] \in Handlers
  BY <1>1 DEF Handlers
<1> QED BY <1>1, <1>2 DEF Others, Handlers

\* Of the calls only this one has moved.
LEMMA InStepKept ==
  ASSUME InStep, NEW c \in Calls, Others(c), \A d \in Calls \ {c} : done'[d] = done[d], InStepAt(c)'
  PROVE  InStep'
BY DEF InStep, InStepAt, Others, Active, Withdraws

-----------------------------------------------------------------------------
(* What keeps the invariant's store part *)

LEMMA VersionKept ==
  ASSUME IInv, NEW s \in Sources, latest'[s] = latest[s],
         \A d \in Calls : req[d].pc # "unsent" => req'[d].ver = req[d].ver
  PROVE  VersionOf(latest[s])' = VersionOf(latest[s])
BY ImportConstants DEF IInv, TypeOK, Begun, VersionOf

\* A step that leaves the files alone, in which no call gets further into a source.
LEMMA Quiet ==
  ASSUME IInv, UNCHANGED <<store, latest, crossed, done>>,
         \A d \in Calls : Inside(d)' => run'[d] = run[d],
         \A d \in Calls : req[d].pc # "unsent" => req'[d].ver = req[d].ver /\ req'[d].pc # "unsent"
  PROVE  Begun' /\ Progress' /\ SeenThrough' /\ TornIsMarked'
<1>0. TypeOK /\ InStep /\ Begun /\ Progress /\ SeenThrough /\ TornIsMarked
      /\ UNCHANGED <<graph, passage, aliases, marker>>
  BY DEF IInv, store
<1>1. Begun'
  BY <1>0, ImportConstants DEF Begun, TypeOK
<1>2. ASSUME NEW d \in Calls, Inside(d)', At(d)' \notin crossed' PROVE Holds(d)'
  <2>1. run'[d] = run[d] /\ Inside(d) /\ At(d) \notin crossed
    BY <1>2 DEF Inside, At
  <2>2. req'[d].ver = req[d].ver
    BY <1>0, <2>1 DEF Inside, InStep, InStepAt, Active
  <2>3. Holds(d)
    BY <1>0, <2>1 DEF Progress
  <2> QED BY <1>0, <2>1, <2>2, <2>3 DEF Holds, At, Withdraws, Part
<1>3. ASSUME NEW d \in Calls, NEW s \in done'[d], ~(Withdraws(d)'), latest'[s] = d, s \notin crossed'
      PROVE  Exact(s, req[d].ver)'
  <2>1. req'[d].ver = req[d].ver /\ s \in Sources /\ s \in done[d]
    BY <1>0, <1>3 DEF InStep, InStepAt, TypeOK
  <2>2. Exact(s, req[d].ver)
    BY <1>0, <1>3, <2>1 DEF SeenThrough, Withdraws
  <2> QED BY <1>0, <2>1, <2>2 DEF Exact
<1>4. ASSUME NEW s \in Sources, s \notin marker', s \notin crossed' PROVE Exact(s, VersionOf(latest[s]))'
  <2>1. Exact(s, VersionOf(latest[s]))
    BY <1>0, <1>4 DEF TornIsMarked
  <2>2. VersionOf(latest[s])' = VersionOf(latest[s])
    BY VersionKept
  <2> QED BY <1>0, <2>1, <2>2 DEF Exact
<1> QED BY <1>1, <1>2, <1>3, <1>4 DEF Progress, SeenThrough, TornIsMarked

\* A step of a call inside a source, which leaves every other source alone and its own
\* marked, and after which the call, if still inside, holds what it has done.
LEMMA OwnSource ==
  ASSUME IInv, NEW c \in Calls, Inside(c), Others(c), UNCHANGED <<marker, latest, crossed, done>>,
         req'[c].ver = req[c].ver, req'[c].pc # "unsent",
         \A r \in Sources \ {At(c)} :
           graph'[r] = graph[r] /\ passage'[r] = passage[r] /\ aliases'[r] = aliases[r],
         Inside(c)' => At(c)' = At(c),
         Inside(c)' /\ At(c) \notin crossed => Holds(c)'
  PROVE  Begun' /\ Progress' /\ SeenThrough' /\ TornIsMarked'
<1>0. TypeOK /\ InStep /\ Begun /\ Progress /\ SeenThrough /\ TornIsMarked
  BY DEF IInv
<1>1. Begun'
  BY <1>0, ImportConstants DEF Begun, TypeOK, Others
<1>2. ASSUME NEW d \in Calls, Inside(d)', At(d)' \notin crossed' PROVE Holds(d)'
  <2>1. CASE d = c
    BY <1>2, <2>1
  <2>2. CASE d # c
    <3>1. run'[d] = run[d] /\ req'[d] = req[d] /\ Inside(d) /\ At(d) \notin crossed
      BY <1>2, <2>2 DEF Inside, At, Others
    <3>2. Holds(d) /\ At(d) \in Sources
      BY <1>0, <3>1 DEF Progress, InStep, InStepAt, Active, Inside, At
    <3>3. At(d) # At(c)
      BY <1>0, <2>2, <3>1, <3>2 DEF Progress, Holds
    <3>4. /\ graph'[At(d)] = graph[At(d)] /\ passage'[At(d)] = passage[At(d)]
          /\ aliases'[At(d)] = aliases[At(d)]
      BY <3>2, <3>3
    <3> QED BY <3>1, <3>2, <3>4 DEF Holds, At, Withdraws, Part
  <2> QED BY <2>1, <2>2
<1>3. ASSUME NEW d \in Calls, NEW s \in done'[d], ~(Withdraws(d)'), latest'[s] = d, s \notin crossed'
      PROVE  Exact(s, req[d].ver)'
  <2>1. req'[d].ver = req[d].ver /\ s \in Sources /\ s \in done[d]
    BY <1>0, <1>3 DEF Others, TypeOK
  <2>2. Exact(s, req[d].ver)
    BY <1>0, <1>3, <2>1 DEF SeenThrough, Withdraws
  <2>3. s # At(c)
    <3>1. SUFFICES ASSUME s = At(c) PROVE FALSE
      OBVIOUS
    <3>2. d = c
      BY <1>0, <1>3, <3>1 DEF Progress, Holds
    <3>3. done[c] = 1..(At(c) - 1)
      BY <1>0, <1>3, <2>1, <3>2 DEF InStep, InStepAt, Active, Inside, Withdraws, At
    <3> QED BY <2>1, <3>1, <3>2, <3>3, ImportConstants
  <2>4. Exact(s, req[d].ver)' <=> Exact(s, req[d].ver)
    BY <2>1, <2>3 DEF Exact
  <2> QED BY <2>2, <2>4
<1>4. ASSUME NEW s \in Sources, s \notin marker', s \notin crossed' PROVE Exact(s, VersionOf(latest[s]))'
  <2>1. Exact(s, VersionOf(latest[s]))
    BY <1>0, <1>4 DEF TornIsMarked
  <2>2. VersionOf(latest[s])' = VersionOf(latest[s])
    BY VersionKept DEF Others
  <2>3. s # At(c)
    BY <1>0, <1>4 DEF Progress, Holds
  <2> QED BY <2>1, <2>2, <2>3 DEF Exact
<1> QED BY <1>1, <1>2, <1>3, <1>4 DEF Progress, SeenThrough, TornIsMarked

-----------------------------------------------------------------------------
(* What a call's writes add up to *)

LEMMA PartEmpty == ASSUME NEW c \in Calls PROVE Part(c, 0) = {}
BY DEF Part

LEMMA PartGrows ==
  ASSUME NEW c \in Calls, NEW n \in Nat \ {0}
  PROVE  Part(c, n) = Part(c, n - 1) \cup {<<c, req[c].ver, n>>}
BY DEF Part

LEMMA PartExact ==
  ASSUME NEW s \in Sources, NEW c \in Calls, req[c].ver \in Versions, graph[s] = Part(c, Chunks),
         passage[s] = IF req[c].ver \in Passaged THEN req[c].ver ELSE 0, req[c].ver \in aliases[s]
  PROVE  Exact(s, req[c].ver)
<1> DEFINE v == req[c].ver
           f == [i \in 1..Chunks |-> <<c, v, i>>]
<1>1. v # 0 /\ Chunks \in Nat
  BY ImportConstants
<1>2. { <<g[2], g[3]>> : g \in graph[s] } = {v} \X (1..Chunks)
  <2>1. ASSUME NEW g \in graph[s] PROVE <<g[2], g[3]>> \in {v} \X (1..Chunks)
    <3>1. PICK i \in 1..Chunks : g = <<c, v, i>>
      BY DEF Part
    <3>2. g[2] = v /\ g[3] = i
      BY <3>1
    <3> QED BY <3>2
  <2>2. ASSUME NEW x \in {v} \X (1..Chunks) PROVE \E g \in graph[s] : x = <<g[2], g[3]>>
    <3>1. PICK i \in 1..Chunks : x = <<v, i>>
      OBVIOUS
    <3>2. <<c, v, i>> \in graph[s]
      BY DEF Part
    <3> QED BY <3>1, <3>2
  <2> QED BY <2>1, <2>2
<1>3. f \in Bijection(1..Chunks, graph[s])
  <2>1. f \in [1..Chunks -> graph[s]] /\ \A g \in graph[s] : \E i \in 1..Chunks : f[i] = g
    BY DEF Part
  <2>2. \A i, j \in 1..Chunks : f[i] = f[j] => i = j
    OBVIOUS
  <2>3. f \in Injection(1..Chunks, graph[s])
    BY <2>1, <2>2 DEF Injection, IsInjective
  <2>4. f \in Surjection(1..Chunks, graph[s])
    BY <2>1 DEF Surjection
  <2> QED BY <2>3, <2>4 DEF Bijection
<1>4. Cardinality(1..Chunks) = Chunks /\ IsFiniteSet(1..Chunks)
  BY <1>1, FS_Interval
<1>5. Cardinality(graph[s]) = Chunks
  BY <1>3, <1>4, FS_Bijection DEF ExistsBijection
<1> QED BY <1>1, <1>2, <1>5 DEF Exact

LEMMA NothingExact ==
  ASSUME NEW s \in Sources, graph[s] = {}, passage[s] = 0
  PROVE  Exact(s, 0)
BY FS_EmptySet, ImportConstants DEF Exact

-----------------------------------------------------------------------------
(* Every step keeps the invariant *)

LEMMA StreamOrder ==
  /\ 1 \in Sources /\ Sources \subseteq Nat \ {0}
  /\ \A s \in Sources : s + 1 \notin Sources => 1..s = Sources
<1>1. Cardinality(Sources) \in Nat
  BY ImportConstants, FS_CardinalityType
<1> QED BY <1>1, ImportConstants

LEMMA PostStep ==
  ASSUME IInv, NEW c \in Calls, NEW v \in Versions, Post(c, v) PROVE IInv'
<1>0. /\ req[c].pc = "unsent" /\ UNCHANGED <<home, store, run, late, faults, latest, done, crossed>>
      /\ req' = [req EXCEPT ![c] = [pc |-> "preflight", ver |-> v, at |-> 1]] /\ TypeOK /\ InStep
  BY DEF Post, IInv
<1>1. /\ req' \in [Calls -> Requests] /\ Others(c)
      /\ req'[c].pc = "preflight" /\ req'[c].ver = v /\ req'[c].at = 1
  BY <1>0, StreamOrder DEF TypeOK, Requests, ReqPlaces, Others
<1>2. TypeOK'
  BY <1>0, <1>1 DEF TypeOK, store
<1>3. InStep'
  <2>1. InStepAt(c)'
    BY <1>0, <1>1, StreamOrder, ImportConstants DEF InStep, InStepAt, Active
  <2> QED BY <1>0, <1>1, <2>1, InStepKept
<1>4. Begun' /\ Progress' /\ SeenThrough' /\ TornIsMarked'
  BY <1>0, <1>1, Quiet DEF Others
<1> QED BY <1>2, <1>3, <1>4 DEF IInv

LEMMA WithdrawStep ==
  ASSUME IInv, NEW c \in Calls, NEW s \in Sources, Withdraw(c, s) PROVE IInv'
<1>0. /\ req[c].pc = "unsent" /\ UNCHANGED <<home, store, late, faults, latest, done, crossed>>
      /\ req' = [req EXCEPT ![c] = [pc |-> "waiting", ver |-> 0, at |-> s]]
      /\ run' = [run EXCEPT ![c] = Handler("mark", s)] /\ TypeOK /\ InStep
  BY DEF Withdraw, IInv
<1>1. /\ req' \in [Calls -> Requests] /\ Others(c)
      /\ req'[c].pc = "waiting" /\ req'[c].ver = 0
  BY <1>0 DEF TypeOK, Requests, ReqPlaces, Others
<1>2. /\ run' \in [Calls -> Handlers]
      /\ run'[c].pc = "mark" /\ run'[c].at = s /\ run'[c].chunk = 1
  BY <1>0, StartedAt DEF TypeOK, RunPlaces
<1>3. TypeOK'
  BY <1>0, <1>1, <1>2 DEF TypeOK, store
<1>4. InStep'
  <2>1. InStepAt(c)'
    BY <1>0, <1>1, <1>2 DEF InStep, InStepAt, Active, Withdraws
  <2> QED BY <1>0, <1>1, <2>1, InStepKept
<1>5. \A d \in Calls : Inside(d)' => run'[d] = run[d]
  BY <1>1, <1>2 DEF Inside, Others
<1>6. Begun' /\ Progress' /\ SeenThrough' /\ TornIsMarked'
  BY <1>0, <1>1, <1>5, Quiet DEF Others
<1> QED BY <1>3, <1>4, <1>6 DEF IInv

\* Preflight and the router's timeout move the request only.
LEMMA RouterStep ==
  ASSUME IInv, NEW c \in Calls, Preflight(c) \/ TimesOut(c) PROVE IInv'
<1>0. /\ UNCHANGED <<home, store, run, late, latest, done, crossed>> /\ TypeOK /\ InStep
      /\ faults' \in Nat
  BY DEF Preflight, TimesOut, Fails, IInv, TypeOK
<1>1. PICK p \in ReqPlaces :
        /\ req' = [req EXCEPT ![c].pc = p]
        /\ \/ req[c].pc = "preflight" /\ p \in {"dispatch", "failed"}
           \/ req[c].pc = "waiting" /\ p = "failed"
  BY DEF Preflight, TimesOut, ReqPlaces
<1>2. /\ req' \in [Calls -> Requests] /\ Others(c)
      /\ req'[c].pc = p /\ req'[c].ver = req[c].ver /\ req'[c].at = req[c].at
  BY <1>0, <1>1 DEF TypeOK, Requests, Others
<1>3. TypeOK'
  BY <1>0, <1>2 DEF TypeOK, store
<1>4. InStep'
  <2>1. InStepAt(c)'
    <3>1. 1..(1 - 1) = {}
      OBVIOUS
    <3>2. CASE req[c].pc = "preflight"
      BY <1>0, <1>1, <1>2, <3>1, <3>2, StreamOrder DEF InStep, InStepAt, Active, Withdraws
    <3>3. CASE req[c].pc = "waiting"
      BY <1>0, <1>1, <1>2, <3>3 DEF InStep, InStepAt, Active, Withdraws
    <3> QED BY <1>1, <3>2, <3>3
  <2> QED BY <1>0, <1>2, <2>1, InStepKept
<1>5. Begun' /\ Progress' /\ SeenThrough' /\ TornIsMarked'
  BY <1>0, <1>1, <1>2, Quiet DEF Others
<1> QED BY <1>3, <1>4, <1>5 DEF IInv

LEMMA DispatchStep ==
  ASSUME IInv, NEW c \in Calls, Dispatch(c) PROVE IInv'
<1>0. /\ req[c].pc = "dispatch" /\ UNCHANGED <<home, store, faults, latest, done, crossed>>
      /\ req' = [req EXCEPT ![c].pc = "waiting"] /\ late' \subseteq late
      /\ run' = [run EXCEPT ![c] = Handler("batch", req[c].at)]
      /\ TypeOK /\ InStep /\ req[c].ver # 0 /\ req[c].at \in Sources
  BY DEF Dispatch, IInv, InStep, InStepAt
<1>1. /\ req' \in [Calls -> Requests] /\ Others(c)
      /\ req'[c].pc = "waiting" /\ req'[c].ver = req[c].ver /\ req'[c].at = req[c].at
  BY <1>0 DEF TypeOK, Requests, ReqPlaces, Others
<1>2. /\ run' \in [Calls -> Handlers]
      /\ run'[c].pc = "batch" /\ run'[c].at = req[c].at /\ run'[c].chunk = 1
  BY <1>0, StartedAt DEF TypeOK, RunPlaces
<1>3. TypeOK'
  BY <1>0, <1>1, <1>2 DEF TypeOK, store
<1>4. InStep'
  <2>1. InStepAt(c)'
    BY <1>0, <1>1, <1>2 DEF InStep, InStepAt, Active, Withdraws
  <2> QED BY <1>0, <1>1, <2>1, InStepKept
<1>5. \A d \in Calls : Inside(d)' => run'[d] = run[d]
  BY <1>1, <1>2 DEF Inside, Others
<1>6. Begun' /\ Progress' /\ SeenThrough' /\ TornIsMarked'
  BY <1>0, <1>1, <1>5, Quiet DEF Others
<1> QED BY <1>3, <1>4, <1>6 DEF IInv

LEMMA ExpiresStep ==
  ASSUME IInv, NEW c \in Calls, Expires(c) PROVE IInv'
<1>0. UNCHANGED <<home, store, req, run, latest, done, crossed>> /\ late' = late \cup {c}
      /\ faults' \in Nat /\ TypeOK /\ InStep
  BY DEF Expires, Fails, IInv, TypeOK
<1>1. TypeOK' /\ InStep'
  BY <1>0 DEF TypeOK, store, InStep, InStepAt, Active, Withdraws
<1>2. Begun' /\ Progress' /\ SeenThrough' /\ TornIsMarked'
  BY <1>0, Quiet
<1> QED BY <1>1, <1>2 DEF IInv

LEMMA ShardDiesStep ==
  ASSUME IInv, NEW h \in Shards, ShardDies(h) PROVE IInv'
<1>0. UNCHANGED <<home, store, late, latest, done, crossed>> /\ faults' \in Nat /\ TypeOK /\ InStep
  BY DEF ShardDies, Fails, IInv, TypeOK
<1>1. \A d \in Calls :
        \/ run'[d] = run[d] /\ req'[d] = req[d]
        \/ run'[d] = Resting /\ req[d].pc # "waiting" /\ req'[d] = req[d]
        \/ run'[d] = Resting /\ req[d].pc = "waiting" /\ req'[d] = [req[d] EXCEPT !.pc = "failed"]
  BY DEF ShardDies
<1>2. DOMAIN run' = Calls /\ DOMAIN req' = Calls
      /\ run' = [d \in Calls |-> run'[d]] /\ req' = [d \in Calls |-> req'[d]]
  BY DEF ShardDies
<1>3. \A d \in Calls :
        /\ run'[d] \in Handlers /\ req'[d] \in Requests
        /\ req'[d].ver = req[d].ver /\ req'[d].at = req[d].at
        /\ req'[d].pc \in {req[d].pc, "failed"} /\ (req[d].pc # "waiting" => req'[d].pc = req[d].pc)
        /\ req'[d].pc = "waiting" => run'[d] = run[d]
        /\ run'[d].pc # "idle" => run'[d] = run[d]
  <2> TAKE d \in Calls
  <2>1. run[d] \in Handlers /\ req[d] \in Requests
    BY <1>0 DEF TypeOK
  <2> DEFINE f == [req[d] EXCEPT !.pc = "failed"]
  <2>3. f \in Requests /\ f.pc = "failed" /\ f.ver = req[d].ver /\ f.at = req[d].at
    BY <2>1 DEF Requests, ReqPlaces
  <2> HIDE DEF f
  <2>4. CASE run'[d] = run[d] /\ req'[d] = req[d]
    BY <2>1, <2>4
  <2>5. CASE run'[d] = Resting /\ req[d].pc # "waiting" /\ req'[d] = req[d]
    BY <2>1, <2>5, RestingType
  <2>6. CASE run'[d] = Resting /\ req[d].pc = "waiting" /\ req'[d] = f
    BY <2>1, <2>3, <2>6, RestingType
  <2> QED BY <1>1, <2>4, <2>5, <2>6 DEF f
<1>4. TypeOK'
  BY <1>0, <1>2, <1>3 DEF TypeOK, store
<1>5. InStep'
  BY <1>0, <1>3 DEF InStep, InStepAt, Active, Withdraws
<1>6. \A d \in Calls : Inside(d)' => run'[d] = run[d]
  BY <1>3 DEF Inside
<1>7. Begun' /\ Progress' /\ SeenThrough' /\ TornIsMarked'
  BY <1>0, <1>3, <1>6, Quiet
<1> QED BY <1>4, <1>5, <1>7 DEF IInv

\* A refusal with the files as they were.
LEMMA RefusedStep ==
  ASSUME IInv, NEW c \in Calls, Active(c), Refused(c), faults' \in Nat,
         UNCHANGED <<home, store, late, latest, done, crossed>>
  PROVE  IInv'
<1>0. TypeOK /\ InStep
  BY DEF IInv
<1>1. /\ run' \in [Calls -> Handlers] /\ req' \in [Calls -> Requests] /\ Others(c)
      /\ run'[c] = Resting
      /\ req'[c].pc = IF req[c].pc = "waiting" THEN "failed" ELSE req[c].pc
      /\ req'[c].ver = req[c].ver /\ req'[c].at = req[c].at
  BY <1>0, RefusedEffect
<1>2. TypeOK'
  BY <1>0, <1>1 DEF TypeOK, store
<1>3. InStep'
  <2>1. InStepAt(c)'
    BY <1>0, <1>1, RestingType DEF InStep, InStepAt, Active, Withdraws
  <2> QED BY <1>0, <1>1, <2>1, InStepKept
<1>4. \A d \in Calls : Inside(d)' => run'[d] = run[d]
  BY <1>1, RestingType DEF Inside, Others
<1>5. Begun' /\ Progress' /\ SeenThrough' /\ TornIsMarked'
  BY <1>1, <1>4, Quiet DEF Others
<1> QED BY <1>2, <1>3, <1>5 DEF IInv

LEMMA BeginStep ==
  ASSUME IInv, NEW c \in Calls, Begin(c) PROVE IInv'
<1>0. /\ run[c].pc = "batch" /\ UNCHANGED <<home, store, late, latest, done, crossed>>
      /\ TypeOK /\ InStep /\ faults' \in Nat
  BY DEF Begin, IInv, Works, Fails, TypeOK
<1>1. CASE Refused(c)
  BY <1>0, <1>1, RefusedStep DEF Active
<1>2. CASE Step(c, "mark") /\ UNCHANGED req
  <2>1. /\ run' \in [Calls -> Handlers] /\ Others(c)
        /\ run'[c].pc = "mark" /\ run'[c].at = run[c].at /\ run'[c].chunk = run[c].chunk
    BY <1>0, <1>2, StepEffect DEF RunPlaces
  <2>2. TypeOK'
    BY <1>0, <1>2, <2>1 DEF TypeOK, store
  <2>3. InStep'
    <3>1. InStepAt(c)'
      BY <1>0, <1>2, <2>1 DEF InStep, InStepAt, Active, Withdraws
    <3> QED BY <1>0, <2>1, <3>1, InStepKept
  <2>4. \A d \in Calls : Inside(d)' => run'[d] = run[d]
    BY <2>1 DEF Inside, Others
  <2>5. Begun' /\ Progress' /\ SeenThrough' /\ TornIsMarked'
    BY <1>0, <1>2, <2>4, Quiet
  <2> QED BY <2>2, <2>3, <2>5 DEF IInv
<1> QED BY <1>1, <1>2 DEF Begin

\* A handler that goes on with its source.
LEMMA Advances ==
  ASSUME IInv, NEW c \in Calls, Active(c), Others(c), UNCHANGED <<req, done>>,
         run'[c].at = run[c].at, run'[c].pc \notin {"idle", "batch", "mark"},
         run'[c].pc \in {"store", "associate", "alias"} => ~Withdraws(c)
  PROVE  InStep'
<1>1. InStepAt(c)'
  BY DEF IInv, InStep, InStepAt, Active, Withdraws
<1> QED BY <1>1, InStepKept DEF IInv

LEMMA MarksStep ==
  ASSUME IInv, NEW c \in Calls, Marks(c) PROVE IInv'
<1>0. /\ run[c].pc = "mark" /\ UNCHANGED <<home, graph, passage, aliases, late, done>>
      /\ TypeOK /\ InStep /\ Begun /\ Progress /\ SeenThrough /\ TornIsMarked
      /\ faults' \in Nat /\ At(c) \in Sources /\ run[c].chunk = 1
  BY DEF Marks, IInv, Works, Fails, TypeOK, InStep, InStepAt, Active, At
<1>1. CASE Refused(c) /\ UNCHANGED <<marker, latest, crossed>>
  BY <1>0, <1>1, RefusedStep DEF Active, store
<1>2. CASE /\ Step(c, "retract") /\ UNCHANGED req
           /\ marker' = marker \cup {At(c)} /\ latest' = [latest EXCEPT ![At(c)] = c]
           /\ crossed' = IF \E d \in Calls \ {c} : Inside(d) /\ At(d) = At(c)
                         THEN crossed \cup {At(c)} ELSE crossed \ {At(c)}
  <2>1. /\ run' \in [Calls -> Handlers] /\ Others(c)
        /\ run'[c].pc = "retract" /\ run'[c].at = run[c].at /\ run'[c].chunk = 1
    BY <1>0, <1>2, StepEffect DEF RunPlaces
  <2>2. /\ \A s \in Sources : latest'[s] = IF s = At(c) THEN c ELSE latest[s]
        /\ latest' \in [Sources -> Calls \cup {0}] /\ crossed' \subseteq Sources
        /\ marker' \subseteq Sources
    BY <1>0, <1>2 DEF TypeOK
  <2>3. TypeOK'
    BY <1>0, <1>2, <2>1, <2>2 DEF TypeOK
  <2>4. InStep'
    BY <1>0, <1>2, <2>1, Advances DEF Active
  <2>5. Begun'
    BY <1>0, <1>2, <2>2 DEF Begun, InStep, InStepAt, Active
  <2>6. ASSUME NEW d \in Calls, Inside(d)', At(d)' \notin crossed' PROVE Holds(d)'
    <3>1. CASE d = c
      BY <1>0, <1>2, <2>1, <2>2, <3>1 DEF Holds, At
    <3>2. CASE d # c
      <4>1. run'[d] = run[d] /\ Inside(d) /\ At(d)' = At(d) /\ At(d) \in Sources
        BY <1>0, <2>1, <2>6, <3>2 DEF Others, Inside, At, InStep, InStepAt, Active
      <4>2. At(d) # At(c) /\ At(d) \notin crossed
        BY <1>2, <2>6, <3>2, <4>1
      <4>3. Holds(d)
        BY <1>0, <4>1, <4>2 DEF Progress
      <4> QED BY <1>0, <1>2, <2>2, <4>1, <4>2, <4>3 DEF Holds, At, Withdraws, Part
    <3> QED BY <3>1, <3>2
  <2>7. ASSUME NEW d \in Calls, NEW s \in done'[d], ~(Withdraws(d)'), latest'[s] = d, s \notin crossed'
        PROVE  Exact(s, req[d].ver)'
    <3>1. s \in Sources /\ s \in done[d] /\ ~Withdraws(d)
      BY <1>0, <1>2, <2>7 DEF TypeOK, Withdraws
    <3>2. s # At(c)
      BY <1>0, <2>2, <2>7, <3>1, StreamOrder DEF InStep, InStepAt, Active, At
    <3>3. Exact(s, req[d].ver)
      BY <1>0, <1>2, <2>2, <2>7, <3>1, <3>2 DEF SeenThrough
    <3> QED BY <1>0, <1>2, <3>3 DEF Exact
  <2>8. ASSUME NEW s \in Sources, s \notin marker', s \notin crossed'
        PROVE  Exact(s, VersionOf(latest[s]))'
    <3>1. s # At(c) /\ s \notin marker /\ s \notin crossed
      BY <1>2, <2>8
    <3>2. VersionOf(latest[s])' = VersionOf(latest[s])
      BY <1>2, <2>2, <3>1 DEF VersionOf
    <3>3. Exact(s, VersionOf(latest[s]))
      BY <1>0, <3>1 DEF TornIsMarked
    <3> QED BY <1>0, <3>2, <3>3 DEF Exact
  <2> QED BY <2>3, <2>4, <2>5, <2>6, <2>7, <2>8 DEF IInv, Progress, SeenThrough, TornIsMarked
<1> QED BY <1>1, <1>2 DEF Marks

LEMMA RetractsStep ==
  ASSUME IInv, NEW c \in Calls, Retracts(c) PROVE IInv'
<1>0. /\ run[c].pc = "retract" /\ UNCHANGED <<home, passage, aliases, marker, late, latest, done, crossed>>
      /\ TypeOK /\ InStep /\ Progress /\ faults' \in Nat /\ At(c) \in Sources
  BY DEF Retracts, IInv, Works, Fails, TypeOK, InStep, InStepAt, Active, At
<1>1. CASE Refused(c) /\ UNCHANGED graph
  BY <1>0, <1>1, RefusedStep DEF Active, store
<1>2. CASE graph' = [graph EXCEPT ![At(c)] = {}] /\ Step(c, "unstore") /\ UNCHANGED req
  <2>1. /\ run' \in [Calls -> Handlers] /\ Others(c)
        /\ run'[c].pc = "unstore" /\ run'[c].at = run[c].at /\ run'[c].chunk = run[c].chunk
    BY <1>0, <1>2, StepEffect DEF RunPlaces
  <2>2. TypeOK'
    BY <1>0, <1>2, <2>1 DEF TypeOK
  <2>3. InStep'
    BY <1>0, <1>2, <2>1, Advances DEF Active
  <2>4. Inside(c) /\ At(c)' = At(c) /\ req[c].pc # "unsent"
    BY <1>0, <2>1 DEF Inside, At, InStep, InStepAt, Active
  <2>5. At(c) \notin crossed => Holds(c)'
    BY <1>0, <1>2, <2>1, <2>4 DEF Progress, Holds, TypeOK
  <2>6. Begun' /\ Progress' /\ SeenThrough' /\ TornIsMarked'
    BY <1>0, <1>2, <2>1, <2>4, <2>5, OwnSource DEF TypeOK
  <2> QED BY <2>2, <2>3, <2>6 DEF IInv
<1> QED BY <1>1, <1>2 DEF Retracts

LEMMA UnstoresStep ==
  ASSUME IInv, NEW c \in Calls, Unstores(c) PROVE IInv'
<1> DEFINE next == IF Withdraws(c) THEN "clear" ELSE "store"
<1>0. /\ run[c].pc = "unstore"
      /\ UNCHANGED <<home, graph, aliases, marker, req, late, latest, done, crossed>>
      /\ TypeOK /\ InStep /\ Progress /\ faults' \in Nat /\ At(c) \in Sources
  BY DEF Unstores, IInv, Works, Fails, TypeOK, InStep, InStepAt, Active, At
<1>1. /\ run' \in [Calls -> Handlers] /\ Others(c)
      /\ run'[c].pc = next /\ run'[c].at = run[c].at /\ run'[c].chunk = run[c].chunk
      /\ passage' \in [Sources -> Versions \cup {0}]
      /\ \A r \in Sources \ {At(c)} : passage'[r] = passage[r]
      /\ run'[c].stale \/ passage'[At(c)] = 0
  <2>1. CASE passage' = [passage EXCEPT ![At(c)] = 0] /\ Step(c, next)
    <3>1. /\ passage' \in [Sources -> Versions \cup {0}] /\ passage'[At(c)] = 0
          /\ \A r \in Sources \ {At(c)} : passage'[r] = passage[r]
      BY <1>0, <2>1 DEF TypeOK
    <3>2. next \in RunPlaces
      BY DEF RunPlaces
    <3> QED BY <1>0, <2>1, <3>1, <3>2, StepEffect
  <2>2. CASE UNCHANGED passage /\ run' = [run EXCEPT ![c].pc = next, ![c].stale = TRUE]
    <3>1. /\ run'[c].pc = next /\ run'[c].at = run[c].at /\ run'[c].chunk = run[c].chunk
          /\ run'[c].stale /\ Others(c)
      BY <1>0, <2>2 DEF TypeOK, Handlers, Others
    <3>2. run' \in [Calls -> Handlers]
      <4> DEFINE mid == [run EXCEPT ![c].pc = next]
      <4>1. run' = [mid EXCEPT ![c].stale = TRUE]
        BY <1>0, <2>2 DEF TypeOK
      <4>2. mid \in [Calls -> Handlers]
        BY <1>0 DEF TypeOK, Handlers, RunPlaces
      <4> HIDE DEF mid
      <4> QED BY <4>1, <4>2 DEF Handlers
    <3> QED BY <1>0, <2>2, <3>1, <3>2 DEF TypeOK
  <2> QED BY <2>1, <2>2 DEF Unstores
<1>2. TypeOK'
  BY <1>0, <1>1 DEF TypeOK
<1>3. InStep'
  BY <1>0, <1>1, Advances DEF Active
<1>4. Inside(c) /\ At(c)' = At(c) /\ req[c].pc # "unsent"
  BY <1>0, <1>1 DEF Inside, At, InStep, InStepAt, Active
<1>5. At(c) \notin crossed => Holds(c)'
  BY <1>0, <1>1, <1>4 DEF Progress, Holds, Withdraws
<1>6. Begun' /\ Progress' /\ SeenThrough' /\ TornIsMarked'
  BY <1>0, <1>1, <1>4, <1>5, OwnSource
<1> QED BY <1>2, <1>3, <1>6 DEF IInv

LEMMA StoresStep ==
  ASSUME IInv, NEW c \in Calls, Stores(c) PROVE IInv'
<1>0. /\ run[c].pc = "store"
      /\ UNCHANGED <<home, graph, aliases, marker, late, latest, done, crossed>>
      /\ TypeOK /\ InStep /\ Progress /\ faults' \in Nat /\ At(c) \in Sources
      /\ ~Withdraws(c) /\ req[c].ver \in Versions
  BY DEF Stores, IInv, Works, Fails, TypeOK, Requests, InStep, InStepAt, Active, At, Withdraws
<1>1. CASE Refused(c) /\ UNCHANGED passage
  BY <1>0, <1>1, RefusedStep DEF Active, store
<1>2. CASE /\ Step(c, "associate") /\ UNCHANGED req
           /\ IF req[c].ver \in Passaged THEN passage' = [passage EXCEPT ![At(c)] = req[c].ver]
              ELSE UNCHANGED passage /\ ~run[c].stale
  <2>1. /\ run' \in [Calls -> Handlers] /\ Others(c)
        /\ run'[c].pc = "associate" /\ run'[c].at = run[c].at /\ run'[c].chunk = run[c].chunk
    BY <1>0, <1>2, StepEffect DEF RunPlaces
  <2>2. /\ passage' \in [Sources -> Versions \cup {0}]
        /\ \A r \in Sources \ {At(c)} : passage'[r] = passage[r]
        /\ req[c].ver \in Passaged => passage'[At(c)] = req[c].ver
        /\ req[c].ver \notin Passaged => passage'[At(c)] = passage[At(c)] /\ ~run[c].stale
    BY <1>0, <1>2 DEF TypeOK
  <2>3. TypeOK'
    BY <1>0, <1>2, <2>1, <2>2 DEF TypeOK
  <2>4. InStep'
    BY <1>0, <1>2, <2>1, Advances DEF Active
  <2>5. Inside(c) /\ At(c)' = At(c) /\ req[c].pc # "unsent"
    BY <1>0, <2>1 DEF Inside, At, InStep, InStepAt, Active
  <2>6. ASSUME At(c) \notin crossed PROVE Holds(c)'
    <3>1. Holds(c)
      BY <1>0, <2>5, <2>6 DEF Progress
    <3>2. run'[c].chunk = 1 /\ 1 <= Chunks
      BY <1>0, <2>1, <3>1, ImportConstants DEF Holds
    <3>3. Part(c, run[c].chunk - 1)' = {}
      BY <3>2 DEF Part
    <3> QED BY <1>0, <1>2, <2>1, <2>2, <2>5, <3>1, <3>2, <3>3 DEF Holds, Withdraws
  <2>7. Begun' /\ Progress' /\ SeenThrough' /\ TornIsMarked'
    BY <1>0, <1>2, <2>1, <2>2, <2>5, <2>6, OwnSource
  <2> QED BY <2>3, <2>4, <2>7 DEF IInv
<1> QED BY <1>1, <1>2 DEF Stores

LEMMA AssociatesStep ==
  ASSUME IInv, NEW c \in Calls, Associates(c) PROVE IInv'
<1> DEFINE n == run[c].chunk
           one == <<c, req[c].ver, n>>
<1>0. /\ run[c].pc = "associate"
      /\ UNCHANGED <<home, passage, aliases, marker, late, latest, done, crossed>>
      /\ TypeOK /\ InStep /\ Progress /\ faults' \in Nat /\ At(c) \in Sources
      /\ ~Withdraws(c) /\ req[c].ver \in Versions /\ n \in Nat \ {0}
  BY DEF Associates, IInv, Works, Fails, TypeOK, Requests, Handlers, InStep, InStepAt, Active, At, Withdraws
<1>1. Inside(c) /\ req[c].pc # "unsent" /\ one \in Calls \X (Versions \cup {0}) \X Nat
  BY <1>0 DEF Inside, InStep, InStepAt, Active
<1>2. CASE Refused(c) /\ UNCHANGED graph
  BY <1>0, <1>2, RefusedStep DEF Active, store
<1>3. CASE Refused(c) /\ \E part \in {{}, {one}} : graph' = [graph EXCEPT ![At(c)] = @ \cup part]
  <2>1. /\ graph' \in [Sources -> SUBSET (Calls \X (Versions \cup {0}) \X Nat)]
        /\ \A r \in Sources \ {At(c)} : graph'[r] = graph[r]
    <3>1. PICK part \in {{}, {one}} : graph' = [graph EXCEPT ![At(c)] = @ \cup part]
      BY <1>3
    <3> HIDE DEF one
    <3> QED BY <1>0, <1>1, <3>1 DEF TypeOK
  <2>2. /\ run' \in [Calls -> Handlers] /\ req' \in [Calls -> Requests] /\ Others(c)
        /\ run'[c] = Resting
        /\ req'[c].pc = IF req[c].pc = "waiting" THEN "failed" ELSE req[c].pc
        /\ req'[c].ver = req[c].ver /\ req'[c].at = req[c].at
    BY <1>0, <1>3, RefusedEffect
  <2>3. TypeOK'
    BY <1>0, <2>1, <2>2 DEF TypeOK
  <2>4. InStep'
    <3>1. InStepAt(c)'
      BY <1>0, <2>2, RestingType DEF InStep, InStepAt, Active, Withdraws
    <3> QED BY <1>0, <2>2, <3>1, InStepKept
  <2>5. ~(Inside(c)')
    BY <2>2, RestingType DEF Inside
  <2>6. Begun' /\ Progress' /\ SeenThrough' /\ TornIsMarked'
    BY <1>0, <1>1, <2>1, <2>2, <2>5, OwnSource
  <2> QED BY <2>3, <2>4, <2>6 DEF IInv
<1>4. CASE /\ graph' = [graph EXCEPT ![At(c)] = @ \cup {one}] /\ UNCHANGED req
           /\ run' = [run EXCEPT ![c].chunk = n + 1, ![c].pc = IF n = Chunks THEN "alias" ELSE @]
  <2>1. /\ run'[c].pc = (IF n = Chunks THEN "alias" ELSE "associate")
        /\ run'[c].at = run[c].at /\ run'[c].chunk = n + 1 /\ Others(c)
    BY <1>0, <1>4 DEF TypeOK, Handlers, Others
  <2>2. run' \in [Calls -> Handlers]
    <3> DEFINE mid == [run EXCEPT ![c].chunk = n + 1]
    <3>1. run' = [mid EXCEPT ![c].pc = IF n = Chunks THEN "alias" ELSE "associate"]
      BY <1>0, <1>4 DEF TypeOK
    <3>2. mid \in [Calls -> Handlers]
      BY <1>0 DEF TypeOK, Handlers
    <3> HIDE DEF mid
    <3> QED BY <3>1, <3>2 DEF Handlers, RunPlaces
  <2>3. /\ graph' \in [Sources -> SUBSET (Calls \X (Versions \cup {0}) \X Nat)]
        /\ \A r \in Sources \ {At(c)} : graph'[r] = graph[r]
        /\ graph'[At(c)] = graph[At(c)] \cup {one}
    <3> HIDE DEF one
    <3> QED BY <1>0, <1>1, <1>4 DEF TypeOK
  <2>4. TypeOK'
    BY <1>0, <1>4, <2>2, <2>3 DEF TypeOK
  <2>5. InStep'
    <3>1. run'[c].pc \in {"alias", "associate"}
      BY <2>1
    <3> QED BY <1>0, <1>4, <2>1, <3>1, Advances DEF Active
  <2>6. At(c)' = At(c)
    BY <2>1 DEF At
  <2>7. ASSUME At(c) \notin crossed PROVE Holds(c)'
    <3>1. Holds(c)
      BY <1>0, <1>1, <2>7 DEF Progress
    <3>2. n <= Chunks /\ graph'[At(c)] = Part(c, n)
      BY <1>0, <2>3, <3>1, PartGrows DEF Holds
    <3>3. Part(c, run[c].chunk - 1)' = Part(c, n) /\ Part(c, Chunks)' = Part(c, Chunks)
      <4>1. run'[c].chunk - 1 = n /\ req' = req
        BY <1>0, <1>4, <2>1
      <4> QED BY <4>1 DEF Part
    <3>4. n # Chunks => n + 1 <= Chunks
      BY <1>0, <3>2, ImportConstants
    <3>5. run'[c].pc \in {"alias", "clear"} => graph'[At(c)'] = Part(c, Chunks)'
      BY <2>1, <2>6, <3>2, <3>3
    <3>6. run'[c].pc = "associate" =>
            run'[c].chunk <= Chunks /\ graph'[At(c)'] = Part(c, run[c].chunk - 1)'
      BY <2>1, <2>6, <3>2, <3>3, <3>4
    <3> HIDE DEF n
    <3> QED BY <1>0, <1>4, <2>1, <2>6, <3>1, <3>5, <3>6 DEF Holds, Withdraws
  <2>8. Begun' /\ Progress' /\ SeenThrough' /\ TornIsMarked'
    BY <1>0, <1>1, <1>4, <2>1, <2>3, <2>6, <2>7, OwnSource
  <2> QED BY <2>4, <2>5, <2>8 DEF IInv
<1> QED BY <1>2, <1>3, <1>4 DEF Associates

LEMMA AliasesStep ==
  ASSUME IInv, NEW c \in Calls, Aliases(c) PROVE IInv'
<1>0. /\ run[c].pc = "alias"
      /\ UNCHANGED <<home, graph, passage, marker, late, latest, done, crossed>>
      /\ TypeOK /\ InStep /\ Progress /\ faults' \in Nat /\ At(c) \in Sources
      /\ ~Withdraws(c) /\ req[c].ver \in Versions
  BY DEF Aliases, IInv, Works, Fails, TypeOK, Requests, InStep, InStepAt, Active, At, Withdraws
<1>1. CASE Refused(c) /\ UNCHANGED aliases
  BY <1>0, <1>1, RefusedStep DEF Active, store
<1>2. CASE /\ Step(c, "clear") /\ UNCHANGED req
           /\ aliases' = [aliases EXCEPT ![At(c)] = @ \cup {req[c].ver}]
  <2>1. /\ run' \in [Calls -> Handlers] /\ Others(c)
        /\ run'[c].pc = "clear" /\ run'[c].at = run[c].at /\ run'[c].chunk = run[c].chunk
    BY <1>0, <1>2, StepEffect DEF RunPlaces
  <2>2. /\ aliases' \in [Sources -> SUBSET (Versions \cup {0})]
        /\ \A r \in Sources \ {At(c)} : aliases'[r] = aliases[r]
        /\ req[c].ver \in aliases'[At(c)]
    BY <1>0, <1>2 DEF TypeOK
  <2>3. TypeOK'
    BY <1>0, <1>2, <2>1, <2>2 DEF TypeOK
  <2>4. InStep'
    BY <1>0, <1>2, <2>1, Advances DEF Active
  <2>5. Inside(c) /\ At(c)' = At(c) /\ req[c].pc # "unsent"
    BY <1>0, <2>1 DEF Inside, At, InStep, InStepAt, Active
  <2>6. ASSUME At(c) \notin crossed PROVE Holds(c)'
    <3>1. Holds(c) /\ Part(c, Chunks)' = Part(c, Chunks)
      BY <1>0, <1>2, <2>5, <2>6 DEF Progress, Part
    <3> QED BY <1>0, <1>2, <2>1, <2>2, <2>5, <3>1 DEF Holds, Withdraws
  <2>7. Begun' /\ Progress' /\ SeenThrough' /\ TornIsMarked'
    BY <1>0, <1>2, <2>1, <2>2, <2>5, <2>6, OwnSource
  <2> QED BY <2>3, <2>4, <2>7 DEF IInv
<1> QED BY <1>1, <1>2 DEF Aliases

\* What a source looks like when its call gets to clear the marker.
LEMMA ClearsExact ==
  ASSUME IInv, NEW c \in Calls, run[c].pc = "clear", At(c) \notin crossed
  PROVE  /\ ~Withdraws(c) => Exact(At(c), req[c].ver)
         /\ Withdraws(c) /\ ~run[c].stale => Exact(At(c), req[c].ver)
         /\ latest[At(c)] = c /\ At(c) \in marker
<1>1. Holds(c) /\ At(c) \in Sources /\ req[c].ver \in Versions \cup {0}
  BY DEF IInv, Progress, Inside, InStep, InStepAt, Active, At, TypeOK, Requests
<1>2. ASSUME ~Withdraws(c) PROVE Exact(At(c), req[c].ver)
  BY <1>1, <1>2, PartExact DEF Holds, Withdraws
<1>3. ASSUME Withdraws(c), ~run[c].stale PROVE Exact(At(c), req[c].ver)
  BY <1>1, <1>3, NothingExact DEF Holds, Withdraws
<1> QED BY <1>1, <1>2, <1>3 DEF Holds

LEMMA ClearsEffect ==
  ASSUME IInv, NEW c \in Calls, Clears(c)
  PROVE  /\ run' \in [Calls -> Handlers] /\ req' \in [Calls -> Requests] /\ Others(c)
         /\ req'[c].ver = req[c].ver /\ ~(Inside(c)') /\ At(c) \in Sources
         /\ done'[c] = done[c] \cup {At(c)} /\ done' \in [Calls -> SUBSET Sources]
         /\ \A d \in Calls \ {c} : done'[d] = done[d]
         /\ \/ run'[c].pc = "batch" /\ run'[c].at = At(c) + 1 /\ run'[c].chunk = 1
               /\ At(c) + 1 \in Sources /\ req' = req /\ ~Withdraws(c)
            \/ run'[c].pc = "idle" /\ req'[c].pc = req[c].pc /\ req[c].pc # "waiting"
            \/ run'[c].pc = "idle" /\ req[c].pc = "waiting" /\ ~Withdraws(c)
               /\ At(c) + 1 \in Sources /\ req'[c].pc = "dispatch" /\ req'[c].at = At(c) + 1
            \/ run'[c].pc = "idle" /\ req[c].pc = "waiting" /\ req'[c].pc = "acked"
               /\ (Withdraws(c) \/ At(c) + 1 \notin Sources)
<1>0. /\ TypeOK /\ run[c].pc = "clear" /\ At(c) \in Sources
      /\ done' = [done EXCEPT ![c] = @ \cup {At(c)}]
  BY DEF Clears, IInv, InStep, InStepAt, Active, At
<1>1. /\ done'[c] = done[c] \cup {At(c)} /\ done' \in [Calls -> SUBSET Sources]
      /\ \A d \in Calls \ {c} : done'[d] = done[d]
  BY <1>0 DEF TypeOK
<1>2. CASE /\ ~Withdraws(c) /\ SameChunk(At(c)) /\ UNCHANGED req
           /\ run' = [run EXCEPT ![c] = Handler("batch", At(c) + 1)]
  <2>1. /\ At(c) + 1 \in Sources
        /\ run' \in [Calls -> Handlers] /\ run'[c] = Handler("batch", At(c) + 1) /\ Others(c)
    BY <1>0, <1>2, StartedAt DEF TypeOK, SameChunk, RunPlaces, Others
  <2>2. run'[c].pc = "batch" /\ run'[c].at = At(c) + 1 /\ run'[c].chunk = 1
    BY <2>1, StartedAt DEF RunPlaces
  <2> QED BY <1>0, <1>1, <1>2, <2>1, <2>2 DEF TypeOK, Inside
<1>3. CASE run' = [run EXCEPT ![c] = Resting] /\ Answered(c)
  <2>1. run' \in [Calls -> Handlers] /\ run'[c] = Resting /\ \A d \in Calls \ {c} : run'[d] = run[d]
    BY <1>0, <1>3, RestingType DEF TypeOK
  <2> DEFINE more == [req[c] EXCEPT !.pc = "dispatch", !.at = At(c) + 1]
             over == [req[c] EXCEPT !.pc = "acked"]
             next == IF req[c].pc # "waiting" THEN req[c]
                     ELSE IF ~Withdraws(c) /\ At(c) + 1 \in Sources THEN more ELSE over
  <2>2. req' = [req EXCEPT ![c] = next]
    BY <1>3 DEF Answered
  <2>3. req[c] \in Requests
    BY <1>0 DEF TypeOK
  <2>4. /\ At(c) + 1 \in Sources => more \in Requests
        /\ more.pc = "dispatch" /\ more.at = At(c) + 1 /\ more.ver = req[c].ver
    BY <2>3 DEF Requests, ReqPlaces
  <2>5. over \in Requests /\ over.pc = "acked" /\ over.ver = req[c].ver
    BY <2>3 DEF Requests, ReqPlaces
  <2> HIDE DEF more, over
  <2>6. next \in Requests
    BY <2>3, <2>4, <2>5
  <2>7. req' \in [Calls -> Requests] /\ req'[c] = next /\ \A d \in Calls \ {c} : req'[d] = req[d]
    BY <1>0, <2>2, <2>6 DEF TypeOK
  <2>8. Others(c) /\ ~(Inside(c)') /\ run'[c].pc = "idle"
    BY <2>1, <2>7, RestingType DEF Others, Inside
  <2>9. CASE req[c].pc # "waiting"
    BY <1>0, <1>1, <2>1, <2>7, <2>8, <2>9
  <2>10. CASE req[c].pc = "waiting" /\ ~Withdraws(c) /\ At(c) + 1 \in Sources
    BY <1>0, <1>1, <2>1, <2>4, <2>7, <2>8, <2>10
  <2>11. CASE req[c].pc = "waiting" /\ ~(~Withdraws(c) /\ At(c) + 1 \in Sources)
    BY <1>0, <1>1, <2>1, <2>5, <2>7, <2>8, <2>11
  <2> QED BY <2>9, <2>10, <2>11
<1> QED BY <1>2, <1>3 DEF Clears

LEMMA ClearsStep ==
  ASSUME IInv, NEW c \in Calls, Clears(c) PROVE IInv'
<1>0. /\ run[c].pc = "clear" /\ UNCHANGED <<home, graph, passage, aliases, late, latest, crossed>>
      /\ TypeOK /\ InStep /\ Begun /\ Progress /\ SeenThrough /\ TornIsMarked
      /\ faults' \in Nat
      /\ \/ UNCHANGED marker
         \/ marker' = marker \ {At(c)} /\ ~(run[c].stale /\ Withdraws(c))
  BY DEF Clears, IInv, Works, Fails, TypeOK
<1>1. /\ run' \in [Calls -> Handlers] /\ req' \in [Calls -> Requests] /\ Others(c)
      /\ req'[c].ver = req[c].ver /\ ~(Inside(c)') /\ At(c) \in Sources
      /\ done'[c] = done[c] \cup {At(c)} /\ done' \in [Calls -> SUBSET Sources]
      /\ \A d \in Calls \ {c} : done'[d] = done[d]
  BY ClearsEffect
<1>2. TypeOK'
  BY <1>0, <1>1 DEF TypeOK
<1>3. /\ req[c].pc \in {"waiting", "failed"} /\ ~Withdraws(c) => done[c] = 1..(At(c) - 1)
      /\ req'[c].pc # "unsent"
  <2>1. req[c].pc \in {"waiting", "failed"} /\ (~Withdraws(c) => done[c] = 1..(At(c) - 1))
    BY <1>0 DEF InStep, InStepAt, Active, At, TypeOK, Requests, ReqPlaces
  <2> QED BY <2>1, ClearsEffect
<1>4. InStep'
  <2>1. ~Withdraws(c) => done'[c] = 1..(At(c) + 1 - 1)
    <3>1. At(c) \in Nat \ {0}
      BY <1>1, StreamOrder
    <3>2. req[c].pc \in {"waiting", "failed"}
      BY <1>0 DEF InStep, InStepAt, Active, TypeOK, Requests, ReqPlaces
    <3> QED BY <1>1, <1>3, <3>1, <3>2
  <2>2. req[c].pc \in {"waiting", "failed"}
    BY <1>0 DEF InStep, InStepAt, Active, TypeOK, Requests, ReqPlaces
  <2>3. InStepAt(c)'
    <3>1. CASE run'[c].pc = "batch"
      <4>1. /\ run'[c].at = At(c) + 1 /\ run'[c].chunk = 1 /\ At(c) + 1 \in Sources /\ req' = req
            /\ ~Withdraws(c)
        BY <3>1, ClearsEffect
      <4>2. done'[c] = 1..(run'[c].at - 1) /\ run'[c].at \in Sources
        <5>1. done'[c] = 1..(At(c) + 1 - 1)
          BY <2>1, <4>1
        <5>2. At(c) \in Nat \ {0} /\ run'[c].at = At(c) + 1
          BY <1>1, <4>1, StreamOrder
        <5>3. run'[c].at - 1 = At(c) + 1 - 1
          BY <5>2
        <5> QED BY <4>1, <5>1, <5>3
      <4>3. req'[c].pc \in {"waiting", "failed"} /\ ~(Withdraws(c)')
        BY <2>2, <4>1 DEF Withdraws
      <4> QED BY <3>1, <4>1, <4>2, <4>3 DEF InStepAt, Active
    <3>2. CASE run'[c].pc = "idle" /\ req'[c].pc = "dispatch"
      <4>1. req'[c].at = At(c) + 1 /\ At(c) + 1 \in Sources /\ ~Withdraws(c)
        BY <2>2, <3>2, ClearsEffect
      <4> QED BY <1>1, <2>1, <3>2, <4>1 DEF InStepAt, Active, Withdraws
    <3>3. CASE run'[c].pc = "idle" /\ req'[c].pc \in {"failed", "acked"}
      BY <3>3 DEF InStepAt, Active
    <3> QED BY <2>2, <3>1, <3>2, <3>3, ClearsEffect
  <2> QED BY <1>0, <1>1, <2>3, InStepKept
<1>5. Begun'
  BY <1>0, <1>1, <1>3, ImportConstants DEF Begun, Others, TypeOK
<1>6. ASSUME NEW d \in Calls, Inside(d)', At(d)' \notin crossed' PROVE Holds(d)'
  <2>1. d # c /\ run'[d] = run[d] /\ req'[d] = req[d] /\ Inside(d) /\ At(d) \notin crossed
    BY <1>0, <1>1, <1>6 DEF Others, Inside, At
  <2>2. Holds(d)
    BY <1>0, <2>1 DEF Progress
  <2>3. At(d) # At(c)
    BY <1>0, <2>1, <2>2, ClearsExact DEF Holds
  <2> QED BY <1>0, <2>1, <2>2, <2>3 DEF Holds, At, Withdraws, Part
<1>7. ASSUME NEW d \in Calls, NEW s \in done'[d], ~(Withdraws(d)'), latest'[s] = d, s \notin crossed'
      PROVE  Exact(s, req[d].ver)'
  <2>1. req'[d].ver = req[d].ver /\ ~Withdraws(d)
    BY <1>1, <1>7 DEF Others, Withdraws
  <2>2. Exact(s, req[d].ver)
    <3>1. CASE s \in done[d]
      BY <1>0, <1>7, <2>1, <3>1 DEF SeenThrough
    <3>2. CASE d = c /\ s = At(c)
      BY <1>0, <1>7, <2>1, <3>2, ClearsExact
    <3> QED BY <1>1, <1>7, <3>1, <3>2
  <2> QED BY <1>0, <2>1, <2>2 DEF Exact
<1>8. ASSUME NEW s \in Sources, s \notin marker', s \notin crossed'
      PROVE  Exact(s, VersionOf(latest[s]))'
  <2>1. VersionOf(latest[s])' = VersionOf(latest[s])
    BY <1>0, <1>1, VersionKept DEF Others
  <2>2. Exact(s, VersionOf(latest[s]))
    <3>1. CASE s \notin marker
      BY <1>0, <1>8, <3>1 DEF TornIsMarked
    <3>2. CASE s \in marker
      <4>1. s = At(c) /\ ~(run[c].stale /\ Withdraws(c))
        BY <1>0, <1>8, <3>2
      <4>2. Exact(s, req[c].ver) /\ latest[s] = c
        BY <1>0, <1>8, <4>1, ClearsExact
      <4> QED BY <4>2, ImportConstants DEF VersionOf
    <3> QED BY <3>1, <3>2
  <2> QED BY <1>0, <2>1, <2>2 DEF Exact
<1> QED BY <1>2, <1>4, <1>5, <1>6, <1>7, <1>8 DEF IInv, Progress, SeenThrough, TornIsMarked

-----------------------------------------------------------------------------
(* The theorems *)

LEMMA Start == Init => IInv
<1> SUFFICES ASSUME Init PROVE IInv
  OBVIOUS
<1>1. TypeOK
  BY RestingType DEF Init, TypeOK
<1>2. InStep
  BY RestingType DEF Init, InStep, InStepAt, Active, Unsent
<1>3. Begun /\ Progress /\ SeenThrough
  BY RestingType DEF Init, Begun, Progress, Inside, SeenThrough
<1>4. TornIsMarked
  BY NothingExact DEF Init, TornIsMarked, VersionOf
<1> QED BY <1>1, <1>2, <1>3, <1>4 DEF IInv

LEMMA Preserved == IInv /\ [Next]_vars => IInv'
<1>1. ASSUME IInv, UNCHANGED vars PROVE IInv'
  BY <1>1 DEF IInv, vars, store, TypeOK, InStep, InStepAt, Active, Withdraws, Begun, Progress, Inside,
     Holds, At, Part, SeenThrough, Exact, TornIsMarked, VersionOf
<1> QED
  BY <1>1, PostStep, WithdrawStep, RouterStep, DispatchStep, ExpiresStep, ShardDiesStep, BeginStep,
     MarksStep, RetractsStep, UnstoresStep, StoresStep, AssociatesStep, AliasesStep, ClearsStep
  DEF Next, Apply

LEMMA Inductive == Spec => []IInv
BY Start, Preserved, PTL DEF Spec

\* import_marker of rejection.rs: a source without a marker is exactly the version of the
\* call that last began on it, whatever shards died, writes failed or answers were lost,
\* and whatever calls came before, unless another call was at the source meanwhile.
THEOREM TornSourcesAreMarked == Spec => []TornIsMarked
<1>1. IInv => TornIsMarked
  BY DEF IInv
<1> QED BY <1>1, Inductive, PTL

\* route/import.rs: an import answered as applied went through every source of the stream,
\* and each source it was the last to touch holds each of its associations once.
THEOREM AcksAreExact == Spec => AckedIsExact
<1> DEFINE A == \A c \in Calls : req[c].pc # "acked" /\ req'[c].pc = "acked" /\ ~Withdraws(c) =>
                  /\ done'[c] = Sources
                  /\ \A s \in Sources : latest'[s] = c /\ s \notin crossed' => Exact(s, req[c].ver)'
<1>1. ASSUME IInv, IInv', [Next]_vars PROVE A
  <2> SUFFICES ASSUME NEW c \in Calls, req[c].pc # "acked", req'[c].pc = "acked", ~Withdraws(c)
               PROVE  /\ done'[c] = Sources
                      /\ \A s \in Sources : latest'[s] = c /\ s \notin crossed' => Exact(s, req[c].ver)'
    OBVIOUS
  <2>0. TypeOK /\ InStep
    BY <1>1 DEF IInv
  <2>1. Clears(c)
    <3>1. ASSUME NEW d \in Calls, d # c, Apply(d) PROVE FALSE
      <4>1. req'[c] = req[c]
        BY <2>0, <3>1, <1>1, RefusedEffect, ClearsEffect
        DEF Apply, Begin, Marks, Retracts, Unstores, Stores, Associates, Aliases, Others
      <4> QED BY <4>1
    <3>2. ASSUME Refused(c) PROVE FALSE
      BY <2>0, <3>2, RefusedEffect
    <3>3. ASSUME Apply(c) PROVE Clears(c)
      BY <3>2, <3>3 DEF Apply, Begin, Marks, Retracts, Unstores, Stores, Associates, Aliases
    <3>4. ASSUME NEW d \in Calls, NEW v \in Versions, Post(d, v) PROVE FALSE
      BY <2>0, <3>4 DEF Post, TypeOK, Requests
    <3>5. ASSUME NEW d \in Calls, NEW s \in Sources, Withdraw(d, s) PROVE FALSE
      BY <2>0, <3>5 DEF Withdraw, TypeOK, Requests
    <3>6. ASSUME NEW d \in Calls, Preflight(d) \/ Dispatch(d) \/ TimesOut(d) PROVE FALSE
      BY <2>0, <3>6 DEF Preflight, Dispatch, TimesOut, TypeOK, Requests
    <3>7. ASSUME NEW d \in Calls, Expires(d) PROVE FALSE
      BY <3>7 DEF Expires
    <3>8. ASSUME NEW h \in Shards, ShardDies(h) PROVE FALSE
      BY <2>0, <3>8 DEF ShardDies, TypeOK, Requests
    <3>9. ~UNCHANGED vars
      BY DEF vars
    <3> QED BY <1>1, <3>1, <3>3, <3>4, <3>5, <3>6, <3>7, <3>8, <3>9 DEF Next
  <2>2. /\ done'[c] = done[c] \cup {At(c)} /\ At(c) \in Sources /\ At(c) + 1 \notin Sources
        /\ req'[c].ver = req[c].ver /\ Active(c)
    <3>1. Active(c)
      BY <2>1 DEF Clears, Active
    <3> QED BY <1>1, <2>1, <3>1, ClearsEffect
  <2>3. done[c] = 1..(At(c) - 1)
    BY <2>0, <2>2 DEF InStep, InStepAt, At
  <2>4. done'[c] = Sources
    BY <2>2, <2>3, StreamOrder
  <2>5. ASSUME NEW s \in Sources, latest'[s] = c, s \notin crossed' PROVE Exact(s, req[c].ver)'
    BY <1>1, <2>2, <2>4, <2>5 DEF IInv, SeenThrough, Withdraws
  <2> QED BY <2>4, <2>5
<1>2. []IInv /\ [][Next]_vars => [][A]_vars
  BY <1>1, PTL
<1>3. AckedIsExact <=> [][A]_vars
  BY DEF AckedIsExact
<1> QED BY <1>2, <1>3, Inductive, PTL DEF Spec
=============================================================================
