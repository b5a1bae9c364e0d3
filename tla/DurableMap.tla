----------------------------- MODULE DurableMap -----------------------------
(***************************************************************************)
(* What a context's passage store promises its callers: a map from sources *)
(* to passages that survives crashes.  A batch takes effect on the durable *)
(* map at one moment between its call and its answer; a batch answered     *)
(* with an error took no effect; a crash may cut one off after any of its  *)
(* operations; nothing else ever changes the map.                          *)
(***************************************************************************)
EXTENDS Naturals, Sequences

CONSTANTS
  Callers,
  Sources,
  Batches      \* sequences of operations [src, val]; val = 0 withdraws the source

VARIABLES
  map,         \* the durable value of each source, 0 when it has none
  calls        \* per caller: the operations it asked for and whether they took effect

vars == <<map, calls>>

NoCall == [ops |-> <<>>, done |-> FALSE]

\* The map after the first k operations of a batch: the last one on a source counts.
Applied(m, ops, k) ==
  [s \in Sources |->
     LET on == { i \in 1..k : ops[i].src = s }
     IN IF on = {} THEN m[s] ELSE ops[CHOOSE i \in on : \A j \in on : j <= i].val]

Init ==
  /\ map \in [Sources -> Nat]
  /\ calls = [t \in Callers |-> NoCall]

Call(t) ==
  /\ calls[t] = NoCall
  /\ \E ops \in Batches : calls' = [calls EXCEPT ![t] = [ops |-> ops, done |-> FALSE]]
  /\ UNCHANGED map

TakeEffect(t) ==
  /\ calls[t] # NoCall /\ ~calls[t].done
  /\ map' = Applied(map, calls[t].ops, Len(calls[t].ops))
  /\ calls' = [calls EXCEPT ![t].done = TRUE]

\* An answer: success is told only of what took effect, failure only of what did not
\* (withdrawing a source that is not there succeeds without effect).
Answer(t) ==
  /\ calls[t] # NoCall
  /\ calls' = [calls EXCEPT ![t] = NoCall]
  /\ UNCHANGED map

Crash ==
  /\ calls' = [t \in Callers |-> NoCall]
  /\ \/ UNCHANGED map
     \/ \E t \in Callers : \E k \in 1..Len(calls[t].ops) :
          ~calls[t].done /\ map' = Applied(map, calls[t].ops, k)

Next ==
  \/ \E t \in Callers : Call(t) \/ TakeEffect(t) \/ Answer(t)
  \/ Crash
=============================================================================
