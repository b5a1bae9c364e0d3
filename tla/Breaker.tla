------------------------------- MODULE Breaker -------------------------------
(***************************************************************************)
(* The circuit breaker in front of a network provider (breaker.rs) and the *)
(* callers that go through it (embedding.rs embed, api/evidence/rerank.rs  *)
(* rerank).  Time passes in ticks.  A probe's generation is only ever      *)
(* compared with the latest one minted, so instead of the counter the      *)
(* model keeps the caller whose attempt holds the latest generation.       *)
(***************************************************************************)
EXTENDS Naturals

CONSTANTS
  Callers,     \* threads calling the provider
  Nobody,      \* no attempt in flight holds the latest generation
  Threshold,   \* consecutive failures that open the breaker
  Cooldown,    \* ticks an open breaker refuses
  MinReclaim,  \* MIN_PROBE_RECLAIM
  MaxPanics    \* bound on attempts dropped without an outcome

ASSUME BreakerConstants ==
  /\ Nobody \notin Callers
  /\ Threshold \in Nat \ {0}
  /\ Cooldown \in Nat /\ MinReclaim \in Nat /\ MaxPanics \in Nat

\* probe_reclaim_after
ReclaimAfter == IF Cooldown > MinReclaim THEN Cooldown ELSE MinReclaim

VARIABLES
  state,    \* BreakerState: tag, failures, probing, ticks since `since`
  latest,   \* who holds latest_probe_generation
  calls,    \* each caller's attempt, the kind of its admission, its age
  up,       \* the provider answers (external)
  draining, \* the shutdown flag
  strayed,  \* an ordinary success closed the breaker under the current probe
  panics

vars == <<state, latest, calls, up, draining, strayed, panics>>

Idle == [pc |-> "idle", kind |-> "none", age |-> 0]

\* The variables' types; a closed breaker is below its threshold of failures
\* (record of breaker.rs).
TypeOK ==
  /\ state \in [tag : {"closed", "open", "half"}, failures : 0..(Threshold - 1),
                probing : BOOLEAN, age : 0..ReclaimAfter]
  /\ latest \in Callers \cup {Nobody}
  /\ calls \in [Callers -> [pc : {"idle", "ready", "flying"},
                            kind : {"none", "normal", "probe"}, age : 0..ReclaimAfter]]
  /\ up \in BOOLEAN /\ draining \in BOOLEAN /\ strayed \in BOOLEAN
  /\ panics \in 0..MaxPanics

Closed(n) == [tag |-> "closed", failures |-> n, probing |-> FALSE, age |-> 0]
Opened == [tag |-> "open", failures |-> 0, probing |-> FALSE, age |-> 0]
Probing == [tag |-> "half", failures |-> 0, probing |-> TRUE, age |-> 0]

Init ==
  /\ state = Closed(0) /\ latest = Nobody
  /\ calls = [c \in Callers |-> Idle]
  /\ up \in BOOLEAN /\ draining = FALSE /\ strayed = FALSE /\ panics = 0

-----------------------------------------------------------------------------
\* A call, or the next attempt of its ladder, past the shutdown check.
Ready(c) ==
  /\ calls[c].pc = "idle" /\ ~draining
  /\ calls' = [calls EXCEPT ![c].pc = "ready"]
  /\ UNCHANGED <<state, latest, up, draining, strayed, panics>>

Fly(c, kind) == calls' = [calls EXCEPT ![c] = [pc |-> "flying", kind |-> kind, age |-> 0]]

\* admit, closed
AdmitNormal(c) ==
  /\ calls[c].pc = "ready" /\ state.tag = "closed"
  /\ Fly(c, "normal")
  /\ UNCHANGED <<state, latest, up, draining, strayed, panics>>

\* the reclaimed claim keeps the old clock
MutClaimed == IF state.tag = "open" THEN Probing ELSE [state EXCEPT !.probing = TRUE]

\* The slot claimed afresh, with a clock of its own.
Claimed == Probing

\* a claim nobody settles is never reclaimed
MutProbeDue == \/ state.tag = "open" /\ state.age >= Cooldown
               \/ state.tag = "half" /\ ~state.probing

\* admit, open past its cooldown, or half-open with the slot idle or its claim
\* past the reclaim window
ProbeDue == \/ state.tag = "open" /\ state.age >= Cooldown
            \/ state.tag = "half" /\ (~state.probing \/ state.age >= ReclaimAfter)

AdmitProbe(c) ==
  /\ calls[c].pc = "ready" /\ ProbeDue
  /\ state' = Claimed /\ latest' = c /\ strayed' = FALSE
  /\ Fly(c, "probe")
  /\ UNCHANGED <<up, draining, panics>>

\* admit or the pre-flight refusal, answered without touching the provider
Refused(c) ==
  /\ calls[c].pc = "ready" /\ state.tag # "closed" /\ ~ProbeDue
  /\ calls' = [calls EXCEPT ![c] = Idle]
  /\ UNCHANGED <<state, latest, up, draining, strayed, panics>>

Lands(c) ==
  /\ calls' = [calls EXCEPT ![c] = Idle]
  /\ latest' = IF latest = c THEN Nobody ELSE latest

\* every probe's outcome counts
MutSuperseded(c) == FALSE

\* A fresher probe has been minted since.
Superseded(c) == calls[c].kind = "probe" /\ latest # c

\* The threshold of consecutive failures.
Trips(n) == n >= Threshold

\* record
Record(c) ==
  /\ calls[c].pc = "flying"
  /\ Lands(c)
  /\ state' = IF Superseded(c) THEN state
              ELSE IF up THEN Closed(0)
              ELSE IF calls[c].kind = "probe" THEN Opened
              ELSE IF state.tag # "closed" THEN state
              ELSE IF Trips(state.failures + 1) THEN Opened
              ELSE Closed(state.failures + 1)
  /\ strayed' = (strayed \/ (up /\ calls[c].kind = "normal" /\ latest # Nobody))
  /\ UNCHANGED <<up, draining, panics>>

\* abandon: the wait ends because the server drains
Abandon(c) ==
  /\ calls[c].pc = "flying" /\ draining
  /\ Lands(c)
  /\ state' = IF state.tag = "half" /\ latest = c
              THEN [state EXCEPT !.probing = FALSE] ELSE state
  /\ UNCHANGED <<up, draining, strayed, panics>>

\* The caller panics: neither record nor abandon.
Panic(c) ==
  /\ calls[c].pc = "flying" /\ panics < MaxPanics
  /\ Lands(c) /\ panics' = panics + 1
  /\ UNCHANGED <<state, up, draining, strayed>>

Older(n) == IF n < ReclaimAfter THEN n + 1 ELSE n

Tick ==
  /\ state' = [state EXCEPT !.age = IF state.tag = "closed" THEN @ ELSE Older(@)]
  /\ calls' = [c \in Callers |-> IF calls[c].kind = "probe"
                                 THEN [calls[c] EXCEPT !.age = Older(@)] ELSE calls[c]]
  /\ UNCHANGED <<latest, up, draining, strayed, panics>>

ProviderFlips ==
  /\ up' = ~up
  /\ UNCHANGED <<state, latest, calls, draining, strayed, panics>>

ShutDown ==
  /\ ~draining /\ draining' = TRUE
  /\ UNCHANGED <<state, latest, calls, up, strayed, panics>>

-----------------------------------------------------------------------------
Admit(c) == AdmitNormal(c) \/ AdmitProbe(c)

Next ==
  \/ \E c \in Callers :
       Ready(c) \/ Admit(c) \/ Refused(c) \/ Record(c) \/ Abandon(c) \/ Panic(c)
  \/ Tick \/ ProviderFlips \/ ShutDown

Spec == Init /\ [][Next]_vars

\* Time passes, requests keep coming, an attempt is bounded by its timeout.
FairSpec ==
  /\ Spec /\ WF_vars(Tick)
  /\ \A c \in Callers : /\ WF_vars(Ready(c)) /\ WF_vars(Admit(c) \/ Refused(c))
                        /\ WF_vars(Record(c))

-----------------------------------------------------------------------------
\* One probe at a time: of two probes in flight, one has outlived the window
\* after which admit may reclaim its slot (breaker.rs MIN_PROBE_RECLAIM).
OneProbeAtATime ==
  \A c, d \in Callers :
    (c # d /\ calls[c].kind = "probe" /\ calls[d].kind = "probe")
      => calls[c].age >= ReclaimAfter \/ calls[d].age >= ReclaimAfter

\* While the latest probe is in flight the breaker waits for it: no outcome or
\* abandon of an earlier probe moves it (record and abandon of breaker.rs);
\* only an ordinary attempt's success may close it meanwhile.
AwaitsLatestProbe ==
  latest # Nobody /\ ~strayed => state.tag = "half" /\ state.probing

\* A provider that comes back and answers within the reclaim window is used
\* again: whatever stragglers, panicked probes and reclaims came before, the
\* breaker closes (admit's reclaim arm of breaker.rs).
Prompt == \A c \in Callers : calls[c].kind = "probe" => calls[c].age < ReclaimAfter
Recovers == <>[](up /\ ~draining /\ Prompt) => <>[](state.tag = "closed")

\* The same of a provider that only answers: "one probe per cooldown until a
\* success closes it" (breaker.rs).
SuccessCloses == <>[](up /\ ~draining) => <>[](state.tag = "closed")
=============================================================================
