--------------------------- MODULE Breaker_proofs ---------------------------
(***************************************************************************)
(* Proofs about Breaker, for any number of callers, any threshold and any  *)
(* cooldown, whatever panics, drains and outages come.                     *)
(***************************************************************************)
EXTENDS Breaker, TLAPS

\* An attempt has a kind exactly while it is in flight.
FlyingHasKind ==
  \A c \in Callers : calls[c].pc = "flying" <=> calls[c].kind # "none"

\* The holder of the latest generation is a probe in flight.  A breaker that
\* refuses began to do so no earlier than that probe flew, and a half-open one
\* holds the slot for it.
LatestFlies ==
  latest # Nobody =>
    /\ calls[latest].kind = "probe"
    /\ state.tag # "closed" => state.age <= calls[latest].age
    /\ state.tag = "half" => state.probing

\* A probe that lost the latest generation had a whole cooldown to answer in.
SupersededIsOld ==
  \A c \in Callers : calls[c].kind = "probe" /\ latest # c => calls[c].age >= Cooldown

IInv == TypeOK /\ FlyingHasKind /\ LatestFlies /\ SupersededIsOld /\ AwaitsLatestProbe

-----------------------------------------------------------------------------
LEMMA Ages ==
  /\ ReclaimAfter \in Nat /\ Cooldown <= ReclaimAfter
  /\ \A n \in 0..ReclaimAfter : /\ Older(n) \in 0..ReclaimAfter /\ n <= Older(n)
                                /\ \A m \in 0..ReclaimAfter : m <= n => Older(m) <= Older(n)
BY BreakerConstants DEF ReclaimAfter, Older

\* The type of a caller's attempt and of the breaker's states.
Call == [pc : {"idle", "ready", "flying"}, kind : {"none", "normal", "probe"},
         age : 0..ReclaimAfter]
States == [tag : {"closed", "open", "half"}, failures : 0..(Threshold - 1),
           probing : BOOLEAN, age : 0..ReclaimAfter]

LEMMA StateTypes ==
  /\ \A n \in 0..(Threshold - 1) : Closed(n) \in States
  /\ 0 \in 0..(Threshold - 1)
  /\ Opened \in States /\ Probing \in States /\ Idle \in Call
  /\ \A kind \in {"normal", "probe"} : [pc |-> "flying", kind |-> kind, age |-> 0] \in Call
BY Ages, BreakerConstants DEF States, Call, Closed, Opened, Probing, Idle

LEMMA TypeInit == Init => IInv
<1> SUFFICES ASSUME Init PROVE IInv
  OBVIOUS
<1>1. state \in States /\ calls \in [Callers -> Call]
  BY StateTypes DEF Init
<1>3. up \in BOOLEAN /\ draining \in BOOLEAN /\ strayed \in BOOLEAN
  BY DEF Init
<1>4. latest \in Callers \cup {Nobody} /\ panics \in 0..MaxPanics
  BY BreakerConstants DEF Init
<1>5. TypeOK
  BY <1>1, <1>3, <1>4 DEF TypeOK, States, Call
<1>2. FlyingHasKind /\ LatestFlies /\ SupersededIsOld /\ AwaitsLatestProbe
  BY DEF Init, Idle, FlyingHasKind, LatestFlies, SupersededIsOld, AwaitsLatestProbe
<1> QED BY <1>2, <1>5 DEF IInv

\* What the steps of an attempt that ends share, whatever they make of the state.
LEMMA LandingKeeps ==
  ASSUME IInv, NEW c \in Callers, calls[c].pc = "flying", Lands(c)
  PROVE  /\ latest' \in Callers \cup {Nobody} /\ calls' \in [Callers -> Call]
         /\ FlyingHasKind' /\ SupersededIsOld'
         /\ latest' # Nobody => latest' = latest /\ latest # c /\ calls'[latest] = calls[latest]
<1>1. /\ calls \in [Callers -> Call] /\ latest \in Callers \cup {Nobody}
      /\ FlyingHasKind /\ SupersededIsOld
  BY DEF IInv, TypeOK, Call
<1>2. calls' = [calls EXCEPT ![c] = Idle] /\ latest' = IF latest = c THEN Nobody ELSE latest
  BY DEF Lands
<1>3. calls' \in [Callers -> Call] /\ latest' \in Callers \cup {Nobody}
  BY <1>1, <1>2, StateTypes
<1>4. \A d \in Callers : calls'[d] = IF d = c THEN Idle ELSE calls[d]
  BY <1>1, <1>2
<1>5. FlyingHasKind' /\ SupersededIsOld'
  BY <1>1, <1>2, <1>4 DEF Idle, FlyingHasKind, SupersededIsOld
<1> QED BY <1>1, <1>2, <1>3, <1>4, <1>5, BreakerConstants

LEMMA Step == IInv /\ [Next]_vars => IInv'
<1> SUFFICES ASSUME IInv, [Next]_vars PROVE IInv'
  OBVIOUS
<1>0. /\ state \in States /\ latest \in Callers \cup {Nobody} /\ calls \in [Callers -> Call]
      /\ up \in BOOLEAN /\ draining \in BOOLEAN /\ strayed \in BOOLEAN /\ panics \in 0..MaxPanics
      /\ FlyingHasKind /\ LatestFlies /\ SupersededIsOld /\ AwaitsLatestProbe
  BY DEF IInv, TypeOK, States, Call
<1>a. ASSUME NEW c \in Callers, Ready(c) PROVE IInv'
  <2>1. calls' \in [Callers -> Call]
        /\ \A d \in Callers : calls'[d].kind = calls[d].kind /\ calls'[d].age = calls[d].age
                              /\ (calls'[d].pc = "flying" <=> calls[d].pc = "flying")
    BY <1>0, <1>a DEF Ready, Call
  <2>2. UNCHANGED <<state, latest, up, draining, strayed, panics>>
    BY <1>a DEF Ready
  <2>3. FlyingHasKind' /\ LatestFlies' /\ SupersededIsOld' /\ AwaitsLatestProbe'
    BY <1>0, <2>1, <2>2 DEF FlyingHasKind, LatestFlies, SupersededIsOld, AwaitsLatestProbe
  <2> QED BY <1>0, <2>1, <2>2, <2>3 DEF IInv, TypeOK, States, Call
<1>b. ASSUME NEW c \in Callers, AdmitNormal(c) PROVE IInv'
  <2>1. UNCHANGED <<state, latest, up, draining, strayed, panics>> /\ calls[c].kind = "none"
    BY <1>0, <1>b DEF AdmitNormal, FlyingHasKind
  <2>2. /\ calls' \in [Callers -> Call]
        /\ \A d \in Callers : calls'[d] = IF d = c THEN [pc |-> "flying", kind |-> "normal", age |-> 0]
                                          ELSE calls[d]
    BY <1>0, <1>b, StateTypes DEF AdmitNormal, Fly
  <2>3. FlyingHasKind' /\ LatestFlies' /\ SupersededIsOld' /\ AwaitsLatestProbe'
    BY <1>0, <2>1, <2>2 DEF FlyingHasKind, LatestFlies, SupersededIsOld, AwaitsLatestProbe
  <2> QED BY <1>0, <2>1, <2>2, <2>3 DEF IInv, TypeOK, States, Call
<1>c. ASSUME NEW c \in Callers, AdmitProbe(c) PROVE IInv'
  <2>1. /\ UNCHANGED <<up, draining, panics>> /\ calls[c].kind = "none" /\ ProbeDue
        /\ state' = Probing /\ latest' = c /\ strayed' = FALSE
    BY <1>0, <1>c DEF AdmitProbe, Claimed, FlyingHasKind
  <2>2. /\ calls' \in [Callers -> Call]
        /\ \A d \in Callers : calls'[d] = IF d = c THEN [pc |-> "flying", kind |-> "probe", age |-> 0]
                                          ELSE calls[d]
    BY <1>0, <1>c, StateTypes DEF AdmitProbe, Fly
  <2>3. FlyingHasKind' /\ LatestFlies' /\ AwaitsLatestProbe'
    BY <1>0, <2>1, <2>2 DEF Probing, FlyingHasKind, LatestFlies, AwaitsLatestProbe
  <2>4. latest # Nobody => calls[latest].age >= Cooldown
    \* the slot was due: its holder had the window to answer
    BY <1>0, <2>1, Ages, BreakerConstants DEF ProbeDue, LatestFlies, States, Call
  <2>5. SupersededIsOld'
    BY <1>0, <2>1, <2>2, <2>4, BreakerConstants DEF SupersededIsOld
  <2> QED BY <1>0, <2>1, <2>2, <2>3, <2>5, StateTypes DEF IInv, TypeOK, States, Call
<1>d. ASSUME NEW c \in Callers, Refused(c) PROVE IInv'
  <2>1. UNCHANGED <<state, latest, up, draining, strayed, panics>> /\ calls[c].kind = "none"
    BY <1>0, <1>d DEF Refused, FlyingHasKind
  <2>2. /\ calls' \in [Callers -> Call]
        /\ \A d \in Callers : calls'[d] = IF d = c THEN Idle ELSE calls[d]
    BY <1>0, <1>d, StateTypes DEF Refused
  <2>3. FlyingHasKind' /\ LatestFlies' /\ SupersededIsOld' /\ AwaitsLatestProbe'
    BY <1>0, <2>1, <2>2 DEF Idle, FlyingHasKind, LatestFlies, SupersededIsOld, AwaitsLatestProbe
  <2> QED BY <1>0, <2>1, <2>2, <2>3 DEF IInv, TypeOK, States, Call
<1>e. ASSUME NEW c \in Callers, Record(c) PROVE IInv'
  <2>1. /\ calls[c].pc = "flying" /\ Lands(c) /\ UNCHANGED <<up, draining, panics>>
        /\ strayed' = (strayed \/ (up /\ calls[c].kind = "normal" /\ latest # Nobody))
    BY <1>e DEF Record
  <2>2. /\ latest' \in Callers \cup {Nobody} /\ calls' \in [Callers -> Call]
        /\ FlyingHasKind' /\ SupersededIsOld'
        /\ latest' # Nobody => latest' = latest /\ latest # c /\ calls'[latest] = calls[latest]
    BY <2>1, LandingKeeps
  <2>3. state' \in States
    BY <1>0, <1>e, StateTypes, BreakerConstants DEF Record, Trips, States
  <2>4. calls[c].kind \in {"normal", "probe"}
    BY <1>0, <2>1 DEF FlyingHasKind, Call
  \* the slot's holder flies on: this outcome was an ordinary one, or came late
  <2>5. ASSUME latest' # Nobody, calls[c].kind = "probe" PROVE state' = state /\ strayed' = strayed
    <3>1. Superseded(c)
      BY <2>2, <2>5 DEF Superseded
    <3> QED BY <1>0, <2>1, <2>5, <3>1, <1>e DEF Record
  <2>6. ASSUME latest' # Nobody, calls[c].kind = "normal"
        PROVE  \/ state' = state
               \/ state' = Opened /\ state.tag = "closed" /\ ~up
               \/ state'.tag = "closed" /\ (up \/ state.tag = "closed")
    <3>1. /\ up => state' = Closed(0)
          /\ ~up /\ state.tag # "closed" => state' = state
          /\ ~up /\ state.tag = "closed" =>
               state' = Opened \/ state' = Closed(state.failures + 1)
      BY <1>e, <2>6 DEF Record, Superseded
    <3>2. \A n : Closed(n).tag = "closed"
      BY DEF Closed
    <3>3. CASE up
      BY <3>1, <3>2, <3>3
    <3>4. CASE ~up
      BY <3>1, <3>2, <3>4
    <3> QED BY <3>3, <3>4
  <2>7. LatestFlies'
    BY <1>0, <2>2, <2>4, <2>5, <2>6, Ages DEF LatestFlies, Opened, States, Call
  <2>8. AwaitsLatestProbe'
    BY <1>0, <2>1, <2>2, <2>4, <2>5, <2>6 DEF AwaitsLatestProbe
  <2>9. strayed' \in BOOLEAN
    BY <2>1, <1>0
  <2> QED BY <1>0, <2>1, <2>2, <2>3, <2>7, <2>8, <2>9 DEF IInv, TypeOK, States, Call
<1>f. ASSUME NEW c \in Callers, Abandon(c) PROVE IInv'
  <2>1. /\ calls[c].pc = "flying" /\ Lands(c) /\ UNCHANGED <<up, draining, strayed, panics>>
        /\ state' = IF state.tag = "half" /\ latest = c
                    THEN [state EXCEPT !.probing = FALSE] ELSE state
    BY <1>f DEF Abandon
  <2>2. /\ latest' \in Callers \cup {Nobody} /\ calls' \in [Callers -> Call]
        /\ FlyingHasKind' /\ SupersededIsOld'
        /\ latest' # Nobody => latest' = latest /\ latest # c /\ calls'[latest] = calls[latest]
    BY <2>1, LandingKeeps
  <2>3. state' \in States
    BY <1>0, <2>1 DEF States
  <2>4. LatestFlies' /\ AwaitsLatestProbe'
    BY <1>0, <2>1, <2>2 DEF LatestFlies, AwaitsLatestProbe
  <2> QED BY <1>0, <2>1, <2>2, <2>3, <2>4 DEF IInv, TypeOK, States, Call
<1>g. ASSUME NEW c \in Callers, Panic(c) PROVE IInv'
  <2>1. /\ calls[c].pc = "flying" /\ Lands(c) /\ UNCHANGED <<state, up, draining, strayed>>
        /\ panics' = panics + 1 /\ panics < MaxPanics
    BY <1>g DEF Panic
  <2>2. /\ latest' \in Callers \cup {Nobody} /\ calls' \in [Callers -> Call]
        /\ FlyingHasKind' /\ SupersededIsOld'
        /\ latest' # Nobody => latest' = latest /\ latest # c /\ calls'[latest] = calls[latest]
    BY <2>1, LandingKeeps
  <2>3. panics' \in 0..MaxPanics
    BY <1>0, <2>1, BreakerConstants
  <2>4. LatestFlies' /\ AwaitsLatestProbe'
    BY <1>0, <2>1, <2>2 DEF LatestFlies, AwaitsLatestProbe
  <2> QED BY <1>0, <2>1, <2>2, <2>3, <2>4 DEF IInv, TypeOK, States, Call
<1>h. CASE Tick
  <2>1. UNCHANGED <<latest, up, draining, strayed, panics>>
    BY <1>h DEF Tick
  <2>2. /\ state' \in States /\ state'.tag = state.tag /\ state'.probing = state.probing
        /\ state.tag # "closed" => state'.age = Older(state.age)
    BY <1>0, <1>h, Ages DEF Tick, States
  <2>3. /\ calls' \in [Callers -> Call]
        /\ \A d \in Callers : /\ calls'[d].pc = calls[d].pc /\ calls'[d].kind = calls[d].kind
                              /\ calls[d].kind = "probe" => calls'[d].age = Older(calls[d].age)
    BY <1>0, <1>h, Ages DEF Tick, Call
  <2>4. FlyingHasKind' /\ AwaitsLatestProbe'
    BY <1>0, <2>1, <2>2, <2>3 DEF FlyingHasKind, AwaitsLatestProbe
  <2>5. LatestFlies'
    BY <1>0, <2>1, <2>2, <2>3, Ages DEF LatestFlies, States, Call
  <2>6. SupersededIsOld'
    BY <1>0, <2>1, <2>3, Ages, BreakerConstants DEF SupersededIsOld, Call
  <2> QED BY <1>0, <2>1, <2>2, <2>3, <2>4, <2>5, <2>6 DEF IInv, TypeOK, States, Call
<1>i. CASE ProviderFlips \/ ShutDown \/ UNCHANGED vars
  <2>1. UNCHANGED <<state, latest, calls, strayed, panics>> /\ up' \in BOOLEAN /\ draining' \in BOOLEAN
    BY <1>0, <1>i DEF ProviderFlips, ShutDown, vars
  <2>2. FlyingHasKind' /\ LatestFlies' /\ SupersededIsOld' /\ AwaitsLatestProbe'
    BY <1>0, <2>1 DEF FlyingHasKind, LatestFlies, SupersededIsOld, AwaitsLatestProbe
  <2> QED BY <1>0, <2>1, <2>2 DEF IInv, TypeOK, States, Call
<1> QED
  BY <1>a, <1>b, <1>c, <1>d, <1>e, <1>f, <1>g, <1>h, <1>i DEF Next, Admit

\* The inductive invariant of both theorems.
LEMMA Inductive == Spec => []IInv
BY TypeInit, Step, PTL DEF Spec

-----------------------------------------------------------------------------
\* record and abandon: while the latest probe is in flight, no outcome of an earlier
\* one, no drain, panic or tick takes the slot from it; only an ordinary attempt's
\* success may close the breaker meanwhile.
THEOREM LatestProbeKeepsSlot == Spec => []AwaitsLatestProbe
<1>1. IInv => AwaitsLatestProbe
  BY DEF IInv
<1> QED BY <1>1, Inductive, PTL

\* admit: with a cooldown no shorter than MIN_PROBE_RECLAIM (30 s against 50 ms as
\* shipped), two probes are in flight together only when one of them has outlived the
\* whole reclaim window.
THEOREM ProbesApart ==
  ASSUME Cooldown >= MinReclaim
  PROVE  Spec => []OneProbeAtATime
<1>1. ReclaimAfter = Cooldown
  BY BreakerConstants DEF ReclaimAfter
<1>2. IInv => OneProbeAtATime
  BY <1>1 DEF IInv, SupersededIsOld, OneProbeAtATime
<1> QED BY <1>2, Inductive, PTL
=============================================================================
