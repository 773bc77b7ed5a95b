------------------------- MODULE TraceForwardsProofs --------------------------
(***************************************************************************)
(* For any jobs, leaders, budget and durations: forwards never overlap on   *)
(* the timeline, at most one prefill batcher runs, and one runs whenever a  *)
(* job is pending.                                                          *)
(***************************************************************************)
EXTENDS TraceForwards, TLAPS

------------------------------------------------------------------------------
(* The timeline by itself *)

\* Where a forward can be.
Forwards ==
  [at : {"idle"}]
    \cup [at : {"called"}, call : Nat]
    \cup [at : {"reserved"}, call : Nat, start : Nat, latency : Nat, duration : Nat,
          host : Nat]
    \cup [at : {"done"}, latency : Nat, finish : Nat]

TimelineTypes ==
  /\ now \in Nat /\ nextAvailable \in Nat
  /\ caller \in [Callers -> Forwards]

\* What is reserved is before nextAvailable, so that the next reservation is after it.
TimelineInv ==
  /\ TimelineTypes
  /\ \A r \in reservations :
       /\ r.start \in Nat /\ r.finish \in Nat
       /\ r.start < r.finish /\ r.finish <= nextAvailable
  /\ ForwardsDisjoint

\* reserveForward starts at nextAvailable or later, and moves it to the finish.
LEMMA ReserveDisjoint ==
  ASSUME TimelineInv, NEW c \in Callers, NEW d \in Durations, NEW host \in HostTimes,
         Reserve(c, d, host)
  PROVE  TimelineInv'
<1> DEFINE start == StartOf(c)
           new   == [start |-> start, finish |-> start + d]
<1>1. caller[c].at = "called" /\ caller[c].call \in Nat
  BY DEF TimelineInv, TimelineTypes, Forwards, Reserve
<1>2. start \in Nat /\ nextAvailable <= start /\ caller[c].call <= start
  BY <1>1 DEF TimelineInv, TimelineTypes, StartOf
<1>3. d \in Nat \ {0} /\ host \in Nat
  BY TimelineAssumption
<1>4. /\ nextAvailable' = start + d /\ now' = now
      /\ reservations' = reservations \cup {new}
      /\ caller' = [caller EXCEPT ![c] =
           [at |-> "reserved", call |-> caller[c].call, start |-> start,
            latency |-> start + d - caller[c].call, duration |-> d, host |-> host]]
  BY DEF Reserve
<1> HIDE DEF start
<1>5. TimelineTypes'
  <2>1. start + d - caller[c].call \in Nat
    BY <1>1, <1>2, <1>3
  <2>2. [at |-> "reserved", call |-> caller[c].call, start |-> start,
         latency |-> start + d - caller[c].call, duration |-> d, host |-> host]
          \in Forwards
    BY <2>1, <1>1, <1>2, <1>3 DEF Forwards
  <2>3. caller' \in [Callers -> Forwards]
    BY <1>4, <2>2 DEF TimelineInv, TimelineTypes
  <2> QED
    BY <1>2, <1>3, <1>4, <2>3 DEF TimelineInv, TimelineTypes
<1>6. \A r \in reservations' :
        /\ r.start \in Nat /\ r.finish \in Nat
        /\ r.start < r.finish /\ r.finish <= nextAvailable'
  BY <1>2, <1>3, <1>4 DEF TimelineInv, TimelineTypes
<1>7. ForwardsDisjoint'
  <2>1. \A r \in reservations : Disjoint(r, new) /\ Disjoint(new, r)
    BY <1>2 DEF TimelineInv, TimelineTypes, Disjoint
  <2> QED
    BY <1>4, <2>1 DEF TimelineInv, ForwardsDisjoint
<1> QED
  BY <1>5, <1>6, <1>7 DEF TimelineInv

\* The other steps reserve nothing.
LEMMA TimelineStep == TimelineInv /\ [TimelineNext]_timelineVars => TimelineInv'
<1> SUFFICES ASSUME TimelineInv, [TimelineNext]_timelineVars PROVE TimelineInv'
  OBVIOUS
<1>1. ASSUME NEW c \in Callers, NEW f \in Forwards,
             caller' = [caller EXCEPT ![c] = f],
             UNCHANGED <<now, nextAvailable, reservations>>
      PROVE  TimelineInv'
  BY <1>1 DEF TimelineInv, TimelineTypes, ForwardsDisjoint
<1>2. CASE Tick
  BY <1>2 DEF Tick, TimelineInv, TimelineTypes, ForwardsDisjoint
<1>3. ASSUME NEW c \in Callers, Call(c) PROVE TimelineInv'
  <2>1. [at |-> "called", call |-> now] \in Forwards
    BY DEF TimelineInv, TimelineTypes, Forwards
  <2> QED
    BY <1>1, <1>3, <2>1 DEF Call
<1>4. ASSUME NEW c \in Callers, Record(c) PROVE TimelineInv'
  <2>1. /\ caller[c].latency \in Nat
        /\ caller[c].start + caller[c].duration \in Nat
    BY <1>4 DEF Record, TimelineInv, TimelineTypes, Forwards
  <2>2. [at |-> "done", latency |-> caller[c].latency,
         finish |-> caller[c].start + caller[c].duration] \in Forwards
    BY <2>1 DEF Forwards
  <2> QED
    BY <1>1, <1>4, <2>2 DEF Record
<1>5. ASSUME NEW c \in Callers, Return(c) PROVE TimelineInv'
  BY <1>1, <1>5 DEF Return, Idle, Forwards
<1>6. ASSUME NEW c \in Callers, NEW d \in Durations, NEW host \in HostTimes,
             Reserve(c, d, host)
      PROVE  TimelineInv'
  BY <1>6, ReserveDisjoint
<1>7. CASE UNCHANGED timelineVars
  BY <1>7 DEF timelineVars, TimelineInv, TimelineTypes, ForwardsDisjoint
<1> QED
  BY <1>2, <1>3, <1>4, <1>5, <1>6, <1>7 DEF TimelineNext

------------------------------------------------------------------------------
(* The composition *)

\* Every step of the composition is a step of the timeline, or leaves it alone.
LEMMA StepsOfTimeline == [Next]_vars => [TimelineNext]_timelineVars
<1> SUFFICES ASSUME [Next]_vars PROVE [TimelineNext]_timelineVars
  OBVIOUS
<1> USE CallersAssumption
<1>1. ASSUME NEW j \in Jobs, NEW n \in 1 .. MaxLength, SubmitJob(j, n)
      PROVE  UNCHANGED timelineVars
  BY <1>1 DEF SubmitJob
<1>2. ASSUME NEW b \in Jobs, Process(b) PROVE [TimelineNext]_timelineVars
  BY <1>2 DEF Process, StopBatcher, StartForward, Run, EndForward, TimelineNext
<1>3. ASSUME NEW l \in Leaders, Lead(l) \/ Run(l) PROVE TimelineNext
  BY <1>3 DEF Lead, Run, TimelineNext
<1>4. CASE Pass
  BY <1>4 DEF Pass, TimelineNext
<1>5. CASE UNCHANGED vars
  BY <1>5 DEF vars
<1> QED
  BY <1>1, <1>2, <1>3, <1>4, <1>5 DEF Next

\* Batchers and decode leaders never hold the simulated GPUs at the same time.
THEOREM TimelineCorrect == Spec => []ForwardsDisjoint
<1>1. Init => TimelineInv
  BY DEF Init, TimelineInit, TimelineInv, TimelineTypes, ForwardsDisjoint, Idle, Forwards
<1>2. TimelineInv => ForwardsDisjoint
  BY DEF TimelineInv
<1> QED
  BY <1>1, <1>2, TimelineStep, StepsOfTimeline, PTL DEF Spec

------------------------------------------------------------------------------
(* The flag of the batcher *)

\* What the argument needs of the types.
FlagTypes ==
  /\ running \in BOOLEAN
  /\ batcher \in [Jobs -> {"off", "loop", "forward"}]

BatcherInv == FlagTypes /\ OneBatcher

\* traceBatchedPrefillLatency starts a batcher only if it is the one to set
\* `running', and process resets `running' only when nothing is pending.
LEMMA BatcherStep == BatcherInv /\ [Next]_vars => BatcherInv'
<1> SUFFICES ASSUME BatcherInv, [Next]_vars PROVE BatcherInv'
  OBVIOUS
<1> USE DEF BatcherInv, FlagTypes, OneBatcher, Batchers
<1>1. ASSUME NEW j \in Jobs, NEW n \in 1 .. MaxLength, Submit(j, n)
      PROVE  BatcherInv'
  BY <1>1 DEF Submit
<1>2. ASSUME NEW b \in Jobs, Stop(b) PROVE BatcherInv'
  BY <1>2 DEF Stop
<1>3. ASSUME NEW b \in Jobs, Forward(b) PROVE BatcherInv'
  BY <1>3 DEF Forward
<1>4. ASSUME NEW b \in Jobs, FinishForward(b, caller[b].latency) PROVE BatcherInv'
  BY <1>4 DEF FinishForward
<1>5. CASE UNCHANGED prefillVars
  BY <1>5 DEF prefillVars
<1>6. ASSUME NEW b \in Jobs, Process(b) PROVE BatcherInv'
  BY <1>6, <1>2, <1>3, <1>4, <1>5 DEF Process, StopBatcher, StartForward, Run, EndForward
<1> QED
  BY <1>1, <1>5, <1>6 DEF Next, SubmitJob, Lead, Run, Pass, vars

\* There is never a second batcher, and no pending job is without one.
THEOREM BatcherCorrect == Spec => []OneBatcher
<1>1. PrefillInit => BatcherInv
  BY DEF PrefillInit, BatcherInv, FlagTypes, OneBatcher, Batchers
<1>2. BatcherInv => OneBatcher
  BY DEF BatcherInv
<1> QED
  BY <1>1, <1>2, BatcherStep, PTL DEF Spec, Init
=============================================================================
