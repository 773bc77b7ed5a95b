------------------------------- MODULE Timeline -------------------------------
(***************************************************************************)
(* The virtual GPU timeline of trace forwards and their profile.            *)
(*                                                                         *)
(* A goroutine that runs a forward (the prefill batcher, the leader of a    *)
(* decode step) notes the time, computes for how long the forward keeps the *)
(* GPUs, reserves that on the timeline they all share, and hands the        *)
(* execution to the profiler: four steps, of which only the reservation and *)
(* the record are under a lock, each under its own.                         *)
(***************************************************************************)
EXTENDS Integers, SequencesExt, FiniteSets

CONSTANTS
  Callers,     \* goroutines that run forwards
  Durations,   \* modelled durations of a forward
  HostTimes,   \* router and EPLB time, which only the profile shows
  MaxNow       \* bound on the clock

ASSUME TimelineAssumption == Durations \subseteq Nat \ {0} /\ HostTimes \subseteq Nat

VARIABLES
  now,           \* time.Now()
  nextAvailable, \* when the GPUs are free
  caller,        \* goroutine -> where its forward is
  reservations,  \* history: the intervals reserved so far
  executions     \* the records of the profiler, in order of arrival

timelineVars == <<now, nextAvailable, caller, reservations, executions>>

Idle == [at |-> "idle"]

\* traceLatencyForLayerCountsWithProfile: callStarted := time.Now()
Call(c) ==
  /\ caller[c].at = "idle"
  /\ caller' = [caller EXCEPT ![c] = [at |-> "called", call |-> now]]
  /\ UNCHANGED <<now, nextAvailable, reservations, executions>>

\* (variant) the call's own time, although the GPUs may be busy then.
StartOf_Call(c) == caller[c].call

\* start := callStarted, or options.nextAvailable if that is later
StartOf(c) == IF nextAvailable > caller[c].call THEN nextAvailable ELSE caller[c].call

\* reserveForward, for a forward that takes d.
Reserve(c, d, host) ==
  /\ caller[c].at = "called"
  /\ LET start == StartOf(c)
     IN  /\ nextAvailable' = start + d
         /\ reservations' = reservations \cup {[start |-> start, finish |-> start + d]}
         /\ caller' = [caller EXCEPT ![c] =
              [at |-> "reserved", call |-> caller[c].call, start |-> start,
               latency |-> start + d - caller[c].call, duration |-> d, host |-> host]]
  /\ UNCHANGED <<now, executions>>

\* recordExecution, then the forward returns.
Record(c) ==
  /\ caller[c].at = "reserved"
  /\ executions' = Append(executions,
       [call |-> caller[c].call, start |-> caller[c].start,
        duration |-> caller[c].duration, host |-> caller[c].host])
  /\ caller' = [caller EXCEPT ![c] = [at |-> "done", latency |-> caller[c].latency,
                                       finish |-> caller[c].start + caller[c].duration]]
  /\ UNCHANGED <<now, nextAvailable, reservations>>

\* The goroutine goes on with the latency.
Return(c) ==
  /\ caller[c].at = "done"
  /\ caller' = [caller EXCEPT ![c] = Idle]
  /\ UNCHANGED <<now, nextAvailable, reservations, executions>>

Tick ==
  /\ now < MaxNow
  /\ now' = now + 1
  /\ UNCHANGED <<nextAvailable, caller, reservations, executions>>

TimelineInit ==
  /\ now = 0
  /\ nextAvailable = 0
  /\ caller = [c \in Callers |-> Idle]
  /\ reservations = {}
  /\ executions = <<>>

TimelineNext ==
  \/ Tick
  \/ \E c \in Callers :
       \/ Call(c) \/ Record(c) \/ Return(c)
       \/ \E d \in Durations, host \in HostTimes : Reserve(c, d, host)

TimelineSpec == TimelineInit /\ [][TimelineNext]_timelineVars

------------------------------------------------------------------------------
(* rebuiltEventsLocked: what a flush of the profile shows *)

\* (variant) in order of arrival.
Records_AsRecorded == executions

\* records, sorted by start; the earlier call first on ties.
Records ==
  SortSeq(executions, LAMBDA a, b :
    a.start < b.start \/ (a.start = b.start /\ a.call < b.call))

\* Where the k-th record is drawn: no earlier than the previous one ends, which is
\* when its host time is over as well.
Drawn ==
  LET records == Records
      at[k \in DOMAIN records] ==
        LET from == records[k].start
            free == IF k = 1 THEN 0 ELSE at[k - 1].finish
            begin == IF free > from THEN free ELSE from
        IN  [start |-> begin, finish |-> begin + records[k].duration + records[k].host]
  IN  at

------------------------------------------------------------------------------
(* Properties *)

Disjoint(a, b) == a.finish <= b.start \/ b.finish <= a.start

\* docs/moe-trace-runtime.md: "All trace MoE forwards reserve one serialized virtual
\* GPU timeline, so two independent HTTP workers cannot make the same simulated
\* eight-GPU model execute overlapping forwards."
ForwardsDisjoint == \A a, b \in reservations : a # b => Disjoint(a, b)

\* The profile draws forwards one after the other in the order in which they hold the
\* GPUs, even if they were recorded in another one, none before its reservation, and
\* none later than the host times of the forwards before it make necessary.
ProfileInOrder ==
  LET records == Records
      drawn   == Drawn
      hostBefore(k) == FoldLeft(LAMBDA sum, r : sum + r.host, 0, SubSeq(records, 1, k - 1))
  IN  \A k \in DOMAIN records :
        /\ drawn[k].start \in records[k].start .. records[k].start + hostBefore(k)
        /\ k > 1 => records[k - 1].start < records[k].start
                    /\ drawn[k - 1].finish <= drawn[k].start
=============================================================================
