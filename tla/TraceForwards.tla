---------------------------- MODULE TraceForwards -----------------------------
(***************************************************************************)
(* Prefill and decode forwards on the shared timeline: the batcher of       *)
(* TracePrefill and the leaders of decode steps are callers of Timeline.    *)
(* The leader is abstracted to a goroutine that runs a forward now and then *)
(* (TraceDecode has the whole of it).                                       *)
(***************************************************************************)
EXTENDS TracePrefill, Timeline

CONSTANT Leaders   \* decode steps; each runs one forward

ASSUME CallersAssumption == Callers = Jobs \cup Leaders

vars == <<prefillVars, timelineVars>>

SubmitJob(j, n) ==
  /\ Submit(j, n)
  /\ UNCHANGED timelineVars

\* The batch is put together, then traceLatencyForLayerCountsWithProfile is called.
StartForward(b) ==
  /\ Forward(b)
  /\ Call(b)

\* It returns the latency without waiting for it: the next forward of the batcher is
\* called at once.
EndForward(b) ==
  /\ caller[b].at = "done"
  /\ FinishForward(b, caller[b].latency)
  /\ Return(b)

StopBatcher(b) == Stop(b) /\ UNCHANGED timelineVars

\* acquireDecodeStep: once per leader.
Lead(l) ==
  /\ Call(l)
  /\ UNCHANGED prefillVars

\* The rest of a forward, of either kind.
Run(c) ==
  /\ \/ \E d \in Durations, host \in HostTimes : Reserve(c, d, host)
     \/ Record(c)
  /\ UNCHANGED prefillVars

Pass == Tick /\ UNCHANGED prefillVars

Init ==
  /\ PrefillInit
  /\ TimelineInit

Process(b) == StopBatcher(b) \/ StartForward(b) \/ Run(b) \/ EndForward(b)

Next ==
  \/ \E j \in Jobs :
       \/ \E n \in 1 .. MaxLength : SubmitJob(j, n)
       \/ Process(j)
  \/ \E l \in Leaders : Lead(l) \/ Run(l)
  \/ Pass

Spec == Init /\ [][Next]_vars

\* A started goroutine is scheduled.
FairSpec == Spec /\ \A b \in Jobs : WF_vars(Process(b))
=============================================================================
