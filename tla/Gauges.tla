-------------------------------- MODULE Gauges --------------------------------
(***************************************************************************)
(* How the Prometheus metrics follow the requests (pkg/simulator/           *)
(* metrics.go).  The processing loop and the workers write updates to       *)
(* bounded channels and never wait: an update that finds its channel full   *)
(* is dropped.  One goroutine per channel applies the updates.  An update   *)
(* of a gauge is applied only if it is fake exactly when the configuration  *)
(* has fake metrics; the count behind the running gauge is also what the    *)
(* latency calculator scales latencies with.                                *)
(*                                                                          *)
(* Of the scheduler only what the metrics see is kept: requests wait in the *)
(* queue, are handed to a worker, run and end (Scheduler has the rest).     *)
(***************************************************************************)
EXTENDS Latencies, Sequences, FiniteSets, Functions

CONSTANTS
  Requests,
  Loras, NoLora,
  LoraOf,                  \* the LoRA of each request, or NoLora
  PromptOf,                \* the prompt of each request
  MaxWaitingQueueLength

ASSUME GaugesAssumption ==
  /\ LoraOf \in [Requests -> Loras \cup {NoLora}] /\ NoLora \notin Loras
  /\ MaxNumSeqs \in Nat \ {0} /\ MaxWaitingQueueLength \in Nat
  /\ PromptOf \in [Requests -> [promptTokens : Nat, cachedPromptTokens : Nat,
                               doRemotePrefill : BOOLEAN]]

VARIABLES
  request,        \* where each request is
  chan,           \* the updates in each channel
  lost,           \* the real updates that found their channel full
  count,          \* nRunningReqs and nWaitingReqs
  gauge,          \* what Prometheus shows for them
  runningLoras, waitingLoras,
  ttft            \* each request's mean time to first token

gaugeVars ==
  <<request, chan, lost, count, gauge, runningLoras, waitingLoras, ttft>>

Gauge == {"running", "waiting"}
Channels == Gauge \cup {"loras", "ttft", "success"}

At(states) == {r \in Requests : request[r] \in states}

------------------------------------------------------------------------------
(* Channels *)

\* createAndRegisterPrometheus: the capacities.
Capacity(ch) ==
  CASE ch = "waiting" -> 2 * MaxWaitingQueueLength
    [] ch = "loras"   -> 2 * (MaxNumSeqs + MaxWaitingQueueLength)
    [] OTHER          -> 2 * MaxNumSeqs

Update(value, isFake) == [value |-> value, isFake |-> isFake]

Fits(c, ch) == Len(c[ch]) < Capacity(ch)

\* The channels c after a write of m to ch: nothing happens if ch is full.
WriteToChannel(c, ch, m) == IF Fits(c, ch) THEN [c EXCEPT ![ch] = Append(@, m)] ELSE c

\* What a request writes: pairs of a channel and a message, one per channel.
Write(writes) ==
  /\ chan' = [ch \in Channels |->
       IF \E w \in writes : w[1] = ch
       THEN WriteToChannel(chan, ch, (CHOOSE w \in writes : w[1] = ch)[2])[ch]
       ELSE chan[ch]]
  /\ lost' = [ch \in Channels |->
       IF (\E w \in writes : w[1] = ch) /\ ~Fits(chan, ch)
       THEN Append(lost[ch], (CHOOSE w \in writes : w[1] = ch)[2])
       ELSE lost[ch]]

\* The message about r's LoRA, if it has one.
LoraMessage(r, state) ==
  IF LoraOf[r] = NoLora THEN {}
  ELSE {<<"loras", [name |-> LoraOf[r], state |-> state]>>}

------------------------------------------------------------------------------
(* Requests *)

\* addRequestToQueue: with no worker free, or with a LoRA that cannot be loaded.
addRequestToQueue(r) ==
  /\ request[r] = "new"
  /\ Cardinality(At({"queued"})) < MaxWaitingQueueLength
  /\ request' = [request EXCEPT ![r] = "queued"]
  /\ Write({<<"waiting", Update(1, FALSE)>>} \cup LoraMessage(r, "waiting"))
  /\ UNCHANGED <<count, gauge, runningLoras, waitingLoras, ttft>>

FreeWorker == Cardinality(At({"sent", "running"})) < MaxNumSeqs

\* A new request for which a worker is free: no metric changes yet.
SendToWorker(r) ==
  /\ request[r] = "new" /\ FreeWorker
  /\ request' = [request EXCEPT ![r] = "sent"]
  /\ UNCHANGED <<chan, lost, count, gauge, runningLoras, waitingLoras, ttft>>

\* (variant)
findRequestAndSendToProcess_NoDecrement(r) ==
  /\ request[r] = "queued" /\ FreeWorker
  /\ request' = [request EXCEPT ![r] = "sent"]
  /\ UNCHANGED <<chan, lost, count, gauge, runningLoras, waitingLoras, ttft>>

\* findRequestAndSendToProcess: a request leaves the queue for a worker.
findRequestAndSendToProcess(r) ==
  /\ request[r] = "queued" /\ FreeWorker
  /\ request' = [request EXCEPT ![r] = "sent"]
  /\ Write({<<"waiting", Update(-1, FALSE)>>})
  /\ UNCHANGED <<count, gauge, runningLoras, waitingLoras, ttft>>

\* The worker's handleRequest.
handleRequest(r) ==
  /\ request[r] = "sent"
  /\ request' = [request EXCEPT ![r] = "running"]
  /\ Write({<<"running", Update(1, FALSE)>>} \cup LoraMessage(r, "running"))
  /\ UNCHANGED <<count, gauge, runningLoras, waitingLoras, ttft>>

\* simulateTTFT: the calculator of this moment is given nRunningReqs of this moment.
\* What it would return for one request, and for MaxNumSeqs, is recorded as well.
simulateTTFT(r, calc) ==
  /\ request[r] = "running" /\ ttft[r] = <<>>
  /\ LET mean(n) == GetTimeToFirstToken(calc, PromptOf[r], n)
     IN  ttft' = [ttft EXCEPT ![r] = <<mean(1), mean(count["running"]), mean(MaxNumSeqs)>>]
  /\ Write({<<"ttft", 1>>})
  /\ UNCHANGED <<request, count, gauge, runningLoras, waitingLoras>>

\* processRequest ends: with an error of handleRequest, or with a response, which
\* had no time to first token if the cache threshold cut it short.  In all cases
\* onResponseProcessingFinished runs, and the worker is free after it.
processRequestEnds(r) ==
  /\ request[r] = "running"
  /\ request' = [request EXCEPT ![r] = "done"]
  /\ \E responded \in BOOLEAN :
       /\ ttft[r] # <<>> => responded
       /\ Write({<<"running", Update(-1, FALSE)>>} \cup LoraMessage(r, "done")
                  \cup (IF responded THEN {<<"success", 1>>} ELSE {}))
  /\ UNCHANGED <<count, gauge, runningLoras, waitingLoras, ttft>>

RequestNext(r, calc) ==
  \/ addRequestToQueue(r) \/ SendToWorker(r) \/ findRequestAndSendToProcess(r)
  \/ handleRequest(r) \/ simulateTTFT(r, calc) \/ processRequestEnds(r)

------------------------------------------------------------------------------
(* Updaters; fake is whether the configuration has fake metrics *)

Took(ch) == chan[ch] # <<>> /\ chan' = [chan EXCEPT ![ch] = Tail(@)]

\* waitingRequestsUpdater and runningRequestsUpdater.
GaugeUpdater(g, fake) ==
  /\ Took(g)
  /\ LET upd == Head(chan[g]) IN
     IF upd.isFake # fake THEN UNCHANGED <<count, gauge>>
     ELSE /\ count' = [count EXCEPT ![g] = IF fake THEN upd.value ELSE @ + upd.value]
          /\ gauge' = [gauge EXCEPT ![g] = count'[g]]
  /\ UNCHANGED <<request, lost, runningLoras, waitingLoras, ttft>>

incrementLoraRefCount(m, l) == [m EXCEPT ![l] = @ + 1]

\* A LoRA that is not in the map is left alone.
decrementLoraRefCount(m, l) == [m EXCEPT ![l] = IF @ > 0 THEN @ - 1 ELSE 0]

\* (variant)
lorasUpdater_ForgetsWaiting ==
  /\ Took("loras")
  /\ LET m == Head(chan["loras"]) IN
     /\ waitingLoras' =
          IF m.state = "waiting" THEN incrementLoraRefCount(waitingLoras, m.name)
          ELSE waitingLoras
     /\ runningLoras' =
          CASE m.state = "running" -> incrementLoraRefCount(runningLoras, m.name)
            [] m.state = "done"    -> decrementLoraRefCount(runningLoras, m.name)
            [] OTHER               -> runningLoras
  /\ UNCHANGED <<request, lost, count, gauge, ttft>>

\* lorasUpdater: one goroutine for the waiting and the running LoRAs.
lorasUpdater ==
  /\ Took("loras")
  /\ LET m == Head(chan["loras"]) IN
     /\ waitingLoras' =
          CASE m.state = "waiting" -> incrementLoraRefCount(waitingLoras, m.name)
            [] m.state = "running" -> decrementLoraRefCount(waitingLoras, m.name)
            [] OTHER               -> waitingLoras
     /\ runningLoras' =
          CASE m.state = "running" -> incrementLoraRefCount(runningLoras, m.name)
            [] m.state = "done"    -> decrementLoraRefCount(runningLoras, m.name)
            [] OTHER               -> runningLoras
  /\ UNCHANGED <<request, lost, count, gauge, ttft>>
=============================================================================
