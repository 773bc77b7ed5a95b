------------------------------ MODULE Scheduler ------------------------------
(***************************************************************************)
(* The request scheduler of one simulator instance (pkg/simulator):        *)
(*                                                                         *)
(*   HandleRequest     splits a call into sub-requests, one per choice, and *)
(*                     pushes them to the newRequests channel;             *)
(*   processing        the single goroutine that matches requests, workers *)
(*                     and LoRA slots;                                     *)
(*   waitForRequests   one goroutine per worker;                           *)
(*   lora.go           the LoRA reference counts and slots;                *)
(*   Load/UnloadLoraAdaptor   the admin endpoints, concurrent with all.    *)
(*                                                                         *)
(* Go channels are sequences with a capacity.  A send with `ch <- x'        *)
(* blocks while the channel is full (a guard); common.WriteToChannel never *)
(* blocks and drops the value instead.                                     *)
(***************************************************************************)
EXTENDS Integers, Sequences, FiniteSets, SequencesExt

CONSTANTS
  Calls,          \* client calls (HTTP or gRPC requests)
  MaxChoices,     \* bound on the sub-requests of one call
  Workers,        \* the workers; Cardinality(Workers) is --max-num-seqs
  Loras,          \* names of LoRA adaptors
  LoraModules,    \* --lora-modules: the adaptors available from the start
  Base,           \* the base model
  MaxLoras,       \* --max-loras
  QueueCapacity,  \* --max-waiting-queue-length
  MaxAdmin,       \* bound on the adaptors loaded and unloaded by the admin
  None            \* "no request", "no worker", "free slot"

ASSUME SchedulerAssumption ==
  /\ IsFiniteSet(Workers) /\ Workers # {}
  /\ IsFiniteSet(Loras)
  /\ Base \notin Loras
  /\ MaxChoices \in Nat \ {0}
  /\ MaxLoras \in Nat \ {0}
  /\ QueueCapacity \in Nat
  /\ MaxAdmin \in Nat
  /\ LoraModules \subseteq Loras
  /\ None \notin Workers /\ None \notin Loras

VARIABLES
  model,           \* call -> displayed model of its sub-requests
  choices,         \* call -> number of sub-requests, 0 while no call is open
  sent,            \* call -> sub-requests HandleRequest has pushed or rejected
  wg,              \* call -> WaitGroup counter
  closed,          \* call -> its response channel is closed
  answer,          \* call -> choice -> what was written to the response channel
  newRequests,     \* channel
  waitingQueue,    \* list, guarded by queueLock
  freeWorkers,     \* channel
  reqChan,         \* worker -> channel of capacity 1
  phase,           \* worker -> where its goroutine is
  running,         \* worker -> request it processes
  workerFinished,  \* channel
  pc,              \* where the processing goroutine is
  current,         \* its local variables: request and worker in hand
  adaptors,        \* loraAdaptors: the adaptors an admin made available
  loadedLoras,     \* map LoRA -> reference count
  loraIDs,         \* slot -> LoRA
  loraRemovable,   \* channel of tokens, as the number of tokens in it
  unloads          \* number of unload operations so far

callVars  == <<model, choices, sent, wg, closed, answer>>
procVars  == <<pc, current>>
workVars  == <<reqChan, phase, running>>
loraVars  == <<loadedLoras, loraIDs, loraRemovable>>
adminVars == <<adaptors, unloads>>
vars == <<callVars, newRequests, waitingQueue, freeWorkers, workVars,
          workerFinished, procVars, loraVars, adminVars>>

MaxNumSeqs == Cardinality(Workers)
Models     == Loras \cup {Base}
Choice     == 1 .. MaxChoices

\* A requestContext: the call it belongs to, its choiceIdx, its displayed model.
Requests == [call : Calls, idx : Choice, model : Models]

\* The capacity of the newRequests channel.
NewCapacity == 2 * MaxNumSeqs + QueueCapacity

------------------------------------------------------------------------------
(* LoRA bookkeeping *)

isLora(m) == m \in adaptors

loraIsLoaded(m) == isLora(m) => m \in DOMAIN loadedLoras

\* (variant) busy LoRAs may be vacated too.
Removable_Busy == DOMAIN loadedLoras

Removable == {l \in DOMAIN loadedLoras : loadedLoras[l] = 0}

\* loadLora returns true: there is a slot for m, or one that can be vacated.
canLoadLora(m) ==
  \/ loraIsLoaded(m)
  \/ Cardinality(DOMAIN loadedLoras) < MaxLoras
  \/ Removable # {}

\* counts[m] += d on a Go map, where a missing key counts as 0.
AddTo(counts, m, d) ==
  [l \in DOMAIN counts \cup {m} |->
     (IF l \in DOMAIN counts THEN counts[l] ELSE 0) + (IF l = m THEN d ELSE 0)]

\* The first slot that holds m or is free is (re)assigned to m.
assignLoraID(ids, m) ==
  [i \in DOMAIN ids |->
     IF ids[i] = None /\ \A j \in 1 .. (i-1) : ids[j] \notin {m, None}
     THEN m ELSE ids[i]]

\* (variant) the slot of a vacated LoRA is not freed.
freeLoraID_Kept(ids, m) == ids

freeLoraID(ids, m) ==
  [i \in DOMAIN ids |->
     IF ids[i] = m /\ \A j \in 1 .. (i-1) : ids[j] # m THEN None ELSE ids[i]]

\* loadLora when it returns true.  Which idle LoRA is vacated depends on Go's
\* map iteration order.
loadLora(m) ==
  \/ /\ ~isLora(m)
     /\ UNCHANGED <<loadedLoras, loraIDs>>
  \/ /\ isLora(m)
     /\ \/ m \in DOMAIN loadedLoras
        \/ Cardinality(DOMAIN loadedLoras) < MaxLoras
     /\ loadedLoras' = AddTo(loadedLoras, m, 1)
     /\ loraIDs' = assignLoraID(loraIDs, m)
  \/ /\ isLora(m)
     /\ m \notin DOMAIN loadedLoras
     /\ Cardinality(DOMAIN loadedLoras) >= MaxLoras
     /\ \E l \in Removable :
          /\ loadedLoras' =
               AddTo([k \in DOMAIN loadedLoras \ {l} |-> loadedLoras[k]], m, 1)
          /\ loraIDs' = assignLoraID(freeLoraID(loraIDs, l), m)

\* (variant) a request for a loaded LoRA is not counted.
incrementLora_Uncounted(m) == UNCHANGED loadedLoras

incrementLora(m) ==
  loadedLoras' = IF isLora(m) THEN AddTo(loadedLoras, m, 1) ELSE loadedLoras

\* (variant) the last user leaves no token.
decrementLora_Silent(m) ==
  /\ loadedLoras' = IF isLora(m) THEN AddTo(loadedLoras, m, -1) ELSE loadedLoras
  /\ UNCHANGED loraRemovable

\* The last user of a LoRA leaves a token in loraRemovable, unless it is full.
decrementLora(m) ==
  IF isLora(m)
  THEN LET counts == AddTo(loadedLoras, m, -1) IN
       /\ loadedLoras' = counts
       /\ loraRemovable' = IF counts[m] <= 0 /\ loraRemovable < MaxNumSeqs
                           THEN loraRemovable + 1 ELSE loraRemovable
  ELSE UNCHANGED <<loadedLoras, loraRemovable>>

------------------------------------------------------------------------------
(* HandleRequest: runs in the goroutine of the HTTP or gRPC handler *)

\* Write the only or final message for a sub-request and leave the WaitGroup.
Reject(r) ==
  /\ answer' = [answer EXCEPT ![r.call][r.idx] = "rejected"]
  /\ wg' = [wg EXCEPT ![r.call] = @ - 1]

\* The call passes validation and is split into n sub-requests.  Failure
\* injection, an unknown model and failed validation return before any state
\* is touched.
Call(c, m, n) ==
  /\ choices[c] = 0
  /\ m \in adaptors \cup {Base}
  /\ model' = [model EXCEPT ![c] = m]
  /\ choices' = [choices EXCEPT ![c] = n]
  /\ wg' = [wg EXCEPT ![c] = n]
  /\ UNCHANGED <<sent, closed, answer, newRequests, waitingQueue, freeWorkers,
                 workVars, workerFinished, procVars, loraVars, adminVars>>

\* One iteration of the loop over the sub-requests.
Submit(c) ==
  /\ sent[c] < choices[c]
  /\ sent' = [sent EXCEPT ![c] = @ + 1]
  /\ LET r == [call |-> c, idx |-> sent[c] + 1, model |-> model[c]] IN
     IF Len(newRequests) < NewCapacity
     THEN newRequests' = Append(newRequests, r) /\ UNCHANGED <<wg, answer>>
     ELSE Reject(r) /\ UNCHANGED newRequests
  /\ UNCHANGED <<model, choices, closed, waitingQueue, freeWorkers, workVars,
                 workerFinished, procVars, loraVars, adminVars>>

\* The watcher goroutine, started after the loop: wg.Wait(), close(respChan).
CloseChannel(c) ==
  /\ choices[c] > 0 /\ sent[c] = choices[c]
  /\ ~closed[c]
  /\ wg[c] = 0
  /\ closed' = [closed EXCEPT ![c] = TRUE]
  /\ UNCHANGED <<model, choices, sent, wg, answer, newRequests, waitingQueue,
                 freeWorkers, workVars, workerFinished, procVars, loraVars,
                 adminVars>>

------------------------------------------------------------------------------
(* processing: one select case at a time, by a single goroutine *)

Idle == [request |-> None, worker |-> None, then |-> "select"]

\* common.WriteToChannel(worker.reqChan, r): dropped if the channel is full.
SendToWorker(w, r) ==
  reqChan' = IF Len(reqChan[w]) < 1
             THEN [reqChan EXCEPT ![w] = Append(@, r)] ELSE reqChan

\* s.freeWorkers <- worker blocks while the channel is full.
FreeWorker(w) ==
  /\ Len(freeWorkers) < MaxNumSeqs
  /\ freeWorkers' = Append(freeWorkers, w)

\* (variant) the queue counts as full one request early.
addRequestToQueue_Early(r) ==
  IF Len(waitingQueue) + 1 >= QueueCapacity
  THEN Reject(r) /\ UNCHANGED waitingQueue
  ELSE waitingQueue' = Append(waitingQueue, r) /\ UNCHANGED <<wg, answer>>

addRequestToQueue(r) ==
  IF Len(waitingQueue) >= QueueCapacity
  THEN Reject(r) /\ UNCHANGED waitingQueue
  ELSE waitingQueue' = Append(waitingQueue, r) /\ UNCHANGED <<wg, answer>>

\* case completedReq := <-s.workerFinished
ReceiveFinished ==
  /\ pc = "select" /\ workerFinished # <<>>
  /\ LET done == Head(workerFinished) IN
     /\ decrementLora(done.model)
     /\ current' = [Idle EXCEPT !.worker = done.worker]
  /\ workerFinished' = Tail(workerFinished)
  /\ pc' = "find"
  /\ UNCHANGED <<callVars, newRequests, waitingQueue, freeWorkers, workVars,
                 loraIDs, adminVars>>

\* case <-s.Context.loras.loraRemovable.Channel
ReceiveRemovable ==
  /\ pc = "select" /\ loraRemovable > 0
  /\ loraRemovable' = loraRemovable - 1
  /\ pc' = "loop"
  /\ UNCHANGED <<callVars, newRequests, waitingQueue, freeWorkers, workVars,
                 workerFinished, current, loadedLoras, loraIDs, adminVars>>

\* The loop of that case: take a free worker and look for a request, or stop.
NextFreeWorker ==
  /\ pc = "loop"
  /\ IF freeWorkers = <<>>
     THEN pc' = "select" /\ UNCHANGED <<current, freeWorkers>>
     ELSE /\ current' = [Idle EXCEPT !.worker = Head(freeWorkers), !.then = "loop"]
          /\ freeWorkers' = Tail(freeWorkers)
          /\ pc' = "find"
  /\ UNCHANGED <<callVars, newRequests, waitingQueue, workVars, workerFinished,
                 loraVars, adminVars>>

\* The list element i is removed from the waiting queue.
\* (variant) it is not.
RemoveFromQueue_Kept(i) == UNCHANGED waitingQueue

RemoveFromQueue(i) == waitingQueue' = RemoveAt(waitingQueue, i)

\* dequeue, first pass: the first request whose LoRA is loaded leaves the queue.
DequeueLoaded ==
  /\ pc = "find"
  /\ \E i \in DOMAIN waitingQueue :
       /\ loraIsLoaded(waitingQueue[i].model)
       /\ \A j \in 1 .. (i-1) : ~loraIsLoaded(waitingQueue[j].model)
       /\ RemoveFromQueue(i)
       /\ current' = [current EXCEPT !.request = waitingQueue[i]]
  /\ pc' = "increment"
  /\ UNCHANGED <<callVars, newRequests, freeWorkers, workVars, workerFinished,
                 loraVars, adminVars>>

\* ... its LoRA is counted, in a second critical section, and it is dispatched.
IncrementAndDispatch ==
  /\ pc = "increment"
  /\ incrementLora(current.request.model)
  /\ SendToWorker(current.worker, current.request)
  /\ pc' = current.then
  /\ current' = Idle
  /\ UNCHANGED <<callVars, newRequests, waitingQueue, freeWorkers, phase,
                 running, workerFinished, loraIDs, loraRemovable, adminVars>>

\* dequeue, second pass: the first request whose LoRA can be loaded.
DequeueLoadable ==
  /\ pc = "find"
  /\ \A i \in DOMAIN waitingQueue : ~loraIsLoaded(waitingQueue[i].model)
  /\ \E i \in DOMAIN waitingQueue :
       /\ canLoadLora(waitingQueue[i].model)
       /\ \A j \in 1 .. (i-1) : ~canLoadLora(waitingQueue[j].model)
       /\ loadLora(waitingQueue[i].model)
       /\ SendToWorker(current.worker, waitingQueue[i])
       /\ RemoveFromQueue(i)
  /\ pc' = current.then
  /\ current' = Idle
  /\ UNCHANGED <<callVars, newRequests, freeWorkers, phase, running,
                 workerFinished, loraRemovable, adminVars>>

\* (variant) the worker is not put back.
DequeueNothing_LostWorker ==
  /\ pc = "find"
  /\ \A i \in DOMAIN waitingQueue : ~canLoadLora(waitingQueue[i].model)
  /\ pc' = "select"
  /\ current' = Idle
  /\ UNCHANGED <<callVars, newRequests, waitingQueue, freeWorkers, workVars,
                 workerFinished, loraVars, adminVars>>

\* dequeue found nothing: the worker is free, and the loop is left.
DequeueNothing ==
  /\ pc = "find"
  /\ \A i \in DOMAIN waitingQueue : ~canLoadLora(waitingQueue[i].model)
  /\ FreeWorker(current.worker)
  /\ pc' = "select"
  /\ current' = Idle
  /\ UNCHANGED <<callVars, newRequests, waitingQueue, workVars, workerFinished,
                 loraVars, adminVars>>

\* case reqCtx := <-s.newRequests.Channel, up to getFreeWorker
ReceiveNew ==
  /\ pc = "select" /\ newRequests # <<>>
  /\ newRequests' = Tail(newRequests)
  /\ IF freeWorkers = <<>>
     THEN /\ current' = [Idle EXCEPT !.request = Head(newRequests)]
          /\ UNCHANGED freeWorkers
     ELSE /\ current' = [Idle EXCEPT !.request = Head(newRequests),
                                     !.worker = Head(freeWorkers)]
          /\ freeWorkers' = Tail(freeWorkers)
  /\ pc' = "admit"
  /\ UNCHANGED <<callVars, waitingQueue, workVars, workerFinished, loraVars,
                 adminVars>>

AdmitNoWorker ==
  /\ pc = "admit" /\ current.worker = None
  /\ addRequestToQueue(current.request)
  /\ pc' = "select" /\ current' = Idle
  /\ UNCHANGED <<model, choices, sent, closed, newRequests, freeWorkers, workVars,
                 workerFinished, loraVars, adminVars>>

AdmitNoLora ==
  /\ pc = "admit" /\ current.worker # None
  /\ ~canLoadLora(current.request.model)
  /\ FreeWorker(current.worker)
  /\ addRequestToQueue(current.request)
  /\ pc' = "select" /\ current' = Idle
  /\ UNCHANGED <<model, choices, sent, closed, newRequests, workVars,
                 workerFinished, loraVars, adminVars>>

AdmitDispatch ==
  /\ pc = "admit" /\ current.worker # None
  /\ canLoadLora(current.request.model)
  /\ loadLora(current.request.model)
  /\ SendToWorker(current.worker, current.request)
  /\ pc' = "select" /\ current' = Idle
  /\ UNCHANGED <<callVars, newRequests, waitingQueue, freeWorkers, phase, running,
                 workerFinished, loraRemovable, adminVars>>

------------------------------------------------------------------------------
(* waitForRequests: one goroutine per worker *)

TakeRequest(w) ==
  /\ phase[w] = "wait" /\ reqChan[w] # <<>>
  /\ running' = [running EXCEPT ![w] = Head(reqChan[w])]
  /\ reqChan' = [reqChan EXCEPT ![w] = Tail(@)]
  /\ phase' = [phase EXCEPT ![w] = "process"]
  /\ UNCHANGED <<callVars, newRequests, waitingQueue, freeWorkers,
                 workerFinished, procVars, loraVars, adminVars>>

\* processRequest writes the response (or handleRequest's error).
Respond(w) ==
  /\ phase[w] = "process"
  /\ answer' = [answer EXCEPT ![running[w].call][running[w].idx] = "answered"]
  /\ phase' = [phase EXCEPT ![w] = "respond"]
  /\ UNCHANGED <<model, choices, sent, wg, closed, newRequests, waitingQueue,
                 freeWorkers, reqChan, running, workerFinished, procVars,
                 loraVars, adminVars>>

\* The deferred onResponseProcessingFinished ends in signalDone.
onResponseProcessingFinished(w) ==
  /\ phase[w] = "respond"
  /\ wg' = [wg EXCEPT ![running[w].call] = @ - 1]
  /\ phase' = [phase EXCEPT ![w] = "report"]
  /\ UNCHANGED <<model, choices, sent, closed, answer, newRequests, waitingQueue,
                 freeWorkers, reqChan, running, workerFinished, procVars,
                 loraVars, adminVars>>

\* w.finishedChan <- &requestCompleted{...} blocks while the channel is full.
ReportFinished(w) ==
  /\ phase[w] = "report"
  /\ Len(workerFinished) < MaxNumSeqs
  /\ workerFinished' =
       Append(workerFinished, [worker |-> w, model |-> running[w].model])
  /\ running' = [running EXCEPT ![w] = None]
  /\ phase' = [phase EXCEPT ![w] = "wait"]
  /\ UNCHANGED <<callVars, newRequests, waitingQueue, freeWorkers, reqChan,
                 procVars, loraVars, adminVars>>

------------------------------------------------------------------------------
(* The admin endpoints: they change the set of adaptors and nothing else;
   loading one that is there, or unloading one that is not, changes nothing *)

\* The adaptors loaded and unloaded so far.
AdminSteps == 2 * unloads + Cardinality(adaptors) - Cardinality(LoraModules)

LoadLoraAdaptor(l) ==
  /\ l \notin adaptors /\ AdminSteps < MaxAdmin
  /\ adaptors' = adaptors \cup {l}
  /\ UNCHANGED <<callVars, newRequests, waitingQueue, freeWorkers, workVars,
                 workerFinished, procVars, loraVars, unloads>>

UnloadLoraAdaptor(l) ==
  /\ l \in adaptors /\ AdminSteps < MaxAdmin
  /\ adaptors' = adaptors \ {l}
  /\ unloads' = unloads + 1
  /\ UNCHANGED <<callVars, newRequests, waitingQueue, freeWorkers, workVars,
                 workerFinished, procVars, loraVars>>

------------------------------------------------------------------------------
Init ==
  /\ model = [c \in Calls |-> Base]
  /\ choices = [c \in Calls |-> 0]
  /\ sent = [c \in Calls |-> 0]
  /\ wg = [c \in Calls |-> 0]
  /\ closed = [c \in Calls |-> FALSE]
  /\ answer = [c \in Calls |-> [i \in Choice |-> "none"]]
  /\ newRequests = <<>>
  /\ waitingQueue = <<>>
  /\ freeWorkers = SetToSeq(Workers)
  /\ reqChan = [w \in Workers |-> <<>>]
  /\ phase = [w \in Workers |-> "wait"]
  /\ running = [w \in Workers |-> None]
  /\ workerFinished = <<>>
  /\ pc = "select"
  /\ current = Idle
  /\ adaptors = LoraModules
  /\ loadedLoras = [l \in {} |-> 0]
  /\ loraIDs = [i \in 1 .. MaxLoras |-> None]
  /\ loraRemovable = 0
  /\ unloads = 0

Processing ==
  \/ ReceiveFinished \/ ReceiveRemovable \/ NextFreeWorker
  \/ DequeueLoaded \/ IncrementAndDispatch \/ DequeueLoadable \/ DequeueNothing
  \/ ReceiveNew \/ AdmitNoWorker \/ AdmitNoLora \/ AdmitDispatch

Worker(w) ==
  \/ TakeRequest(w)
  \/ Respond(w)
  \/ onResponseProcessingFinished(w)
  \/ ReportFinished(w)

Admin == \E l \in Loras : LoadLoraAdaptor(l) \/ UnloadLoraAdaptor(l)

Next ==
  \/ \E c \in Calls :
       \/ \E m \in Models, n \in Choice : Call(c, m, n)
       \/ Submit(c)
       \/ CloseChannel(c)
  \/ Processing
  \/ \E w \in Workers : Worker(w)
  \/ Admin

Spec == Init /\ [][Next]_vars

\* Every goroutine that can take a step eventually does.  Clients and the admin
\* owe nothing.
Fairness ==
  /\ WF_vars(Processing)
  /\ \A w \in Workers : WF_vars(Worker(w))
  /\ \A c \in Calls : WF_vars(Submit(c)) /\ WF_vars(CloseChannel(c))

FairSpec == Spec /\ Fairness

------------------------------------------------------------------------------
(* Where a worker or a request is *)

Live(w) == phase[w] \in {"process", "respond"}

\* The ways in which worker w is accounted for.
WorkerPlaces(w) ==
  {<<"free", i>> : i \in {j \in DOMAIN freeWorkers : freeWorkers[j] = w}}
  \cup {<<"finished", i>> :
          i \in {j \in DOMAIN workerFinished : workerFinished[j].worker = w}}
  \cup {<<"channel", i>> : i \in DOMAIN reqChan[w]}
  \cup (IF phase[w] # "wait" THEN {<<"busy", 1>>} ELSE {})
  \cup (IF current.worker = w THEN {<<"hand", 1>>} ELSE {})

IsSub(r, c, i) == r # None /\ r.call = c /\ r.idx = i

\* The places that hold sub-request i of call c.
RequestPlaces(c, i) ==
  {<<"new", j>> : j \in {k \in DOMAIN newRequests : IsSub(newRequests[k], c, i)}}
  \cup {<<"queue", j>> :
          j \in {k \in DOMAIN waitingQueue : IsSub(waitingQueue[k], c, i)}}
  \cup {<<"channel", w>> :
          w \in {v \in Workers :
                   \E j \in DOMAIN reqChan[v] : IsSub(reqChan[v][j], c, i)}}
  \cup {<<"busy", w>> : w \in {v \in Workers : Live(v) /\ IsSub(running[v], c, i)}}
  \cup (IF IsSub(current.request, c, i) THEN {<<"hand", 1>>} ELSE {})

\* Sub-requests of call c that have not left its WaitGroup.
Pending(c) ==
  {i \in 1 .. choices[c] : i > sent[c] \/ RequestPlaces(c, i) # {}}

\* Workers whose current or just finished request is counted for LoRA l.
InFlight(l) ==
  {w \in Workers :
     \/ \E i \in DOMAIN reqChan[w] : reqChan[w][i].model = l
     \/ phase[w] # "wait" /\ running[w].model = l
     \/ \E i \in DOMAIN workerFinished :
          workerFinished[i] = [worker |-> w, model |-> l]}

LoraCount(l) == IF l \in DOMAIN loadedLoras THEN loadedLoras[l] ELSE 0

------------------------------------------------------------------------------
(* Properties *)

\* Nothing is lost or duplicated.  Each worker is in exactly one place (free, in the
\* hand of processing(), handed a request, busy, in workerFinished), so that a request
\* sent to it never finds its reqChan full.  A sub-request without its final answer is
\* in exactly one place, one that has it is at most with the worker that answered, and
\* the WaitGroup counts exactly those that have not called signalDone.  Hence nobody
\* writes to a response channel that the watcher has closed (which would panic).
Conservation ==
  /\ \A w \in Workers : Cardinality(WorkerPlaces(w)) = 1
  /\ \A c \in Calls :
       /\ \A i \in Choice :
            /\ Cardinality(RequestPlaces(c, i)) <= 1
            /\ i <= sent[c] /\ answer[c][i] = "none" => RequestPlaces(c, i) # {}
       /\ wg[c] = Cardinality(Pending(c))
       /\ closed[c] => Pending(c) = {} /\ \A i \in 1 .. choices[c] : answer[c][i] # "none"

\* The benchmark scripts refuse to start unless their prompts fit into the workers and
\* the waiting queue together.  That is enough: base model requests that fit, sent at
\* once and in any order, are all answered, although processing() looks at freeWorkers
\* while finished workers still wait in workerFinished.
AllAtOnceFits ==
  (/\ SumFunction(choices) <= MaxNumSeqs + QueueCapacity
   /\ \A c \in Calls : model[c] = Base)
    => \A c \in Calls, i \in Choice : answer[c][i] # "rejected"

\* loadedLoras: "lora adapter name -> reference count (number of currently running
\* requests)".  The count of an available LoRA is the number of workers that hold or
\* have just finished one of its requests, and the slots hold exactly the loaded
\* LoRAs, each once: at most MaxLoras are loaded and assignLoraID never fails.
\* All this as long as no adaptor is unloaded: decrementLora skips the request of an
\* adaptor that is gone, and counts down one that came back uncounted.
LoraAccounting ==
  unloads = 0 =>
    /\ \A l \in adaptors : LoraCount(l) = Cardinality(InFlight(l))
    /\ {loraIDs[i] : i \in 1 .. MaxLoras} \ {None} = DOMAIN loadedLoras
    /\ \A i, j \in 1 .. MaxLoras :
         loraIDs[i] = loraIDs[j] /\ loraIDs[i] # None => i = j

\* Once processing() has consumed every event it was sent, no free worker coexists
\* with a queued request that could run: a lost wake-up would show here.  (Unloading
\* an adaptor makes the requests that wait for its slot runnable and wakes nobody.)
WorkConservation ==
  unloads = 0 /\ pc = "select" /\ loraRemovable = 0 /\ workerFinished = <<>>
    => \/ freeWorkers = <<>>
       \/ \A i \in DOMAIN waitingQueue : ~canLoadLora(waitingQueue[i].model)

\* Every call that passed validation eventually has its response channel closed,
\* whatever mixture of LoRAs is queued, as long as no adaptor is unloaded.
EveryCallCompletes == \A c \in Calls : choices[c] > 0 ~> (closed[c] \/ unloads > 0)
=============================================================================
