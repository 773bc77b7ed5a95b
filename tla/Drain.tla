------------------------------- MODULE Drain ---------------------------------
(***************************************************************************)
(* Shutdown of a server (Communication.start) on top of the Scheduler.      *)
(*                                                                         *)
(* A signal sets the stopping flag, which every handler reads before it     *)
(* does anything else.  The server then polls OpenRequests until it is zero *)
(* or a deadline has passed, cancels the context of the scheduler's         *)
(* goroutines (Stop) and waits, for a bounded time, for the handlers.       *)
(***************************************************************************)
EXTENDS Scheduler

VARIABLES
  server,    \* where the goroutine of start is
  waiting,   \* its local variable of OpenRequests
  deadline,  \* drainTimeout has passed
  timedOut,  \* the drain loop was left at the deadline
  entered,   \* call -> its handler has passed the check of stopping
  exited     \* goroutines of the scheduler that have seen drainCtx.Done()

drainVars == <<server, waiting, deadline, timedOut, entered, exited>>
allVars   == <<vars, drainVars>>

Stopping  == server # "serving"
Cancelled == server \in {"shutdown", "down"}
Up        == server # "down"

------------------------------------------------------------------------------
(* Handlers *)

\* handleHTTP and Generate: a handler that reads stopping = TRUE answers 503.
Enter(c) ==
  /\ Up /\ ~Stopping
  /\ ~entered[c] /\ choices[c] = 0
  /\ entered' = [entered EXCEPT ![c] = TRUE]
  /\ UNCHANGED <<vars, server, waiting, deadline, timedOut, exited>>

\* The request does not parse, or HandleRequest returns an error.
TurnDown(c) ==
  /\ Up /\ entered[c] /\ choices[c] = 0
  /\ entered' = [entered EXCEPT ![c] = FALSE]
  /\ UNCHANGED <<vars, server, waiting, deadline, timedOut, exited>>

\* Once the context is cancelled a full newRequests is no error any more
\* (WriteToChannelWithError): the sub-request is dropped without an answer.
SubmitOrDrop(c) ==
  IF Cancelled /\ Len(newRequests) = NewCapacity
  THEN /\ sent[c] < choices[c]
       /\ sent' = [sent EXCEPT ![c] = @ + 1]
       /\ UNCHANGED <<model, choices, closed, wg, answer, newRequests, waitingQueue,
                      freeWorkers, workVars, workerFinished, procVars, loraVars,
                      adminVars>>
  ELSE Submit(c)

Handle(c) ==
  /\ Up /\ entered[c]
  /\ \/ \E m \in Models, n \in Choice : Call(c, m, n)
     \/ SubmitOrDrop(c)
     \/ CloseChannel(c)
  /\ UNCHANGED drainVars

\* The handler has read its response channel to the end.
Return(c) ==
  /\ Up /\ entered[c] /\ closed[c]
  /\ entered' = [entered EXCEPT ![c] = FALSE]
  /\ UNCHANGED <<vars, server, waiting, deadline, timedOut, exited>>

------------------------------------------------------------------------------
(* The goroutines that run under drainCtx *)

Schedule ==
  /\ Up /\ None \notin exited
  /\ Processing
  /\ UNCHANGED drainVars

Work(w) ==
  /\ Up /\ w \notin exited
  /\ Worker(w)
  /\ UNCHANGED drainVars

\* case <-ctx.Done(), which select may prefer to any other that is ready.  None
\* stands for the goroutine of processing().
ExitProcessing ==
  /\ server = "shutdown"
  /\ pc = "select" /\ None \notin exited
  /\ exited' = exited \cup {None}
  /\ UNCHANGED <<vars, server, waiting, deadline, timedOut, entered>>

ExitWorker(w) ==
  /\ server = "shutdown"
  /\ phase[w] = "wait" /\ w \notin exited
  /\ exited' = exited \cup {w}
  /\ UNCHANGED <<vars, server, waiting, deadline, timedOut, entered>>

Configure == Up /\ Admin /\ UNCHANGED drainVars

------------------------------------------------------------------------------
(* start: shutdown *)

\* case <-ctx.Done(): c.stopping.Store(true)
Signal ==
  /\ server = "serving"
  /\ server' = "waiting?"
  /\ UNCHANGED <<vars, waiting, deadline, timedOut, entered, exited>>

\* OpenRequests reads the length of the queue under queueLock ...
ReadWaiting ==
  /\ server = "waiting?"
  /\ waiting' = Len(waitingQueue)
  /\ server' = "running?"
  /\ UNCHANGED <<vars, deadline, timedOut, entered, exited>>

Open == waiting + MaxNumSeqs - Len(freeWorkers)

\* ... and later the length of freeWorkers.
\* (variant) only the queue is looked at.
ReadRunning_QueueOnly ==
  /\ server = "running?"
  /\ server' = IF waiting > 0 /\ ~deadline THEN "waiting?" ELSE "stop"
  /\ timedOut' = (waiting > 0 /\ deadline)
  /\ waiting' = 0
  /\ UNCHANGED <<vars, deadline, entered, exited>>

ReadRunning ==
  /\ server = "running?"
  /\ server' = IF Open > 0 /\ ~deadline THEN "waiting?" ELSE "stop"
  /\ timedOut' = (Open > 0 /\ deadline)
  /\ waiting' = 0
  /\ UNCHANGED <<vars, deadline, entered, exited>>

DeadlinePasses ==
  /\ server \in {"waiting?", "running?"}
  /\ ~deadline
  /\ deadline' = TRUE
  /\ UNCHANGED <<vars, server, waiting, timedOut, entered, exited>>

\* simulator.Stop: drainCancel()
Stop ==
  /\ server = "stop"
  /\ server' = "shutdown"
  /\ UNCHANGED <<vars, waiting, deadline, timedOut, entered, exited>>

\* httpServer.Shutdown returns once no connection is served, or is given up after
\* shutdownTimeout; then grpcServer.Stop and listener.Close.
Shutdown ==
  /\ server = "shutdown"
  /\ server' = "down"
  /\ UNCHANGED <<vars, waiting, deadline, timedOut, entered, exited>>

------------------------------------------------------------------------------
DrainInit ==
  /\ Init
  /\ server = "serving"
  /\ waiting = 0
  /\ deadline = FALSE
  /\ timedOut = FALSE
  /\ entered = [c \in Calls |-> FALSE]
  /\ exited = {}

Server == Signal \/ ReadWaiting \/ ReadRunning \/ DeadlinePasses \/ Stop \/ Shutdown

DrainNext ==
  \/ \E c \in Calls : Enter(c) \/ TurnDown(c) \/ Handle(c) \/ Return(c)
  \/ Schedule \/ ExitProcessing
  \/ \E w \in Workers : Work(w) \/ ExitWorker(w)
  \/ Configure
  \/ Server

DrainSpec == DrainInit /\ [][DrainNext]_allVars

\* The goroutines, the clock and the handlers that were entered all move on; a
\* signal and a client's next call need not come.
DrainFairness ==
  /\ WF_allVars(Schedule)
  /\ \A w \in Workers : WF_allVars(Work(w))
  /\ \A c \in Calls :
       /\ WF_allVars(Handle(c) \/ TurnDown(c))
       /\ WF_allVars(Return(c))
  /\ WF_allVars(ReadWaiting \/ ReadRunning \/ Stop \/ Shutdown)
  /\ WF_allVars(DeadlinePasses)

FairDrainSpec == DrainSpec /\ DrainFairness

------------------------------------------------------------------------------
(* Properties *)

\* A request that is in the queue, in a reqChan or with a worker when the drain loop
\* is about to look is answered, wherever it moves between the reads of OpenRequests
\* and whatever it waits for, unless the loop is left at the deadline.
OpenIsAnswered ==
  \A c \in Calls, i \in Choice :
    (/\ server = "waiting?"
     /\ \/ \E j \in DOMAIN waitingQueue : IsSub(waitingQueue[j], c, i)
        \/ \E w \in Workers :
             \/ IsSub(running[w], c, i)
             \/ \E j \in DOMAIN reqChan[w] : IsSub(reqChan[w][j], c, i))
      ~> (answer[c][i] = "answered" \/ timedOut)
=============================================================================
