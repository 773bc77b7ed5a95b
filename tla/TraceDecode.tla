----------------------------- MODULE TraceDecode -----------------------------
(***************************************************************************)
(* Decode of trace-bound requests (pkg/simulator/moe_trace_runtime.go):     *)
(* the registry of active trace requests and the barrier through which      *)
(* they share one modelled forward pass per decode step.                    *)
(*                                                                         *)
(* Every request is decoded by its worker goroutine; the registry's mutex   *)
(* makes each critical section one action.  Latencies are abstracted: a     *)
(* forward ends at some later moment.  Request ids may be supplied by the   *)
(* client (--enable-request-id-headers) and then need not be unique.        *)
(***************************************************************************)
EXTENDS Integers, Sequences, FiniteSets

CONSTANTS
  Requests,    \* trace-bound requests, each processed by one worker goroutine
  IDs,         \* request ids
  Assignments, \* the ids that the requests may come with
  MaxTokens,   \* bound on the output tokens of a request
  None

ASSUME TraceDecodeAssumption ==
  /\ Assignments \subseteq [Requests -> IDs]
  /\ MaxTokens \in Nat \ {0}
  /\ None \notin [generation : Nat, remaining : SUBSET IDs]

VARIABLES
  pc,              \* where each worker is
  id,              \* request -> its id, which it has from the start
  outputs,         \* request -> outputTokens of its execution
  emitted,         \* request -> tokens written to the response channel
  gen,             \* request -> generation of the step it takes part in or awaits
  requests,        \* registry: id -> [position, outputs]
  current,         \* registry: the step in progress, or None
  nextGeneration,  \* registry
  ready,           \* generations whose `ready' channel is closed
  counted          \* history: id -> decode positions counted in some forward

local == <<id, outputs>>
vars == <<pc, local, emitted, gen, requests, current, nextGeneration, ready, counted>>

Active == DOMAIN requests

Without(x) == [y \in Active \ {x} |-> requests[y]]

\* After k of its tokens, a request goes on decoding or is finished.
Continue(r, k) == IF k >= outputs[r] THEN "end" ELSE "acquire"

------------------------------------------------------------------------------
\* A worker starts simulateTraceResponseProcessing for r.
Start(r, n) ==
  /\ pc[r] = "idle"
  /\ pc' = [pc EXCEPT ![r] = "prefill"]
  /\ outputs' = [outputs EXCEPT ![r] = n]
  /\ UNCHANGED <<id, emitted, gen, requests, current, nextGeneration, ready, counted>>

\* The end of simulateTraceTTFT: activate, and the first token is written.
activate(r) ==
  /\ pc[r] = "prefill"
  /\ requests' = IF outputs[r] <= 1 THEN requests
                 ELSE [x \in Active \cup {id[r]} |->
                         IF x = id[r] THEN [position |-> 0, outputs |-> outputs[r]]
                         ELSE requests[x]]
  /\ emitted' = [emitted EXCEPT ![r] = 1]
  /\ pc' = [pc EXCEPT ![r] = Continue(r, 1)]
  /\ UNCHANGED <<local, gen, current, nextGeneration, ready, counted>>

\* acquireDecodeStep: the request is not registered (any more).
AcquireInactive(r) ==
  /\ pc[r] = "acquire" /\ id[r] \notin Active
  /\ pc' = [pc EXCEPT ![r] = "plain"]
  /\ UNCHANGED <<local, emitted, gen, requests, current, nextGeneration, ready,
                 counted>>

\* ... it takes part in the step in progress, and waits for its timing;
AcquireJoin(r) ==
  /\ pc[r] = "acquire" /\ id[r] \in Active
  /\ current # None /\ id[r] \in current.remaining
  /\ gen' = [gen EXCEPT ![r] = current.generation]
  /\ pc' = [pc EXCEPT ![r] = "waitReady"]
  /\ UNCHANGED <<local, emitted, requests, current, nextGeneration, ready, counted>>

\* ... it is not part of that step, or done with it, and waits for its end;
AcquireWait(r) ==
  /\ pc[r] = "acquire" /\ id[r] \in Active
  /\ current # None /\ id[r] \notin current.remaining
  /\ gen' = [gen EXCEPT ![r] = current.generation]
  /\ pc' = [pc EXCEPT ![r] = "waitDone"]
  /\ UNCHANGED <<local, emitted, requests, current, nextGeneration, ready, counted>>

\* decodeCountsLocked: the requests whose next route enters the forward.
Participants == {x \in Active : requests[x].position < requests[x].outputs - 1}

\* ... or it opens a step for all active requests.
AcquireLead(r) ==
  /\ pc[r] = "acquire" /\ id[r] \in Active
  /\ current = None
  /\ IF Participants = {}
     THEN /\ pc' = [pc EXCEPT ![r] = "plain"]
          /\ UNCHANGED <<gen, current, nextGeneration, counted>>
     ELSE /\ current' = [generation |-> nextGeneration, remaining |-> Participants]
          /\ nextGeneration' = nextGeneration + 1
          /\ counted' = [x \in IDs |->
                           IF x \in Participants
                           THEN Append(counted[x], requests[x].position)
                           ELSE counted[x]]
          /\ gen' = [gen EXCEPT ![r] = nextGeneration]
          /\ pc' = [pc EXCEPT ![r] = "compute"]
  /\ UNCHANGED <<local, emitted, requests, ready>>

\* The leader has computed the latency outside the lock: close(step.ready).
CloseReady(r) ==
  /\ pc[r] = "compute"
  /\ ready' = ready \cup {gen[r]}
  /\ pc' = [pc EXCEPT ![r] = "forward"]
  /\ UNCHANGED <<local, emitted, gen, requests, current, nextGeneration, counted>>

\* <-ready
StepReady(r) ==
  /\ pc[r] = "waitReady" /\ gen[r] \in ready
  /\ pc' = [pc EXCEPT ![r] = "forward"]
  /\ UNCHANGED <<local, emitted, gen, requests, current, nextGeneration, ready,
                 counted>>

\* <-done
StepDone(r) ==
  /\ pc[r] = "waitDone"
  /\ current # None => current.generation # gen[r]
  /\ pc' = [pc EXCEPT ![r] = "acquire"]
  /\ UNCHANGED <<local, emitted, gen, requests, current, nextGeneration, ready,
                 counted>>

\* (variant) the first participant to finish closes the step.
Leave_FirstCloses(x) == current' = None

\* The step without participant x; the last one closes `done'.
Leave(x) ==
  current' = IF current.remaining = {x} THEN None
             ELSE [current EXCEPT !.remaining = @ \ {x}]

\* (variant) the request leaves the registry one position early.
Advance_Early(x) ==
  IF requests[x].position + 1 >= requests[x].outputs - 2
  THEN Without(x) ELSE [requests EXCEPT ![x].position = @ + 1]

\* The registry after a decode step of x: the last position unregisters it.
Advance(x) ==
  IF requests[x].position + 1 >= requests[x].outputs - 1
  THEN Without(x) ELSE [requests EXCEPT ![x].position = @ + 1]

\* finishAt is reached: completeDecodeStep, and the next token is written.
completeDecodeStep(r) ==
  /\ pc[r] = "forward"
  /\ IF current # None /\ current.generation = gen[r] /\ id[r] \in current.remaining
     THEN /\ Leave(id[r])
          /\ requests' = IF id[r] \in Active THEN Advance(id[r]) ELSE requests
     ELSE UNCHANGED <<requests, current>>
  /\ emitted' = [emitted EXCEPT ![r] = @ + 1]
  /\ pc' = [pc EXCEPT ![r] = Continue(r, emitted[r] + 1)]
  /\ UNCHANGED <<local, gen, nextGeneration, ready, counted>>

\* Not registered: the token takes the latency of a request without a trace.
PlainToken(r) ==
  /\ pc[r] = "plain"
  /\ emitted' = [emitted EXCEPT ![r] = @ + 1]
  /\ pc' = [pc EXCEPT ![r] = Continue(r, emitted[r] + 1)]
  /\ UNCHANGED <<local, gen, requests, current, nextGeneration, ready, counted>>

\* (variant) the step in progress keeps waiting for the request.
deactivate_StaysInStep(r) ==
  /\ pc[r] = "end"
  /\ requests' = Without(id[r])
  /\ pc' = [pc EXCEPT ![r] = "finished"]
  /\ UNCHANGED <<local, emitted, gen, current, nextGeneration, ready, counted>>

\* The deferred deactivate.
deactivate(r) ==
  /\ pc[r] = "end"
  /\ requests' = Without(id[r])
  /\ IF current # None /\ id[r] \in current.remaining
     THEN Leave(id[r]) ELSE UNCHANGED current
  /\ pc' = [pc EXCEPT ![r] = "finished"]
  /\ UNCHANGED <<local, emitted, gen, nextGeneration, ready, counted>>

------------------------------------------------------------------------------
Init ==
  /\ pc = [r \in Requests |-> "idle"]
  /\ id \in Assignments
  /\ outputs = [r \in Requests |-> 0]
  /\ emitted = [r \in Requests |-> 0]
  /\ gen = [r \in Requests |-> 0]
  /\ requests = [x \in {} |-> [position |-> 0, outputs |-> 0]]
  /\ current = None
  /\ nextGeneration = 1
  /\ ready = {}
  /\ counted = [x \in IDs |-> <<>>]

Decode(r) ==
  \/ activate(r)
  \/ AcquireInactive(r) \/ AcquireJoin(r) \/ AcquireWait(r) \/ AcquireLead(r)
  \/ CloseReady(r) \/ StepReady(r) \/ StepDone(r)
  \/ completeDecodeStep(r) \/ PlainToken(r)
  \/ deactivate(r)

Next ==
  \E r \in Requests :
    \/ \E n \in 1 .. MaxTokens : Start(r, n)
    \/ Decode(r)

Spec == Init /\ [][Next]_vars

\* Each worker goroutine is scheduled; a sleep ends.
FairSpec == Spec /\ \A r \in Requests : WF_vars(Decode(r))

------------------------------------------------------------------------------
(* Properties *)

\* Types of the registry and of the workers' local state.
TypeOK ==
  /\ pc \in [Requests -> {"idle", "prefill", "acquire", "plain", "waitReady",
                          "waitDone", "compute", "forward", "end", "finished"}]
  /\ id \in [Requests -> IDs]
  /\ outputs \in [Requests -> 0 .. MaxTokens]
  /\ emitted \in [Requests -> 0 .. MaxTokens]
  /\ gen \in [Requests -> Nat]
  /\ Active \subseteq IDs
  /\ \A x \in Active : requests[x] \in [position : Nat, outputs : Nat]
  /\ \/ current = None
     \/ current \in [generation : Nat, remaining : (SUBSET IDs) \ {{}}]
  /\ nextGeneration \in Nat
  /\ ready \subseteq Nat
  /\ counted \in [IDs -> Seq(Nat)]

\* No two requests carry the same id.
DistinctIDs == \A r, s \in Requests : r # s => id[r] # id[s]

InForward(r) == pc[r] \in {"compute", "waitReady", "forward"}

\* "a request cannot enter its next forward until all participants have completed
\* the current one": all requests inside a forward are in the same one, which is
\* the step in progress, and it waits for each of them, as long as the ids tell
\* the requests apart.
SharedForward ==
  DistinctIDs =>
    \A r \in Requests :
      InForward(r) => /\ current # None
                      /\ current.generation = gen[r]
                      /\ id[r] \in current.remaining

\* Each token after the first is produced by exactly one forward, which counted
\* the route recorded for that very position: no position is skipped, counted
\* twice or out of order, and no token falls back to the untraced latency.  (Two
\* requests with one id share its positions.)
RoutesCountedOnce ==
  DistinctIDs =>
    \A r \in Requests :
      emitted[r] > 0 =>
        counted[id[r]] =
          [i \in 1 .. emitted[r] - 1 +
             (IF current # None /\ id[r] \in current.remaining THEN 1 ELSE 0) |-> i - 1]

\* The barrier never blocks a request for ever: each one gets all its tokens.
EveryRequestFinishes ==
  \A r \in Requests : pc[r] = "prefill" ~> pc[r] = "finished"
=============================================================================
