--------------------------- MODULE TraceDecodeProofs ---------------------------
(***************************************************************************)
(* The decode barrier, for any number of requests of any length: as long as *)
(* the ids tell them apart, all requests inside a forward are in the same   *)
(* one, which cannot end before each of them has completed it.              *)
(***************************************************************************)
EXTENDS TraceDecode, TLAPS

\* A registered request has a decode position left, so that the request that
\* opens a step takes part in it.
RegistryInv == \A x \in Active : requests[x].position < requests[x].outputs - 1

\* A request that decodes has a token left to produce.
TokensInv ==
  \A r \in Requests :
    /\ pc[r] = "prefill" => outputs[r] >= 1
    /\ pc[r] \in {"acquire", "plain", "waitReady", "waitDone", "compute", "forward"}
         => emitted[r] < outputs[r]

DecodeInv == TypeOK /\ RegistryInv /\ TokensInv /\ SharedForward

------------------------------------------------------------------------------
(* The helpers *)

\* After a token, a request goes on with a token left, or ends.
LEMMA ContinueType ==
  ASSUME NEW r \in Requests, NEW k \in Nat, outputs[r] \in Nat
  PROVE  /\ Continue(r, k) \in {"acquire", "end"}
         /\ Continue(r, k) = "acquire" => k < outputs[r]
BY DEF Continue

\* The registry after a step of x is well-formed.
LEMMA AdvanceType ==
  ASSUME TypeOK, RegistryInv, NEW x \in Active
  PROVE  /\ DOMAIN Advance(x) \subseteq Active
         /\ \A y \in DOMAIN Advance(x) :
              /\ Advance(x)[y] \in [position : Nat, outputs : Nat]
              /\ Advance(x)[y].position < Advance(x)[y].outputs - 1
<1>1. \A y \in Active : requests[y] \in [position : Nat, outputs : Nat]
  BY DEF TypeOK
<1>2. CASE requests[x].position + 1 >= requests[x].outputs - 1
  BY <1>1, <1>2 DEF Advance, Without, RegistryInv, Active
<1>3. CASE ~(requests[x].position + 1 >= requests[x].outputs - 1)
  <2>1. Advance(x) = [requests EXCEPT ![x].position = @ + 1]
    BY <1>3 DEF Advance
  <2>2. DOMAIN Advance(x) = Active
    BY <2>1 DEF Active
  <2>3. \A y \in Active : y # x => Advance(x)[y] = requests[y]
    BY <2>1 DEF Active
  <2>4. /\ Advance(x)[x].position = requests[x].position + 1
        /\ Advance(x)[x].outputs = requests[x].outputs
        /\ Advance(x)[x] \in [position : Nat, outputs : Nat]
    BY <2>1, <1>1 DEF Active
  <2> QED
    BY <1>1, <1>3, <2>2, <2>3, <2>4 DEF RegistryInv
<1> QED
  BY <1>2, <1>3

\* When x leaves the step, it stays open for everyone else in it.
LEMMA LeaveType ==
  ASSUME TypeOK, current # None, NEW x \in current.remaining, Leave(x)
  PROVE  /\ current' = None \/ current' \in [generation : Nat,
                                             remaining : (SUBSET IDs) \ {{}}]
         /\ \A y \in current.remaining :
              y # x => /\ current' # None
                       /\ current'.generation = current.generation
                       /\ y \in current'.remaining
<1>1. current \in [generation : Nat, remaining : (SUBSET IDs) \ {{}}]
  BY DEF TypeOK
<1>2. CASE current.remaining = {x}
  BY <1>2 DEF Leave
<1>3. CASE current.remaining # {x}
  <2>1. current' = [current EXCEPT !.remaining = current.remaining \ {x}]
    BY <1>3 DEF Leave
  <2>2. /\ current'.generation = current.generation
        /\ current'.remaining = current.remaining \ {x}
        /\ current' \in [generation : Nat, remaining : (SUBSET IDs) \ {{}}]
    BY <2>1, <1>1, <1>3
  <2>3. current' # None
    BY <2>2, TraceDecodeAssumption
  <2> QED
    BY <2>2, <2>3
<1> QED
  BY <1>2, <1>3

------------------------------------------------------------------------------
(* Each action preserves the invariant *)

\* A worker takes a request; the registry does not change.
LEMMA StartStep ==
  ASSUME DecodeInv, NEW r \in Requests, NEW n \in 1 .. MaxTokens, Start(r, n)
  PROVE  DecodeInv'
<1> USE TraceDecodeAssumption
<1>1. /\ pc[r] = "idle"
      /\ pc' = [pc EXCEPT ![r] = "prefill"]
      /\ outputs' = [outputs EXCEPT ![r] = n]
      /\ UNCHANGED <<id, emitted, gen, requests, current, nextGeneration, ready, counted>>
  BY DEF Start
<1>2. TypeOK'
  BY <1>1 DEF DecodeInv, TypeOK, Active
<1>3. RegistryInv'
  BY <1>1 DEF DecodeInv, RegistryInv, Active
<1>4. TokensInv'
  BY <1>1 DEF DecodeInv, TypeOK, TokensInv
<1>5. SharedForward'
  BY <1>1 DEF DecodeInv, TypeOK, SharedForward, InForward, DistinctIDs
<1> QED
  BY <1>2, <1>3, <1>4, <1>5 DEF DecodeInv

\* After its prefill a request is registered at its first decode position, and is
\* in no forward yet.
LEMMA ActivateStep ==
  ASSUME DecodeInv, NEW r \in Requests, activate(r)
  PROVE  DecodeInv'
<1>1. /\ pc[r] = "prefill"
      /\ emitted' = [emitted EXCEPT ![r] = 1]
      /\ pc' = [pc EXCEPT ![r] = Continue(r, 1)]
      /\ UNCHANGED <<local, gen, current, nextGeneration, ready, counted>>
  BY DEF activate
<1>2. /\ id[r] \in IDs
      /\ outputs[r] \in 1 .. MaxTokens
  BY <1>1 DEF DecodeInv, TokensInv, TypeOK
<1>3. /\ Continue(r, 1) \in {"acquire", "end"}
      /\ Continue(r, 1) = "acquire" => 1 < outputs[r]
  BY <1>2, ContinueType
<1>4. /\ Active' \subseteq IDs
      /\ \A x \in Active' : /\ requests'[x] \in [position : Nat, outputs : Nat]
                            /\ requests'[x].position < requests'[x].outputs - 1
  <2>1. CASE outputs[r] <= 1
    BY <2>1 DEF activate, DecodeInv, TypeOK, RegistryInv, Active
  <2>2. CASE outputs[r] > 1
    <3>1. requests' = [x \in Active \cup {id[r]} |->
                         IF x = id[r] THEN [position |-> 0, outputs |-> outputs[r]]
                         ELSE requests[x]]
      BY <2>2, <1>2 DEF activate
    <3>2. Active' = Active \cup {id[r]}
      BY <3>1 DEF Active
    <3> QED
      BY <1>2, <2>2, <3>1, <3>2 DEF DecodeInv, TypeOK, RegistryInv
  <2> QED
    BY <1>2, <2>1, <2>2
<1>5. TypeOK'
  <2>1. pc' \in [Requests -> {"idle", "prefill", "acquire", "plain", "waitReady",
                              "waitDone", "compute", "forward", "end", "finished"}]
    BY <1>1, <1>3 DEF DecodeInv, TypeOK
  <2>2. emitted' \in [Requests -> 0 .. MaxTokens]
    <3>1. 1 \in 0 .. MaxTokens
      BY <1>2, TraceDecodeAssumption
    <3> QED
      BY <1>1, <3>1 DEF DecodeInv, TypeOK
  <2> QED
    BY <1>1, <1>4, <2>1, <2>2 DEF DecodeInv, TypeOK, local
<1>6. TokensInv'
  BY <1>1, <1>2, <1>3 DEF DecodeInv, TypeOK, TokensInv, local
<1>7. SharedForward'
  BY <1>1, <1>3 DEF DecodeInv, TypeOK, SharedForward, InForward, DistinctIDs, local
<1> QED
  BY <1>4, <1>5, <1>6, <1>7 DEF DecodeInv, RegistryInv

\* The actions of acquireDecodeStep that leave the registry alone, and the waits.
LEMMA WaitStep ==
  ASSUME DecodeInv, NEW r \in Requests,
         \/ AcquireInactive(r) \/ AcquireJoin(r) \/ AcquireWait(r)
         \/ CloseReady(r) \/ StepReady(r) \/ StepDone(r)
  PROVE  DecodeInv'
<1>1. /\ UNCHANGED <<local, emitted, requests, current, nextGeneration, counted>>
      /\ gen' \in [Requests -> Nat]
      /\ \A s \in Requests : s # r => gen'[s] = gen[s]
      /\ ready' \subseteq Nat
  <2> USE DEF DecodeInv, TypeOK
  <2>1. CASE AcquireInactive(r)
    BY <2>1 DEF AcquireInactive
  <2>2. CASE AcquireJoin(r)
    BY <2>2 DEF AcquireJoin
  <2>3. CASE AcquireWait(r)
    BY <2>3 DEF AcquireWait
  <2>4. CASE CloseReady(r)
    <3>1. gen[r] \in Nat
      OBVIOUS
    <3> QED
      BY <2>4, <3>1 DEF CloseReady
  <2>5. CASE StepReady(r) \/ StepDone(r)
    BY <2>5 DEF StepReady, StepDone
  <2> QED
    BY <2>1, <2>2, <2>3, <2>4, <2>5
<1>2. PICK place \in {"acquire", "plain", "waitReady", "waitDone", "compute", "forward"} :
        pc' = [pc EXCEPT ![r] = place]
  BY DEF AcquireInactive, AcquireJoin, AcquireWait, CloseReady, StepReady, StepDone
<1>3. pc[r] \in {"acquire", "plain", "waitReady", "waitDone", "compute", "forward"}
  BY DEF AcquireInactive, AcquireJoin, AcquireWait, CloseReady, StepReady, StepDone
<1>4. DistinctIDs /\ InForward(r)' =>
        /\ current # None
        /\ current.generation = gen'[r]
        /\ id[r] \in current.remaining
  <2> SUFFICES ASSUME DistinctIDs, InForward(r)'
               PROVE  /\ current # None
                      /\ current.generation = gen'[r]
                      /\ id[r] \in current.remaining
    OBVIOUS
  <2>1. CASE AcquireJoin(r)
    BY <2>1 DEF AcquireJoin, DecodeInv, TypeOK
  <2>2. CASE CloseReady(r) \/ StepReady(r)
    BY <2>2 DEF CloseReady, StepReady, DecodeInv, SharedForward, InForward
  <2>3. CASE AcquireInactive(r) \/ AcquireWait(r) \/ StepDone(r)
    BY <2>3 DEF AcquireInactive, AcquireWait, StepDone, DecodeInv, TypeOK, InForward
  <2> QED
    BY <2>1, <2>2, <2>3
<1>5. TypeOK'
  BY <1>1, <1>2 DEF DecodeInv, TypeOK, Active, local
<1>6. RegistryInv'
  BY <1>1 DEF DecodeInv, RegistryInv, Active
<1>7. TokensInv'
  BY <1>1, <1>2, <1>3 DEF DecodeInv, TypeOK, TokensInv, local
<1>8. SharedForward'
  <2> SUFFICES ASSUME DistinctIDs', NEW s \in Requests, InForward(s)'
               PROVE  /\ current' # None /\ current'.generation = gen'[s]
                      /\ id'[s] \in current'.remaining
    BY DEF SharedForward
  <2>0. DistinctIDs
    BY <1>1 DEF DistinctIDs, local
  <2>1. CASE s = r
    BY <1>1, <1>4, <2>0, <2>1 DEF local
  <2>2. CASE s # r
    <3>1. InForward(s)
      BY <1>2, <2>2 DEF InForward, DecodeInv, TypeOK
    <3> QED
      BY <1>1, <2>0, <2>2, <3>1 DEF DecodeInv, SharedForward, local
  <2> QED
    BY <2>1, <2>2
<1> QED
  BY <1>5, <1>6, <1>7, <1>8 DEF DecodeInv

\* A new step is opened only when nobody is in a forward, by a participant.
LEMMA LeadStep ==
  ASSUME DecodeInv, NEW r \in Requests, AcquireLead(r)
  PROVE  DecodeInv'
<1>1. /\ pc[r] = "acquire" /\ id[r] \in Active /\ current = None
      /\ UNCHANGED <<local, emitted, requests, ready>>
  BY DEF AcquireLead
<1>2. id[r] \in Participants /\ Participants \subseteq IDs
  BY <1>1 DEF DecodeInv, RegistryInv, Participants, TypeOK
<1>3. /\ current' = [generation |-> nextGeneration, remaining |-> Participants]
      /\ nextGeneration' = nextGeneration + 1
      /\ counted' = [x \in IDs |-> IF x \in Participants
                                   THEN Append(counted[x], requests[x].position)
                                   ELSE counted[x]]
      /\ gen' = [gen EXCEPT ![r] = nextGeneration]
      /\ pc' = [pc EXCEPT ![r] = "compute"]
  BY <1>2 DEF AcquireLead
<1>4. counted' \in [IDs -> Seq(Nat)]
  <2>1. \A x \in Participants : requests[x].position \in Nat
    BY DEF DecodeInv, TypeOK, Participants
  <2> QED
    BY <1>3, <2>1 DEF DecodeInv, TypeOK
<1>5. current' \in [generation : Nat, remaining : (SUBSET IDs) \ {{}}]
  BY <1>2, <1>3 DEF DecodeInv, TypeOK
<1>6. TypeOK'
  <2>1. TypeOK
    BY DEF DecodeInv
  <2>2. /\ pc' \in [Requests -> {"idle", "prefill", "acquire", "plain", "waitReady",
                                "waitDone", "compute", "forward", "end", "finished"}]
        /\ gen' \in [Requests -> Nat] /\ nextGeneration' \in Nat
    BY <1>3, <2>1 DEF TypeOK
  <2>3. /\ id' \in [Requests -> IDs] /\ outputs' \in [Requests -> 0 .. MaxTokens]
        /\ emitted' \in [Requests -> 0 .. MaxTokens] /\ ready' \subseteq Nat
    BY <1>1, <2>1 DEF TypeOK, local
  <2>4. Active' \subseteq IDs /\ \A x \in Active' : requests'[x] \in [position : Nat, outputs : Nat]
    BY <1>1, <2>1 DEF TypeOK, Active
  <2> QED
    BY <1>4, <1>5, <2>2, <2>3, <2>4 DEF TypeOK
<1>7. RegistryInv'
  BY <1>1 DEF DecodeInv, RegistryInv, Active
<1>8. TokensInv'
  BY <1>1, <1>3 DEF DecodeInv, TypeOK, TokensInv, local
<1>9. SharedForward'
  <2> SUFFICES ASSUME DistinctIDs' PROVE SharedForward'
    BY DEF SharedForward
  <2>0. DistinctIDs
    BY <1>1 DEF DistinctIDs, local
  <2>1. \A s \in Requests : ~InForward(s)
    BY <1>1, <2>0 DEF DecodeInv, SharedForward
  <2>2. \A s \in Requests : InForward(s)' => s = r
    BY <1>3, <2>1 DEF InForward, DecodeInv, TypeOK
  <2>3. current' # None
    BY <1>5, TraceDecodeAssumption
  <2>4. gen'[r] = current'.generation /\ id'[r] \in current'.remaining
    BY <1>1, <1>2, <1>3 DEF DecodeInv, TypeOK, local
  <2> QED
    BY <2>2, <2>3, <2>4 DEF SharedForward
<1> QED
  BY <1>6, <1>7, <1>8, <1>9 DEF DecodeInv

\* A participant completes its own part of the step and nobody else's.
LEMMA CompleteStep ==
  ASSUME DecodeInv, NEW r \in Requests, completeDecodeStep(r)
  PROVE  DecodeInv'
<1> DEFINE inStep == /\ current # None /\ current.generation = gen[r]
                     /\ id[r] \in current.remaining
<1>1. /\ pc[r] = "forward"
      /\ emitted' = [emitted EXCEPT ![r] = emitted[r] + 1]
      /\ pc' = [pc EXCEPT ![r] = Continue(r, emitted[r] + 1)]
      /\ UNCHANGED <<local, gen, nextGeneration, ready, counted>>
  BY DEF completeDecodeStep
<1>2. /\ inStep => /\ Leave(id[r])
                   /\ requests' = IF id[r] \in Active THEN Advance(id[r]) ELSE requests
      /\ ~inStep => requests' = requests /\ current' = current
  BY DEF completeDecodeStep
<1>3. /\ emitted[r] \in Nat /\ outputs[r] \in 0 .. MaxTokens
      /\ emitted[r] < outputs[r] /\ id[r] \in IDs
  BY <1>1 DEF DecodeInv, TypeOK, TokensInv
<1>4. /\ Continue(r, emitted[r] + 1) \in {"acquire", "end"}
      /\ Continue(r, emitted[r] + 1) = "acquire" => emitted[r] + 1 < outputs[r]
  BY <1>3, ContinueType
<1>5. /\ Active' \subseteq IDs
      /\ \A x \in Active' : /\ requests'[x] \in [position : Nat, outputs : Nat]
                            /\ requests'[x].position < requests'[x].outputs - 1
  <2>1. CASE inStep /\ id[r] \in Active
    BY <2>1, <1>2, AdvanceType DEF DecodeInv, TypeOK, Active
  <2>2. CASE ~inStep \/ id[r] \notin Active
    <3>1. requests' = requests
      BY <2>2, <1>2
    <3> QED
      BY <3>1 DEF DecodeInv, TypeOK, RegistryInv, Active
  <2> QED
    BY <2>1, <2>2
<1>6. /\ \/ current' = None
         \/ current' \in [generation : Nat, remaining : (SUBSET IDs) \ {{}}]
      /\ current # None =>
           \A y \in current.remaining :
             y # id[r] => /\ current' # None
                          /\ current'.generation = current.generation
                          /\ y \in current'.remaining
  <2>1. CASE inStep
    BY <2>1, <1>2, LeaveType DEF DecodeInv
  <2>2. CASE ~inStep
    BY <2>2, <1>2 DEF DecodeInv, TypeOK
  <2> QED
    BY <2>1, <2>2
<1>7. TypeOK'
  <2>1. emitted' \in [Requests -> 0 .. MaxTokens]
    <3>1. emitted[r] + 1 \in 0 .. MaxTokens
      BY <1>3, TraceDecodeAssumption
    <3> QED
      BY <1>1, <3>1 DEF DecodeInv, TypeOK
  <2>2. pc' \in [Requests -> {"idle", "prefill", "acquire", "plain", "waitReady",
                              "waitDone", "compute", "forward", "end", "finished"}]
    BY <1>1, <1>4 DEF DecodeInv, TypeOK
  <2> QED
    BY <1>1, <1>5, <1>6, <2>1, <2>2 DEF DecodeInv, TypeOK, local
<1>8. TokensInv'
  BY <1>1, <1>3, <1>4 DEF DecodeInv, TypeOK, TokensInv, local
<1>9. SharedForward'
  <2> SUFFICES ASSUME DistinctIDs', NEW s \in Requests, InForward(s)'
               PROVE  /\ current' # None /\ current'.generation = gen'[s]
                      /\ id'[s] \in current'.remaining
    BY DEF SharedForward
  <2>1. s # r /\ InForward(s)
    BY <1>1, <1>4 DEF InForward, DecodeInv, TypeOK
  <2>2. DistinctIDs /\ id[s] # id[r]
    BY <1>1, <2>1 DEF DistinctIDs, local
  <2>3. current # None /\ current.generation = gen[s] /\ id[s] \in current.remaining
    BY <2>1, <2>2 DEF DecodeInv, SharedForward
  <2> QED
    BY <1>1, <1>6, <2>2, <2>3 DEF local
<1> QED
  BY <1>5, <1>7, <1>8, <1>9 DEF DecodeInv, RegistryInv

\* A request outside the shared forwards produces a token and leaves the registry
\* alone.
LEMMA PlainStep ==
  ASSUME DecodeInv, NEW r \in Requests, PlainToken(r)
  PROVE  DecodeInv'
<1>1. /\ pc[r] = "plain"
      /\ emitted' = [emitted EXCEPT ![r] = emitted[r] + 1]
      /\ pc' = [pc EXCEPT ![r] = Continue(r, emitted[r] + 1)]
      /\ UNCHANGED <<local, gen, requests, current, nextGeneration, ready, counted>>
  BY DEF PlainToken
<1>2. emitted[r] \in Nat /\ outputs[r] \in 0 .. MaxTokens /\ emitted[r] < outputs[r]
  BY <1>1 DEF DecodeInv, TypeOK, TokensInv
<1>3. /\ Continue(r, emitted[r] + 1) \in {"acquire", "end"}
      /\ Continue(r, emitted[r] + 1) = "acquire" => emitted[r] + 1 < outputs[r]
  BY <1>2, ContinueType
<1>4. TypeOK'
  <2>1. emitted' \in [Requests -> 0 .. MaxTokens]
    <3>1. emitted[r] + 1 \in 0 .. MaxTokens
      BY <1>2, TraceDecodeAssumption
    <3> QED
      BY <1>1, <3>1 DEF DecodeInv, TypeOK
  <2>2. pc' \in [Requests -> {"idle", "prefill", "acquire", "plain", "waitReady",
                              "waitDone", "compute", "forward", "end", "finished"}]
    BY <1>1, <1>3 DEF DecodeInv, TypeOK
  <2> QED
    BY <1>1, <2>1, <2>2 DEF DecodeInv, TypeOK, Active, local
<1>5. RegistryInv'
  BY <1>1 DEF DecodeInv, RegistryInv, Active
<1>6. TokensInv'
  BY <1>1, <1>2, <1>3 DEF DecodeInv, TypeOK, TokensInv, local
<1>7. SharedForward'
  BY <1>1, <1>3 DEF DecodeInv, TypeOK, SharedForward, InForward, DistinctIDs, local
<1> QED
  BY <1>4, <1>5, <1>6, <1>7 DEF DecodeInv

\* A request that ends leaves the registry and the step, and nobody else does.
LEMMA DeactivateStep ==
  ASSUME DecodeInv, NEW r \in Requests, deactivate(r)
  PROVE  DecodeInv'
<1>1. /\ pc[r] = "end"
      /\ requests' = Without(id[r])
      /\ pc' = [pc EXCEPT ![r] = "finished"]
      /\ UNCHANGED <<local, emitted, gen, nextGeneration, ready, counted>>
  BY DEF deactivate
<1>2. /\ Active' \subseteq IDs
      /\ \A x \in Active' : /\ requests'[x] \in [position : Nat, outputs : Nat]
                            /\ requests'[x].position < requests'[x].outputs - 1
  BY <1>1 DEF Without, Active, DecodeInv, TypeOK, RegistryInv
<1>3. /\ \/ current' = None
         \/ current' \in [generation : Nat, remaining : (SUBSET IDs) \ {{}}]
      /\ current # None =>
           \A y \in current.remaining :
             y # id[r] => /\ current' # None
                          /\ current'.generation = current.generation
                          /\ y \in current'.remaining
  <2>1. CASE current # None /\ id[r] \in current.remaining
    BY <2>1, LeaveType DEF deactivate, DecodeInv
  <2>2. CASE ~(current # None /\ id[r] \in current.remaining)
    BY <2>2 DEF deactivate, DecodeInv, TypeOK
  <2> QED
    BY <2>1, <2>2
<1>4. TypeOK'
  BY <1>1, <1>2, <1>3 DEF DecodeInv, TypeOK, local
<1>5. TokensInv'
  BY <1>1 DEF DecodeInv, TypeOK, TokensInv, local
<1>6. SharedForward'
  <2> SUFFICES ASSUME DistinctIDs', NEW s \in Requests, InForward(s)'
               PROVE  /\ current' # None /\ current'.generation = gen'[s]
                      /\ id'[s] \in current'.remaining
    BY DEF SharedForward
  <2>1. s # r /\ InForward(s)
    BY <1>1 DEF InForward, DecodeInv, TypeOK
  <2>2. DistinctIDs /\ id[s] # id[r]
    BY <1>1, <2>1 DEF DistinctIDs, local
  <2>3. current # None /\ current.generation = gen[s] /\ id[s] \in current.remaining
    BY <2>1, <2>2 DEF DecodeInv, SharedForward
  <2> QED
    BY <1>1, <1>3, <2>2, <2>3 DEF local
<1> QED
  BY <1>2, <1>4, <1>5, <1>6 DEF DecodeInv, RegistryInv

------------------------------------------------------------------------------
(* The theorems *)

\* Every step preserves the invariant.
LEMMA DecodeStep == DecodeInv /\ [Next]_vars => DecodeInv'
<1> SUFFICES ASSUME DecodeInv, [Next]_vars PROVE DecodeInv'
  OBVIOUS
<1>1. ASSUME NEW r \in Requests, NEW n \in 1 .. MaxTokens, Start(r, n)
      PROVE  DecodeInv'
  BY <1>1, StartStep
<1>2. ASSUME NEW r \in Requests, Decode(r) PROVE DecodeInv'
  BY <1>2, ActivateStep, WaitStep, LeadStep, CompleteStep, PlainStep, DeactivateStep
  DEF Decode
<1>3. CASE UNCHANGED vars
  BY <1>3 DEF vars, local, DecodeInv, TypeOK, RegistryInv, TokensInv, SharedForward,
              InForward, DistinctIDs, Active
<1> QED
  BY <1>1, <1>2, <1>3 DEF Next

\* The registry starts empty.
LEMMA DecodeInit == Init => DecodeInv
<1> SUFFICES ASSUME Init PROVE DecodeInv
  OBVIOUS
<1>1. Active = {}
  BY DEF Init, Active
<1>2. counted \in [IDs -> Seq(Nat)]
  BY DEF Init
<1>3. TypeOK
  BY <1>1, <1>2, TraceDecodeAssumption DEF Init, TypeOK
<1> QED
  BY <1>1, <1>3 DEF Init, DecodeInv, RegistryInv, TokensInv, SharedForward, InForward

\* Types of the registry, whatever the number and length of the requests.
THEOREM DecodeTypes == Spec => []TypeOK
<1>1. DecodeInv /\ [Next]_vars => DecodeInv'
  BY DecodeStep
<1>2. DecodeInv => TypeOK
  BY DEF DecodeInv
<1> QED
  BY <1>1, <1>2, DecodeInit, PTL DEF Spec

\* acquireDecodeStep: a request cannot enter its next forward until all
\* participants have completed the current one.
THEOREM DecodeShared == Spec => []SharedForward
<1>1. DecodeInv /\ [Next]_vars => DecodeInv'
  BY DecodeStep
<1>2. DecodeInv => SharedForward
  BY DEF DecodeInv
<1> QED
  BY <1>1, <1>2, DecodeInit, PTL DEF Spec
=============================================================================
