------------------------------ MODULE Experts --------------------------------
(***************************************************************************)
(* Expert placement of the MoE simulator and the forwards that use it.      *)
(*                                                                         *)
(* All requests share one moeSimulator.  A synthetic forward                *)
(* (latencyForTokens) holds stateMu throughout; a forward of a replayed     *)
(* trace takes a copy of the placement and does its EPLB step under stateMu,*)
(* and routes later on the copy.  The EPLB step records the load of the     *)
(* forward in a ring, and every Interval forwards replaces the placement    *)
(* by the D'Hondt placement of the loads in the ring.                       *)
(***************************************************************************)
EXTENDS EPLB, SequencesExt, FiniteSetsExt, Functions

CONSTANTS
  NumGPUs, NumExperts, NumLayers,
  PhysicalSlots,   \* replicas of all experts, the same number on every GPU
  TopK,            \* experts a token is routed to
  Unit,            \* loads are counted in 1/Unit of a token
  Probability,     \* expert -> popularity, in 1/Unit (powerLawProbabilities)
  Weight, Activation, Flops, Moves,       \* see Routing
  Hop,             \* interconnectLatency
  Wire,            \* time to send one unit of load to another GPU
  Transfer,        \* time to send the weights of an expert to another GPU
  SharedWeight, SharedActivation, SharedFlops, \* of the shared experts, per token
  BlockRows,       \* gemmBlockRows
  MemorySlowdown, ComputeSlowdown,        \* 1 / memoryEfficiency, ...
  KernelLaunch,
  Callers,         \* goroutines that may be in a forward of a trace at a time
  Tokens,          \* sizes of synthetic forwards
  Demands,         \* layer -> expert -> load, the forwards of traces
  Options,         \* router, useDistributedRouting, fixedPlacement
  FixedMaps,       \* slot -> expert, the layers of placement files
  MaxForwards      \* bound on the forwards of a behaviour

VARIABLES
  options,         \* the configuration of this process
  placements,      \* layer -> expert -> GPUs with a replica
  generation,      \* placementGeneration
  cache,           \* latencyCache
  call,            \* caller -> its forward between EPLB step and routing
  routed,          \* history: what the latest forward routed, and where
  forwards         \* history: number of forwards

eplbVars == <<windowVars, placements, generation>>
vars     == <<eplbVars, options, cache, call, routed, forwards>>

Slots  == 0 .. PhysicalSlots - 1
Layers == 0 .. NumLayers - 1

SlotsPerGPU == PhysicalSlots \div NumGPUs

------------------------------------------------------------------------------
(* Cutting tokens into chunks *)

\* share := count / float64(len(placement[expert]))
EqualShare(load, replicas) == [i \in 1 .. replicas |-> load \div replicas]

\* (variant) the remainder is dropped.
distributeReplicaTokens_NoRemainder(load, replicas) ==
  IF load % Unit = 0
  THEN [i \in 1 .. replicas |-> Unit * ((load \div Unit) \div replicas)]
  ELSE EqualShare(load, replicas)

\* Whole tokens stay whole: the first replicas take one more.
distributeReplicaTokens(load, replicas) ==
  IF load % Unit = 0
  THEN LET n == load \div Unit
       IN  [i \in 1 .. replicas |->
              Unit * (n \div replicas + (IF i <= n % replicas THEN 1 ELSE 0))]
  ELSE EqualShare(load, replicas)

S == INSTANCE Routing WITH Chunks <- EqualShare
T == INSTANCE Routing WITH Chunks <- distributeReplicaTokens

\* Every chunk is a whole number of units.
ASSUME UnitAssumption ==
  \A e \in S!ExpertIDs, r \in 1 .. NumGPUs, q \in 1 .. NumGPUs :
    (Probability[e] * TopK) % (r * q) = 0 /\ Unit % (r * q) = 0

------------------------------------------------------------------------------
(* Placement *)

\* Slots are contiguous by GPU, and the GPUs of an expert in slot order.
PlacementOf(physicalToLogical) ==
  [e \in S!ExpertIDs |->
     LET slots == SetToSortSeq({s \in Slots : physicalToLogical[s] = e}, <)
     IN  [i \in DOMAIN slots |-> slots[i] \div SlotsPerGPU]]

vllmInitialPlacement ==
  PlacementOf([s \in Slots |-> IF s < NumExperts THEN s ELSE (s - NumExperts) % NumExperts])

\* The expert that gains most from one more replica: the highest load per replica,
\* then the lowest ID, among those that are not on every GPU yet.
NextReplica(load, replicas) ==
  CHOOSE e \in S!ExpertIDs :
    /\ replicas[e] < NumGPUs
    /\ \A f \in S!ExpertIDs : replicas[f] < NumGPUs =>
         LET mine   == load[e] * (replicas[f] + 1)
             theirs == load[f] * (replicas[e] + 1)
         IN  mine > theirs \/ (mine = theirs /\ e <= f)

replicaCount(load) ==
  FoldLeft(LAMBDA r, i : [r EXCEPT ![NextReplica(load, r)] = @ + 1],
           [e \in S!ExpertIDs |-> 1],
           [i \in 1 .. PhysicalSlots - NumExperts |-> i])

\* (variant) GPUs are taken in order, whatever they hold.
dhondtPlaceOneLayer_RanksInOrder(load) ==
  LET replicas == replicaCount(load)
  IN  [e \in S!ExpertIDs |-> SubSeq(S!AllGPUs, 1, replicas[e])]

\* Experts with most replicas first; each takes the GPUs with most free slots.
dhondtPlaceOneLayer(load) ==
  LET replicas == replicaCount(load)
      place(acc, e) ==
        LET ranks == SubSeq(S!StableSort(S!AllGPUs, LAMBDA g : acc.used[g]), 1, replicas[e])
        IN  [placement |-> [acc.placement EXCEPT ![e] = ranks],
             used |-> [g \in S!GPUs |-> acc.used[g] + (IF Contains(ranks, g) THEN 1 ELSE 0)]]
  IN  FoldLeft(place,
               [placement |-> [e \in S!ExpertIDs |-> <<>>], used |-> [g \in S!GPUs |-> 0]],
               S!StableSort(S!AllExperts, LAMBDA e : -replicas[e])).placement

\* The checks of installFixedPlacement on the map of a layer.
ValidMap(physicalToLogical) ==
  /\ \A s, t \in Slots :
       s # t /\ physicalToLogical[s] = physicalToLogical[t]
         => s \div SlotsPerGPU # t \div SlotsPerGPU
  /\ Range(physicalToLogical) = S!ExpertIDs

------------------------------------------------------------------------------
(* The EPLB step *)

summedEPLBLogicalLoad(w, layer) ==
  [e \in S!ExpertIDs |-> SumFunction([i \in DOMAIN w |-> w[i][layer][e]])]

\* Weights that arrive at different GPUs travel in parallel, layers one by one.
replacementCost(old, new) ==
  LET inbound(l, g) == {e \in S!ExpertIDs : Contains(new[l][e], g) /\ ~Contains(old[l][e], g)}
      worst(l) == Max({Cardinality(inbound(l, g)) : g \in S!GPUs})
  IN  IF NumGPUs = 1 THEN 0
      ELSE SumFunction([l \in Layers |->
             IF worst(l) = 0 THEN 0 ELSE Hop + worst(l) * Transfer])

\* (variant) the generation is left alone.
rebalanceExperts_SameGeneration(w) ==
  /\ placements' = [l \in Layers |-> dhondtPlaceOneLayer(summedEPLBLogicalLoad(w, l))]
  /\ generation' = generation

rebalanceExperts(w) ==
  /\ placements' = [l \in Layers |-> dhondtPlaceOneLayer(summedEPLBLogicalLoad(w, l))]
  /\ generation' = generation + 1

\* advanceEPLBStep and advanceEPLBLayerCounts.  A new placement applies to the next
\* forward.
advanceEPLBStep(load) ==
  /\ Advance(load)
  /\ IF Rearranges THEN rebalanceExperts(recordEPLBLoad(load))
     ELSE UNCHANGED <<placements, generation>>

migrationLatency == replacementCost(placements, placements')
------------------------------------------------------------------------------
(* Synthetic forwards *)

SyntheticLoad(tokens) == [e \in S!ExpertIDs |-> tokens * TopK * Probability[e]]

splitCountsBySource(counts) ==
  [s \in S!GPUs |-> [e \in S!ExpertIDs |-> distributeReplicaTokens(counts[e], NumGPUs)[s + 1]]]

route(counts, placement) ==
  IF options.distributed /\ NumGPUs > 1
  THEN S!routeDistributed(options.router, splitCountsBySource(counts), placement)
  ELSE S!routeCentral(options.router, counts, placement)

\* Dispatch and combine.  Where the sources are not known they are taken to be
\* spread evenly, so that 1/NumGPUs of a load is already where it is needed.
communicationCost(s) ==
  LET remote == IF s.sent # <<>> THEN S!maxRemote(s.sent)
                ELSE (Max(Range(s.loads)) * (NumGPUs - 1)) \div NumGPUs
  IN  IF NumGPUs = 1 \/ remote = 0 THEN 0 ELSE 2 * (remote * Wire + Hop)

SyntheticLatency(tokens) ==
  SumFunction([l \in Layers |->
    LET s == route(SyntheticLoad(tokens), placements[l])
    IN  S!maxGPUCost(s) + communicationCost(s)])

\* What a forward routed: its load, the placement in force when its EPLB step was
\* done and the routing, by layer; and what it takes.
Routed(counts, placement, states, latency) ==
  [counts |-> counts, placement |-> placement, states |-> states, latency |-> latency]

\* moePrefillLatency and moeDecodeLatency call it with a number of tokens; none, no step.
latencyForTokens(tokens) ==
  /\ forwards < MaxForwards
  /\ LET counts == [l \in Layers |-> SyntheticLoad(tokens)]
         key    == <<generation, tokens>>
     IN  /\ advanceEPLBStep(counts)
         /\ IF key \in DOMAIN cache
            THEN UNCHANGED <<cache, routed>>
            ELSE /\ cache' = cache @@ (key :> SyntheticLatency(tokens))
                 /\ routed' = Routed(counts, placements,
                                [l \in Layers |-> route(counts[l], placements[l])],
                                SyntheticLatency(tokens) + migrationLatency)
  /\ forwards' = forwards + 1
  /\ UNCHANGED <<options, call>>

------------------------------------------------------------------------------
(* Forwards of replayed traces *)

traceRouteSplit(counts, placement)       == T!routeSplit(counts, placement)
traceRouteConcentrate(counts, placement) == T!routeConcentrate(counts, placement)
traceRouteHeuristic(counts, placement)   == T!routeHeuristic(counts, placement)

\* Assignments with a recorded source stay with it; the others are dealt out.
traceCountsBySource(counts, sources) ==
  LET covered(e) == SumFunction([s \in S!GPUs |-> sources[s][e]])
  IN  [s \in S!GPUs |-> [e \in S!ExpertIDs |->
         sources[s][e] + distributeReplicaTokens(counts[e] - covered(e), NumGPUs)[s + 1]]]

traceRouteCentral(counts, placement) ==
  CASE options.router = "concentrate" -> traceRouteConcentrate(counts, placement)
    [] options.router = "heuristic"   -> traceRouteHeuristic(counts, placement)
    [] OTHER                          -> traceRouteSplit(counts, placement)

traceRouteDistributed(counts, placement, sources) ==
  LET bySource == traceCountsBySource(counts, sources)
  IN  T!aggregateDistributedRouting(
        [s \in S!GPUs |-> traceRouteCentral(bySource[s], placement)])

traceRoute(counts, placement, sources) ==
  IF options.distributed /\ NumGPUs > 1
  THEN traceRouteDistributed(counts, placement, sources)
  ELSE traceRouteCentral(counts, placement)

\* Rows of load / parts, in whole blocks.
paddedRows(load, parts) ==
  IF BlockRows = 0 THEN load \div parts
  ELSE LET block == BlockRows * Unit
       IN  block * ((load + block * parts - 1) \div (block * parts))

\* The slowest GPU of a layer, the shared experts included.
traceLayerExecution(s, counts) ==
  LET total  == SumFunction(counts)
      shares == TopK * NumGPUs
      experts(g) == T!active(s, g)
      memory(g) == SharedWeight + (SharedActivation * total) \div shares
                   + Cardinality(experts(g)) * Weight + Activation * s.loads[g]
      compute(g) == SharedFlops * paddedRows(total, shares)
                    + Flops * SumFunctionOnSet(
                        [e \in S!ExpertIDs |-> paddedRows(s.expertLoads[g][e], 1)], experts(g))
      cost(g) == Max({memory(g) * MemorySlowdown, compute(g) * ComputeSlowdown})
  IN  Max({cost(g) : g \in S!GPUs}) + (IF total > 0 THEN KernelLaunch ELSE 0)

\* One of the two phases.
traceCommunicationPhaseCost(s) ==
  LET away(load)  == (load * (NumGPUs - 1)) \div NumGPUs
      uniformSend == away(SumFunction(s.loads)) \div NumGPUs
      remote == IF s.sent # <<>> THEN T!maxRemote(s.sent)
                ELSE Max({uniformSend} \cup {away(s.loads[g]) : g \in S!GPUs})
  IN  IF NumGPUs = 1 \/ remote = 0 THEN 0 ELSE remote * Wire + Hop

LayerLatency(s, counts) == 2 * traceCommunicationPhaseCost(s) + traceLayerExecution(s, counts)

\* execution.duration
Duration(c, states) ==
  call[c].migration
    + SumFunction([l \in Layers |-> LayerLatency(states[l], call[c].demand.counts[l])])

Idle == [busy |-> FALSE]

\* traceModelExecutionForLayerCountsWithProfile up to stateMu.Unlock().  A forward
\* without assignments returns before that.
TraceStep(c, d) ==
  /\ call[c] = Idle
  /\ forwards < MaxForwards
  /\ \E l \in Layers : SumFunction(d.counts[l]) > 0
  /\ IF options.fixed THEN UNCHANGED eplbVars ELSE advanceEPLBStep(d.counts)
  /\ call' = [call EXCEPT ![c] =
       [busy |-> TRUE, demand |-> d, migration |-> migrationLatency,
        copy |-> placements, inForce |-> placements]]
  /\ forwards' = forwards + 1
  /\ UNCHANGED <<options, cache, routed>>

\* (variant) the shared placement is read again, after the unlock.
TraceRoute_SharedPlacement(c) ==
  /\ call[c].busy
  /\ LET d == call[c].demand
         states == [l \in Layers |-> traceRoute(d.counts[l], placements[l], d.sources[l])]
     IN  routed' = Routed(d.counts, call[c].inForce, states, Duration(c, states))
  /\ call' = [call EXCEPT ![c] = Idle]
  /\ UNCHANGED <<options, eplbVars, cache, forwards>>

\* The rest of it: every layer is routed on the copy.
TraceRoute(c) ==
  /\ call[c].busy
  /\ LET d == call[c].demand
         states == [l \in Layers |-> traceRoute(d.counts[l], call[c].copy[l], d.sources[l])]
     IN  routed' = Routed(d.counts, call[c].inForce, states, Duration(c, states))
  /\ call' = [call EXCEPT ![c] = Idle]
  /\ UNCHANGED <<options, eplbVars, cache, forwards>>

------------------------------------------------------------------------------
\* newMoESimulator, then installFixedPlacement with any map it accepts.
Init ==
  /\ options \in Options
  /\ IF options.fixed
     THEN \E map \in [Layers -> {m \in FixedMaps : ValidMap(m)}] :
            /\ placements = [l \in Layers |-> PlacementOf(map[l])]
            /\ generation = 1
     ELSE /\ placements = [l \in Layers |-> vllmInitialPlacement]
          /\ generation = 0
  /\ WindowInit
  /\ cache = <<>>
  /\ call = [c \in Callers |-> Idle]
  /\ routed = <<>>
  /\ forwards = 0

Next ==
  \/ \E t \in Tokens : latencyForTokens(t)
  \/ \E c \in Callers : TraceRoute(c) \/ \E d \in Demands : TraceStep(c, d)

Spec == Init /\ [][Next]_vars

------------------------------------------------------------------------------
(* Properties *)

\* Whatever the loads were, every expert has a replica, no GPU holds an expert twice,
\* and every GPU holds the same number of replicas: the panics of dhondtPlaceOneLayer
\* ("did not fill EP ranks equally") and a route without a replica cannot happen.
PlacementWellFormed ==
  \A l \in Layers :
    /\ \A e \in S!ExpertIDs : placements[l][e] # <<>> /\ IsInjective(placements[l][e])
    /\ \A g \in S!GPUs :
         Cardinality({e \in S!ExpertIDs : Contains(placements[l][e], g)}) = SlotsPerGPU

\* docs/moe-routing.md: "A re-placement therefore cannot accidentally reuse latency
\* computed for the previous expert map."  Whatever forward comes next, a latency that
\* latencyForTokens would take from the cache is the one it would compute.
CacheCoherent ==
  \A t \in Tokens :
    <<generation, t>> \in DOMAIN cache => cache[<<generation, t>>] = SyntheticLatency(t)

\* Whichever router is used, and whatever happens to the placement in the meantime,
\* each token of a forward is computed exactly once, on a GPU that had a replica of
\* its expert when the forward did its EPLB step; the totals by GPU and by source
\* that the costs are computed from are those of the tokens.
EveryTokenRoutedOnce ==
  routed # <<>> =>
    \A l \in Layers :
      LET s == routed.states[l]
      IN  /\ \A e \in S!ExpertIDs :
               SumFunction([g \in S!GPUs |-> s.expertLoads[g][e]]) = routed.counts[l][e]
          /\ \A g \in S!GPUs :
               /\ s.loads[g] = SumFunction(s.expertLoads[g])
               /\ \A e \in T!active(s, g) : Contains(routed.placement[l][e], g)
               /\ s.sent # <<>> =>
                    s.loads[g] = SumFunction([h \in S!GPUs |-> s.sent[h][g]])
=============================================================================
