------------------------------ MODULE Routing --------------------------------
(***************************************************************************)
(* The routers of the MoE simulator as operators: how the assignments of    *)
(* one layer (expert -> number of tokens) are spread over the GPUs that     *)
(* hold a replica of each expert.  moe.go has them for synthetic demand and *)
(* moe_trace_fidelity.go again for replayed traces; they differ in how an   *)
(* expert's tokens are cut into chunks, the constant operator Chunks.       *)
(*                                                                         *)
(* Loads are whole numbers of some fraction of a token, costs whole numbers *)
(* of some unit of time, so that ties are ties.                             *)
(***************************************************************************)
EXTENDS Integers, SequencesExt, FiniteSetsExt, Functions

CONSTANTS
  NumGPUs, NumExperts,
  Weight,          \* time to read the weights of one expert
  Activation,      \* time to move the activations of one unit of load
  Flops,           \* time to compute one unit of load
  Moves,           \* iterations of the local search (20)
  Chunks(_, _)     \* load, replicas -> sequence of loads

GPUs      == 0 .. NumGPUs - 1
ExpertIDs == 0 .. NumExperts - 1

AllGPUs    == [i \in 1 .. NumGPUs |-> i - 1]
AllExperts == [i \in 1 .. NumExperts |-> i - 1]

\* sort.SliceStable by an ascending key.
StableSort(seq, key(_)) ==
  LET before(i, j) ==
        key(seq[i]) < key(seq[j]) \/ (key(seq[i]) = key(seq[j]) /\ i < j)
      order == SetToSortSeq(DOMAIN seq, before)
  IN  [k \in DOMAIN seq |-> seq[order[k]]]

\* The element a loop with a strict comparison ends with.
FirstMin(seq, key(_)) ==
  seq[CHOOSE i \in DOMAIN seq : \A j \in DOMAIN seq :
        key(seq[i]) < key(seq[j]) \/ (key(seq[i]) = key(seq[j]) /\ i <= j)]

------------------------------------------------------------------------------
(* The state of a routing: what each GPU got of each expert, its total, and,   *)
(* for distributed routing, what each source GPU sent where.                   *)

newMoERoutingState ==
  [expertLoads |-> [g \in GPUs |-> [e \in ExpertIDs |-> 0]],
   loads       |-> [g \in GPUs |-> 0],
   sent        |-> <<>>]

add(s, gpu, expert, tokens) ==
  IF tokens <= 0 THEN s
  ELSE [s EXCEPT !.expertLoads[gpu][expert] = @ + tokens,
                 !.loads[gpu] = @ + tokens]

\* A whole chunk moves to another GPU.
move(s, expert, from, to) ==
  LET tokens == s.expertLoads[from][expert]
  IN  [s EXCEPT !.expertLoads[from][expert] = 0, !.loads[from] = @ - tokens,
                !.expertLoads[to][expert] = @ + tokens, !.loads[to] = @ + tokens]

active(s, gpu) == {e \in ExpertIDs : s.expertLoads[gpu][e] > 0}

gpuCost(experts, load) == Max({experts * Weight + load * Activation, load * Flops})

CostOf(s, gpu) == gpuCost(Cardinality(active(s, gpu)), s.loads[gpu])

maxGPUCost(s) == Max({CostOf(s, g) : g \in GPUs})

------------------------------------------------------------------------------
(* The policies *)

\* Hottest first, the lower ID on ties.
expertOrder(counts) == StableSort(AllExperts, LAMBDA e : -counts[e])

heuristicExpertOrder(counts) ==
  SelectSeq(StableSort(AllExperts, LAMBDA e : -gpuCost(1, counts[e])),
            LAMBDA e : counts[e] > 0)

\* One chunk of an expert's tokens to each of the GPUs.
AddChunks(s, expert, gpus, tokens) ==
  LET chunks == Chunks(tokens, Len(gpus))
  IN  FoldLeftDomain(LAMBDA t, i : add(t, gpus[i], expert, chunks[i]), s, gpus)

\* Every replica gets its share.
routeSplit(counts, placement) ==
  FoldLeft(LAMBDA s, e : AddChunks(s, e, placement[e], counts[e]),
           newMoERoutingState, AllExperts)

\* All tokens of an expert go to one replica, the one that is cheapest with them.
routeConcentrate(counts, placement) ==
  FoldLeft(LAMBDA s, e :
             LET costWith(g) == CostOf(add(s, g, e, counts[e]), g)
             IN  add(s, FirstMin(placement[e], costWith), e, counts[e]),
           newMoERoutingState, expertOrder(counts))

RoundToEven(a, b) ==
  LET q == a \div b
      r == a % b
  IN  IF 2 * r < b \/ (2 * r = b /\ q % 2 = 0) THEN q ELSE q + 1

heuristicReplicaCount(count, available) ==
  IF count * Flops <= Weight THEN 1
  ELSE Min({Max({1, RoundToEven(count * Flops, Weight)}), available})

\* As many replicas as the compute of the expert is worth, the least loaded first.
AdaptiveSplit(counts, placement) ==
  FoldLeft(LAMBDA s, e :
             LET replicas   == heuristicReplicaCount(counts[e], Len(placement[e]))
                 candidates == StableSort(placement[e], LAMBDA g : CostOf(s, g))
             IN  AddChunks(s, e, SubSeq(candidates, 1, replicas), counts[e]),
           newMoERoutingState, heuristicExpertOrder(counts))

slowGPU(s) == FirstMin(AllGPUs, LAMBDA g : -CostOf(s, g))

\* The whole chunks that can leave the slowest GPU and lower the makespan, as expert
\* and destination, in the order in which they are tried.
Gains(s, order, placement) ==
  LET slow  == slowGPU(s)
      base  == CostOf(s, slow)
      moves == FlattenSeq([i \in DOMAIN order |->
                 [j \in DOMAIN placement[order[i]] |-> <<order[i], placement[order[i]][j]>>]])
  IN  SelectSeq(moves, LAMBDA m :
        /\ m[2] # slow /\ s.expertLoads[slow][m[1]] > 0
        /\ maxGPUCost(move(s, m[1], slow, m[2])) < base)

\* At most n moves, each the one with the largest gain, the first one on ties.
RECURSIVE LocalSearch(_, _, _, _)
LocalSearch(s, order, placement, n) ==
  LET moves == Gains(s, order, placement)
      after(m) == move(s, m[1], slowGPU(s), m[2])
  IN  IF n = 0 \/ moves = <<>> THEN s
      ELSE LocalSearch(after(FirstMin(moves, LAMBDA m : maxGPUCost(after(m)))),
                       order, placement, n - 1)

routeHeuristic(counts, placement) ==
  LocalSearch(AdaptiveSplit(counts, placement), heuristicExpertOrder(counts), placement, Moves)

routeCentral(router, counts, placement) ==
  CASE router = "concentrate" -> routeConcentrate(counts, placement)
    [] router = "heuristic"   -> routeHeuristic(counts, placement)
    [] OTHER                  -> routeSplit(counts, placement)

------------------------------------------------------------------------------
(* Distributed routing: every source GPU routes what it holds by itself. *)

aggregateDistributedRouting(states) ==
  [expertLoads |-> [g \in GPUs |-> [e \in ExpertIDs |->
                      SumFunction([s \in GPUs |-> states[s].expertLoads[g][e]])]],
   loads       |-> [g \in GPUs |-> SumFunction([s \in GPUs |-> states[s].loads[g]])],
   sent        |-> [s \in GPUs |-> states[s].loads]]

routeDistributed(router, bySource, placement) ==
  aggregateDistributedRouting(
    [s \in GPUs |-> routeCentral(router, bySource[s], placement)])

\* The GPU with most to send to, or to receive from, the others.
maxRemote(sent) ==
  LET others(g) == GPUs \ {g}
  IN  Max({SumFunctionOnSet(sent[g], others(g)) : g \in GPUs}
          \cup {SumFunctionOnSet([s \in GPUs |-> sent[s][g]], others(g)) : g \in GPUs})
=============================================================================
