------------------------------ MODULE MCExperts ------------------------------
(***************************************************************************)
(* Experts for TLC: 2 GPUs with 2 slots each, 3 experts, one layer.         *)
(***************************************************************************)
EXTENDS Experts

\* alpha = 1: 1, 1/2, 1/3 over their sum 11/6.
MCProbability == 0 :> 24 @@ 1 :> 12 @@ 2 :> 8

MCLoads  == [Layers -> [S!ExpertIDs -> Nat]]
MCNoLoad == [l \in Layers |-> [e \in S!ExpertIDs |-> 0]]

MCOptions ==
  [router : {"split", "concentrate", "heuristic"}, distributed : BOOLEAN, fixed : {FALSE}]
    \cup {[router |-> "heuristic", distributed |-> TRUE, fixed |-> TRUE]}

\* The second one has expert 0 twice on GPU 0, the third one has no expert 2.
MCFixedMaps ==
  {0 :> 0 @@ 1 :> 2 @@ 2 :> 1 @@ 3 :> 2,
   0 :> 0 @@ 1 :> 0 @@ 2 :> 1 @@ 3 :> 2,
   0 :> 0 @@ 1 :> 1 @@ 2 :> 0 @@ 3 :> 1}

Load(a, b, c) == 0 :> a * Unit @@ 1 :> b * Unit @@ 2 :> c * Unit

\* Forwards of traces, without recorded sources and with some.
MCDemands ==
  LET layer(x) == [l \in Layers |-> x]
      none == Load(0, 0, 0)
  IN  {[counts |-> layer(Load(1, 0, 3)), sources |-> layer(0 :> none @@ 1 :> none)],
       [counts |-> layer(Load(3, 3, 0)),
        sources |-> layer(0 :> Load(1, 0, 0) @@ 1 :> Load(0, 1, 0))]}

Symmetry == Permutations(Callers)
=============================================================================
