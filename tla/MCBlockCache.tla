---------------------------- MODULE MCBlockCache ----------------------------
(***************************************************************************)
(* BlockCache for TLC: three prompts over the block contents a and b, two   *)
(* of which share a first block.                                           *)
(***************************************************************************)
EXTENDS BlockCache, TLC

CONSTANTS a, b

MCPrompts == {<<a>>, <<a, b>>, <<b, a>>}

Symmetry == Permutations(Calls) \cup Permutations(Loras)
=============================================================================
