---------------------------- MODULE MCTraceDecode ----------------------------
(***************************************************************************)
(* TraceDecode for TLC: three requests with three, two or one id, which     *)
(* are all cases up to the names of requests and ids.                      *)
(***************************************************************************)
EXTENDS TraceDecode, TLC

CONSTANTS r1, r2, r3, x1, x2, x3

MCAssignments ==
  {r1 :> x1 @@ r2 :> x2 @@ r3 :> x3,
   r1 :> x1 @@ r2 :> x1 @@ r3 :> x2,
   r1 :> x1 @@ r2 :> x1 @@ r3 :> x1}
=============================================================================
