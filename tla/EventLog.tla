------------------------------- MODULE EventLog -------------------------------
(***************************************************************************)
(* What the KV event pipeline promises: a lossy FIFO.  Events are accepted  *)
(* in the order the cache emits them or dropped on entry; accepted events   *)
(* are published in that order, in batches, each at most once; a publish    *)
(* error loses the batch at hand and ends the pipeline.                     *)
(***************************************************************************)
EXTENDS Integers, Sequences

CONSTANTS Events, MaxBatch

VARIABLES accepted, log, up

TypeOK == accepted \in Seq(Events) /\ log \in Seq(Events) /\ up \in BOOLEAN

Init == accepted = <<>> /\ log = <<>> /\ up = TRUE

Accept ==
  /\ \E e \in Events : accepted' = Append(accepted, e)
  /\ UNCHANGED <<log, up>>

\* The first n accepted events leave as one batch.
Publish ==
  /\ up
  /\ \E n \in 1 .. MaxBatch :
       /\ n <= Len(accepted)
       /\ log' = log \o SubSeq(accepted, 1, n)
       /\ accepted' = SubSeq(accepted, n + 1, Len(accepted))
  /\ UNCHANGED up

\* ... or are lost, and nothing is published any more.
Fail ==
  /\ up
  /\ up' = FALSE
  /\ \E n \in 0 .. MaxBatch :
       /\ n <= Len(accepted)
       /\ accepted' = SubSeq(accepted, n + 1, Len(accepted))
  /\ UNCHANGED log

Next == Accept \/ Publish \/ Fail

Spec == Init /\ [][Next]_<<accepted, log, up>>
=============================================================================
