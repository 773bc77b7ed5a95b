----------------------------- MODULE TracePrefill -----------------------------
(***************************************************************************)
(* The prefill batcher of trace-bound requests                              *)
(* (pkg/simulator/moe_trace_fidelity.go).  A request appends a job and      *)
(* waits for its latency.  The request that finds no batcher running starts *)
(* one, which serves all pending jobs in shared forwards of at most         *)
(* maxTokens tokens and ends when nothing is pending.                       *)
(*                                                                         *)
(* What a forward takes is left open here; TraceForwards gets it from the   *)
(* timeline that all forwards share.                                        *)
(***************************************************************************)
EXTENDS Integers, Sequences, FiniteSets, SequencesExt

CONSTANTS
  Jobs,        \* jobs; the process() goroutine a job starts is named after it
  MaxLength,   \* bound on the uncached prompt tokens of a job
  Budget       \* maxTokens of the batcher

ASSUME TracePrefillAssumption ==
  /\ MaxLength \in Nat \ {0}
  /\ Budget \in Nat \ {0}

VARIABLES
  pending,    \* jobs that are not completed, in order of arrival
  running,    \* the flag that a batcher runs
  batcher,    \* job -> its process() goroutine: "off", "loop" or "forward"
  snapshot,   \* job -> the jobs its batcher serves in this forward
  completed,  \* job -> those of them that complete in this forward
  waiter,     \* job -> "new", "waiting" for job.done, or "served"
  remaining,  \* job -> job.end - job.position
  elapsed,    \* job -> job.elapsed
  waited,     \* history: job -> forwards it waited for
  due         \* history: job -> forwards it should take

prefillVars == <<pending, running, batcher, snapshot, completed, waiter, remaining,
                 elapsed, waited, due>>

\* Tokens that the first k jobs of s still need.
Load(s, k) == FoldLeft(LAMBDA sum, j : sum + remaining[j], 0, SubSeq(s, 1, k))

\* The share of the k-th job of s in a forward: what the jobs before it leave of
\* the budget, at most what it needs.
Share(s, k) ==
  LET left == Budget - Load(s, k - 1)
      need == remaining[s[k]]
  IN IF left <= 0 THEN 0 ELSE IF need < left THEN need ELSE left

------------------------------------------------------------------------------
\* traceBatchedPrefillLatency: append the job; the first one starts a batcher.
Submit(j, n) ==
  /\ waiter[j] = "new"
  /\ waiter' = [waiter EXCEPT ![j] = "waiting"]
  /\ remaining' = [remaining EXCEPT ![j] = n]
  /\ pending' = Append(pending, j)
  /\ running' = TRUE
  /\ batcher' = IF running THEN batcher ELSE [batcher EXCEPT ![j] = "loop"]
  /\ UNCHANGED <<snapshot, completed, elapsed, waited, due>>

\* (variant) the flag is not reset.
Stop_KeepsFlag(b) ==
  /\ batcher[b] = "loop" /\ pending = <<>>
  /\ batcher' = [batcher EXCEPT ![b] = "off"]
  /\ UNCHANGED <<pending, running, snapshot, completed, waiter, remaining, elapsed,
                 waited, due>>

\* process finds nothing pending and ends.
Stop(b) ==
  /\ batcher[b] = "loop" /\ pending = <<>>
  /\ running' = FALSE
  /\ batcher' = [batcher EXCEPT ![b] = "off"]
  /\ UNCHANGED <<pending, snapshot, completed, waiter, remaining, elapsed, waited,
                 due>>

\* process snapshots the pending jobs and shares the budget out in their order.
Forward(b) ==
  LET share == [k \in DOMAIN pending |-> Share(pending, k)]
      at(j) == CHOOSE k \in DOMAIN pending : pending[k] = j
      served == ToSet(pending)
  IN
  /\ batcher[b] = "loop" /\ pending # <<>>
  /\ snapshot' = [snapshot EXCEPT ![b] = served]
  /\ remaining' = [j \in Jobs |-> IF j \in served THEN remaining[j] - share[at(j)]
                                  ELSE remaining[j]]
  /\ completed' = [completed EXCEPT ![b] = {j \in served : remaining[j] = share[at(j)]}]
  /\ due' = [j \in Jobs |->
               IF j \in served /\ due[j] = 0
               THEN (Load(pending, at(j)) + Budget - 1) \div Budget ELSE due[j]]
  /\ batcher' = [batcher EXCEPT ![b] = "forward"]
  /\ UNCHANGED <<pending, running, waiter, elapsed, waited>>

\* (variant) only the jobs that complete.
Charged_Completed(b) == completed[b]

\* The jobs that waited for the forward of batcher b: all of its snapshot.
Charged(b) == snapshot[b]

\* (variant) jobs that arrived during the forward are forgotten.
StillPending_Snapshot(b) ==
  SelectSeq(pending, LAMBDA j : j \in snapshot[b] \ completed[b])

\* remainingJobs: what is pending now, without the completed jobs.
StillPending(b) == SelectSeq(pending, LAMBDA j : j \notin completed[b])

\* The forward ends: everyone in the snapshot waited for it; the completed jobs
\* leave and their requests go on.
FinishForward(b, latency) ==
  /\ batcher[b] = "forward"
  /\ elapsed' = [j \in Jobs |->
       IF j \in Charged(b) THEN elapsed[j] + latency ELSE elapsed[j]]
  /\ waited' = [j \in Jobs |-> IF j \in Charged(b) THEN waited[j] + 1 ELSE waited[j]]
  /\ pending' = StillPending(b)
  /\ waiter' = [j \in Jobs |-> IF j \in completed[b] /\ j \in ToSet(pending)
                               THEN "served" ELSE waiter[j]]
  /\ batcher' = [batcher EXCEPT ![b] = "loop"]
  /\ UNCHANGED <<running, snapshot, completed, remaining, due>>

------------------------------------------------------------------------------
PrefillInit ==
  /\ pending = <<>>
  /\ running = FALSE
  /\ batcher = [j \in Jobs |-> "off"]
  /\ snapshot = [j \in Jobs |-> {}]
  /\ completed = [j \in Jobs |-> {}]
  /\ waiter = [j \in Jobs |-> "new"]
  /\ remaining = [j \in Jobs |-> 0]
  /\ elapsed = [j \in Jobs |-> 0]
  /\ waited = [j \in Jobs |-> 0]
  /\ due = [j \in Jobs |-> 0]

PrefillNext ==
  \E j \in Jobs :
    \/ \E n \in 1 .. MaxLength : Submit(j, n)
    \/ Stop(j) \/ Forward(j)
    \/ \E latency \in Nat : FinishForward(j, latency)

PrefillSpec == PrefillInit /\ [][PrefillNext]_prefillVars

------------------------------------------------------------------------------
(* Properties *)

Batchers == {b \in Jobs : batcher[b] # "off"}

\* The flag is right: at most one batcher runs, and one runs exactly when running
\* is set, in particular whenever a job is pending.  Two batchers would process
\* jobs twice; none would leave the waiting requests, and all later ones, stuck.
OneBatcher ==
  /\ running <=> Batchers # {}
  /\ \A b, c \in Batchers : b = c
  /\ pending # <<>> => running

\* A job waits for as many forwards as the tokens ahead of it, at the first forward
\* that saw it, and its own need at Budget per forward, whoever arrives later.
WaitIsQueueing ==
  \A j \in Jobs : waiter[j] = "served" => waited[j] = due[j] /\ remaining[j] = 0

\* Every request that waits for its prefill gets it.
EveryJobServed == \A j \in Jobs : waiter[j] = "waiting" ~> waiter[j] = "served"
=============================================================================
