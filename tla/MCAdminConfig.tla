---------------------------- MODULE MCAdminConfig -----------------------------
(* Values for the constants of AdminConfig. *)
EXTENDS AdminConfig

Number(n) == [fixed |-> n, fun |-> Nil]
Function(name) ==
  [fixed |-> 0, fun |-> [name |-> name, start |-> 0, end |-> 2, period |-> 4]]

MCLoraOf == [r \in Requests |-> CHOOSE l \in Loras : TRUE]

\* The first request is prefilled here, the second elsewhere.
MCPromptOf ==
  LET first == CHOOSE r \in Requests : TRUE
  IN  [r \in Requests |->
        [promptTokens |-> 3, cachedPromptTokens |-> 1, doRemotePrefill |-> r # first]]

Plain(fake) ==
  [rate |-> 0, latencyCalculator |-> "", timeToFirstToken |-> 10,
   timeToFirstTokenStdDev |-> 0, prefillOverhead |-> 1, prefillTimePerToken |-> 2,
   kvCacheTransferLatency |-> 0, kvCacheTransferLatencyStdDev |-> 0,
   kvCacheTransferTimePerToken |-> 1, timeFactorUnderLoad |-> 3, fake |-> fake]
Real == Plain(Nil)
Generated == Plain([NoFields EXCEPT !["running"] = Function("rampreset"), !["buckets"] = 1])
Fixed == Plain([NoFields EXCEPT !["running"] = Number(1), !["total"] = 2])

Scenario(start, arrivals, n) ==
  [config |-> start, arrivals |-> arrivals, updates |-> n]

\* Load with real and with fake metrics, updates of both, and one update under load.
MCScenarios ==
  LET first == {CHOOSE r \in Requests : TRUE}
  IN  {Scenario(Real, Requests, 0), Scenario(Real, first, 1), Scenario(Real, {}, 2),
       Scenario(Generated, {}, 3), Scenario(Fixed, {}, 2), Scenario(Fixed, first, 0)}

FakeBodies ==
  {[running |-> Number(1)], [waiting |-> Number(-1)],
   [running |-> Function("oscillate"), total |-> 3],
   [waiting |-> Function("squarewave"), buckets |-> 2], [waiting |-> Number(0), prompt |-> 1],
   [waiting |-> Function("ramp")]}

\* The standard deviation is valid only with the longer time to first token, the rate
\* of 101 is never valid, and mode cannot be configured.
MCBodies ==
  {[rate |-> 50], [rate |-> 101], [mode |-> 0],
   [timeToFirstToken |-> 20], [timeToFirstToken |-> 10], [timeToFirstTokenStdDev |-> 6],
   [latencyCalculator |-> "per-token"], [latencyCalculator |-> "constant"]}
    \cup {[fake |-> b] : b \in FakeBodies}

\* Bodies with explicit nulls as well.
MCBodiesWithNull == MCBodies \cup {[fake |-> [buckets |-> Null]]}
=============================================================================
