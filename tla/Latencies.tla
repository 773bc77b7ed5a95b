------------------------------ MODULE Latencies -------------------------------
(***************************************************************************)
(* The latency calculators (pkg/simulator/latencies.go): the mean of a      *)
(* request's time to first token.  calc holds the fields a calculator has   *)
(* cached, p the prompt, n the number of running requests it is given.      *)
(* Times are multiplied by Scale, so that the load factor is an integer.    *)
(***************************************************************************)
EXTENDS Integers

CONSTANT MaxNumSeqs

Scale == IF MaxNumSeqs <= 1 THEN 1 ELSE MaxNumSeqs - 1

\* getCurrLoadFactor, times Scale.
getCurrLoadFactor(calc, n) ==
  IF MaxNumSeqs <= 1 THEN 1
  ELSE (MaxNumSeqs - 1) + (calc.timeFactorUnderLoad - 1) * (n - 1)

\* The constant calculator does not look at the length of the prompt.
ConstantTTFT(calc, p, n) ==
  IF p.doRemotePrefill THEN calc.kvCacheTransferLatency * Scale
  ELSE calc.timeToFirstToken * getCurrLoadFactor(calc, n)

\* The per-token calculator uses the prompt, without the cached part if the prefill
\* is local.
PerTokenTTFT(calc, p, n) ==
  IF p.doRemotePrefill THEN calc.kvCacheTransferTimePerToken * p.promptTokens * Scale
  ELSE (calc.prefillOverhead + (p.promptTokens - p.cachedPromptTokens) * calc.prefillTimePerToken)
         * getCurrLoadFactor(calc, n)

\* The default calculator is constant unless the constant time is not configured.
DefaultTTFT(calc, p, n) ==
  IF \/ p.doRemotePrefill /\ calc.kvCacheTransferLatency = 0
          /\ calc.kvCacheTransferLatencyStdDev = 0
     \/ ~p.doRemotePrefill /\ calc.timeToFirstToken = 0 /\ calc.timeToFirstTokenStdDev = 0
  THEN PerTokenTTFT(calc, p, n)
  ELSE ConstantTTFT(calc, p, n)

GetTimeToFirstToken(calc, p, n) ==
  CASE calc.latencyCalculator = "constant"  -> ConstantTTFT(calc, p, n)
    [] calc.latencyCalculator = "per-token" -> PerTokenTTFT(calc, p, n)
    [] OTHER                                -> DefaultTTFT(calc, p, n)
=============================================================================
