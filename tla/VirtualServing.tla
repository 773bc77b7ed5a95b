--------------------------- MODULE VirtualServing -----------------------------
(***************************************************************************)
(* RunMoETraceVirtualBenchmark (pkg/simulator/moe_trace_virtual.go): loads  *)
(* the trace file that is at the output path of TraceFile and serves all    *)
(* its prompts in a loop.  Each iteration admits sequences, takes one token *)
(* of every decoding sequence, fills the rest of the token budget with      *)
(* prefill, and hands the expert counts of these tokens to the MoE model.   *)
(*                                                                         *)
(* The benchmark shares nothing with converters but the published file,     *)
(* which is never written again, so its steps are not interleaved with      *)
(* theirs.                                                                  *)
(***************************************************************************)
EXTENDS TraceFile

CONSTANTS
  Configs,             \* configurations of the benchmark
  BenchOptions,        \* tokenBudget, maxNumSeqs, copies; 0 for the default
  BatchTokens,         \* traceFidelity.prefillBatchTokens
  DefaultBatchTokens,  \* defaultTracePrefillBatchTokens
  DefaultMaxNumSeqs

VARIABLES
  bench,       \* the benchmark's step and parameters
  sequences,
  counted,     \* history: slot -> expert -> tokens in the forwards so far
  assigned,    \* history: source GPU -> slot -> expert -> profile assignments so far
  result       \* requests, prompt and output tokens, forwards, steps by kind

benchVars == <<bench, sequences, counted, assigned, result>>
vars == <<fileVars, benchVars>>

------------------------------------------------------------------------------
(* Start *)

validateVirtualMoEConfig(cfg) ==
  /\ cfg.enableMoE
  /\ cfg.gpus >= 1 /\ cfg.numExperts >= 1 /\ cfg.numLayers >= 1
  /\ cfg.slots \in cfg.numExperts .. cfg.numExperts * cfg.gpus
  /\ cfg.slots % cfg.gpus = 0
  /\ cfg.topK \in 1 .. cfg.numExperts
  /\ cfg.router \in {"split", "concentrate", "heuristic"}

\* loadMoETraceStore returns no error.
loadMoETraceStore(f, cfg) ==
  LET m == f.metadata
      inRange(sources) == sources = Nil \/ \A i \in DOMAIN sources :
        sources[i] = unknownSourceGPU \/ sources[i] < cfg.gpus
  IN
  /\ Open(f)
  /\ m.model = cfg.model /\ m.numExperts = cfg.numExperts /\ m.topK = cfg.topK
  /\ Len(m.layers) = cfg.numLayers
  /\ \A id \in Entries(m.numPrompts) :
       /\ Readable(ReadPrompt(f, id))
       /\ inRange(ReadPrompt(f, id).prefillSources)
       /\ inRange(ReadPrompt(f, id).decodeSources)

\* The prompts, copies times in a row.
NewSequences(f, copies) ==
  LET n == f.metadata.numPrompts
  IN  [i \in 1 .. n * copies |->
        [id |-> (i - 1) % n, phase |-> "waiting", prefillPos |-> 0, decodePosition |-> 0]]

FirstPositive(s) ==
  LET positive == {i \in DOMAIN s : s[i] > 0}
  IN  s[CHOOSE i \in positive : \A j \in positive : i <= j]

Zeros(cfg) == [slot \in Entries(cfg.numLayers) |-> [e \in Entries(cfg.numExperts) |-> 0]]

NoResult == [decodeForwards |-> 0, steps |-> 0, prefill |-> 0, decodeOnly |-> 0, mixed |-> 0]

\* Up to the loop.
StartBenchmark(cfg, o) ==
  LET budget == FirstPositive(<<o.tokenBudget, BatchTokens, DefaultBatchTokens>>)
      maxNumSeqs == FirstPositive(<<o.maxNumSeqs, DefaultMaxNumSeqs>>)
      copies == FirstPositive(<<o.copies, 1>>)
  IN
  /\ bench.step = "idle" /\ output # Nil /\ \A c \in Converters : ~Running(c)
  /\ IF validateVirtualMoEConfig(cfg) /\ loadMoETraceStore(output, cfg) /\ maxNumSeqs <= budget
     THEN LET seqs == NewSequences(output, copies) IN
          /\ bench' = [step |-> "loop", file |-> output, cfg |-> cfg,
                       budget |-> budget, maxNumSeqs |-> maxNumSeqs,
                       forward |-> 0]
          /\ sequences' = seqs
          /\ counted' = Zeros(cfg)
          /\ assigned' = [g \in Entries(cfg.gpus) |-> Zeros(cfg)]
          /\ result' = NoResult
     ELSE /\ bench' = [step |-> "error"]
          /\ UNCHANGED <<sequences, counted, assigned, result>>
  /\ UNCHANGED fileVars

------------------------------------------------------------------------------
(* One iteration of the loop *)

PromptOf(seq) == ReadPrompt(bench.file, seq.id)

\* activeVirtualSequences
activeVirtualSequences(seqs) ==
  Cardinality({i \in DOMAIN seqs : seqs[i].phase \in {"prefill", "decode"}})

\* The phase in which a sequence is admitted.
Admitted(seq) ==
  IF PromptOf(seq).input > 0 THEN "prefill"
  ELSE IF PromptOf(seq).decode > 1 THEN "decode" ELSE "done"

\* (variant)
admitVirtualSequences_OneMore(seqs, max) ==
  FoldLeft(LAMBDA s, i :
             IF activeVirtualSequences(s) > max \/ s[i].phase # "waiting" THEN s
             ELSE [s EXCEPT ![i].phase = Admitted(s[i])],
           seqs, [i \in DOMAIN seqs |-> i])

\* In order, until max are active.
admitVirtualSequences(seqs, max) ==
  FoldLeft(LAMBDA s, i :
             IF activeVirtualSequences(s) >= max \/ s[i].phase # "waiting" THEN s
             ELSE [s EXCEPT ![i].phase = Admitted(s[i])],
           seqs, [i \in DOMAIN seqs |-> i])

\* finishVirtualPrefill
finishVirtualPrefill(seq) ==
  [seq EXCEPT !.phase = IF PromptOf(seq).decode > 1 THEN "decode" ELSE "done"]

\* N - 1 forwards for N generated tokens.
Decoded(seq) == seq.decodePosition >= PromptOf(seq).decode - 1

CloseDecoded(seqs) ==
  [i \in DOMAIN seqs |->
    IF seqs[i].phase = "decode" /\ Decoded(seqs[i]) THEN [seqs[i] EXCEPT !.phase = "done"]
    ELSE seqs[i]]

\* The prefill of a forward: how much of the budget is left, and the new sequences.
TakePrefill(seqs, budget) ==
  FoldLeft(LAMBDA acc, i :
             LET seq  == acc.seqs[i]
                 left == PromptOf(seq).input - seq.prefillPos
                 take == Min({left, acc.budget})
             IN  IF acc.budget = 0 \/ seq.phase # "prefill" THEN acc
                 ELSE IF left <= 0 THEN [acc EXCEPT !.seqs[i] = finishVirtualPrefill(seq)]
                 ELSE [budget |-> acc.budget - take,
                       seqs |-> [acc.seqs EXCEPT ![i].prefillPos = @ + take]],
           [budget |-> budget, seqs |-> seqs], [i \in DOMAIN seqs |-> i])

\* addTracePrefillRange and addTraceDecodePosition: the experts of the tokens of a
\* sequence from prefill position a up to b.
addTracePrefillRange(p, slot, a, b, e) ==
  Cardinality({<<position, k>> \in (a .. b - 1) \X (1 .. p.topK) :
                 PrefillExperts(p, slot, position)[k] = e})

addTraceDecodePosition(p, slot, position, e) ==
  Cardinality({k \in 1 .. p.topK : DecodeExperts(p, position, slot)[k] = e})

\* addVirtualPrefillProfileAssignments and addVirtualDecodeProfileAssignments: the same
\* tokens with the GPU they come from, which is position % gpus if none was recorded.
OrRoundRobin(gpu, position) == IF gpu = Nil THEN position % bench.cfg.gpus ELSE gpu

addVirtualPrefillProfileAssignments(p, slot, a, b, e, g) ==
  Cardinality({<<position, k>> \in (a .. b - 1) \X (1 .. p.topK) :
    /\ PrefillExperts(p, slot, position)[k] = e
    /\ OrRoundRobin(PrefillSourceGPU(p, slot, position), position) = g})

\* (variant)
addVirtualDecodeProfileAssignments_FromZero(p, slot, position, e, g) ==
  IF OrRoundRobin(DecodeSourceGPU(p, position, slot), position) = g
  THEN addTraceDecodePosition(p, slot, position, e) ELSE 0

addVirtualDecodeProfileAssignments(p, slot, position, e, g) ==
  IF OrRoundRobin(DecodeSourceGPU(p, position, slot), p.input + position) = g
  THEN addTraceDecodePosition(p, slot, position, e) ELSE 0

\* The forward of the tokens between two states of the sequences; decode positions in
\* the new state are not advanced yet.
Forward(old, new, decoding) ==
  LET slots   == Entries(bench.cfg.numLayers)
      experts == Entries(bench.cfg.numExperts)
      total(F(_)) == SumFunction([i \in DOMAIN old |-> F(i)])
      count(slot, e, i) ==
        addTracePrefillRange(PromptOf(old[i]), slot, old[i].prefillPos, new[i].prefillPos, e)
          + (IF i \in decoding
             THEN addTraceDecodePosition(PromptOf(old[i]), slot, old[i].decodePosition, e)
             ELSE 0)
      assign(slot, e, g, i) ==
        addVirtualPrefillProfileAssignments(PromptOf(old[i]), slot, old[i].prefillPos,
                                            new[i].prefillPos, e, g)
          + (IF i \in decoding
             THEN addVirtualDecodeProfileAssignments(PromptOf(old[i]), slot,
                                                     old[i].decodePosition, e, g)
             ELSE 0)
  IN
  /\ counted' = [slot \in slots |-> [e \in experts |->
       counted[slot][e] + total(LAMBDA i : count(slot, e, i))]]
  /\ assigned' = [g \in DOMAIN assigned |-> [slot \in slots |-> [e \in experts |->
       assigned[g][slot][e] + total(LAMBDA i : assign(slot, e, g, i))]]]

\* (variant)
Advance_Forgets(old, seqs, decoding) ==
  [i \in DOMAIN seqs |->
    IF seqs[i].prefillPos # old[i].prefillPos /\ seqs[i].prefillPos >= PromptOf(seqs[i]).input
    THEN finishVirtualPrefill(seqs[i])
    ELSE seqs[i]]

\* After the forward: positions advance and sequences that are through change phase.
Advance(old, seqs, decoding) ==
  [i \in DOMAIN seqs |->
    IF i \in decoding
    THEN LET next == [seqs[i] EXCEPT !.decodePosition = @ + 1]
         IN  IF Decoded(next) THEN [next EXCEPT !.phase = "done"] ELSE next
    ELSE IF seqs[i].prefillPos # old[i].prefillPos
              /\ seqs[i].prefillPos >= PromptOf(seqs[i]).input
    THEN finishVirtualPrefill(seqs[i])
    ELSE seqs[i]]

Iterate ==
  LET admitted == CloseDecoded(admitVirtualSequences(sequences, bench.maxNumSeqs))
      decoding == {i \in DOMAIN admitted : admitted[i].phase = "decode"}
      prefill  == TakePrefill(admitted, bench.budget - Cardinality(decoding))
      prefillTokens == bench.budget - Cardinality(decoding) - prefill.budget
      tokens   == Cardinality(decoding) + prefillTokens
      again    == admitVirtualSequences(prefill.seqs, bench.maxNumSeqs)
  IN
  /\ bench.step = "loop"
  /\ \E i \in DOMAIN sequences : sequences[i].phase # "done"        \* hasVirtualWork
  /\ CASE Cardinality(decoding) > bench.budget ->
            /\ bench' = [bench EXCEPT !.step = "error"]
            /\ UNCHANGED <<sequences, counted, assigned, result>>
       [] tokens = 0 ->
            /\ bench' = IF activeVirtualSequences(again) # activeVirtualSequences(prefill.seqs)
                        THEN bench ELSE [bench EXCEPT !.step = "stuck"]
            /\ sequences' = again
            /\ UNCHANGED <<counted, assigned, result>>
       [] OTHER ->
            /\ bench' = [bench EXCEPT !.forward = tokens]
            /\ Forward(admitted, prefill.seqs, decoding)
            /\ sequences' = Advance(admitted, prefill.seqs, decoding)
            /\ result' = [result EXCEPT
                 !.decodeForwards = @ + Cardinality(decoding), !.steps = @ + 1,
                 !.mixed = @ + (IF prefillTokens > 0 /\ decoding # {} THEN 1 ELSE 0),
                 !.prefill = @ + (IF decoding = {} THEN 1 ELSE 0),
                 !.decodeOnly = @ + (IF prefillTokens = 0 THEN 1 ELSE 0)]
  /\ UNCHANGED fileVars

EndBenchmark ==
  /\ bench.step = "loop"
  /\ \A i \in DOMAIN sequences : sequences[i].phase = "done"
  /\ bench' = [bench EXCEPT !.step = "done"]
  /\ UNCHANGED <<fileVars, sequences, counted, assigned, result>>

------------------------------------------------------------------------------
Init ==
  /\ FileInit
  /\ bench = [step |-> "idle"]
  /\ sequences = <<>> /\ counted = <<>> /\ assigned = <<>> /\ result = NoResult

Benchmark ==
  \/ \E cfg \in Configs, o \in BenchOptions : StartBenchmark(cfg, o)
  \/ Iterate
  \/ EndBenchmark

Next == (bench.step = "idle" /\ FileNext /\ UNCHANGED benchVars) \/ Benchmark

Spec == Init /\ [][Next]_vars

------------------------------------------------------------------------------
(* Properties *)

Serving == bench.step \in {"loop", "done", "stuck"}

\* Sequence seq has been through the position of record r of its prompt.
Through(seq, r) ==
  /\ r.prompt = seq.id
  /\ IF r.phase = "prefill" THEN r.position < seq.prefillPos
     ELSE r.position - PromptOf(seq).input < seq.decodePosition

\* From the JSON trace to the model: at any time the forwards had exactly the experts of
\* the trace records that the sequences have been through, each once per copy, and the
\* profile has the same ones with the GPU of their source.  When the benchmark ends,
\* with a result or with "made no progress", every sequence has been through all its
\* prompt and all but the last generated token.
EveryRecordReplayed ==
  Serving =>
    LET s == bench.file.header.sourceSHA256
        gpu(r) == IF r.gpu = Nil THEN r.position % bench.cfg.gpus ELSE r.gpu
        replayed(slot, e) ==
          {<<i, j>> \in (DOMAIN sequences) \X (DOMAIN s.records) :
             /\ Through(sequences[i], s.records[j])
             /\ SlotOf(s.meta, s.records[j].layer) = slot
             /\ e \in Range(s.records[j].experts)}
    IN
    /\ \A slot \in DOMAIN counted : \A e \in DOMAIN counted[slot] :
         LET all == replayed(slot, e) IN
         /\ counted[slot][e] = Cardinality(all)
         /\ \A g \in DOMAIN assigned :
              assigned[g][slot][e] = Cardinality({ij \in all : gpu(s.records[ij[2]]) = g})
    /\ bench.step # "loop" =>
         \A i \in DOMAIN sequences :
           LET p == PromptOf(sequences[i]) IN
           /\ sequences[i].prefillPos = p.input
           /\ sequences[i].decodePosition = Max({p.decode - 1, 0})

\* No forward has more tokens than the budget, no more than maxNumSeqs sequences are
\* active, a sequence is never admitted before an earlier one, and the error "active
\* decode sequences exceed token budget" is unreachable.
ServingLimits ==
  /\ Serving =>
       /\ bench.forward <= bench.budget
       /\ activeVirtualSequences(sequences) <= bench.maxNumSeqs
       /\ \A i, j \in DOMAIN sequences :
            (i < j /\ sequences[i].phase = "waiting") => sequences[j].phase = "waiting"
       /\ result.decodeForwards =
            SumFunction([i \in DOMAIN sequences |-> sequences[i].decodePosition])
       /\ result.steps = result.prefill + result.decodeOnly + result.mixed
  /\ bench.step = "error" => sequences = <<>>

\* What is left to do: tokens, and sequences to admit.
Remaining(seqs) ==
  SumFunction([i \in DOMAIN seqs |->
    LET p == PromptOf(seqs[i])
    IN  (p.input - seqs[i].prefillPos) + (p.decode - seqs[i].decodePosition)
          + (IF seqs[i].phase = "waiting" THEN 1 ELSE 0)])

\* Every iteration gets on, so the loop ends.
LoopProgresses ==
  [][(bench.step = "loop" /\ bench'.step = "loop")
       => Remaining(sequences') < Remaining(sequences)]_vars
=============================================================================
