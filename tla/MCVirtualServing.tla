-------------------------- MODULE MCVirtualServing ----------------------------
(* Traces, files and configurations for TLC. *)
EXTENDS VirtualServing

\* Two sparse layers, three experts, two of them for each token.
Meta(prompts) ==
  [model |-> "moe", numExperts |-> 3, topK |-> 2, layers |-> <<5, 2>>, numLayers |-> 2,
   numPrompts |-> Len(prompts),
   prompts |-> [i \in DOMAIN prompts |->
     [index |-> i - 1, input |-> prompts[i][1], decode |-> prompts[i][2]]]]

\* Any routes that differ between layers and positions.
Route(id, position, layer) ==
  <<<<0, 1>>, <<1, 2>>, <<2, 0>>>>[((id + position + (layer * layer) \div 4) % 3) + 1]

PromptRecords(m, id) ==
  LET p == m.prompts[id + 1]
      n == p.input + p.decode
  IN  [k \in 1 .. n * 2 |->
        LET position == (k - 1) \div 2
            layer == m.layers[((k - 1) % 2) + 1]
        IN  [prompt |-> id, phase |-> IF position < p.input THEN "prefill" ELSE "decode",
             position |-> position, token |-> position % 2, layer |-> layer,
             experts |-> Route(id, position, layer), gateWeights |-> 0, gpu |-> Nil]]

Source(prompts) ==
  LET m == Meta(prompts)
  IN  [meta |-> m, keys |-> <<"metadata", "other", "trace">>, trailing |-> FALSE,
       records |-> FlattenSeq([i \in DOMAIN prompts |-> PromptRecords(m, i - 1)])]

Small == Source(<<<<1, 1>>>>)

\* Prompts without input, without output, and without either.
GoodSources ==
  {Small, Source(<<<<2, 2>>, <<1, 3>>>>), Source(<<<<0, 0>>, <<3, 2>>, <<0, 0>>>>),
   Source(<<<<0, 3>>, <<0, 1>>, <<2, 0>>>>), Source(<<<<0, 0>>>>)}

\* What can be wrong with a trace of two prompts.
BadSources ==
  LET s == Source(<<<<1, 1>>, <<1, 0>>>>)
      n == Len(s.records)
      with(i, r) == [s EXCEPT !.records[i] = r]
  IN  {[s EXCEPT !.records = SubSeq(s.records, 1, n - 1)],
       [s EXCEPT !.records = Append(s.records, s.records[n])],
       [s EXCEPT !.records = Tail(s.records)],
       [s EXCEPT !.records = SubSeq(s.records, 5, n) \o SubSeq(s.records, 1, 4)],
       [s EXCEPT !.records = SubSeq(s.records, 1, 4)],
       [s EXCEPT !.records = SubSeq(s.records, 5, n)],
       with(2, s.records[1]), with(4, s.records[3]),
       with(2, [s.records[2] EXCEPT !.token = 1]),
       with(4, [s.records[4] EXCEPT !.token = 0]),
       with(1, [s.records[1] EXCEPT !.layer = 3]),
       with(1, [s.records[1] EXCEPT !.token = MaxUint32 + 1]),
       with(1, [s.records[1] EXCEPT !.experts = <<1>>]),
       with(1, [s.records[1] EXCEPT !.experts = <<1, 1>>]),
       with(1, [s.records[1] EXCEPT !.experts = <<1, 3>>]),
       with(1, [s.records[1] EXCEPT !.gateWeights = 1]),
       with(1, [s.records[1] EXCEPT !.phase = "other"]),
       with(1, [s.records[1] EXCEPT !.phase = "decode"]),
       with(3, [s.records[3] EXCEPT !.phase = "prefill"]),
       with(1, [s.records[1] EXCEPT !.prompt = 2]),
       [s EXCEPT !.keys = <<"trace", "metadata">>],
       [s EXCEPT !.keys = <<"metadata", "trace", "metadata">>],
       [s EXCEPT !.keys = <<"metadata", "trace", "trace">>],
       [s EXCEPT !.keys = <<"metadata">>],
       [s EXCEPT !.trailing = TRUE],
       [s EXCEPT !.meta.topK = 4], [s EXCEPT !.meta.layers = <<2, 2>>],
       [s EXCEPT !.meta.numPrompts = 1], [s EXCEPT !.meta.prompts[2].index = 0]}

\* One converter gets all of them, the others a small one.
MCSources ==
  LET first == CHOOSE c \in Converters : TRUE
  IN  [c \in Converters |-> IF c = first THEN GoodSources \cup BadSources ELSE {Small}]

\* A file of version 2 with the source GPUs of the prefill.
SourceWithGPUs ==
  LET s == Source(<<<<2, 2>>>>)
  IN  [s EXCEPT !.records = [i \in DOMAIN s.records |->
        IF s.records[i].phase = "prefill" THEN [s.records[i] EXCEPT !.gpu = 1]
        ELSE s.records[i]]]

VersionTwo ==
  LET s == SourceWithGPUs
      w == newTraceWriter(s.meta)
      acc == FoldLeft(LAMBDA a, r : add(s.meta, a, r), newPromptAccumulator(s.meta, 0), s.records)
      extra == 8
      f == finish(WithPrompt(NewFile(s.meta), w, acc), writePrompt(w, acc), s)
  IN  [f EXCEPT !.version = 2, !.header.version = 2, !.size = @ + extra,
                !.header.indexOffset = @ + extra, !.index[1].length = @ + extra, !.synced = TRUE,
                !.blocks[1].prefillSources = [i \in 0 .. 3 |-> 1],
                !.blocks[1].decodeSources = [i \in 0 .. 3 |-> unknownSourceGPU]]

MCGivenFiles == {Nil, VersionTwo}

\* The second configuration is invalid, the others do not fit the trace.
MCConfigs ==
  LET cfg == [enableMoE |-> TRUE, model |-> "moe", gpus |-> 2, numExperts |-> 3, numLayers |-> 2,
              slots |-> 4, topK |-> 2, router |-> "split"]
  IN  {cfg, [cfg EXCEPT !.slots = 5], [cfg EXCEPT !.numLayers = 1],
       [cfg EXCEPT !.gpus = 1, !.slots = 3]}

\* The last one has more sequences than tokens.
MCBenchOptions ==
  {[tokenBudget |-> 2, maxNumSeqs |-> 2, copies |-> 2],
   [tokenBudget |-> 3, maxNumSeqs |-> 1, copies |-> 0],
   [tokenBudget |-> 0, maxNumSeqs |-> 0, copies |-> 1],
   [tokenBudget |-> 1, maxNumSeqs |-> 2, copies |-> 1]}

=============================================================================
