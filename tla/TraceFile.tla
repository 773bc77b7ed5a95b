----------------------------- MODULE TraceFile -------------------------------
(***************************************************************************)
(* Trace files: moe-trace-tool convert reads a JSON trace record by record, *)
(* collects the records of a prompt, writes the prompt's block to a         *)
(* temporary file, ends the file with an index and its real header, syncs   *)
(* it and renames it to the output path; readers open the output, validate  *)
(* its regions and read prompts through the index (pkg/moetrace).           *)
(*                                                                         *)
(* Converters run concurrently with the same output path, any write of      *)
(* theirs may fail, they may be killed, and the machine may lose power:     *)
(* then what was not synced is lost, and a rename may be undone.            *)
(*                                                                         *)
(* Sizes are in the units of the format.  A route is the tuple of the TopK  *)
(* experts of one token in one layer.  Nil stands for an entry that was not *)
(* seen yet, a header of zeros, or no file.                                 *)
(***************************************************************************)
EXTENDS Integers, Sequences, FiniteSets, SequencesExt, FiniteSetsExt, Functions

CONSTANTS
  Nil,
  Converters,    \* processes that convert to the same output path
  Sources,       \* converter -> the JSON files it may be given
  GivenFiles,    \* files of format version 2, that another tool wrote, and Nil
  MaxUint32,     \* largest token ID and count
  OneByte,       \* number of expert IDs that fit into one byte
  MetadataSize,
  MaxFaults      \* bound on I/O errors, kills and power losses

VARIABLES
  output,        \* the file at the output path
  onDisk,        \* what a power loss may leave there
  conv,          \* converter -> its progress
  temp,          \* converter -> its temporary file
  faults         \* number of faults so far

fileVars == <<output, onDisk, conv, temp, faults>>

headerSize == 112
indexEntrySize == 32
promptBlockHeaderSize == 32
unknownSourceGPU == 255
maxSourceGPU == 127

Entries(n) == 0 .. n - 1

------------------------------------------------------------------------------
(* Format *)

\* (variant)
expertIDBytes_OffByOne(numExperts) == IF numExperts <= OneByte + 1 THEN 1 ELSE 2

expertIDBytes(numExperts) == IF numExperts <= OneByte THEN 1 ELSE 2

\* An expert ID fits into the bytes it is written to.
ExpertFits(expert, width) == width = 1 => expert < OneByte

promptBlockLength(p, d, m, version) ==
  LET routes == (p + d) * Len(m.layers)
  IN  promptBlockHeaderSize + 4 * p + 4 * d + 4 * Len(m.layers) * m.numExperts
        + routes * m.topK * expertIDBytes(m.numExperts)
        + (IF version >= 2 THEN routes ELSE 0)

------------------------------------------------------------------------------
(* Source *)

\* validateSourceMetadata
validateSourceMetadata(m) ==
  /\ m.model # ""
  /\ m.numExperts \in 1 .. OneByte * OneByte
  /\ m.topK \in 1 .. m.numExperts
  /\ m.numLayers = Len(m.layers) /\ m.numLayers >= 1
  /\ \A i \in DOMAIN m.layers : m.layers[i] >= 0
  /\ IsInjective(m.layers)
  /\ m.numPrompts = Len(m.prompts) /\ m.numPrompts >= 1
  /\ \A i \in DOMAIN m.prompts :
       /\ m.prompts[i].index = i - 1
       /\ m.prompts[i].input \in 0 .. MaxUint32 /\ m.prompts[i].decode \in 0 .. MaxUint32

\* layerSlots
SlotOf(m, layer) == (CHOOSE i \in DOMAIN m.layers : m.layers[i] = layer) - 1

newPromptAccumulator(m, id) ==
  LET p == m.prompts[id + 1].input
      d == m.prompts[id + 1].decode
  IN  [id |-> id, input |-> p, decode |-> d,
       inputTokens   |-> [i \in Entries(p) |-> Nil],
       decodeTokens  |-> [i \in Entries(d) |-> Nil],
       prefillCounts |-> [i \in Entries(m.numLayers * m.numExperts) |-> 0],
       prefillRoutes |-> [i \in Entries(m.numLayers * p) |-> Nil],
       decodeRoutes  |-> [i \in Entries(d * m.numLayers) |-> Nil]]

expectedRecords(m, id) ==
  (m.prompts[id + 1].input + m.prompts[id + 1].decode) * m.numLayers

\* The checks of add that do not depend on the phase.
RecordValid(m, r) ==
  /\ \E i \in DOMAIN m.layers : m.layers[i] = r.layer
  /\ r.token \in 0 .. MaxUint32
  /\ Len(r.experts) = m.topK
  /\ r.gateWeights \in {0, m.topK}
  /\ \A i \in DOMAIN r.experts : r.experts[i] \in Entries(m.numExperts)
  /\ IsInjective(r.experts)

\* Prefill routes are ordered by layer, decode routes by position.
prefillEntry(m, acc, r) == SlotOf(m, r.layer) * acc.input + r.position
decodeEntry(m, acc, r) == (r.position - acc.input) * m.numLayers + SlotOf(m, r.layer)

\* Nil, or the token that position i had before.
SameToken(tokens, i, token) == tokens[i] \in {Nil, token}

\* add returns no error.
addAccepts(m, acc, r) ==
  /\ RecordValid(m, r)
  /\ CASE r.phase = "prefill" ->
            /\ r.position \in Entries(acc.input)
            /\ acc.prefillRoutes[prefillEntry(m, acc, r)] = Nil
            /\ SameToken(acc.inputTokens, r.position, r.token)
            /\ \A i \in DOMAIN r.experts :
                 acc.prefillCounts[SlotOf(m, r.layer) * m.numExperts + r.experts[i]] < MaxUint32
       [] r.phase = "decode" ->
            /\ r.position - acc.input \in Entries(acc.decode)
            /\ acc.decodeRoutes[decodeEntry(m, acc, r)] = Nil
            /\ SameToken(acc.decodeTokens, r.position - acc.input, r.token)
       [] OTHER -> FALSE

add(m, acc, r) ==
  IF r.phase = "prefill"
  THEN LET base == SlotOf(m, r.layer) * m.numExperts
           counted == {base + e : e \in Range(r.experts)}
       IN  [acc EXCEPT
             !.inputTokens[r.position] = r.token,
             !.prefillRoutes[prefillEntry(m, acc, r)] = r.experts,
             !.prefillCounts = [i \in DOMAIN @ |-> IF i \in counted THEN @[i] + 1 ELSE @[i]]]
  ELSE [acc EXCEPT
         !.decodeTokens[r.position - acc.input] = r.token,
         !.decodeRoutes[decodeEntry(m, acc, r)] = r.experts]

validateComplete(acc) ==
  /\ Nil \notin Range(acc.inputTokens) /\ Nil \notin Range(acc.decodeTokens)
  /\ Nil \notin Range(acc.prefillRoutes) /\ Nil \notin Range(acc.decodeRoutes)

------------------------------------------------------------------------------
(* Writer.  A writer is [m, offset, index]; a file is below. *)

\* newTraceWriter: a header of zeros and the metadata.
NewFile(m) ==
  [header |-> Nil, metadata |-> m, version |-> 1, blocks |-> <<>>, index |-> <<>>,
   size |-> headerSize + MetadataSize, synced |-> FALSE]

newTraceWriter(m) == [m |-> m, offset |-> headerSize + MetadataSize, index |-> <<>>]

\* writePrompt returns no error.
writePromptAccepts(w, acc) ==
  /\ validateComplete(acc)
  /\ acc.id = Len(w.index)
  /\ \A route \in Range(acc.prefillRoutes) \cup Range(acc.decodeRoutes) :
       \A i \in DOMAIN route : ExpertFits(route[i], expertIDBytes(w.m.numExperts))

BlockOf(w, acc) ==
  [offset |-> w.offset, id |-> acc.id, input |-> acc.input, decode |-> acc.decode,
   numLayers |-> w.m.numLayers, numExperts |-> w.m.numExperts, topK |-> w.m.topK,
   width |-> expertIDBytes(w.m.numExperts),
   inputTokens |-> acc.inputTokens, decodeTokens |-> acc.decodeTokens,
   prefillCounts |-> acc.prefillCounts, prefillRoutes |-> acc.prefillRoutes,
   decodeRoutes |-> acc.decodeRoutes, prefillSources |-> Nil, decodeSources |-> Nil]

IndexEntry(w, acc) ==
  [id |-> acc.id, offset |-> w.offset, input |-> acc.input, decode |-> acc.decode,
   length |-> promptBlockLength(acc.input, acc.decode, w.m, 1)]

\* The writer and the file after writePrompt.
writePrompt(w, acc) ==
  [w EXCEPT !.offset = @ + promptBlockLength(acc.input, acc.decode, w.m, 1),
            !.index = Append(@, IndexEntry(w, acc))]

WithPrompt(f, w, acc) ==
  [f EXCEPT !.blocks = Append(@, BlockOf(w, acc)),
            !.size = @ + promptBlockLength(acc.input, acc.decode, w.m, 1)]

\* finish: the index, then the header in place of the zeros.  The hash of the source
\* stands for the source.
finish(f, w, source) ==
  [f EXCEPT !.index = w.index,
            !.size = @ + Len(w.index) * indexEntrySize,
            !.header =
              [version |-> 1, metadataOffset |-> headerSize, metadataLength |-> MetadataSize,
               dataOffset |-> headerSize + MetadataSize, indexOffset |-> w.offset,
               indexLength |-> Len(w.index) * indexEntrySize,
               numPrompts |-> w.m.numPrompts, width |-> expertIDBytes(w.m.numExperts),
               sourceSHA256 |-> source]]

------------------------------------------------------------------------------
(* Reader *)

validateRegion(offset, length, size) == offset <= size /\ length <= size - offset

\* readHeader returns no error.
readHeader(f) == f.header # Nil /\ f.header.version \in 1 .. 2 /\ f.header.width \in {1, 2}

BlockAt(f, offset) == CHOOSE b \in Range(f.blocks) : b.offset = offset

\* Validate: the blocks lie end to end between metadata and index, and each one agrees
\* with its index entry and with the metadata.
Validate(f) ==
  LET h == f.header
      ends(i) == f.index[i].offset + f.index[i].length
  IN
  /\ h.dataOffset <= h.indexOffset
  /\ \A i \in DOMAIN f.index :
       LET e == f.index[i] IN
       /\ e.offset = IF i = 1 THEN h.dataOffset ELSE ends(i - 1)
       /\ validateRegion(e.offset, e.length, f.size) /\ ends(i) <= h.indexOffset
       /\ \E b \in Range(f.blocks) :
            /\ b.offset = e.offset
            /\ b.id = i - 1 /\ b.input = e.input /\ b.decode = e.decode
            /\ b.numLayers = Len(f.metadata.layers) /\ b.numExperts = f.metadata.numExperts
            /\ b.topK = f.metadata.topK /\ b.width = h.width
       /\ e.length = promptBlockLength(e.input, e.decode, f.metadata, h.version)
       /\ f.metadata.prompts[i] = [index |-> i - 1, input |-> e.input, decode |-> e.decode]
  /\ h.indexOffset = IF f.index = <<>> THEN h.dataOffset ELSE ends(Len(f.index))
  /\ h.indexOffset + h.indexLength = f.size

\* Open returns no error.
Open(f) ==
  LET h == f.header IN
  /\ f.size >= headerSize /\ readHeader(f)
  /\ validateRegion(h.metadataOffset, h.metadataLength, f.size)
  /\ validateRegion(h.indexOffset, h.indexLength, f.size)
  /\ h.metadataOffset = headerSize
  /\ h.dataOffset = h.metadataOffset + h.metadataLength
  /\ h.indexLength = h.numPrompts * indexEntrySize
  /\ f.version = h.version /\ f.metadata.numPrompts = h.numPrompts
  /\ Len(f.metadata.prompts) = h.numPrompts /\ f.metadata.layers # <<>>
  /\ expertIDBytes(f.metadata.numExperts) = h.width
  /\ Len(f.index) = h.numPrompts
  /\ \A i \in DOMAIN f.index : f.index[i].id = i - 1
  /\ Validate(f)

\* The source GPUs of a file of version 1 are Nil.
validateSourceGPUs(sources) ==
  sources = Nil \/ \A i \in DOMAIN sources :
    sources[i] = unknownSourceGPU \/ sources[i] <= maxSourceGPU

ReadPrompt(f, id) == BlockAt(f, f.index[id + 1].offset)

\* ReadPrompt returns no error.
Readable(p) == validateSourceGPUs(p.prefillSources) /\ validateSourceGPUs(p.decodeSources)

PrefillExperts(p, slot, position) == p.prefillRoutes[slot * p.input + position]
DecodeExperts(p, position, slot) == p.decodeRoutes[position * p.numLayers + slot]

\* The recorded source GPU, or Nil.
Recorded(sources, i) ==
  IF sources = Nil THEN Nil
  ELSE IF sources[i] = unknownSourceGPU THEN Nil ELSE sources[i]

PrefillSourceGPU(p, slot, position) == Recorded(p.prefillSources, slot * p.input + position)
DecodeSourceGPU(p, position, slot) == Recorded(p.decodeSources, position * p.numLayers + slot)

------------------------------------------------------------------------------
(* Convert *)

Idle == [step |-> "idle"]

Ended == {"idle", "exists", "rejected", "done"}

Running(c) == conv[c].step \notin Ended

\* Convert returns an error: the deferred function removes the temporary file.
Reject(c) ==
  /\ conv' = [conv EXCEPT ![c] = [step |-> "rejected", source |-> conv[c].source]]
  /\ temp' = [temp EXCEPT ![c] = Nil]

\* The output must not exist yet; nothing is looked at again before the rename.
Start(c, s) ==
  /\ conv[c] = Idle
  /\ conv' = [conv EXCEPT ![c] =
       IF output # Nil THEN [step |-> "exists", source |-> s]
       ELSE [step |-> "keys", source |-> s, key |-> 1, metadataSeen |-> FALSE,
             traceSeen |-> FALSE, writer |-> Nil, next |-> 1, nextPrompt |-> 0,
             current |-> Nil]]
  /\ UNCHANGED <<output, onDisk, temp, faults>>

\* The next key of the top-level object.  "metadata" stands for the seven fields of
\* sourceMetadata, without which the metadata is not valid.
ReadKey(c) ==
  LET v == conv[c]
      key == v.source.keys[v.key]
      read == [v EXCEPT !.key = @ + 1]
  IN
  /\ v.step = "keys" /\ v.key <= Len(v.source.keys)
  /\ CASE key = "metadata" /\ ~v.traceSeen ->
            /\ conv' = [conv EXCEPT ![c] = [read EXCEPT !.metadataSeen = TRUE]]
            /\ UNCHANGED temp
       [] /\ key = "trace" /\ ~v.traceSeen
          /\ v.metadataSeen /\ validateSourceMetadata(v.source.meta) ->
            /\ conv' = [conv EXCEPT ![c] =
                 [read EXCEPT !.step = "trace", !.traceSeen = TRUE,
                              !.writer = newTraceWriter(v.source.meta)]]
            /\ temp' = [temp EXCEPT ![c] = NewFile(v.source.meta)]
       [] key \notin {"metadata", "trace"} ->
            conv' = [conv EXCEPT ![c] = read] /\ UNCHANGED temp
       [] OTHER -> Reject(c)
  /\ UNCHANGED <<output, onDisk, faults>>

\* The prompts to write before prompt id can start: the current one, and the prompts
\* between them, which have no records.
Skipped(v, id) ==
  LET first == IF v.current = Nil THEN v.nextPrompt ELSE v.current.id + 1
  IN  [i \in 1 .. id - first |-> first + i - 1]

Flushed(v, id) ==
  LET m == v.source.meta
      empty == [i \in DOMAIN Skipped(v, id) |-> newPromptAccumulator(m, Skipped(v, id)[i])]
  IN  (IF v.current = Nil THEN <<>> ELSE <<v.current>>) \o empty

\* Writer and file after a sequence of prompts, or Nil.
WriteAll(v, f, accs) ==
  FoldLeft(LAMBDA wf, acc :
             IF wf = Nil THEN Nil
             ELSE IF ~writePromptAccepts(wf.w, acc) THEN Nil
             ELSE [w |-> writePrompt(wf.w, acc), f |-> WithPrompt(wf.f, wf.w, acc)],
           [w |-> v.writer, f |-> f], accs)

NoRecordsMissing(v, id) ==
  \A i \in DOMAIN Skipped(v, id) : expectedRecords(v.source.meta, Skipped(v, id)[i]) = 0

\* One record of convertTraceArray.
ConvertRecord(c) ==
  LET v == conv[c]
      m == v.source.meta
      r == v.source.records[v.next]
      same == v.current # Nil /\ r.prompt = v.current.id
      written == WriteAll(v, temp[c], Flushed(v, r.prompt))
      current == IF same THEN v.current ELSE newPromptAccumulator(m, r.prompt)
      grouped == \/ same
                 \/ /\ r.prompt >= IF v.current = Nil THEN v.nextPrompt ELSE v.current.id
                    /\ NoRecordsMissing(v, r.prompt)
                    /\ written # Nil
  IN
  /\ v.step = "trace" /\ v.next <= Len(v.source.records)
  /\ IF r.prompt \in Entries(m.numPrompts) /\ grouped /\ addAccepts(m, current, r)
     THEN /\ conv' = [conv EXCEPT ![c] =
               [v EXCEPT !.next = @ + 1,
                         !.current = add(m, current, r),
                         !.nextPrompt = r.prompt,
                         !.writer = IF same THEN @ ELSE written.w]]
          /\ temp' = IF same THEN temp ELSE [temp EXCEPT ![c] = written.f]
     ELSE Reject(c)
  /\ UNCHANGED <<output, onDisk, faults>>

\* The end of the trace array: the last prompts are written and the records counted.
EndTrace(c) ==
  LET v == conv[c]
      m == v.source.meta
      written == WriteAll(v, temp[c], Flushed(v, m.numPrompts))
      expected == SumFunction([i \in DOMAIN m.prompts |-> expectedRecords(m, i - 1)])
  IN
  /\ v.step = "trace" /\ v.next > Len(v.source.records)
  /\ IF /\ NoRecordsMissing(v, m.numPrompts) /\ written # Nil
        /\ Len(v.source.records) = expected
     THEN /\ conv' = [conv EXCEPT ![c] =
               [v EXCEPT !.step = "keys", !.writer = written.w, !.current = Nil]]
          /\ temp' = [temp EXCEPT ![c] = written.f]
     ELSE Reject(c)
  /\ UNCHANGED <<output, onDisk, faults>>

\* The end of the input, then finish.
Finish(c) ==
  LET v == conv[c] IN
  /\ v.step = "keys" /\ v.key > Len(v.source.keys)
  /\ IF /\ v.traceSeen /\ ~v.source.trailing
        /\ Len(v.writer.index) = v.source.meta.numPrompts
     THEN /\ temp' = [temp EXCEPT ![c] = finish(temp[c], v.writer, v.source)]
          /\ conv' = [conv EXCEPT ![c] = [step |-> "sync", source |-> v.source]]
     ELSE Reject(c)
  /\ UNCHANGED <<output, onDisk, faults>>

\* (variant)
Sync_Never(c) ==
  /\ conv[c].step = "sync"
  /\ conv' = [conv EXCEPT ![c].step = "rename"]
  /\ UNCHANGED <<output, onDisk, temp, faults>>

Sync(c) ==
  /\ conv[c].step = "sync"
  /\ temp' = [temp EXCEPT ![c].synced = TRUE]
  /\ conv' = [conv EXCEPT ![c].step = "rename"]
  /\ UNCHANGED <<output, onDisk, faults>>

\* What a power loss may leave of a file: the blocks are lost if it was not synced.
Survivors(f) == IF f.synced THEN {f} ELSE {f, [f EXCEPT !.blocks = <<>>]}

\* os.Rename replaces what is there.
Publish(c) ==
  /\ conv[c].step = "rename"
  /\ output' = temp[c]
  /\ onDisk' = onDisk \cup Survivors(temp[c])
  /\ temp' = [temp EXCEPT ![c] = Nil]
  /\ conv' = [conv EXCEPT ![c] = [step |-> "done", source |-> conv[c].source]]
  /\ UNCHANGED faults

\* A write fails and the temporary file is removed, or the process is killed and it is
\* left behind under a name that is never used again.
Abort(c) ==
  /\ Running(c) /\ faults < MaxFaults
  /\ faults' = faults + 1
  /\ conv' = [conv EXCEPT ![c] = Idle]
  /\ temp' = [temp EXCEPT ![c] = Nil]
  /\ UNCHANGED <<output, onDisk>>

\* Renames that were not on the disk yet may be undone.
PowerLoss ==
  /\ faults < MaxFaults
  /\ faults' = faults + 1
  /\ output' \in onDisk
  /\ onDisk' = {output'}
  /\ conv' = [c \in Converters |-> IF Running(c) THEN Idle ELSE conv[c]]
  /\ temp' = [c \in Converters |-> Nil]

FileInit ==
  /\ output \in GivenFiles
  /\ onDisk = {output}
  /\ conv = [c \in Converters |-> Idle]
  /\ temp = [c \in Converters |-> Nil]
  /\ faults = 0

Convert(c) ==
  \/ \E s \in Sources[c] : Start(c, s)
  \/ ReadKey(c) \/ ConvertRecord(c) \/ EndTrace(c) \/ Finish(c) \/ Sync(c) \/ Publish(c)
  \/ Abort(c)

FileNext == PowerLoss \/ \E c \in Converters : Convert(c)

------------------------------------------------------------------------------
(* Properties *)

\* The records of source s for a position of a prompt in a layer.
RecordsAt(s, id, position, layer) ==
  {i \in DOMAIN s.records :
     s.records[i].prompt = id /\ s.records[i].position = position /\ s.records[i].layer = layer}

\* What a source must be, said without the converter's bookkeeping: one record for each
\* position of each prompt in each layer and no other, grouped by prompt in their order.
WellFormed(s) ==
  LET m == s.meta
      phase(p, position) == IF position < p.input THEN "prefill" ELSE "decode"
  IN
  /\ \E i \in DOMAIN s.keys :
       /\ s.keys[i] = "trace"
       /\ \A j \in DOMAIN s.keys \ {i} : s.keys[j] # "trace" /\ (s.keys[j] = "metadata" => j < i)
       /\ \E j \in DOMAIN s.keys : s.keys[j] = "metadata"
  /\ ~s.trailing /\ validateSourceMetadata(m)
  /\ \A i \in DOMAIN s.records : RecordValid(m, s.records[i])
  /\ \A i, j \in DOMAIN s.records :
       i < j => s.records[i].prompt <= s.records[j].prompt
  /\ \A i, j \in DOMAIN s.records :
       (s.records[i].prompt = s.records[j].prompt
          /\ s.records[i].position = s.records[j].position)
         => s.records[i].token = s.records[j].token
  /\ Len(s.records) =
       SumFunction([i \in DOMAIN m.prompts |->
         (m.prompts[i].input + m.prompts[i].decode) * m.numLayers])
  /\ \A p \in Range(m.prompts) : \A position \in Entries(p.input + p.decode) :
       \A layer \in Range(m.layers) :
         /\ Cardinality(RecordsAt(s, p.index, position, layer)) = 1
         /\ \A i \in RecordsAt(s, p.index, position, layer) :
              s.records[i].phase = phase(p, position)

\* File f has in prompt p what record r says.
Holds(m, p, r) ==
  LET slot == SlotOf(m, r.layer)
      position == r.position - p.input
  IN  IF r.phase = "prefill"
      THEN /\ p.inputTokens[r.position] = r.token
           /\ PrefillExperts(p, slot, r.position) = r.experts
      ELSE /\ p.decodeTokens[position] = r.token
           /\ DecodeExperts(p, position, slot) = r.experts

\* The file at the output path is readable, was made from a well-formed source, and a
\* reader finds every record of that source at its place and the counts of its prefill.
OutputIsComplete ==
  output # Nil =>
    LET s == output.header.sourceSHA256
        m == s.meta
    IN
    /\ WellFormed(s) /\ Open(output) /\ output.metadata = m
    /\ \A i \in DOMAIN s.records :
         Holds(m, ReadPrompt(output, s.records[i].prompt), s.records[i])
    /\ \A p \in Range(m.prompts), layer \in Range(m.layers), e \in Entries(m.numExperts) :
         ReadPrompt(output, p.index).prefillCounts[SlotOf(m, layer) * m.numExperts + e] =
           Cardinality({i \in DOMAIN s.records :
             LET r == s.records[i]
             IN  /\ r.prompt = p.index /\ r.layer = layer /\ r.phase = "prefill"
                 /\ e \in Range(r.experts)})

\* Conversion is exact.  At any time, also after a power loss, what is published is
\* complete; and Convert rejects a source only for what is wrong with it, never because
\* of how prompts are grouped or because some of them are empty.
ConversionExact ==
  /\ OutputIsComplete
  /\ \A c \in Converters : conv[c].step = "rejected" => ~WellFormed(conv[c].source)
=============================================================================
