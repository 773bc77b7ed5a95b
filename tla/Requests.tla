------------------------------- MODULE Requests ------------------------------
(***************************************************************************)
(* A request from its arrival to the client's verdict on the answer.        *)
(*                                                                         *)
(* HandleRequest validates a request and splits it into choices; a worker   *)
(* tokenizes, checks the context window, consults the KV cache and decides   *)
(* what the choice answers: tool calls, the tokens of a dataset, a recorded  *)
(* trace, an error.  That is the work ResponseStream delivers.  The client   *)
(* may be one of the two benchmark scripts, which read the stream of a chat  *)
(* completion and judge it.                                                  *)
(*                                                                         *)
(* Tokens are counted, not named.  Random draws are choices of Init, as the  *)
(* stream does not depend on when they are made.                             *)
(***************************************************************************)
EXTENDS ResponseStream

CONSTANTS
  Inputs,          \* the servers and requests under study, see Input
  HistogramBound   \* response lengths for which the histogram is checked

Absent == -1     \* an optional field that is not set

\* What of the server's configuration and state a request depends on: the dataset
\* has responses of the lengths stored, those for the request's prompt are known;
\* trace is the recorded prompts; below is the choices whose hit rate is under
\* the threshold in force.
Server == [mode : {"random", "echo"}, mm : BOOLEAN, busy : BOOLEAN, inject : BOOLEAN,
           dataset : {"none", "readable", "unreadable"}, stored : SUBSET Nat,
           known : SUBSET Nat, cache : {"off", "ok", "full"}, below : SUBSET Nat,
           trace : Seq([input : Nat, decode : Nat])]

\* A request.  prompts has the tokens of each prompt, echo those of the last
\* message, args the argument tokens of the tool calls it may get, tracePrompt the
\* number of a recorded prompt; toolResults says that its input has the output of a
\* function call, header forces the cache threshold.
Request == [api : {"text", "chat", "responses", "messages", "generate", "grpc"},
            stream : BOOLEAN, usage : BOOLEAN, image : BOOLEAN,
            model : {"base", "lora", "unknown"}, n : Int, max : Int,
            ignoreEOS : BOOLEAN, remoteDecode : BOOLEAN, prompts : Seq(Nat), echo : Nat,
            tools : {"none", "auto", "required", "forced", "missing", "invalid"},
            args : Seq(Nat \ {0}), toolResults : BOOLEAN, tracePrompt : Int, header : BOOLEAN]

\* Who asks: any client, or the benchmark of a trace or of a prompt dataset.
Input == [server : Server, request : Request, client : {"any", "trace", "dataset"}]

ASSUME RequestsAssumption ==
  /\ Inputs \subseteq Input
  /\ HistogramBound \in Nat
  /\ \A i \in Inputs : i.server.known \subseteq i.server.stored

VARIABLES
  input,
  crashed,    \* a worker has panicked, which ends the process
  read,       \* events of the stream the benchmark client has read
  counted,    \* OutputTokens of its result
  reported,   \* completion tokens of the usage chunk, Absent before it is seen
  verdict     \* "none", "success" or "failed"

clientVars  == <<read, counted, reported, verdict>>
requestVars == <<vars, input, crashed, clientVars>>

------------------------------------------------------------------------------
(* Validation *)

GetN(r) == IF r.n <= 0 THEN 1 ELSE r.n

validateRequest(r) ==
  /\ r.n # 0
  /\ r.max # 0
  /\ ~(r.remoteDecode /\ r.stream)
  /\ r.ignoreEOS => r.max # Absent

\* A request for a recorded prompt asks for nothing the record has no answer to;
\* logprobs and content that is not text are refused in the same way.
validateTrace(r) ==
  r.tracePrompt # Absent =>
    GetN(r) = 1 /\ r.tools = "none" /\ ~r.remoteDecode /\ ~r.ignoreEOS

ValidateBody(r) == r.prompts # <<>> /\ \A i \in DOMAIN r.prompts : r.prompts[i] > 0

validateChat(r)      == r.tools # "invalid" /\ validateTrace(r) /\ validateRequest(r)
validateMessages(r)  == r.prompts # <<>> /\ r.max # Absent /\ validateChat(r)
validateResponses(r) == r.tools # "invalid" /\ validateRequest(r)
validateGenerate(r)  == r.prompts # <<>> /\ validateRequest(r)

validate(r) ==
  CASE r.api = "text"      -> ValidateBody(r) /\ validateRequest(r)
    [] r.api = "chat"      -> validateChat(r)
    [] r.api = "messages"  -> validateMessages(r)
    [] r.api = "responses" -> validateResponses(r)
    [] r.api = "generate"  -> validateGenerate(r)
    [] r.api = "grpc"      -> validateRequest(r)

isValidModel(r) == r.model # "unknown"

shouldInjectFailure(s) == s.inject

Accepts(s, r) == ~shouldInjectFailure(s) /\ isValidModel(r) /\ validate(r)

\* The prompt of each choice: n of each prompt, n of one, or one.
splitPrompts(r) ==
  FlattenSeq([p \in DOMAIN r.prompts |-> [i \in 1 .. GetN(r) |-> p]])

splitChat(r) == [i \in 1 .. GetN(r) |-> 1]

split(r) ==
  CASE r.api = "text"               -> splitPrompts(r)
    [] r.api \in {"chat", "messages"} -> splitChat(r)
    [] OTHER                        -> <<1>>

\* In echo mode the prompt has to fit twice.
ValidateContextWindow(s, p) ==
  IF s.mode = "echo" THEN 2 * p <= MaxModelLen ELSE p + 1 <= MaxModelLen

validateTokenizedRequest(s, r, p) ==
  /\ ValidateContextWindow(s, p)
  /\ (s.mode = "echo" /\ r.max # Absent) => p <= r.max

\* bindTraceChatRequest: whether the recorded prompt can be replayed, and the number
\* of its tokens that are.
ReplayTokens(s, r) ==
  IF r.max = Absent THEN s.trace[r.tracePrompt].decode ELSE r.max

bindTraceChatRequest(s, r) ==
  /\ s.trace # <<>> /\ s.mode # "echo" /\ r.model # "lora" /\ ~r.image
  /\ r.tracePrompt \in DOMAIN s.trace
  /\ ReplayTokens(s, r) <= s.trace[r.tracePrompt].decode
  /\ s.trace[r.tracePrompt].input + ReplayTokens(s, r) <= MaxModelLen

------------------------------------------------------------------------------
(* The length of a response *)

Buckets         == 6    \* respLenBucketsProbabilities
FlexBucket      == 3
FixedBucketSize == 20

\* (variant) the end of the last bucket is not clipped.
calcBucketBoundaries_NoClip(m, b) ==
  IF m <= FixedBucketSize * (Buckets - 1) + 1
  THEN ((m - 1) * b) \div (Buckets - 1) + 1 .. ((m - 1) * (b + 1)) \div (Buckets - 1)
  ELSE IF b < FlexBucket
  THEN FixedBucketSize * b + 1 .. FixedBucketSize * (b + 1)
  ELSE LET flex == m - FixedBucketSize * (Buckets - 2) IN
       (IF b = FlexBucket THEN FixedBucketSize * b ELSE FixedBucketSize * (b - 1) + flex) + 1
       .. FixedBucketSize * b + flex

\* The lengths in bucket b when at most m tokens are allowed.  The division is one of
\* floats in the code; up to the bound it rounds like that of integers.
calcBucketBoundaries(m, b) ==
  LET Clip(end) == IF end >= m THEN m - 1 ELSE end
      flex      == m - FixedBucketSize * (Buckets - 2)
  IN IF m <= FixedBucketSize * (Buckets - 1) + 1
     THEN ((m - 1) * b) \div (Buckets - 1) + 1 .. Clip(((m - 1) * (b + 1)) \div (Buckets - 1))
     ELSE IF b < FlexBucket
     THEN FixedBucketSize * b + 1 .. FixedBucketSize * (b + 1)
     ELSE (IF b = FlexBucket THEN FixedBucketSize * b ELSE FixedBucketSize * (b - 1) + flex) + 1
          .. Clip(FixedBucketSize * b + flex)

getResponseLengthByHistogram(m) ==
  IF m <= Buckets THEN 1 .. m
  ELSE {m} \cup UNION {calcBucketBoundaries(m, b) : b \in 0 .. Buckets - 2}

\* (variant) max_tokens may exceed the room left in the context window.
calculateResponseMaxLen_NoWindow(r, p) ==
  IF r.max # Absent THEN r.max ELSE MaxModelLen - p

calculateResponseMaxLen(r, p) ==
  IF r.max # Absent /\ r.max < MaxModelLen - p THEN r.max ELSE MaxModelLen - p

defaultLengths(r, m) ==
  IF r.ignoreEOS THEN {m} ELSE IF r.max # Absent THEN getResponseLengthByHistogram(m) ELSE 1 .. m

\* A response that is too long is trimmed, with ignore_eos one that is too short is
\* filled up.
customLengths(s, r, m) ==
  LET fits(k)  == IF r.ignoreEOS THEN k = m ELSE k <= m
      from     == IF s.known # {} THEN s.known ELSE s.stored
      fitting  == {k \in from : fits(k)}
      chosen   == IF fitting # {} THEN fitting ELSE from
  IN {IF k > m \/ r.ignoreEOS THEN m ELSE k : k \in chosen}

\* The worker dereferences a nil pointer: the tokens of a dataset that failed, or the
\* KV cache that --mm-encoder-only does not start.
Panic == [msgs |-> <<Msg("panic", 0, 0)>>, fin |-> "none", args |-> <<>>]

Text(k, fin) == IF k = 0 THEN EmptyResponse(fin) ELSE Tokens(k, fin)

\* --mm-encoder-only answers with as many "!" as it is asked for.
encoderTokens(r) == Tokens(IF r.max = Absent THEN 1 ELSE r.max, "length")

echoTokens(r) ==
  Text(r.echo, IF r.max # Absent /\ r.echo >= r.max THEN "length" ELSE "stop")

\* initDataset chooses the source of the tokens, and GetResponseTokens of that source
\* makes the response.
GetResponseTokens(s, r, p) ==
  LET m == calculateResponseMaxLen(r, p)
      Upto(lengths) == {Text(k, IF k = m THEN "length" ELSE "stop") : k \in lengths}
  IN IF s.mm
     THEN {encoderTokens(r)}
     ELSE IF s.mode = "echo"
     THEN {echoTokens(r)}
     ELSE IF s.dataset = "none"
     THEN Upto(defaultLengths(r, m))
     ELSE IF s.dataset = "unreadable" \/ s.stored = {}
     THEN {Panic}
     ELSE Upto(customLengths(s, r, m))

------------------------------------------------------------------------------
(* What a worker makes of a choice *)

\* The possible numbers of calls for tools with the given arguments: none when the
\* function that tool_choice names is not among the tools, which is an error.
createToolCalls(choice, args) ==
  CASE choice = "forced"   -> {1}
    [] choice = "required" -> 1 .. Len(args)
    [] choice = "auto"     -> 0 .. Len(args)
    [] choice = "missing"  -> {}

createSingleToolCall(choice, args) ==
  {IF k > 1 THEN 1 ELSE k : k \in createToolCalls(choice, args)}

chatToolCalls(r) ==
  IF r.tools = "none" THEN {0} ELSE createToolCalls(r.tools, r.args)

shouldForceRequiredToolChoice(choice) == choice = "auto"

responsesToolCalls(r) ==
  IF r.tools = "none" \/ r.toolResults THEN {0}
  ELSE createSingleToolCall(
         IF shouldForceRequiredToolChoice(r.tools) THEN "required" ELSE r.tools, r.args)

toolCalls(r) ==
  CASE r.api \in {"chat", "messages"} -> chatToolCalls(r)
    [] r.api = "responses"           -> responsesToolCalls(r)
    [] OTHER                         -> {0}

shouldReturnCacheThresholdFinishReason(s, r, c) ==
  r.header \/ (s.cache # "off" /\ c \in s.below)

\* A prefill request that is not streamed has a finish reason of its own.
Finished(r, script) ==
  IF r.remoteDecode /\ script.fin # "none" THEN [script EXCEPT !.fin = "remote_decode"]
  ELSE script

Answers(s, r, p) ==
  UNION {IF k = 0 THEN GetResponseTokens(s, r, p) ELSE {ToolCalls(SubSeq(r.args, 1, k))} :
         k \in toolCalls(r)}

Replay(s, r) ==
  {Tokens(ReplayTokens(s, r), IF r.max = Absent THEN "stop" ELSE "length")}

\* The possible outcomes for a choice c whose prompt has p tokens.
handleRequest(s, r, c, p, Answer) ==
  IF ~validateTokenizedRequest(s, r, p)
  THEN {Failure}
  ELSE IF s.cache # "off" /\ s.mm
  THEN {Panic}
  ELSE IF s.cache = "full"
  THEN {Failure}
  ELSE IF shouldReturnCacheThresholdFinishReason(s, r, c)
  THEN {CacheThreshold}
  ELSE IF toolCalls(r) = {}
  THEN {Failure}
  ELSE {Finished(r, script) : script \in Answer}

choiceOutcomes(s, r, c, p) ==
  (IF s.busy THEN {Failure} ELSE {})
  \cup IF r.api = "chat" /\ r.tracePrompt # Absent
       THEN IF bindTraceChatRequest(s, r)
            THEN handleRequest(s, r, c, s.trace[r.tracePrompt].input, Replay(s, r))
            ELSE {Failure}
       ELSE handleRequest(s, r, c, p, Answers(s, r, p))

------------------------------------------------------------------------------
(* The benchmark client: executePrompt reads the stream and judges it *)

bench == input.client # "any"

\* (variant) the chunk with the role counts as a token.
classifyStreamChunk_Role(e) == e.event \in {"token", "image", "role"} /\ e.finish = "none"

\* A chunk without finish reason, role and tool calls is one output token.
classifyStreamChunk(e) == e.event \in {"token", "image"} /\ e.finish = "none"

isOutputToken(e) == e.event \in {"token", "image"} /\ e.finish = "none"

Expected == input.server.trace[input.request.tracePrompt].decode

judgeTrace   == IF counted = Expected THEN "success" ELSE "failed"
judgeDataset == IF reported = counted THEN "success" ELSE "failed"

Reading == bench /\ verdict = "none"

\* An error status, or a stream that ends without [DONE].
ReadFailure ==
  /\ Reading
  /\ \/ status = "error"
     \/ crashed
     \/ pc = "done" /\ status = "ok" /\ read = Len(out)
  /\ verdict' = "failed"
  /\ UNCHANGED <<vars, input, crashed, read, counted, reported>>

\* One chunk of the stream, whose result at [DONE] is given.
Scan(result, isToken(_)) ==
  /\ Reading /\ status = "ok" /\ read < Len(out)
  /\ LET e == out[read + 1] IN
     /\ read' = read + 1
     /\ counted' = IF isToken(e) THEN counted + 1 ELSE counted
     /\ reported' = IF e.event = "usage" THEN e.pos ELSE reported
     /\ verdict' = CASE e.event = "error" -> "failed"
                     [] e.event = "done"  -> result
                     [] OTHER             -> "none"
  /\ UNCHANGED <<vars, input, crashed>>

ReadTrace   == input.client = "trace" /\ Scan(judgeTrace, classifyStreamChunk)
ReadDataset == input.client = "dataset" /\ Scan(judgeDataset, isOutputToken)

\* The timeout of the client, or an interrupt, which also closes the connection.
TimeOut ==
  /\ Reading /\ ~gone
  /\ gone' = TRUE
  /\ verdict' = "failed"
  /\ UNCHANGED <<call, channel, prodVars, hndVars, input, crashed, read, counted, reported>>

------------------------------------------------------------------------------
\* Before it starts, the benchmark of a trace looks at the server's window.
preflight(s) == \A p \in DOMAIN s.trace : s.trace[p].input + s.trace[p].decode <= MaxModelLen

Init ==
  /\ input \in {i \in Inputs : i.client = "trace" => preflight(i.server)}
  /\ LET s == input.server
         r == input.request
         accepted == Accepts(s, r)
         prompt   == IF accepted THEN split(r) ELSE <<>>
         outcomes == [c \in DOMAIN prompt |-> choiceOutcomes(s, r, c, r.prompts[prompt[c]])]
     IN /\ \E work \in {w \in [DOMAIN prompt -> UNION Range(outcomes)] :
                         \A c \in DOMAIN prompt : w[c] \in outcomes[c]} :
             call = [api |-> r.api, stream |-> r.stream, usage |-> r.usage,
                     image |-> r.image, work |-> work, prompt |-> prompt]
        /\ pc = IF accepted THEN "loop" ELSE "done"
        /\ closed = ~accepted
        /\ status = IF accepted THEN "none" ELSE "error"
  /\ StreamInit
  /\ crashed = FALSE
  /\ read = 0 /\ counted = 0 /\ reported = Absent /\ verdict = "none"

Panics(c) == sent[c] = 0 /\ call.work[c].msgs[1].kind = "panic"

\* A panic in a worker goroutine is not recovered.
Crash ==
  /\ ~crashed
  /\ \E c \in AllChoices : Panics(c)
  /\ crashed' = TRUE
  /\ UNCHANGED <<vars, input, clientVars>>

Running(step) == ~crashed /\ step /\ UNCHANGED <<input, crashed, clientVars>>

Work     == Running(\E c \in AllChoices : ~Panics(c) /\ Producer(c))
Close    == Running(CloseChannel)
Handle   == Running(Handler)
Discard  == Running(drainResponseChannel)
GoAway   == ~bench /\ Running(Leave)
Client   == ReadFailure \/ ReadTrace \/ ReadDataset \/ TimeOut

Next == Work \/ Close \/ Handle \/ Discard \/ GoAway \/ Crash \/ Client

Spec == Init /\ [][Next]_requestVars

\* The workers, the watcher, the handler and the draining goroutine all run on, and
\* the client goes on reading.
FairSpec ==
  /\ Spec
  /\ WF_requestVars(Work) /\ WF_requestVars(Crash) /\ WF_requestVars(Close)
  /\ WF_requestVars(Handle) /\ WF_requestVars(Discard)
  /\ WF_requestVars(ReadFailure \/ ReadTrace \/ ReadDataset)

------------------------------------------------------------------------------
(* Properties *)

\* However many tokens a request may get, the buckets of the length histogram split
\* the lengths short of that number among them: none is missed, none lies in two
\* buckets, and the whole number is left to its own bucket (calcBucketBoundaries).
HistogramSound ==
  \A m \in Buckets + 1 .. HistogramBound :
    /\ UNION {calcBucketBoundaries(m, b) : b \in 0 .. Buckets - 2} = 1 .. m - 1
    /\ \A b, d \in 0 .. Buckets - 2 :
         b # d => calcBucketBoundaries(m, b) \cap calcBucketBoundaries(m, d) = {}

\* A generated answer keeps within max_tokens and, with its prompt, within the model
\* length, says "length" exactly when it stops at that limit (calculateResponseMaxLen,
\* GetResponseTokens), and the response channel has room for all of it however slow
\* the handler is (HandleRequest): WriteToChannel drops nothing.  The rule is not one
\* for tool calls, --mm-encoder-only and a prompt without tokens.  Lengths are drawn from
\* a sound histogram.
LimitsRespected ==
  LET r == input.request
      s == input.server
      Limited(c) == /\ Fin(c) \in {"stop", "length"} /\ ~HasTools(c) /\ ~s.mm
                    /\ r.tracePrompt = Absent /\ r.prompts[call.prompt[c]] > 0
      Room(c)   == LET left == MaxModelLen - r.prompts[call.prompt[c]] IN
                   IF r.max = Absent THEN left ELSE Min({r.max, left})
      Length(c) == Len(Produced(c))
  IN /\ HistogramSound
     /\ \A c \in AllChoices : Limited(c) =>
          /\ r.max # Absent => Length(c) <= r.max
          /\ r.prompts[call.prompt[c]] + Length(c) <= MaxModelLen
          /\ s.mode # "echo" => (Fin(c) = "length" <=> Length(c) = Room(c))
     /\ (\A c \in AllChoices : Limited(c) \/ Produced(c) = <<>>) => lost = {}

\* The benchmark's verdict is the truth about the stream.  It counts a request as a
\* success only if every token the server generated for it has arrived, and for a
\* trace every token recorded.  A request of the trace benchmark that passed its
\* preflight and that a server with the trace accepted without refusal fails only if
\* the client gave up (executePrompt, classifyStreamChunk, bindTraceChatRequest).
BenchmarkVerdict ==
  /\ (bench /\ verdict = "success") =>
       /\ Delivered(1) = Produced(1) /\ counted = Len(Produced(1))
       /\ input.client = "trace" => counted = Expected
  /\ (input.client = "trace" /\ verdict = "failed" /\ ~gone) =>
       LET s == input.server IN
       \/ s.inject \/ s.busy \/ s.cache # "off"
       \/ ~validateTokenizedRequest(s, input.request, s.trace[input.request.tracePrompt].input)

\* Whatever the client does and however much is dropped, unless the process dies the
\* handler returns, the workers of the call are set free, the response channel is
\* closed, and a benchmark client reaches its verdict.
AlwaysEnds == <>((crashed \/ (pc = "done" /\ closed)) /\ (bench => verdict # "none"))

\* A server outlives a query of its dataset that fails: "Will generate random tokens instead"
\* (sqliteHelper.query).
SurvivesDataset == input.server.dataset = "unreadable" => ~crashed
=============================================================================
