---------------------------- MODULE ResponseStream ---------------------------
(***************************************************************************)
(* One call on its way back to the client.                                  *)
(*                                                                         *)
(* The workers that process the choices of a call write their messages to   *)
(* one response channel, without ever blocking (simulateResponseProcessing, *)
(* common.WriteToChannel).  The handler reads them until the channel is     *)
(* closed and turns them into a response, a stream of server-sent events or *)
(* gRPC messages (sendNonStream, sendStream, Generate).  What it writes for *)
(* a message depends on the endpoint (the responseBuilder's).  The client   *)
(* may go away at any time.                                                 *)
(*                                                                         *)
(* Text, ids, logprobs and the JSON layout are left out: an event says which *)
(* choice it is for, its position and the finish reason it carries.         *)
(***************************************************************************)
EXTENDS Integers, Sequences, FiniteSets, SequencesExt, TLC

CONSTANT
  MaxModelLen   \* --max-model-len

\* What one choice writes, the finish reason of its response context, and the
\* number of argument tokens of each of its tool calls.
Script == [msgs : Seq([kind : {"created", "token", "empty", "err", "panic"}, tool : Nat,
                       pos : Nat]),
           fin  : {"stop", "length", "tool_calls", "cache_threshold", "remote_decode", "none"},
           args : Seq(Nat \ {0})]

\* A call: its endpoint, whether it streams, wants usage data and an image, its
\* choices and the prompt each of them is for.
Scenario == [api : {"text", "chat", "responses", "messages", "generate", "grpc"},
             stream : BOOLEAN, usage : BOOLEAN, image : BOOLEAN,
             work : Seq(Script), prompt : Seq(Nat)]

ASSUME StreamAssumption == MaxModelLen \in Nat \ {0}

VARIABLES
  call,         \* the scenario
  sent,         \* choice -> messages written so far, dropped ones included
  finished,     \* choices that have called signalDone
  channel,      \* the response channel
  closed,
  lost,         \* messages dropped by WriteToChannel
  pc,           \* the handler: "loop", "finish", "done"
  respCtx,      \* choice of the first response, 0 before it is set
  seen,         \* choices with a respCtxPerChoice
  initialSent,
  firstTokens,  \* choices without a first tokens chunk
  toolCall,     \* choice -> lastToolCall and toolCallIndex
  block,        \* contentBlockIndex of the messages builder
  tokens,       \* choice -> tokens collected for a response that is not streamed
  out,          \* the events that reached the client
  status,       \* the HTTP or gRPC status
  gone,         \* the client has left
  draining      \* drainResponseChannel runs

prodVars == <<sent, finished, closed, lost>>
hndVars  == <<pc, respCtx, seen, initialSent, firstTokens, toolCall, block, tokens,
              out, status, draining>>
vars == <<call, channel, prodVars, hndVars, gone>>

AllChoices == 1 .. Len(call.work)

Capacity == MaxModelLen * Len(call.work)

Fin(c)      == call.work[c].fin
HasTools(c) == call.work[c].args # <<>>

------------------------------------------------------------------------------
(* What a choice writes *)

Msg(kind, tool, pos) == [kind |-> kind, tool |-> tool, pos |-> pos]
Created == <<Msg("created", 0, 0)>>

Tokens(n, fin) ==
  [msgs |-> Created \o [i \in 1 .. n |-> Msg("token", 0, i)], fin |-> fin,
   args |-> <<>>]

ToolCalls(args) ==
  [msgs |-> Created \o
     FlattenSeq([t \in DOMAIN args |->
                   [i \in 1 .. args[t] |-> Msg("token", t, i)]]),
   fin |-> "tool_calls", args |-> args]

EmptyResponse(fin) ==
  [msgs |-> Append(Created, Msg("empty", 0, 0)), fin |-> fin, args |-> <<>>]

CacheThreshold ==
  [msgs |-> <<Msg("empty", 0, 0)>>, fin |-> "cache_threshold", args |-> <<>>]

\* handleRequest failed, or the request was not accepted by the scheduler.
Failure == [msgs |-> <<Msg("err", 0, 0)>>, fin |-> "none", args |-> <<>>]

\* The completion tokens in the usage data of choice c.
CompletionTokens(c) ==
  Cardinality({i \in DOMAIN call.work[c].msgs : call.work[c].msgs[i].kind = "token"})
  + 3 * Len(call.work[c].args)

------------------------------------------------------------------------------
(* The response builders.  A chunk is a sequence of events; <<>> is nil. *)

Event(name, c, at, pos, fin) ==
  [event |-> name, choice |-> c, at |-> at, pos |-> pos, finish |-> fin]
Mark(name) == <<Event(name, 0, 0, 0, "none")>>

\* The context that stands for the whole stream: that of its first response.
Ctx(m) == IF respCtx = 0 THEN m.choice ELSE respCtx

OpenAI == call.api \in {"text", "chat", "generate"}

createInitialChunk ==
  IF call.api \in {"responses", "messages"} THEN Mark("start") ELSE <<>>

\* The first chunk with tokens: a role, an output item or, unless the content is
\* that of tool calls, a content block.  Pings are left out.
chatFirstChunk(m)      == <<Event("role", m.choice, 0, 0, "none")>>
responsesFirstChunk(m) == IF HasTools(Ctx(m)) THEN <<>> ELSE Mark("item")
messagesFirstChunk(m)  ==
  IF HasTools(Ctx(m)) THEN <<>> ELSE <<Event("open", m.choice, 0, 0, "none")>>

createFirstChunk(m) ==
  CASE call.api = "chat"      -> chatFirstChunk(m)
    [] call.api = "responses" -> responsesFirstChunk(m)
    [] call.api = "messages"  -> messagesFirstChunk(m)
    [] OTHER -> <<>>

\* A chunk with text; only generate sends the finish reason with the last tokens.
sendFinishReasonWithTokens == call.api = "generate"

createChunk(m) ==
  <<Event("token", m.choice, 0, m.pos,
          IF /\ sendFinishReasonWithTokens
             /\ m.pos = Len(call.work[m.choice].msgs) - 1
          THEN Fin(Ctx(m)) ELSE "none")>>

\* A chunk that carries nothing but the finish reason.
FinishChunk(m) ==
  IF OpenAI THEN <<Event("finish", m.choice, 0, 0, Fin(Ctx(m)))>> ELSE <<>>

\* The index of m within its tool call: toolCallIndex starts again at 0 with
\* every tool call.  (variant) it does not.
ToolIndex_Running(m) == toolCall[m.choice].index + 1

ToolIndex(m) ==
  IF toolCall[m.choice].tool # m.tool THEN 0 ELSE toolCall[m.choice].index + 1

\* The first fragment of a call names the function; in the messages API it also
\* ends the previous content block and opens the next.
\* (variant) the previous block stays open.
messagesToolChunk_NoStop(m, i) ==
  (IF i = 0 THEN <<Event("open", m.choice, block, 0, "none")>> ELSE <<>>)
  \o <<Event("tool", m.choice, IF i = 0 THEN block ELSE block - 1, i, "none")>>

messagesToolChunk(m, i) ==
  (IF i = 0 /\ block > 0 THEN <<Event("close", m.choice, block - 1, 0, "none")>> ELSE <<>>)
  \o (IF i = 0 THEN <<Event("open", m.choice, block, 0, "none")>> ELSE <<>>)
  \o <<Event("tool", m.choice, IF i = 0 THEN block ELSE block - 1, i, "none")>>

responsesToolChunk(m, i) ==
  (IF i = 0 THEN Mark("item") ELSE <<>>) \o <<Event("tool", m.choice, m.tool, i, "none")>>

\* The last fragment of every tool call carries the finish reason of the stream.
chatToolChunk(m, i) ==
  <<Event("tool", m.choice, m.tool, i,
          IF /\ i = call.work[m.choice].args[m.tool] - 1
             /\ Fin(Ctx(m)) \in {"length", "tool_calls", "cache_threshold"}
          THEN Fin(Ctx(m)) ELSE "none")>>

sendStreamedTools(m, i) ==
  CASE call.api = "messages"  -> messagesToolChunk(m, i)
    [] call.api = "responses" -> responsesToolChunk(m, i)
    [] OTHER                  -> chatToolChunk(m, i)

\* The stop reasons of the messages API.
stopReason(fin) ==
  CASE fin = "tool_calls" -> "tool_use"
    [] fin \in {"length", "cache_threshold"} -> "max_tokens"
    [] OTHER -> "end_turn"

\* After the loop.  Whether there is a last chunk depends on the finish reason of
\* choice c; the reason in it is that of the first response.
textLastChunk(c) ==
  IF Fin(c) = "cache_threshold" THEN <<>> ELSE <<Event("finish", c, 0, 0, Fin(respCtx))>>

chatLastChunk(c) ==
  IF Fin(c) \in {"tool_calls", "cache_threshold"} THEN <<>>
  ELSE <<Event("finish", c, 0, 0, Fin(respCtx))>>

messagesLastChunk(c) ==
  <<Event("close", c, IF block > 0 THEN block - 1 ELSE 0, 0, "none"),
    Event("finish", c, 0, 0, stopReason(Fin(c)))>> \o Mark("stop")

responsesLastChunk == Mark("item done")

createLastChunk(c) ==
  CASE call.api = "text"      -> textLastChunk(c)
    [] call.api = "chat"      -> chatLastChunk(c)
    [] call.api = "responses" -> responsesLastChunk
    [] call.api = "messages"  -> messagesLastChunk(c)
    [] OTHER -> <<>>

\* The completion tokens of every choice, the tokens of each prompt once; every
\* prompt counts as one.
aggregateUsage ==
  <<Event("usage", 0, Cardinality({call.prompt[c] : c \in AllChoices}),
          FoldSet(LAMBDA c, n : n + CompletionTokens(c), 0, AllChoices), "none")>>

\* The usage of a responses stream comes with its completed event.
createUsageChunk ==
  IF call.api = "responses" \/ (OpenAI /\ call.usage) THEN aggregateUsage ELSE <<>>

createImageChunk(c) ==
  IF call.image /\ call.api = "chat" THEN <<Event("image", c, 0, 0, "none")>> ELSE <<>>

createDoneChunk == IF OpenAI THEN Mark("done") ELSE <<>>

\* A response that is not streamed: for each choice the number of its tokens and
\* its finish reason, which the responses API does not have.
Reason(c) ==
  CASE call.api = "messages"  -> stopReason(Fin(c))
    [] call.api = "responses" -> "none"
    [] OTHER                  -> Fin(c)

createResponse ==
  [c \in AllChoices |-> Event("body", c, 0, Len(tokens[c]), Reason(c))]
  \o (IF call.api = "generate" THEN <<>> ELSE aggregateUsage)

PerChoice(chunk(_)) == FlattenSeq([c \in AllChoices |-> chunk(c)])
------------------------------------------------------------------------------
(* The workers of the choices, and the watcher that closes the channel *)

\* (variant) the write blocks while the channel is full.
Produce_Blocking(c) ==
  /\ sent[c] < Len(call.work[c].msgs)
  /\ Len(channel) < Capacity
  /\ sent' = [sent EXCEPT ![c] = @ + 1]
  /\ channel' = Append(channel, [choice |-> c] @@ call.work[c].msgs[sent'[c]])
  /\ UNCHANGED <<call, finished, closed, lost, hndVars, gone>>

\* common.WriteToChannel
Produce(c) ==
  /\ sent[c] < Len(call.work[c].msgs)
  /\ sent' = [sent EXCEPT ![c] = @ + 1]
  /\ IF Len(channel) < Capacity
     THEN /\ channel' = Append(channel, [choice |-> c] @@ call.work[c].msgs[sent'[c]])
          /\ UNCHANGED lost
     ELSE /\ lost' = lost \cup {<<c, sent'[c]>>}
          /\ UNCHANGED channel
  /\ UNCHANGED <<call, finished, closed, hndVars, gone>>

signalDone(c) ==
  /\ sent[c] = Len(call.work[c].msgs)
  /\ c \notin finished
  /\ finished' = finished \cup {c}
  /\ UNCHANGED <<call, channel, sent, closed, lost, hndVars, gone>>

CloseChannel ==
  /\ finished = AllChoices /\ ~closed
  /\ closed' = TRUE
  /\ UNCHANGED <<call, channel, sent, finished, lost, hndVars, gone>>

------------------------------------------------------------------------------
(* The handlers *)

Receive   == pc = "loop" /\ channel # <<>> /\ channel' = Tail(channel)
EndOfRead == pc = "loop" /\ channel = <<>> /\ closed /\ UNCHANGED channel
Rest      == UNCHANGED <<call, prodVars, gone>>

\* Write chunk and go on to next; a failed write ends the handler.
Send(chunk, next) ==
  IF chunk # <<>> /\ gone
  THEN pc' = "done" /\ UNCHANGED out
  ELSE pc' = next /\ out' = out \o chunk

\* Whatever the client sees of chunk, the handler ends.
SendAndEnd(chunk) ==
  /\ pc' = "done"
  /\ out' = IF gone THEN out ELSE out \o chunk

Note(m) ==
  /\ respCtx' = Ctx(m)
  /\ seen' = seen \cup {m.choice}

\* sendNonStream: an error ends the response, all else is collected.
CollectResponse ==
  /\ ~call.stream /\ call.api # "grpc"
  /\ Receive
  /\ LET m == Head(channel) IN
     IF m.kind = "err"
     THEN /\ pc' = "done" /\ status' = "error" /\ draining' = TRUE
          /\ UNCHANGED <<seen, tokens, respCtx>>
     ELSE /\ Note(m)
          /\ tokens' = IF m.kind = "token"
                       THEN [tokens EXCEPT ![m.choice] = Append(@, m)] ELSE tokens
          /\ UNCHANGED <<pc, status, draining>>
  /\ Rest /\ UNCHANGED <<initialSent, firstTokens, toolCall, block, out>>

SendResponse ==
  /\ ~call.stream /\ call.api # "grpc"
  /\ EndOfRead
  /\ IF seen = AllChoices
     THEN SendAndEnd(createResponse) /\ status' = "ok"
     ELSE pc' = "done" /\ status' = "error" /\ UNCHANGED out
  /\ Rest
  /\ UNCHANGED <<respCtx, seen, initialSent, firstTokens, toolCall, block, tokens,
                 draining>>

Streaming == call.stream /\ call.api # "grpc"

\* (variant) the stream is begun before the first response is known.
StreamError_NoPeek ==
  /\ Streaming /\ Receive
  /\ Head(channel).kind = "err"
  /\ SendAndEnd(Mark("error") \o Mark("done"))
  /\ status' = "ok"
  /\ draining' = TRUE
  /\ Rest
  /\ UNCHANGED <<respCtx, seen, initialSent, firstTokens, toolCall, block, tokens>>

\* handleStream peeks the first response, whose error still sets the status; an
\* error later on is a frame of the stream.
StreamError ==
  /\ Streaming /\ Receive
  /\ Head(channel).kind = "err"
  /\ IF status = "none"
     THEN status' = "error" /\ pc' = "done" /\ UNCHANGED out
     ELSE SendAndEnd(Mark("error") \o Mark("done")) /\ UNCHANGED status
  /\ draining' = TRUE
  /\ Rest
  /\ UNCHANGED <<respCtx, seen, initialSent, firstTokens, toolCall, block, tokens>>

\* The first Created of any choice starts the stream.
StreamCreated ==
  /\ Streaming /\ Receive
  /\ LET m == Head(channel) IN
     /\ m.kind = "created"
     /\ Note(m)
     /\ Send(IF initialSent THEN <<>> ELSE createInitialChunk, "loop")
  /\ initialSent' = TRUE
  /\ status' = "ok"
  /\ Rest /\ UNCHANGED <<firstTokens, toolCall, block, tokens, draining>>

\* emitResponseChunks for a response with tokens.
StreamTokens ==
  /\ Streaming /\ Receive
  /\ LET m     == Head(channel)
         first == IF m.choice \in firstTokens THEN createFirstChunk(m) ELSE <<>>
         i     == ToolIndex(m) IN
     /\ m.kind = "token"
     /\ Note(m)
     /\ Send(first \o (IF m.tool = 0 THEN createChunk(m) ELSE sendStreamedTools(m, i)), "loop")
     /\ firstTokens' = firstTokens \ {m.choice}
     /\ IF m.tool = 0
        THEN UNCHANGED <<toolCall, block>>
        ELSE /\ toolCall' = [toolCall EXCEPT ![m.choice] = [tool |-> m.tool, index |-> i]]
             /\ block' = IF i = 0 THEN block + 1 ELSE block
  /\ draining' = (pc' = "done")
  /\ status' = "ok"
  /\ Rest /\ UNCHANGED <<initialSent, tokens>>

\* emitResponseChunks for a response without tokens: under the cache threshold it
\* ends the loop, at any other time it is an error.
StreamEmpty ==
  /\ Streaming /\ Receive
  /\ LET m == Head(channel) IN
     /\ m.kind = "empty"
     /\ Note(m)
     /\ IF Fin(Ctx(m)) = "cache_threshold"
        THEN Send(FinishChunk(m), "finish")
        ELSE SendAndEnd(Mark("error") \o Mark("done"))
  /\ draining' = (pc' = "done")
  /\ status' = "ok"
  /\ Rest /\ UNCHANGED <<initialSent, firstTokens, toolCall, block, tokens>>

StreamEnd ==
  /\ Streaming /\ EndOfRead
  /\ pc' = "finish"
  /\ status' = "ok"
  /\ Rest
  /\ UNCHANGED <<respCtx, seen, initialSent, firstTokens, toolCall, block, tokens, out,
                 draining>>

\* (variant) the finish reason is sent for the first choice only.
finalizeStream_FirstOnly ==
  /\ pc = "finish" /\ seen = AllChoices
  /\ SendAndEnd(PerChoice(createImageChunk) \o createLastChunk(1)
                \o createUsageChunk \o createDoneChunk)
  /\ Rest
  /\ UNCHANGED <<channel, respCtx, seen, initialSent, firstTokens, toolCall, block,
                 tokens, status, draining>>

finalizeStream ==
  /\ pc = "finish" /\ seen = AllChoices
  /\ SendAndEnd(PerChoice(createImageChunk) \o PerChoice(createLastChunk)
                \o createUsageChunk \o createDoneChunk)
  /\ Rest
  /\ UNCHANGED <<channel, respCtx, seen, initialSent, firstTokens, toolCall, block,
                 tokens, status, draining>>

\* A choice without a response: the status is set while the headers are, or have
\* been, written by another goroutine, and the stream just ends.
StreamIncomplete ==
  /\ pc = "finish" /\ seen # AllChoices
  /\ pc' = "done"
  /\ status' \in {"ok", "error"}
  /\ Rest
  /\ UNCHANGED <<channel, respCtx, seen, initialSent, firstTokens, toolCall, block,
                 tokens, out, draining>>

\* Generate, which looks at the context of the client before each response.
Generate ==
  /\ call.api = "grpc" /\ Receive
  /\ LET m == Head(channel) IN
     IF gone \/ m.kind = "err"
     THEN pc' = "done" /\ status' = "error" /\ UNCHANGED <<respCtx, seen, tokens, out>>
     ELSE /\ Note(m)
          /\ out' = IF call.stream /\ m.kind = "token" THEN out \o createChunk(m) ELSE out
          /\ tokens' = IF ~call.stream /\ m.kind = "token"
                       THEN [tokens EXCEPT ![m.choice] = Append(@, m)] ELSE tokens
          /\ UNCHANGED <<pc, status>>
  /\ Rest /\ UNCHANGED <<initialSent, firstTokens, toolCall, block, draining>>

GenerateEnd ==
  /\ call.api = "grpc" /\ EndOfRead
  /\ status' = IF gone THEN "error" ELSE "ok"
  /\ SendAndEnd(IF call.stream THEN <<Event("finish", 1, 0, 0, Fin(1))>>
                ELSE createResponse)
  /\ Rest
  /\ UNCHANGED <<respCtx, seen, initialSent, firstTokens, toolCall, block, tokens,
                 draining>>

drainResponseChannel ==
  /\ draining /\ channel # <<>>
  /\ channel' = Tail(channel)
  /\ UNCHANGED <<call, prodVars, hndVars, gone>>

\* The client closes its connection.
Leave ==
  /\ ~gone /\ pc # "done"
  /\ gone' = TRUE
  /\ UNCHANGED <<call, channel, prodVars, hndVars>>

------------------------------------------------------------------------------
\* The state in which a call is handed to its handler; call, pc, closed and status are
\* set by the request that leads to it.
StreamInit ==
  /\ call \in Scenario
  /\ sent = [c \in AllChoices |-> 0]
  /\ finished = {}
  /\ channel = <<>>
  /\ lost = {}
  /\ respCtx = 0
  /\ seen = {}
  /\ initialSent = FALSE
  /\ firstTokens = AllChoices
  /\ toolCall = [c \in AllChoices |-> [tool |-> 0, index |-> 0]]
  /\ block = 0
  /\ tokens = [c \in AllChoices |-> <<>>]
  /\ out = <<>>
  /\ gone = FALSE
  /\ draining = FALSE

Producer(c) == Produce(c) \/ signalDone(c)

Handler ==
  \/ CollectResponse \/ SendResponse
  \/ StreamError \/ StreamCreated \/ StreamTokens \/ StreamEmpty \/ StreamEnd
  \/ finalizeStream \/ StreamIncomplete
  \/ Generate \/ GenerateEnd

------------------------------------------------------------------------------
(* Properties *)

Has(name)  == \E i \in DOMAIN out : out[i].event = name
\* A stream whose handler has ended for a client that is still there.
Answered   == pc = "done" /\ ~gone
Threshold  == \E c \in AllChoices : Fin(c) = "cache_threshold"
FailedChoices == {c \in AllChoices : call.work[c].msgs[1].kind = "err"}

\* The content that choice c wrote, and the content of it in the events.
Produced(c) ==
  LET msgs == SelectSeq(call.work[c].msgs, LAMBDA m : m.kind = "token") IN
  [i \in DOMAIN msgs |->
     IF msgs[i].tool = 0 THEN <<0, msgs[i].pos>> ELSE <<msgs[i].tool, msgs[i].pos - 1>>]

Delivered(c) ==
  LET evs == SelectSeq(out, LAMBDA e : e.choice = c /\ e.event \in {"token", "tool"}) IN
  [i \in DOMAIN evs |->
     CASE evs[i].event = "token"  -> <<0, evs[i].pos>>
       [] call.api = "messages"   -> <<evs[i].at + 1, evs[i].pos>>
       [] OTHER                   -> <<evs[i].at, evs[i].pos>>]

\* The content blocks of a stream of the messages API: each is closed before the next
\* is opened, they are numbered from 0 without a gap, all content lies in the open
\* block, and none is open when the message stops.
BlocksBalanced ==
  \A i \in DOMAIN out :
    LET prior == SelectSeq(SubSeq(out, 1, i - 1),
                           LAMBDA e : e.event \in {"open", "close"})
        prev  == IF prior = <<>> THEN [event |-> "close", at |-> -1]
                 ELSE [event |-> Last(prior).event, at |-> Last(prior).at]
    IN CASE out[i].event = "open" -> prev = [event |-> "close", at |-> out[i].at - 1]
         [] out[i].event \in {"token", "tool", "close"} ->
              prev = [event |-> "open", at |-> out[i].at]
         [] out[i].event = "stop" -> prev.event = "close"
         [] OTHER -> TRUE

\* While choices are interleaved in one stream, a client can put each of them
\* together again: the content it has of a choice is a prefix of what the worker
\* wrote for it, with the fragments of each tool call numbered from 0
\* (emitResponseChunks), whenever nothing was dropped; and the blocks of the messages
\* API are balanced at any moment (messagesHTTPRespBuilder).
InOrder ==
  /\ lost = {} => \A c \in AllChoices : IsPrefix(Delivered(c), Produced(c))
  /\ call.api = "messages" /\ call.stream /\ initialSent => BlocksBalanced

\* What ends without an error is complete.  A response has the tokens and the finish
\* reason of each choice.  A stream has all content of all choices, then a finish
\* reason for each of them if their reasons agree, the usage of all of them if it
\* was asked for, and the endpoint's last event at its very end (sendNonStream,
\* sendStream, finalizeStream, Generate).  Excepted are streams with several choices
\* of which one is cut short by the cache threshold.
ResponseComplete ==
  (Answered /\ status = "ok" /\ lost = {} /\ ~Has("error")) =>
    /\ ~call.stream => \A c \in AllChoices :
         \E i \in DOMAIN out : /\ out[i].event = "body" /\ out[i].choice = c
                              /\ out[i].pos = Len(Produced(c))
                              /\ out[i].finish = Reason(c)
    /\ (call.stream /\ ~(Threshold /\ Len(call.work) > 1)) =>
         /\ \A c \in AllChoices : Delivered(c) = Produced(c)
         /\ (OpenAI /\ \A c, d \in AllChoices : Fin(c) = Fin(d)) =>
              \A c \in AllChoices :
                \E i \in DOMAIN out :
                  /\ out[i].choice = c /\ out[i].finish = Fin(c)
                  /\ \A j \in i + 1 .. Len(out) : out[j].choice # c
         /\ createUsageChunk # <<>> => \E i \in DOMAIN out : <<out[i]>> = aggregateUsage
         /\ Last(out).event = CASE OpenAI -> "done"
                                [] call.api = "messages" -> "stop"
                                [] call.api = "responses" -> "usage"
                                [] call.api = "grpc" -> "finish"

\* A failure is never reported as success.  If a choice failed, a response that is
\* not streamed has an error status, and a stream that begins has an error event
\* and no content after it; if all of them failed the client gets the error status
\* and no stream at all (sendNonStream, handleStream, Generate).
HonestStatus ==
  (Answered /\ lost = {} /\ ~Threshold /\ FailedChoices # {})
  => /\ status = "error" \/ (Streaming /\ Has("error"))
     /\ FailedChoices = AllChoices => status = "error" /\ out = <<>>
     /\ \A i \in DOMAIN out : out[i].event = "error" => SubSeq(out, i + 1, Len(out)) = Mark("done")
=============================================================================
