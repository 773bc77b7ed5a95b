----------------------------- MODULE MCRequests ------------------------------
(* The servers and requests under which Requests is checked. *)
EXTENDS Requests

Plain == [mode |-> "random", mm |-> FALSE, busy |-> FALSE, inject |-> FALSE,
          dataset |-> "none", stored |-> {}, known |-> {}, cache |-> "off", below |-> {},
          trace |-> <<>>]

Stored(all, known) == [Plain EXCEPT !.dataset = "readable", !.stored = all, !.known = known]
Cached(below)      == [Plain EXCEPT !.cache = "ok", !.below = below]
Traced(prompts)    == [Plain EXCEPT !.trace = prompts]

Ask(api, stream, prompts, max) ==
  [api |-> api, stream |-> stream, usage |-> TRUE, image |-> FALSE, model |-> "base",
   n |-> Absent, max |-> max, ignoreEOS |-> FALSE, remoteDecode |-> FALSE,
   prompts |-> prompts, echo |-> 2, tools |-> "none", args |-> <<2, 1>>,
   toolResults |-> FALSE, tracePrompt |-> Absent, header |-> FALSE]

Chat(max)   == Ask("chat", TRUE, <<2>>, max)
TraceOf(id) == [Chat(Absent) EXCEPT !.tracePrompt = id, !.usage = FALSE]

By(client, server, request) == [server |-> server, request |-> request, client |-> client]
From(server, request) == By("any", server, request)

\* Every endpoint with one choice.
Endpoints ==
  {From(server, Ask(api, stream, <<2>>, 2)) :
     api \in {"text", "chat", "generate", "messages", "responses", "grpc"},
     stream \in BOOLEAN,
     server \in {Plain, Cached({1}), [Plain EXCEPT !.cache = "full"]}}

\* Tool calls, images, prefill requests, limits and requests that are refused.
Variants ==
  {From(Plain, [Ask(api, TRUE, <<2>>, 2) EXCEPT !.tools = tools, !.args = args]) :
     api \in {"chat", "messages", "responses"},
     tools \in {"auto", "required", "forced", "missing"}, args \in {<<2, 1>>, <<2, 2>>}}
  \cup {From(Plain, [Ask("responses", TRUE, <<2>>, 2) EXCEPT !.tools = "auto", !.toolResults = TRUE])}
  \cup {From(Plain, [Chat(Absent) EXCEPT !.image = TRUE, !.usage = FALSE]),
        From(Plain, [Ask("chat", FALSE, <<1>>, 5) EXCEPT !.remoteDecode = TRUE]),
        From(Plain, [Chat(2) EXCEPT !.remoteDecode = TRUE]),
        From(Plain, [Chat(2) EXCEPT !.header = TRUE]),
        From(Plain, [Chat(5) EXCEPT !.ignoreEOS = TRUE]),
        From(Plain, [Chat(Absent) EXCEPT !.ignoreEOS = TRUE]),
        From(Plain, [Chat(2) EXCEPT !.model = "unknown"]),
        From([Plain EXCEPT !.inject = TRUE], Chat(2)),
        From(Plain, [Chat(2) EXCEPT !.n = 0]),
        From(Plain, Ask("text", TRUE, <<1, 0>>, 2)),
        From(Plain, Ask("generate", TRUE, <<>>, 2)),
        From(Plain, [Chat(2) EXCEPT !.tools = "invalid"]),
        From(Plain, Ask("messages", TRUE, <<2>>, Absent)),
        From(Plain, Ask("generate", TRUE, <<0>>, Absent))}
  \cup {From(Plain, Ask("text", stream, <<p>>, max)) :
          stream \in BOOLEAN, p \in 3 .. 4, max \in {Absent, 0, 1}}

\* The sources of a response: the prompt, a dataset, an image encoder.
Sources ==
  {From([Plain EXCEPT !.mode = "echo"], [Ask("chat", TRUE, <<2>>, max) EXCEPT !.echo = echo]) :
     max \in {Absent, 1, 2, 3}, echo \in 0 .. 2}
  \cup {From(Stored(all, known), [Chat(max) EXCEPT !.ignoreEOS = (max = 2)]) :
          all \in {{}, {0, 1, 3}, {1, 2}, {3}}, known \in {{}, {1}, {3}},
          max \in {Absent, 1, 2}}
  \cup {From([Plain EXCEPT !.dataset = "unreadable"], Chat(2)),
        From([Plain EXCEPT !.mm = TRUE], Chat(6)),
        From([Plain EXCEPT !.mm = TRUE], Ask("grpc", TRUE, <<2>>, 6)),
        From([Plain EXCEPT !.mm = TRUE, !.cache = "ok"], Chat(2))}

\* Calls with several choices, of one prompt (n = 2) or of two prompts.
Several ==
  {From(server, [Ask(kind[1], stream, kind[2], max) EXCEPT !.n = IF Len(kind[2]) = 1 THEN 2 ELSE 1]) :
     kind \in {<<"text", <<2>>>>, <<"text", <<2, 3>>>>, <<"chat", <<2>>>>},
     stream \in BOOLEAN, max \in {Absent, 1},
     server \in {Plain, [Plain EXCEPT !.busy = TRUE], Cached({1})}}
  \cup {From(Plain, [Ask("chat", TRUE, <<2>>, 1) EXCEPT !.n = 2, !.tools = "required"])}

\* The benchmark clients.
Recorded == <<[input |-> 2, decode |-> 2], [input |-> 3, decode |-> 1],
              [input |-> 4, decode |-> 0]>>

Benchmarks ==
  {By("trace", server, TraceOf(id)) :
     id \in DOMAIN Recorded,
     server \in {Traced(Recorded), [Traced(Recorded) EXCEPT !.busy = TRUE],
                 [Traced(Recorded) EXCEPT !.cache = "ok", !.below = {1}]}}
  \cup {By("trace", Traced(<<[input |-> 3, decode |-> 2]>>), TraceOf(1))}
  \cup {By("dataset", server, Chat(max)) :
          max \in {1, 2}, server \in {Plain, Stored({0, 1, 3}, {0, 3})}}
  \cup {By("dataset", [Plain EXCEPT !.dataset = "unreadable"], Chat(2)),
        By("dataset", Plain, [Chat(2) EXCEPT !.image = TRUE])}
  \cup {From(Traced(Recorded), [TraceOf(1) EXCEPT !.max = max, !.n = n, !.image = image]) :
          max \in {Absent, 1, 3}, n \in {Absent, 2}, image \in BOOLEAN}
  \cup {From(Plain, TraceOf(1)), From(Traced(Recorded), TraceOf(4)),
        From(Traced(Recorded), [TraceOf(1) EXCEPT !.model = "lora"])}

MCInputs ==
  {i \in Endpoints \cup Variants \cup Sources \cup Several \cup Benchmarks :
     i.server.known \subseteq i.server.stored}
=============================================================================
