----------------------------- MODULE AdminConfig ------------------------------
(***************************************************************************)
(* POST /admin/config: ApplyConfigUpdate merges a partial body into a copy  *)
(* of the configuration, validates the result, applies fake metrics to the  *)
(* Prometheus collectors, swaps the configuration and rebuilds the latency  *)
(* calculator, one caller at a time (pkg/simulator/context.go,              *)
(* fake_metrics.go, pkg/common/config.go).  Meanwhile the updaters of       *)
(* Gauges read the configuration, and the goroutine that refreshes gauges   *)
(* given by a function runs until its stop channel is closed.               *)
(*                                                                          *)
(* A body is a function from the fields it mentions to values; Null is an   *)
(* explicit JSON null, Nil an absent pointer, slice or function.  The       *)
(* configuration keeps the fields the properties tell apart: rate for those *)
(* that are only swapped, the fields the latency calculator caches, and     *)
(* fake.  Of the fake metrics, running and waiting are the gauges,          *)
(* buckets stands for the histograms and counters with a collector of their *)
(* own, and prompt with total for the two pairs of a histogram and a        *)
(* counter.  The value of a histogram is the samples of its first bucket.   *)
(***************************************************************************)
EXTENDS Gauges, SequencesExt

CONSTANTS
  Admins,        \* callers of ApplyConfigUpdate
  Bodies,        \* what they send
  Scenarios,     \* start configuration, requests that arrive, and updates that may be sent
  Nil, Null,
  MaxAge         \* the age, in refresh intervals, from which a ticker's age is not told apart

VARIABLES
  config, calculator,
  adminMu,       \* who holds it, or Nil
  pending,       \* what the holder of adminMu has computed, and its next step
  updates,       \* how many more updates may be accepted
  content,       \* the samples of each collector, from fake values and from requests
  generated,     \* generatedFakeMetrics: the function of each gauge, or Nil
  tickers,       \* the goroutines updateGeneratedFakeMetrics, in the order of their start
  closed,        \* the stop channels that are closed; channel i was made with ticker i
  sent           \* history: the last value that an accepted body gave each field

adminVars ==
  <<config, calculator, adminMu, pending, updates, content, generated, tickers, closed, sent>>
vars == <<gaugeVars, adminVars>>

Collectors == {"buckets", "prompt", "total"}
FakeFields == Gauge \cup Collectors

\* The fields that a calculator caches.
LatencyFields ==
  {"latencyCalculator", "timeToFirstToken", "timeToFirstTokenStdDev", "prefillOverhead",
   "prefillTimePerToken", "kvCacheTransferLatency", "kvCacheTransferLatencyStdDev",
   "kvCacheTransferTimePerToken", "timeFactorUnderLoad"}

PlainFields == {"rate"} \cup LatencyFields

ASSUME AdminAssumption ==
  /\ Nil \notin Admins
  /\ \A s \in Scenarios : DOMAIN s.config = PlainFields \cup {"fake"}

Fake == config.fake # Nil

------------------------------------------------------------------------------
(* The merge *)

\* FunctionInfo.validate and the checks of FakeMetrics.validate.
validateFake(f) ==
  /\ \A g \in Gauge : f[g] # Nil =>
       /\ f[g].fixed >= 0
       /\ f[g].fun # Nil =>
            /\ f[g].fun.name \in {"oscillate", "ramp", "rampreset", "squarewave"}
            /\ f[g].fun.start >= 0 /\ f[g].fun.end >= 0 /\ f[g].fun.period > 0
  /\ \A c \in Collectors : f[c] # Nil => f[c] >= 0

\* Configuration.validate, for the fields that can be updated.
validate(c) ==
  /\ \A f \in LatencyFields \ {"latencyCalculator"} : c[f] >= 0
  /\ 10 * c.timeToFirstTokenStdDev <= 3 * c.timeToFirstToken
  /\ 10 * c.kvCacheTransferLatencyStdDev <= 3 * c.kvCacheTransferLatency
  /\ c.timeFactorUnderLoad >= 1
  /\ c.latencyCalculator \in {"", "constant", "per-token"}
  /\ c.rate \in 0 .. 100
  /\ c.fake # Nil => validateFake(c.fake)

\* A gauge value as UnmarshalJSON leaves it: a number sets FixedValue, a string
\* sets Function and IsFunction, and neither resets what the other sets.
UnmarshalGauge(old, new) ==
  IF old = Nil THEN new
  ELSE IF new.fun = Nil THEN [old EXCEPT !.fixed = new.fixed]
  ELSE [old EXCEPT !.fun = new.fun]

\* Field f of a FakeMetrics after json.Unmarshal of b over old.
UnmarshalField(old, b, f) ==
  IF f \notin DOMAIN b THEN old[f]
  ELSE IF b[f] = Null THEN Nil
  ELSE IF f \in Gauge THEN UnmarshalGauge(old[f], b[f])
  ELSE b[f]

NoFields == [f \in FakeFields |-> Nil]

UnmarshalFake(old, b) ==
  IF b = Null THEN Nil
  ELSE [f \in FakeFields |-> UnmarshalField(IF old = Nil THEN NoFields ELSE old, b, f)]

\* json.Unmarshal of a body over a configuration.
Unmarshal(c, body) ==
  [f \in DOMAIN c |->
    IF f \notin DOMAIN body THEN c[f]
    ELSE IF f = "fake" THEN UnmarshalFake(c.fake, body.fake)
    ELSE IF body[f] = Null THEN c[f]
    ELSE body[f]]

\* Copy goes through JSON, where a gauge given by a function has no fixed value.
Copy(c) ==
  [c EXCEPT !.fake =
    IF c.fake = Nil THEN Nil
    ELSE [f \in FakeFields |->
      IF f \in Gauge /\ c.fake[f] # Nil /\ c.fake[f].fun # Nil
      THEN [c.fake[f] EXCEPT !.fixed = 0] ELSE c.fake[f]]]

\* (variant)
ConfigUpdate_MissingTag(c, body) ==
  [next           |-> Unmarshal(Copy(c), body),
   update         |-> IF "fake" \in DOMAIN body THEN UnmarshalFake(Nil, body.fake) ELSE Nil,
   latencyChanged |-> "latencyCalculator" \in DOMAIN body,
   step           |-> "fake"]

\* Configuration.Update: the merged configuration, the fields of the body alone,
\* and whether the calculator must be rebuilt.
ConfigUpdate(c, body) ==
  [next           |-> Unmarshal(Copy(c), body),
   update         |-> IF "fake" \in DOMAIN body THEN UnmarshalFake(Nil, body.fake) ELSE Nil,
   latencyChanged |-> DOMAIN body \cap LatencyFields # {},
   step           |-> "fake"]

\* What Update rejects: fields that are not admin-configurable, and invalid results.
Accepted(c, body) ==
  /\ DOMAIN body \subseteq DOMAIN c
  /\ validate(ConfigUpdate(c, body).next)
  /\ ConfigUpdate(c, body).update # Nil => c.fake # Nil

\* rebuildLatencyCalculator: the calculator caches what it uses.
BuildCalculator(c) == [f \in LatencyFields |-> c[f]]

------------------------------------------------------------------------------
(* Fake metrics *)

\* sin(2 pi t / period) at quarters of the period.
Sine(t, period) == <<0, 1, 0, -1>>[(((4 * t) \div period) % 4) + 1]

\* oscillate, ramp, rampWithReset and squarewave; the results are rounded to integers.
genFun(f, t) ==
  CASE f.name = "oscillate"  ->
         (f.start + f.end + (f.end - f.start) * Sine(t, f.period)) \div 2
    [] f.name = "ramp"       ->
         IF t >= f.period THEN f.end
         ELSE f.start + (t * (f.end - f.start)) \div f.period
    [] f.name = "rampreset"  ->
         f.start + ((t % f.period) * (f.end - f.start)) \div f.period
    [] f.name = "squarewave" ->
         IF t % f.period < f.period \div 2 THEN f.start ELSE f.end

Empty == [fake |-> 0, real |-> 0]

\* (variant)
Recreated_Never(c, existed) == c

\* A collector that had a value is unregistered and created anew.
Recreated(c, existed) == IF existed THEN Empty ELSE c

Observe(c, v) == [c EXCEPT !.fake = @ + v]

\* A histogram or counter with values of its own.
UpdatedCollector(c, new, old) == IF new = Nil THEN c ELSE Observe(Recreated(c, old # Nil), new)

\* The counter beside a histogram: the total sent, or else that of the histogram sent.
updateTokenMetrics(c, newHist, oldHist, newTotal, oldTotal) ==
  IF newHist = Nil /\ newTotal = Nil THEN c
  ELSE Observe(Recreated(c, oldTotal # Nil \/ oldHist # Nil),
               IF newTotal # Nil THEN newTotal ELSE newHist)

\* The collectors after updateFakeMetrics.
UpdatedContent(c, update, fake) ==
  LET old == IF fake = Nil THEN NoFields ELSE fake
  IN  [buckets |-> UpdatedCollector(c.buckets, update.buckets, old.buckets),
       prompt  |-> UpdatedCollector(c.prompt, update.prompt, old.prompt),
       total   |-> updateTokenMetrics(c.total, update.prompt, old.prompt,
                                      update.total, old.total)]

\* setFakeMetricWithFunction: the generator of each gauge, and what the gauge shows.
UpdatedGenerators(gen, update) ==
  [g \in Gauge |-> IF update[g] = Nil THEN gen[g] ELSE update[g].fun]

UpdatedGauge(shown, update) ==
  [g \in Gauge |->
    IF update[g] = Nil THEN shown[g]
    ELSE IF update[g].fun # Nil THEN genFun(update[g].fun, 0)
    ELSE update[g].fixed]

Generators(gen) == {g \in Gauge : gen[g] # Nil}

\* The goroutine updateGeneratedFakeMetrics before its first select.
NewTicker == [at |-> "start", stop |-> 0, age |-> 0]

\* (variant)
TickersAfter_LateLook(before, after) ==
  /\ tickers' = tickers
  /\ closed' = IF Generators(after) = {} THEN closed \cup {Len(tickers)} ELSE closed

\* The end of updateFakeMetrics: the first generator starts a ticker with a stop
\* channel of its own, and the last one to go closes the current stop channel.
TickersAfter(before, after) ==
  /\ tickers' = IF Generators(before) = {} /\ Generators(after) # {}
                THEN Append(tickers, NewTicker) ELSE tickers
  /\ closed' = IF Generators(before) # {} /\ Generators(after) = {}
               THEN closed \cup {Len(tickers)} ELSE closed

------------------------------------------------------------------------------
(* ApplyConfigUpdate *)

\* What the accepted body gives each field; a null gives nothing.
SentAfter(s, body) ==
  LET fake == IF "fake" \in DOMAIN body /\ body.fake # Null THEN body.fake ELSE << >>
      given(f) == f \in DOMAIN fake /\ fake[f] # Null
  IN  [f \in DOMAIN s |->
        CASE f \in PlainFields /\ f \in DOMAIN body /\ body[f] # Null -> body[f]
          [] f = "total" /\ ~given("total") /\ given("prompt") -> fake["prompt"]
          [] f \in FakeFields /\ given(f) -> fake[f]
          [] OTHER -> s[f]]

SentAtStart(c, fields) ==
  [f \in PlainFields \cup FakeFields |->
    CASE f \in PlainFields -> c[f]
      [] f = "total" /\ fields["total"] = Nil -> fields["prompt"]
      [] OTHER -> fields[f]]

\* The caller takes adminMu and computes the update; a rejected body ends here.
Lock(a, body) ==
  /\ adminMu = Nil /\ updates > 0
  /\ IF Accepted(config, body)
     THEN /\ adminMu' = a
          /\ pending' = ConfigUpdate(config, body)
          /\ updates' = updates - 1
          /\ sent' = SentAfter(sent, body)
     ELSE UNCHANGED <<adminMu, pending, updates, sent>>
  /\ UNCHANGED <<gaugeVars, config, calculator, content, generated, tickers, closed>>

\* updateFakeMetrics, if the body has fake metrics.
UpdateFakeMetrics(a) ==
  /\ adminMu = a /\ pending.step = "fake"
  /\ pending' = [pending EXCEPT !.step = "swap"]
  /\ IF pending.update = Nil THEN UNCHANGED <<content, generated, tickers, closed, gauge>>
     ELSE /\ content' = UpdatedContent(content, pending.update, config.fake)
          /\ generated' = UpdatedGenerators(generated, pending.update)
          /\ gauge' = UpdatedGauge(gauge, pending.update)
          /\ TickersAfter(generated, generated')
  /\ UNCHANGED <<request, chan, lost, count, runningLoras, waitingLoras, ttft,
                 config, calculator, adminMu, updates, sent>>

\* The swap, from which on requests and updaters see the new configuration.
SetConfig(a) ==
  /\ adminMu = a /\ pending.step = "swap"
  /\ config' = pending.next
  /\ pending' = [pending EXCEPT !.step = "rebuild"]
  /\ UNCHANGED <<gaugeVars, calculator, adminMu, updates, content, generated, tickers, closed,
                 sent>>

\* The new calculator, if a latency field was in the body, and the return.
Rebuild(a) ==
  /\ adminMu = a /\ pending.step = "rebuild"
  /\ calculator' = IF pending.latencyChanged THEN BuildCalculator(config) ELSE calculator
  /\ adminMu' = Nil /\ pending' = Nil
  /\ UNCHANGED <<gaugeVars, config, updates, content, generated, tickers, closed, sent>>

------------------------------------------------------------------------------
(* The goroutines that read the configuration *)

\* A ticker reaches its select, which looks at the stop channel of this moment.
Select(t) ==
  /\ tickers[t].at = "start"
  /\ tickers' = [tickers EXCEPT ![t].at = "select", ![t].stop = Len(tickers)]
  /\ UNCHANGED <<gaugeVars, config, calculator, adminMu, pending, updates, content,
                 generated, closed, sent>>

\* The refresh interval has passed.
Tick(t) ==
  /\ tickers[t].at = "select"
  /\ tickers' = [tickers EXCEPT ![t].at = "body",
       ![t].age = IF @ < MaxAge THEN @ + 1 ELSE @]
  /\ UNCHANGED <<gaugeVars, config, calculator, adminMu, pending, updates, content,
                 generated, closed, sent>>

\* The values of the generators of this moment; the ticker selects again.
Refresh(t) ==
  /\ tickers[t].at = "body"
  /\ tickers' = [tickers EXCEPT ![t].at = "select", ![t].stop = Len(tickers)]
  /\ chan' = [ch \in Channels |->
       IF ch \in Generators(generated)
       THEN WriteToChannel(chan, ch, Update(genFun(generated[ch], tickers[t].age), TRUE))[ch]
       ELSE chan[ch]]
  /\ UNCHANGED <<request, lost, count, gauge, runningLoras, waitingLoras, ttft,
                 config, calculator, adminMu, pending, updates, content, generated, closed,
                 sent>>

\* The stop channel that the select looks at is closed.
StopTicker(t) ==
  /\ tickers[t].at = "select" /\ tickers[t].stop \in closed
  /\ tickers' = [tickers EXCEPT ![t].at = "done"]
  /\ UNCHANGED <<gaugeVars, config, calculator, adminMu, pending, updates, content,
                 generated, closed, sent>>

\* ttftUpdater, and with it the other updaters that end in reportHistogramValue.
ttftUpdater ==
  /\ Took("ttft")
  /\ content' = IF Fake THEN content ELSE [content EXCEPT !["buckets"].real = @ + 1]
  /\ UNCHANGED <<request, lost, count, gauge, runningLoras, waitingLoras, ttft,
                 config, calculator, adminMu, pending, updates, generated, tickers, closed,
                 sent>>

\* recordRequestUpdater: recordRequestMetricsOnSuccess does not look at the configuration.
recordRequestUpdater ==
  /\ Took("success")
  /\ content' = [content EXCEPT !["prompt"].real = @ + 1, !["total"].real = @ + 1]
  /\ UNCHANGED <<request, lost, count, gauge, runningLoras, waitingLoras, ttft,
                 config, calculator, adminMu, pending, updates, generated, tickers, closed,
                 sent>>

------------------------------------------------------------------------------
\* createAndRegisterPrometheus, setInitialPrometheusMetrics and setInitialFakeMetrics,
\* for a configuration that was validated.
Init ==
  /\ \E s \in Scenarios :
       /\ validate(s.config)
       /\ config = s.config
       /\ request = [r \in Requests |-> IF r \in s.arrivals THEN "new" ELSE "absent"]
       /\ updates = s.updates
  /\ LET fields == IF Fake THEN config.fake ELSE NoFields
         none   == [g \in Gauge |-> Nil]
         zero   == [g \in Gauge |-> 0]
     IN
     /\ chan = [ch \in Channels |-> <<>>]
     /\ lost = [ch \in Channels |-> <<>>]
     /\ count = zero
     /\ gauge = UpdatedGauge(zero, fields)
     /\ runningLoras = [l \in Loras |-> 0]
     /\ waitingLoras = [l \in Loras |-> 0]
     /\ ttft = [r \in Requests |-> <<>>]
     /\ content = UpdatedContent([f \in Collectors |-> Empty], fields, Nil)
     /\ generated = UpdatedGenerators(none, fields)
     /\ tickers = IF Generators(generated) = {} THEN <<>> ELSE <<NewTicker>>
     /\ closed = {}
     /\ sent = SentAtStart(config, fields)
  /\ calculator = BuildCalculator(config)
  /\ adminMu = Nil /\ pending = Nil

ApplyConfigUpdate(a) ==
  \/ \E body \in Bodies : Lock(a, body)
  \/ UpdateFakeMetrics(a) \/ SetConfig(a) \/ Rebuild(a)

Ticker(t) == Select(t) \/ Tick(t) \/ Refresh(t) \/ StopTicker(t)

Updaters ==
  \/ (\E g \in Gauge : GaugeUpdater(g, Fake)) /\ UNCHANGED adminVars
  \/ lorasUpdater /\ UNCHANGED adminVars
  \/ ttftUpdater
  \/ recordRequestUpdater

Next ==
  \/ (\E r \in Requests : RequestNext(r, calculator)) /\ UNCHANGED adminVars
  \/ Updaters
  \/ \E a \in Admins : ApplyConfigUpdate(a)
  \/ \E t \in DOMAIN tickers : Ticker(t)

Spec == Init /\ [][Next]_vars

------------------------------------------------------------------------------
(* Properties *)

Total(upds) == FoldSeq(LAMBDA u, sum : u.value + sum, 0, upds)

\* The numbers of running and of waiting requests are behind the truth by exactly the
\* updates in the channel and those that were dropped.  As long as none was dropped
\* they are never outside what the scheduler allows, however late they are: a
\* request's decrement cannot overtake its increment, and a worker's decrement is
\* written before its next increment.  (With fake metrics these updates are ignored.)
\* When all updates about LoRAs are applied and none was lost, the LoRAs listed as
\* running are those of running requests, and none is listed as waiting that no
\* request waits for, although a request that never waited also counts down.
\* And the load that a request's time to first token is computed from is never above
\* that of a full server.
GaugesFollow ==
  /\ ~Fake => \A g \in Gauge :
       /\ count[g] + Total(chan[g]) + Total(lost[g]) =
            Cardinality(At({IF g = "running" THEN "running" ELSE "queued"}))
       /\ lost[g] = <<>> =>
            count[g] \in 0 .. (IF g = "running" THEN MaxNumSeqs ELSE MaxWaitingQueueLength)
  /\ (lost["loras"] = <<>> /\ chan["loras"] = <<>>) => \A l \in Loras :
       /\ runningLoras[l] = Cardinality({r \in At({"running"}) : LoraOf[r] = l})
       /\ waitingLoras[l] <= Cardinality({r \in At({"queued", "sent"}) : LoraOf[r] = l})
  /\ lost["running"] = <<>> => \A r \in Requests :
       ttft[r] # <<>> => ttft[r][2] <= ttft[r][3]

\* With fake metrics every collector shows the last value that was sent for it: an
\* update replaces what the collector had, whatever came before, and a total that is
\* not sent follows its histogram.  Requests served meanwhile change nothing in it.
LastValueReported ==
  (Fake /\ adminMu = Nil) =>
    \A c \in Collectors :
      content[c].fake = IF sent[c] = Nil THEN 0 ELSE sent[c]

\* Between updates the configuration is valid and has the last value sent for each
\* field, whoever sent it, and the calculator uses the values of the configuration.
UpdatesSerialized ==
  adminMu = Nil =>
    /\ validate(config)
    /\ \A f \in PlainFields : config[f] = sent[f]
    /\ calculator = BuildCalculator(config)

\* What ticker t will find when it next selects: the channel it waits on, or the
\* current one.
StopOf(t) == IF tickers[t].at = "select" THEN tickers[t].stop ELSE Len(tickers)

\* Between updates a ticker runs and keeps running if some gauge is given by a
\* function, also when the last function was replaced and a new one arrived before
\* the old ticker noticed that its channel was closed.  If there is none, every
\* ticker, the ones that missed an earlier close included, finds a closed channel.
TickersFollow ==
  adminMu = Nil =>
    LET alive == {t \in DOMAIN tickers : tickers[t].at # "done"} IN
    IF Generators(generated) # {}
    THEN \E t \in alive : StopOf(t) \notin closed
    ELSE \A t \in alive : StopOf(t) \in closed
=============================================================================
