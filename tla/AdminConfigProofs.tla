-------------------------- MODULE AdminConfigProofs ---------------------------
(***************************************************************************)
(* For any bodies, callers, requests and start configurations: updates are  *)
(* serialized.                                                              *)
(***************************************************************************)
EXTENDS AdminConfig, TLAPS

Fields == PlainFields \cup {"fake"}

\* The field names are different.
LEMMA FieldNames == "fake" \notin PlainFields /\ LatencyFields \subseteq PlainFields
BY DEF PlainFields, LatencyFields

\* A configuration with everything that was sent.
HasSent(c) == DOMAIN c = Fields /\ validate(c) /\ \A f \in PlainFields : c[f] = sent[f]

\* While adminMu is held the merged configuration is in pending.next; the calculator
\* is that of the old configuration, and also of the new one if no field it caches
\* is in the body.
SerialInv ==
  /\ DOMAIN config = Fields
  /\ DOMAIN sent = PlainFields \cup FakeFields
  /\ adminMu \in Admins \cup {Nil}
  /\ adminMu = Nil => HasSent(config) /\ calculator = BuildCalculator(config)
  /\ adminMu # Nil =>
       /\ HasSent(pending.next)
       /\ pending.step = "rebuild" => config = pending.next
       /\ ~pending.latencyChanged => calculator = BuildCalculator(pending.next)

\* A plain field of the merge has the value of the body, or the old one.
LEMMA MergePlain ==
  ASSUME NEW c, DOMAIN c = Fields, NEW body
  PROVE  /\ DOMAIN ConfigUpdate(c, body).next = Fields
         /\ \A f \in PlainFields :
              ConfigUpdate(c, body).next[f] =
                IF f \in DOMAIN body /\ body[f] # Null THEN body[f] ELSE c[f]
<1>1. DOMAIN Copy(c) = Fields /\ \A f \in PlainFields : Copy(c)[f] = c[f]
  BY FieldNames DEF Copy, Fields
<1>2. ConfigUpdate(c, body).next = Unmarshal(Copy(c), body)
  BY DEF ConfigUpdate
<1> QED
  BY <1>1, <1>2, FieldNames DEF Unmarshal, Fields

\* The history follows the same rule.
LEMMA SentPlain ==
  ASSUME NEW s, DOMAIN s = PlainFields \cup FakeFields, NEW body
  PROVE  /\ DOMAIN SentAfter(s, body) = PlainFields \cup FakeFields
         /\ \A f \in PlainFields :
              SentAfter(s, body)[f] =
                IF f \in DOMAIN body /\ body[f] # Null THEN body[f] ELSE s[f]
<1>1. \A f \in PlainFields : f \notin FakeFields /\ f # "total"
  BY DEF PlainFields, LatencyFields, FakeFields, Gauge, Collectors
<1> QED
  BY <1>1 DEF SentAfter

LEMMA InitialSent ==
  ASSUME NEW c, NEW fields
  PROVE  /\ DOMAIN SentAtStart(c, fields) = PlainFields \cup FakeFields
         /\ \A f \in PlainFields : SentAtStart(c, fields)[f] = c[f]
<1>1. \A f \in PlainFields : f # "total"
  BY DEF PlainFields, LatencyFields
<1> QED
  BY <1>1 DEF SentAtStart

\* The step that computes the update keeps the invariant.
LEMMA LockStep ==
  ASSUME SerialInv, NEW a \in Admins, NEW body \in Bodies, Lock(a, body)
  PROVE  SerialInv'
<1>1. CASE ~Accepted(config, body)
  BY <1>1 DEF Lock, SerialInv, HasSent
<1>2. CASE Accepted(config, body)
  <2> DEFINE u == ConfigUpdate(config, body)
  <2>1. /\ adminMu = Nil /\ adminMu' = a /\ pending' = u
        /\ sent' = SentAfter(sent, body)
        /\ config' = config /\ calculator' = calculator
    BY <1>2 DEF Lock
  <2>2. /\ DOMAIN config = Fields /\ HasSent(config)
        /\ calculator = BuildCalculator(config)
        /\ DOMAIN sent = PlainFields \cup FakeFields
    BY <2>1 DEF SerialInv
  <2>3. /\ DOMAIN u.next = Fields
        /\ \A f \in PlainFields : u.next[f] = sent'[f]
    <3>1. \A f \in PlainFields : config[f] = sent[f]
      BY <2>2 DEF HasSent
    <3>2. /\ DOMAIN u.next = Fields
          /\ \A f \in PlainFields :
               u.next[f] = IF f \in DOMAIN body /\ body[f] # Null THEN body[f] ELSE config[f]
      BY <2>2, MergePlain
    <3>3. \A f \in PlainFields :
            sent'[f] = IF f \in DOMAIN body /\ body[f] # Null THEN body[f] ELSE sent[f]
      BY <2>1, <2>2, SentPlain
    <3> HIDE DEF u
    <3> QED
      BY <3>1, <3>2, <3>3
  <2>4. HasSent(pending.next)'
    BY <1>2, <2>1, <2>3 DEF HasSent, Accepted
  <2>5. ASSUME ~u.latencyChanged PROVE calculator = BuildCalculator(u.next)
    <3>1. \A f \in LatencyFields : f \notin DOMAIN body
      BY <2>5 DEF ConfigUpdate
    <3>2. \A f \in LatencyFields : u.next[f] = config[f]
      BY <3>1, <2>2, MergePlain, FieldNames
    <3> QED
      BY <3>2, <2>2 DEF BuildCalculator
  <2>6. u.step = "fake"
    BY DEF ConfigUpdate
  <2>7. DOMAIN sent' = PlainFields \cup FakeFields
    BY <2>1, <2>2, SentPlain
  <2> HIDE DEF u
  <2>8. a # Nil
    BY AdminAssumption
  <2> QED
    BY <2>1, <2>2, <2>4, <2>5, <2>6, <2>7, <2>8 DEF SerialInv
<1> QED
  BY <1>1, <1>2

\* The invariant looks at nothing else.
serialVars == <<config, calculator, adminMu, pending, sent>>

LEMMA SerialStep == SerialInv /\ [Next]_vars => SerialInv'
<1> SUFFICES ASSUME SerialInv, [Next]_vars PROVE SerialInv'
  OBVIOUS
<1>1. ASSUME NEW a \in Admins, NEW body \in Bodies, Lock(a, body) PROVE SerialInv'
  BY <1>1, LockStep
<1>2. ASSUME NEW a \in Admins, UpdateFakeMetrics(a) PROVE SerialInv'
  BY <1>2, AdminAssumption DEF UpdateFakeMetrics, SerialInv, HasSent
<1>3. ASSUME NEW a \in Admins, SetConfig(a) PROVE SerialInv'
  BY <1>3, AdminAssumption DEF SetConfig, SerialInv, HasSent
<1>4. ASSUME NEW a \in Admins, Rebuild(a) PROVE SerialInv'
  BY <1>4, AdminAssumption DEF Rebuild, SerialInv, HasSent
<1>5. CASE UNCHANGED serialVars
  BY <1>5 DEF serialVars, SerialInv, HasSent
<1>6. ASSUME NEW t \in DOMAIN tickers, Ticker(t) PROVE UNCHANGED serialVars
  BY <1>6 DEF Ticker, Select, Tick, Refresh, StopTicker, serialVars
<1>7. CASE Updaters
  BY <1>5, <1>7 DEF Updaters, ttftUpdater, recordRequestUpdater, adminVars, serialVars
<1> QED
  BY <1>1, <1>2, <1>3, <1>4, <1>5, <1>6, <1>7
     DEF Next, ApplyConfigUpdate, adminVars, serialVars, vars

\* Concurrent ApplyConfigUpdates lose no field, leave no invalid configuration and no
\* calculator that was built from another one.
THEOREM UpdatesCorrect == Spec => []UpdatesSerialized
<1>1. Init => SerialInv
  <2> SUFFICES ASSUME Init PROVE SerialInv
    OBVIOUS
  <2>1. DOMAIN config = Fields /\ validate(config)
    BY AdminAssumption DEF Init, Fields
  <2>2. /\ DOMAIN sent = PlainFields \cup FakeFields
        /\ \A f \in PlainFields : sent[f] = config[f]
    <3>1. sent = SentAtStart(config, IF Fake THEN config.fake ELSE NoFields)
      BY DEF Init
    <3> QED
      BY <3>1, InitialSent
  <2>3. adminMu = Nil /\ calculator = BuildCalculator(config)
    BY DEF Init
  <2> QED
    BY <2>1, <2>2, <2>3 DEF SerialInv, HasSent
<1>2. SerialInv => UpdatesSerialized
  BY DEF SerialInv, HasSent, UpdatesSerialized
<1> QED
  BY <1>1, <1>2, SerialStep, PTL DEF Spec
=============================================================================
