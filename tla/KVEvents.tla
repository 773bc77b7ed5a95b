------------------------------- MODULE KVEvents -------------------------------
(***************************************************************************)
(* The KV event pipeline of pkg/kvcache: the event channel, the sender      *)
(* goroutine with its batch and flush timer (kv_cache_sender.go), the       *)
(* publisher's sequence numbers (common/publisher.go), the replay window    *)
(* (kv_events_replayer.go), and one subscriber that may join late,          *)
(* disconnect, and catch up through the replay endpoint.                    *)
(*                                                                         *)
(* Events are numbered in the order in which the block cache emits them;    *)
(* their content and its msgpack encoding play no role here.                *)
(***************************************************************************)
EXTENDS Integers, Sequences, FiniteSets, SequencesExt

CONSTANTS
  MaxEvents,       \* bound on the events emitted
  EventCapacity,   \* capacity of eventChan, 10 * --kv-cache-size
  MaxBatchSize,    \* --event-batch-size
  ReplayCapacity,  \* --kv-events-replay-queue-size
  MaxJoins,        \* bound on the (re)connections of the subscriber
  None

ASSUME KVEventsAssumption ==
  /\ MaxEvents \in Nat
  /\ EventCapacity \in Nat
  /\ MaxBatchSize \in Nat \ {0}
  /\ ReplayCapacity \in Nat \ {0}
  /\ MaxJoins \in Nat

VARIABLES
  emitted,    \* number of events the cache has emitted
  eventChan,  \* channel
  batch,      \* KVEventSender.batch
  timer,      \* the flush timer: "armed", or "fired" with its value unread
  sender,     \* the sender goroutine: "select", "publish", "store", "stopped"
  cancelled,  \* ctx is cancelled
  seqNum,     \* Publisher.seqNum
  sent,       \* the message between its Send and its store
  published,  \* history: the messages sent, in order
  buf,        \* replayQueue.buf
  live,       \* the subscriber is connected to the PUB socket
  reply,      \* messages of the replay in progress still to be sent, or None
  caughtUp,   \* the subscriber read the end-of-replay sentinel
  got,        \* sequence numbers the subscriber has
  joins

senderVars == <<eventChan, batch, timer, sender, seqNum, sent, published, buf>>
subVars == <<live, reply, caughtUp, got, joins>>
vars == <<emitted, cancelled, senderVars, subVars>>

Messages == [seq : Nat, payload : Seq(1 .. MaxEvents)]

------------------------------------------------------------------------------
(* The block cache and the process *)

\* common.WriteToChannel(bc.eventChan, ...): dropped if the channel is full.
EmitEvent ==
  /\ emitted < MaxEvents
  /\ emitted' = emitted + 1
  /\ eventChan' = IF Len(eventChan) < EventCapacity
                  THEN Append(eventChan, emitted + 1) ELSE eventChan
  /\ UNCHANGED <<cancelled, batch, timer, sender, seqNum, sent, published, buf,
                 subVars>>

Cancel ==
  /\ ~cancelled
  /\ cancelled' = TRUE
  /\ UNCHANGED <<emitted, senderVars, subVars>>

TimerFires ==
  /\ timer = "armed" /\ sender # "stopped"
  /\ timer' = "fired"
  /\ UNCHANGED <<emitted, cancelled, eventChan, batch, sender, seqNum, sent,
                 published, buf, subVars>>

------------------------------------------------------------------------------
(* KVEventSender.Run *)

\* case <-ctx.Done(): what is in the batch and in the channel is discarded.
StopSender ==
  /\ sender = "select" /\ cancelled
  /\ sender' = "stopped"
  /\ UNCHANGED <<emitted, cancelled, eventChan, batch, timer, seqNum, sent,
                 published, buf, subVars>>

\* case eventData := <-s.eventChan.Channel
ReceiveEvent ==
  /\ sender = "select" /\ eventChan # <<>>
  /\ batch' = Append(batch, Head(eventChan))
  /\ eventChan' = Tail(eventChan)
  /\ sender' = IF Len(batch) + 1 >= MaxBatchSize THEN "publish" ELSE "select"
  /\ UNCHANGED <<emitted, cancelled, timer, seqNum, sent, published, buf, subVars>>

\* (variant) the timer flushes full batches only.
Flush_FullOnly ==
  /\ sender = "select" /\ timer = "fired"
  /\ timer' = "armed"
  /\ sender' = IF Len(batch) < MaxBatchSize THEN "select" ELSE "publish"
  /\ UNCHANGED <<emitted, cancelled, eventChan, batch, seqNum, sent, published,
                 buf, subVars>>

\* case <-timer.C; publishHelper returns at once if the batch is empty.
Flush ==
  /\ sender = "select" /\ timer = "fired"
  /\ timer' = "armed"
  /\ sender' = IF batch = <<>> THEN "select" ELSE "publish"
  /\ UNCHANGED <<emitted, cancelled, eventChan, batch, seqNum, sent, published,
                 buf, subVars>>

\* (variant) the batch is not reset.
PublishEvent_KeepsBatch ==
  /\ sender = "publish"
  /\ seqNum' = seqNum + 1
  /\ sent' = [seq |-> seqNum + 1, payload |-> batch]
  /\ published' = Append(published, sent')
  /\ got' = IF live THEN got \cup {seqNum + 1} ELSE got
  /\ sender' = "store"
  /\ UNCHANGED <<emitted, cancelled, eventChan, batch, timer, buf, live, reply,
                 caughtUp, joins>>

\* PublishEvent takes the next sequence number and sends.
PublishEvent ==
  /\ sender = "publish"
  /\ seqNum' = seqNum + 1
  /\ sent' = [seq |-> seqNum + 1, payload |-> batch]
  /\ published' = Append(published, sent')
  /\ got' = IF live THEN got \cup {seqNum + 1} ELSE got
  /\ batch' = <<>>
  /\ sender' = "store"
  /\ UNCHANGED <<emitted, cancelled, eventChan, timer, buf, live, reply, caughtUp,
                 joins>>

\* Send fails: the number is used up, the batch is gone, and Run returns.
PublishFails ==
  /\ sender = "publish"
  /\ seqNum' = seqNum + 1
  /\ batch' = <<>>
  /\ sender' = "stopped"
  /\ UNCHANGED <<emitted, cancelled, eventChan, timer, sent, published, buf,
                 subVars>>

\* (variant) a full window ignores new entries.
push_Full(q, m) == IF Len(q) = ReplayCapacity THEN q ELSE Append(q, m)

\* replayQueue.push: the oldest entry makes room.
push(q, m) ==
  IF Len(q) = ReplayCapacity THEN Append(Tail(q), m) ELSE Append(q, m)

\* replayer.store, then the timer is stopped, drained and reset.
StoreBatch ==
  /\ sender = "store"
  /\ buf' = push(buf, sent)
  /\ sent' = None
  /\ timer' = "armed"
  /\ sender' = "select"
  /\ UNCHANGED <<emitted, cancelled, eventChan, batch, seqNum, published, subVars>>

------------------------------------------------------------------------------
(* The replay endpoint and the subscriber *)

\* (variant) the requested entry itself is left out.
since_After(q, startSeq) == SelectSeq(q, LAMBDA m : m.seq > startSeq)

\* replayQueue.since: from the first entry with seq >= startSeq on.
since(q, startSeq) ==
  LET hits == {i \in DOMAIN q : q[i].seq >= startSeq}
  IN IF hits = {} THEN <<>>
     ELSE SubSeq(q, CHOOSE i \in hits : \A j \in hits : i <= j, Len(q))

Connect ==
  /\ ~live /\ joins < MaxJoins
  /\ live' = TRUE
  /\ joins' = joins + 1
  /\ UNCHANGED <<emitted, cancelled, senderVars, reply, caughtUp, got>>

Disconnect ==
  /\ live
  /\ live' = FALSE
  /\ reply' = None
  /\ caughtUp' = FALSE
  /\ UNCHANGED <<emitted, cancelled, senderVars, got, joins>>

\* handleReplayRequest: the client, connected to the live stream, asks for what
\* it missed; the matching batches are snapshotted.
handleReplayRequest ==
  /\ live /\ reply = None /\ ~caughtUp
  /\ LET have == {n \in 1 .. seqNum : 1 .. n \subseteq got}
     IN reply' = since(buf, Cardinality(have) + 1)
  /\ UNCHANGED <<emitted, cancelled, senderVars, live, caughtUp, got, joins>>

\* The reply goroutine sends the snapshot, and then the sentinel.
SendReplayed ==
  /\ reply # None /\ reply # <<>>
  /\ ~cancelled
  /\ got' = got \cup {Head(reply).seq}
  /\ reply' = Tail(reply)
  /\ UNCHANGED <<emitted, cancelled, senderVars, live, caughtUp, joins>>

SendSentinel ==
  /\ reply = <<>>
  /\ ~cancelled
  /\ caughtUp' = TRUE
  /\ reply' = None
  /\ UNCHANGED <<emitted, cancelled, senderVars, live, got, joins>>

------------------------------------------------------------------------------
Init ==
  /\ emitted = 0 /\ eventChan = <<>> /\ batch = <<>>
  /\ timer = "armed" /\ sender = "select" /\ cancelled = FALSE
  /\ seqNum = 0 /\ sent = None /\ published = <<>> /\ buf = <<>>
  /\ live = FALSE /\ reply = None /\ caughtUp = FALSE /\ got = {} /\ joins = 0

Sender ==
  StopSender \/ ReceiveEvent \/ Flush \/ PublishEvent \/ PublishFails \/ StoreBatch

Subscriber ==
  Connect \/ Disconnect \/ handleReplayRequest \/ SendReplayed \/ SendSentinel

Next == EmitEvent \/ Cancel \/ TimerFires \/ Sender \/ Subscriber

Spec == Init /\ [][Next]_vars

\* The sender goroutine is scheduled, its timer fires, and select, which picks
\* among the ready cases at random, does not neglect a case for ever.
Fairness ==
  /\ WF_vars(TimerFires) /\ WF_vars(Sender)
  /\ SF_vars(ReceiveEvent) /\ SF_vars(Flush) /\ SF_vars(StopSender)

FairSpec == Spec /\ Fairness

------------------------------------------------------------------------------
(* Properties *)

\* The replay window is the most recent stored part of the published stream:
\* consecutive sequence numbers, each with the payload that was sent under it.  While
\* nothing has left the window, a subscriber that read the sentinel lacks at most one
\* batch (the one between its Send and its store when the snapshot was taken), however
\* its replay, the live stream and reconnections interleave.
ReplayWindow ==
  LET stored == Len(published) - (IF sender = "store" THEN 1 ELSE 0)
      n == IF stored < ReplayCapacity THEN stored ELSE ReplayCapacity
  IN /\ buf = SubSeq(published, stored - n + 1, stored)
     /\ \A i \in DOMAIN published : published[i].seq = i
     /\ caughtUp => \/ Cardinality((1 .. Len(published)) \ got) <= 1
                    \/ Len(published) > ReplayCapacity

Payloads == FlattenSeq([i \in DOMAIN published |-> published[i].payload])

\* The pipeline is a lossy FIFO: see EventLog.
Log == INSTANCE EventLog WITH
  Events <- 1 .. MaxEvents, MaxBatch <- MaxBatchSize,
  accepted <- batch \o eventChan, log <- Payloads, up <- sender # "stopped"

LossyFifo == Log!Spec

\* An accepted event is eventually published, also when the batch never fills up
\* and only the timer flushes it, unless the sender has stopped.
EventuallyPublished ==
  \A e \in 1 .. MaxEvents :
    e \in ToSet(eventChan) ~> (sender = "stopped" \/ e \in ToSet(Payloads))
=============================================================================
