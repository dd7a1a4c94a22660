------------------------------ MODULE Subscriber ------------------------------
(* `wafer-loadgen subscribe` (sub.rs) and its recorder (recorder.rs): the     *)
(* MQTT event-loop task, the bounded channel, the recording loop, the         *)
(* shutdown that drains it, and the artifacts written one after the other,    *)
(* with a second signal that exits at any point.  The broker and the MQTT     *)
(* client are external.                                                       *)
EXTENDS SequenceTracker

CONSTANTS Width,          \* INTERVAL_WIDTH_NS, in ticks
          MaxRows,        \* measurement_secs + EXIT_DRAIN_SECS + drain_grace_secs + 2
          Event,          \* event_unix_epoch_ns of the publisher's receipt
          Coverage,       \* half of the event-aligned window
          Tolerance,      \* EVENT_ALIGNMENT_TOLERANCE_NS
          SampleCap,      \* EVENT_SAMPLE_CAPACITY
          StepTolerance   \* ClockSteps::TOLERANCE_NS

\* What an instance has to give.
RecorderAssumption ==
  /\ {Width, MaxRows, Coverage, SampleCap} \subseteq Nat \ {0}
  /\ {Event, Tolerance, StepTolerance} \subseteq Nat

-------------------------------------------------------------------------------
(* The recorder as operators on records: the one-second intervals, the        *)
(* event-aligned throughput buckets, the wall-clock steps and what feeds      *)
(* them.  A message is [seq, elapsed, wall], seq None for a payload that does *)
(* not parse; of a latency only its count is kept.                            *)

NoCounts == [events |-> 0, unique |-> 0, duplicates |-> 0]

CountIn(c, duplicate) ==
  [events |-> c.events + 1, unique |-> c.unique + (IF duplicate THEN 0 ELSE 1),
   duplicates |-> c.duplicates + (IF duplicate THEN 1 ELSE 0)]

-------------------------------------------------------------------------------
(* IntervalRecorder.  `failed` is the Err of the code, after which the        *)
(* recorder drops the intervals.                                              *)

NewRows == [bucket |-> 0, current |-> NoCounts, rows |-> <<>>, late |-> 0,
            finalized |-> FALSE, failed |-> FALSE]

FinishRow(iv, width) ==
  IF Len(iv.rows) = MaxRows THEN [iv EXCEPT !.failed = TRUE]
  ELSE [iv EXCEPT !.rows = Append(@, [counts |-> iv.current, width |-> width]),
                  !.current = NoCounts, !.bucket = @ + 1]

FinishRowsTo(iv, bucket) ==
  LET at[k \in Nat] == IF k <= iv.bucket THEN iv ELSE FinishRow(at[k - 1], Width)
  IN  at[bucket]

RecordRow(iv, elapsed, duplicate) ==
  LET bucket == elapsed \div Width
  IN  CASE bucket < iv.bucket -> [iv EXCEPT !.late = @ + 1]
        [] bucket >= MaxRows  -> [iv EXCEPT !.failed = TRUE]
        [] OTHER -> [FinishRowsTo(iv, bucket) EXCEPT !.current = CountIn(@, duplicate)]

FinalizeRows(iv, elapsed) ==
  LET final == (elapsed - 1) \div Width
      rest  == elapsed % Width
  IN  IF elapsed = 0 THEN [iv EXCEPT !.finalized = TRUE]
      ELSE IF final >= MaxRows THEN [iv EXCEPT !.failed = TRUE, !.finalized = TRUE]
      ELSE [FinishRow(FinishRowsTo(iv, final), IF rest = 0 THEN Width ELSE rest)
              EXCEPT !.finalized = TRUE]

RowTotal(iv) == FoldSeq(LAMBDA row, sum : row.counts.events + sum, 0, iv.rows)

\* IntervalRecorder::artifact.
RowsAccepted(iv, aggregate) == iv.finalized /\ RowTotal(iv) = aggregate

-------------------------------------------------------------------------------
(* EventBucketRecorder.                                                       *)

Captured(wall) ==
  Event - Coverage - Tolerance <= wall /\ wall < Event + Coverage + Tolerance

\* The action timing receipt is refused unless the event was on time.
EventAccepted(t0) == t0 \in Event - Tolerance .. Event + Tolerance

\* event_buckets and bucket_totals: what lies within the window around t0.
BucketTotals(samples, t0) ==
  FoldSeq(LAMBDA s, c : IF t0 - Coverage <= s.wall /\ s.wall < t0 + Coverage
                        THEN CountIn(c, s.duplicate) ELSE c, NoCounts, samples)

-------------------------------------------------------------------------------
(* LatencyRecorder of the code.                                               *)

NewRecorder(end) ==
  [tracker |-> IF end = None THEN NewTracker(Unlimited) ELSE AnchorEnd(NewTracker(Unlimited), end),
   end |-> end, total |-> 0, recorded |-> 0, parseErrors |-> 0, ignored |-> 0,
   intervals |-> NewRows, origin |-> None, gap |-> 0, steps |-> 0,
   samples |-> <<>>, partial |-> {}]

\* ClockSteps::observe: the gap between the clocks changed by more than the tolerance.
Observe(r, m) ==
  LET gap == m.wall - m.elapsed
  IN  [r EXCEPT !.gap = gap,
                !.steps = @ + (IF gap - r.gap > StepTolerance \/ r.gap - gap > StepTolerance
                               THEN 1 ELSE 0)]

\* drop_intervals.
DropIntervals(r) == IF r.intervals.failed /\ "intervals" \notin r.partial
                    THEN [r EXCEPT !.partial = @ \cup {"intervals"}] ELSE r

\* The event buckets take the message, or overflow and are given up.
RecordSample(r, m, duplicate) ==
  IF "buckets" \in r.partial \/ ~Captured(m.wall) THEN r
  ELSE IF Len(r.samples) = SampleCap
       THEN [r EXCEPT !.samples = <<>>, !.partial = @ \cup {"buckets"}]
       ELSE [r EXCEPT !.samples = Append(@, [wall |-> m.wall, duplicate |-> duplicate])]

\* LatencyRecorder::record and the interval of the message.
RecordOne(r, m) ==
  LET duplicate == IsDuplicate(r.tracker, m.seq)
      origin == IF r.origin = None THEN m.elapsed ELSE r.origin
  IN  DropIntervals(
        [r EXCEPT !.total = @ + 1, !.recorded = @ + 1,
                  !.tracker = RecordSeq(@, m.seq),
                  !.origin = IF "intervals" \in r.partial THEN @ ELSE origin,
                  !.intervals = IF "intervals" \in r.partial THEN @
                                ELSE RecordRow(@, m.elapsed - origin, duplicate)])

\* record_json_at, then the event buckets (record_message of sub.rs).
RecordMessage(r0, m, events) ==
  LET r == Observe(r0, m)
  IN  CASE m.seq = None -> [r EXCEPT !.total = @ + 1, !.parseErrors = @ + 1]
        [] m.seq # None /\ r.end # None /\ m.seq >= r.end -> [r EXCEPT !.ignored = @ + 1]
        [] OTHER -> LET r1 == RecordOne(r, m)
                    IN  IF events THEN RecordSample(r1, m, IsDuplicate(r.tracker, m.seq)) ELSE r1

\* finalize_intervals.
Finalize(r, elapsed) ==
  IF "intervals" \in r.partial THEN r
  ELSE DropIntervals([r EXCEPT !.intervals =
         FinalizeRows(@, elapsed - (IF r.origin = None THEN 0 ELSE r.origin))])

-------------------------------------------------------------------------------
(* The program.                                                               *)

CONSTANTS Seqs,           \* sequence numbers on the wire; None does not parse
          SequenceEnd,    \* --sequence-end-exclusive, or None
          TotalMessages,  \* --total-messages, 0 for no limit
          WithEvents,     \* --publisher-timing-receipt is given
          ChanCap,        \* the channel to the recording loop (2048)
          MaxArrivals, MaxNow, MaxLinkFailures,   \* bounds
          Steps           \* sizes of the wall-clock steps that may happen

\* What an instance has to give.
SubscriberAssumption ==
  /\ Seqs \subseteq Nat \cup {None} /\ SequenceEnd \in Nat \cup {None}
  /\ TotalMessages \in Nat /\ Steps \subseteq Nat
  /\ WithEvents \in BOOLEAN /\ ChanCap \in Nat \ {0}
  /\ {MaxArrivals, MaxNow, MaxLinkFailures} \subseteq Nat

VARIABLES pc,         \* where run_subscriber is
          now,        \* the monotonic clock
          shift,      \* how far the wall clock has stepped
          stop,       \* a stop signal arrived
          reason,     \* exit_reason
          link,       \* "down", "up" or "subscribed" at the broker
          failures,   \* link failures so far
          task,       \* the event-loop task: "poll", "subscribe", "send", "backoff", "over"
          held,       \* the message it is handing to the channel
          cancelled,  \* the shutdown token
          chan,       \* the channel
          rec,        \* the LatencyRecorder and the EventBucketRecorder
          dir,        \* the artifacts in output_dir
          heard,      \* what the event loop took off the link (history)
          taken,      \* what the recorder was given (history)
          counted     \* the messages of the population among them (history)

vars == <<pc, now, shift, stop, reason, link, failures, task, held, cancelled, chan, rec,
          dir, heard, taken, counted>>

producer == <<link, failures, task, held, heard>>
clocks   == <<now, shift>>
Final == {"ok", "partial", "failed", "killed"}
Message(seq) == [seq |-> seq, elapsed |-> now, wall |-> now + shift]

Init ==
  /\ pc = IF WithEvents THEN "receipt" ELSE "loop"
  /\ now = 0 /\ shift = 0 /\ stop = FALSE /\ reason = "eof"
  /\ link = "down" /\ failures = 0 /\ task = "poll" /\ held = <<>> /\ cancelled = FALSE
  /\ chan = <<>> /\ rec = NewRecorder(SequenceEnd) /\ dir = {}
  /\ heard = <<>> /\ taken = <<>> /\ counted = <<>>

-------------------------------------------------------------------------------
(* The event-loop task.                                                       *)

\* Fault: the subscription is made on the first connection only.
ConnAckOnce ==
  /\ task = "poll" /\ ~cancelled /\ link = "down"
  /\ link' = "up" /\ task' = IF failures = 0 THEN "subscribe" ELSE "poll"
  /\ UNCHANGED <<failures, held, heard>>

\* A CONNACK; the topic is subscribed to again on every connection.
ConnAck ==
  /\ task = "poll" /\ ~cancelled /\ link = "down"
  /\ link' = "up" /\ task' = "subscribe"
  /\ UNCHANGED <<failures, held, heard>>

Subscribe ==
  /\ task = "subscribe"
  /\ link' = "subscribed" /\ task' = "poll"
  /\ UNCHANGED <<failures, held, heard>>

Receive(seq) ==
  /\ task = "poll" /\ ~cancelled /\ link = "subscribed" /\ Len(heard) < MaxArrivals
  /\ held' = <<Message(seq)>> /\ heard' = Append(heard, Message(seq))
  /\ task' = "send"
  /\ UNCHANGED <<link, failures>>

LinkFails ==
  /\ task = "poll" /\ ~cancelled /\ failures < MaxLinkFailures
  /\ link' = "down" /\ failures' = failures + 1 /\ task' = "backoff"
  /\ UNCHANGED <<held, heard>>

BackoffEnds == task = "backoff" /\ task' = "poll" /\ UNCHANGED <<link, failures, held, heard>>

\* The channel is full until the recording loop takes from it.
Push ==
  /\ task = "send" /\ Len(chan) < ChanCap
  /\ chan' = chan \o held /\ held' = <<>> /\ task' = "poll"
  /\ UNCHANGED <<link, failures, heard>>

TaskStops == task = "poll" /\ cancelled /\ task' = "over" /\ UNCHANGED <<link, failures, held, heard>>

EventLoop ==
  /\ pc \notin Final
  /\ \/ Push
     \/ (ConnAck \/ Subscribe \/ (\E s \in Seqs : Receive(s)) \/ LinkFails \/ BackoffEnds \/ TaskStops) /\ UNCHANGED chan
  /\ UNCHANGED <<pc, clocks, stop, reason, cancelled, rec, dir, taken, counted>>

-------------------------------------------------------------------------------
(* run_subscriber.                                                            *)

\* The publisher's timing receipt is polled for; without it the run fails.
Receipt ==
  /\ pc = "receipt" /\ pc' \in {"loop", "failed"}
  /\ UNCHANGED <<clocks, stop, reason, producer, cancelled, chan, rec, dir, taken, counted>>

\* A message that parses and whose number belongs to the population.
Counts(m) == m.seq # None /\ (SequenceEnd # None => m.seq < SequenceEnd)

\* The head of the channel goes to the recorder.
Take == /\ chan' = Tail(chan)
        /\ rec' = RecordMessage(rec, Head(chan), WithEvents)
        /\ taken' = Append(taken, Head(chan))
        /\ counted' = IF Counts(Head(chan)) THEN Append(counted, Head(chan)) ELSE counted

Reached(r) == TotalMessages > 0 /\ r.tracker.unique >= TotalMessages

Record ==
  /\ pc = "loop" /\ ~stop /\ chan # <<>>
  /\ Take
  /\ IF Reached(rec') THEN pc' = "drain" /\ reason' = "total-messages" /\ cancelled' = TRUE
                      ELSE UNCHANGED <<pc, reason, cancelled>>
  /\ UNCHANGED <<clocks, stop, producer, dir>>

Stopped ==
  /\ pc = "loop" /\ stop
  /\ pc' = "drain" /\ reason' = "signal" /\ cancelled' = TRUE
  /\ UNCHANGED <<clocks, stop, producer, chan, rec, dir, taken, counted>>

\* Fault: what is left in the channel is not recorded.
DrainDiscards ==
  /\ pc = "drain" /\ chan # <<>>
  /\ chan' = Tail(chan) /\ UNCHANGED <<rec, taken, counted>>
  /\ UNCHANGED <<pc, clocks, stop, reason, producer, cancelled, dir>>

\* After the shutdown the channel is emptied so that the event loop can end.
Drain ==
  /\ pc = "drain" /\ chan # <<>>
  /\ IF reason = "total-messages" THEN chan' = Tail(chan) /\ UNCHANGED <<rec, taken, counted>> ELSE Take
  /\ UNCHANGED <<pc, clocks, stop, reason, producer, cancelled, dir>>

\* The channel is closed and empty; the clock is read and the intervals closed.
Drained ==
  /\ pc = "drain" /\ chan = <<>> /\ task = "over"
  /\ now' = now + 1
  /\ rec' = Finalize(rec, now')
  /\ pc' = "hdr"
  /\ UNCHANGED <<shift, stop, reason, producer, cancelled, chan, dir, taken, counted>>

(* The trace cannot be created, written or flushed: the run ends with the     *)
(* error before its first artifact.                                           *)
TraceFails ==
  /\ \/ pc = "loop" /\ (taken = <<>> \/ (~stop /\ chan # <<>> /\ Counts(Head(chan))))
     \/ pc = "drain" /\ chan # <<>> /\ reason # "total-messages" /\ Counts(Head(chan))
     \/ pc = "drain" /\ chan = <<>> /\ task = "over"
  /\ pc' = "failed"
  /\ UNCHANGED <<clocks, stop, reason, producer, cancelled, chan, rec, dir, taken, counted>>

\* write_atomic: the artifact is there whole, or it is not and the run fails.
Write(file, next) ==
  \/ dir' = dir \cup {file} /\ pc' = next
  \/ pc' = "failed" /\ UNCHANGED dir

WriteHdr ==
  /\ pc = "hdr" /\ Write("latency.hdr", "csv")
  /\ UNCHANGED <<clocks, stop, reason, producer, cancelled, chan, rec, taken, counted>>

WriteCsv ==
  /\ pc = "csv" /\ Write("sequence.csv", "intervals")
  /\ UNCHANGED <<clocks, stop, reason, producer, cancelled, chan, rec, taken, counted>>

\* Intervals that fail their checks are left out and mark the run partial.
WriteIntervals ==
  /\ pc = "intervals"
  /\ \/ "intervals" \in rec.partial /\ pc' = "buckets" /\ UNCHANGED <<dir, rec>>
     \/ /\ "intervals" \notin rec.partial /\ RowsAccepted(rec.intervals, rec.recorded)
        /\ Write("interval-latency.json", "buckets") /\ UNCHANGED rec
     \/ /\ "intervals" \notin rec.partial /\ ~RowsAccepted(rec.intervals, rec.recorded)
        /\ rec' = [rec EXCEPT !.partial = @ \cup {"intervals"}]
        /\ pc' = "buckets" /\ UNCHANGED dir
  /\ UNCHANGED <<clocks, stop, reason, producer, cancelled, chan, taken, counted>>

\* EventBucketRecorder::write writes the coarse buckets, then the fine ones.
BucketFiles == <<"throughput-buckets.json", "throughput-buckets-10ms.json">>

(* The action receipt is waited for and checked; a failure, of a write too,   *)
(* only marks the run partial, and may leave the first of the two files.      *)
WriteBuckets ==
  /\ pc = "buckets" /\ pc' = "metadata"
  /\ IF ~WithEvents \/ "buckets" \in rec.partial THEN UNCHANGED <<dir, rec>>
     ELSE \/ dir' = dir \cup ToSet(BucketFiles) /\ UNCHANGED rec
          \/ /\ \E n \in 0 .. 1 : dir' = dir \cup {BucketFiles[i] : i \in 1 .. n}
             /\ rec' = [rec EXCEPT !.partial = @ \cup {"buckets"}]
  /\ UNCHANGED <<clocks, stop, reason, producer, cancelled, chan, taken, counted>>

\* The metadata comes last; a partial run then exits with an error.
WriteMetadata ==
  /\ pc = "metadata"
  /\ Write("subscriber-metadata.json", IF rec.partial = {} THEN "ok" ELSE "partial")
  /\ UNCHANGED <<clocks, stop, reason, producer, cancelled, chan, rec, taken, counted>>

-------------------------------------------------------------------------------
Signal ==
  /\ pc \notin Final
  /\ IF stop THEN pc' = "killed" /\ UNCHANGED stop ELSE stop' = TRUE /\ UNCHANGED pc
  /\ UNCHANGED <<clocks, reason, producer, cancelled, chan, rec, dir, taken, counted>>

Clock ==
  /\ pc \in {"receipt", "loop", "drain"} /\ now < MaxNow
  /\ now' = now + 1
  /\ \/ UNCHANGED shift
     \/ shift = 0 /\ shift' \in Steps
  /\ UNCHANGED <<pc, stop, reason, producer, cancelled, chan, rec, dir, taken, counted>>

Main == Receipt \/ Record \/ Stopped \/ Drain \/ Drained
        \/ WriteHdr \/ WriteCsv \/ WriteIntervals \/ WriteBuckets \/ WriteMetadata

Next == EventLoop \/ Main \/ TraceFails \/ Signal \/ Clock

Spec == Init /\ [][Next]_vars /\ WF_vars(Main) /\ WF_vars(EventLoop)

-------------------------------------------------------------------------------
Written(file) == file \in dir
Complete == Written("subscriber-metadata.json") /\ rec.partial = {}

\* Types, and the channel's bound.
SubTypeOK ==
  /\ pc \in Final \cup {"receipt", "loop", "drain", "hdr", "csv", "intervals", "buckets", "metadata"}
  /\ Len(chan) <= ChanCap /\ Len(held) <= 1
  /\ rec.partial \subseteq {"intervals", "buckets"} /\ Len(rec.samples) <= SampleCap
  /\ rec.tracker \in Tracker

(* The metadata's presence means that every artifact of the run is there:     *)
(* whichever write fails and whenever the second signal comes, a reader that  *)
(* finds a complete subscriber-metadata.json finds the rest.                  *)
MetadataMeansComplete ==
  Written("subscriber-metadata.json") =>
    /\ {"latency.hdr", "sequence.csv"} \subseteq dir
    /\ rec.partial = {} => /\ Written("interval-latency.json")
                           /\ WithEvents => ToSet(BucketFiles) \subseteq dir

(* A run stopped by a signal records everything the event loop took off the   *)
(* link before it stopped: the shutdown loses no message on the way.          *)
ShutdownLosesNothing ==
  pc = "hdr" /\ reason = "signal" =>
    /\ taken = heard
    /\ rec.total + rec.ignored = Len(heard)

(* The tracker's counters are those of the recorded numbers, and a run that   *)
(* stops by itself has recorded the distinct numbers it was asked for.        *)
SequenceExact ==
  /\ TrackerExact(rec.tracker, [i \in DOMAIN counted |-> counted[i].seq])
  /\ reason = "total-messages" => rec.tracker.unique = TotalMessages

(* The interval rows that are written split the recorded messages by the      *)
(* second they arrived in, counted from the first, and none is late.          *)
RowsExact ==
  Written("interval-latency.json") =>
    /\ rec.intervals.late = 0
    /\ \A k \in DOMAIN rec.intervals.rows :
         rec.intervals.rows[k].counts.events =
           Cardinality({i \in DOMAIN counted :
                          (counted[i].elapsed - counted[1].elapsed) \div Width = k - 1})

(* Intervals are given up only when the run outlasted their row bound: a      *)
(* message came after it, or the end did by a tick at least.                  *)
RowsRefusedForCause ==
  "intervals" \in rec.partial =>
    now - (IF counted = <<>> THEN 0 ELSE counted[1].elapsed)
      >= MaxRows * Width + (IF Written("latency.hdr") THEN 1 ELSE 0)

(* The event buckets hold every recorded message around the event, for every  *)
(* event time the receipt check accepts and whatever the wall clock did.      *)
BucketsExact ==
  Written("throughput-buckets.json") =>
    \A t0 \in {t \in Event - Tolerance .. Event + Tolerance : EventAccepted(t)} :
      BucketTotals(rec.samples, t0).events =
        Cardinality({i \in DOMAIN counted : counted[i].wall \in t0 - Coverage .. t0 + Coverage - 1})

(* A latency measured across a step of the wall clock never passes unnoticed: *)
(* the step is counted even when it came before the first message.            *)
StepNoticed ==
  \A i \in DOMAIN taken : taken[i].wall # taken[i].elapsed => rec.steps > 0

(* A stop signal is followed by the end of the run: the event loop blocked on *)
(* a full channel, or backing off, does not hold the shutdown.                *)
(* A connection that comes up is subscribed on, the first one and every one   *)
(* after a failure, unless the run is being shut down.                        *)
===============================================================================
