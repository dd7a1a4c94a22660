------------------------------ MODULE BenchSink ------------------------------
(***************************************************************************)
(* BenchSink: what collect() records of each measured message (sequence    *)
(* tracker, 1 s throughput grid, 1 s latency intervals, 100 ms burst       *)
(* buckets, version transitions) and what close() makes of it.             *)
(*                                                                         *)
(* Stamped messages come from a BenchSource whose pacer started at 0; on   *)
(* the way the pipeline may lose, repeat and reorder them.  Messages of    *)
(* other sources carry no stamps.  A latency is only counted: what it was  *)
(* decides nothing here.                                                   *)
(***************************************************************************)
EXTENDS BenchSchedule, SequenceTracker, FiniteSetsExt

CONSTANTS
    MeasurementSecs,    \* WAFER_MEASUREMENT_SECS
    WarmupTicks,        \* warmup_secs, for messages without stamps
    Plain,              \* may messages without stamps arrive?
    Versions,           \* plugin.version metadata; {} without track_hotswap
    BucketWidth, PrimaryEnd, DrainEnd, SwapOffset,          \* BURST_*
    FineHalf, FineWidth, ParentWidth, Tolerance, FineCapacity,  \* FINE_EVENT_*
    MaxArrivals, MaxTime, MaxStep   \* bounds: messages, clock, clock per step

\* What an instance has to give.
SinkAssumption ==
    /\ {MeasurementSecs, BucketWidth, FineWidth, ParentWidth} \subseteq Nat \ {0}
    /\ {WarmupTicks, PrimaryEnd, DrainEnd, SwapOffset, FineHalf, Tolerance,
        FineCapacity, MaxArrivals, MaxTime, MaxStep} \subseteq Nat
    /\ (2 * FineHalf) % ParentWidth = 0 /\ (2 * FineHalf) % FineWidth = 0
    /\ "none" \notin Versions

VARIABLES
    now,            \* monotonic_unix_ns, one clock for source and sink
    warmupUntil,    \* set by the first message
    tracker, anchored,
    start,          \* measurement_start
    grid,           \* ThroughputGrid
    intervals,      \* IntervalRecorder
    burst,          \* BurstObservation, with burst_missing_origin_events and
                    \* burst_phase_received
    latencies,      \* histogram.len()
    swaps,          \* HotSwapRecorder
    measured,       \* history: the measured arrivals
    artifacts       \* what close() left on disk; <<>> before

vars == <<now, warmupUntil, tracker, anchored, start, grid, intervals, burst,
          latencies, swaps, measured, artifacts>>

-----------------------------------------------------------------------------
(***************************************************************************)
(* HotSwapRecorder.                                                        *)
(***************************************************************************)
NewSwaps == [current |-> "none", last |-> None, first_v2 |-> None, pauses |-> <<>>]

RecordVersion(s, version, at) ==
    IF s.current \in {"none", version}
    THEN [s EXCEPT !.current = version, !.last = at]
    ELSE [current |-> version, last |-> at, first_v2 |-> at,
          pauses |-> Append(s.pauses, [from |-> s.current, to |-> version,
                                       pause |-> at - s.last])]

\* last_v1_ns is rebuilt from the pause of the last transition.
LastV1(s) == IF s.pauses = <<>> THEN None ELSE s.first_v2 - Last(s.pauses).pause

(***************************************************************************)
(* ThroughputGrid: counts per whole second since the measurement started.  *)
(***************************************************************************)
NewGrid == [samples |-> <<>>, count |-> 0]

CloseBucket(g) == [samples |-> Append(g.samples, g.count), count |-> 0]

RecordThroughput(g, since) ==
    LET behind == since \div Sec - Len(g.samples)
        closed[k \in Nat] == IF k = 0 THEN g ELSE CloseBucket(closed[k - 1])
    IN [closed[behind] EXCEPT !.count = @ + 1]

FinishGrid(g) == IF g.count > 0 THEN CloseBucket(g) ELSE g

(***************************************************************************)
(* IntervalRecorder.                                                       *)
(***************************************************************************)
EmptyInterval == [events |-> 0, unique |-> 0, duplicates |-> 0, latencies |-> 0]

NewIntervals(origin) ==
    [maximum |-> MeasurementSecs + 2, origin |-> origin, current |-> 0,
     open |-> EmptyInterval, rows |-> <<>>, overflowed |-> FALSE, finalized |-> FALSE]

FinishCurrent(iv, width) ==
    [iv EXCEPT !.rows = Append(@, [start |-> iv.current * Sec,
                                   end |-> iv.current * Sec + width, counts |-> iv.open]),
               !.open = EmptyInterval, !.current = @ + 1]

\* The loop that closes intervals up to a bucket or to the row limit.
AdvanceTo(iv, bucket) ==
    LET steps == Min({bucket - iv.current, iv.maximum - Len(iv.rows)})
        at[k \in Nat] == IF k = 0 THEN iv ELSE FinishCurrent(at[k - 1], Sec)
    IN IF steps > 0 THEN at[steps] ELSE iv

CountEvent(counts, stamped, duplicate) ==
    [events |-> counts.events + 1,
     unique |-> counts.unique + (IF duplicate THEN 0 ELSE 1),
     duplicates |-> counts.duplicates + (IF duplicate THEN 1 ELSE 0),
     latencies |-> counts.latencies + (IF stamped THEN 1 ELSE 0)]

RecordInterval(iv0, elapsed, stamped, duplicate) ==
    LET bucket == elapsed \div Sec
        iv == AdvanceTo(iv0, bucket)
    IN IF bucket # iv.current \/ Len(iv.rows) = iv.maximum
       THEN [iv EXCEPT !.overflowed = TRUE]
       ELSE [iv EXCEPT !.open = CountEvent(@, stamped, duplicate)]

FinalizeIntervals(iv0, elapsed) ==
    LET iv == [iv0 EXCEPT !.finalized = TRUE]
        final == (elapsed - 1) \div Sec
        advanced == AdvanceTo(iv, final)
        rest == elapsed % Sec
    IN CASE iv0.finalized -> iv0
         [] ~iv0.finalized /\ elapsed = 0 -> iv
         [] ~iv0.finalized /\ elapsed > 0 /\ final >= iv.maximum -> [iv EXCEPT !.overflowed = TRUE]
         [] OTHER -> IF Len(advanced.rows) < advanced.maximum
                     THEN FinishCurrent(advanced, IF rest = 0 THEN Sec ELSE rest)
                     ELSE advanced

RowSum(iv, field) ==
    FoldSeq(LAMBDA row, sum : row.counts[field] + sum, 0, iv.rows)

\* IntervalRecorder::write checks its rows against the aggregate histogram.
IntervalsValid(iv, aggregate) == ~iv.overflowed /\ RowSum(iv, "latencies") = aggregate

(***************************************************************************)
(* BurstObservation.  Buckets are bags of arrivals: index -> counts.       *)
(***************************************************************************)
NewBurst(origin) ==
    [origin |-> origin, mismatches |-> 0, primary |-> <<>>, drain |-> <<>>,
     after |-> <<>>, fine |-> <<>>, fineOverflow |-> FALSE]

\* The window around the scheduled swap in which exact arrival times are kept.
CaptureWindow(origin) ==
    origin + SwapOffset - FineHalf - Tolerance ..
    origin + SwapOffset + FineHalf + Tolerance - 1

Captured(b, at) == at \in CaptureWindow(b.origin)

Zone(offset) == IF offset < PrimaryEnd THEN "primary"
                ELSE IF offset < DrainEnd THEN "drain" ELSE "after"

HasRoom(b) == Len(b.fine) < FineCapacity

RecordBurst(b, origin, at, duplicate) ==
    LET offset == IF at >= b.origin THEN at - b.origin ELSE 0
        zone == Zone(offset)
        base == IF zone = "drain" THEN PrimaryEnd ELSE 0
        entry == [bucket |-> (offset - base) \div BucketWidth, duplicate |-> duplicate]
    IN [b EXCEPT !.mismatches = @ + (IF origin # b.origin \/ at < origin THEN 1 ELSE 0),
                 ![zone] = Append(@, entry),
                 !.fine = IF Captured(b, at) /\ HasRoom(b)
                          THEN Append(@, [at |-> at, duplicate |-> duplicate]) ELSE @,
                 !.fineOverflow = @ \/ (Captured(b, at) /\ ~HasRoom(b))]

\* fine_event_buckets: the samples whose offset from the swap lies in the window.
FineBucket(samples, event, width, index) ==
    {i \in 1 .. Len(samples) :
        LET offset == samples[i].at - event
        IN offset >= -FineHalf /\ offset < FineHalf
           /\ (offset + FineHalf) \div width = index}

FineTotal(samples, event, width) ==
    FoldSet(LAMBDA i, sum : Cardinality(FineBucket(samples, event, width, i)) + sum,
            0, 0 .. (2 * FineHalf) \div width - 1)

\* The receipt of the swap names when it really happened; it must be near the
\* schedule, and the two resolutions must agree.
FineValid(b, event) ==
    /\ ~b.fineOverflow
    /\ event - (b.origin + SwapOffset) \in -Tolerance .. Tolerance
    /\ FineTotal(b.fine, event, FineWidth) = FineTotal(b.fine, event, ParentWidth)

-----------------------------------------------------------------------------
Artifact == {"sequence.csv", "swap_timeline.json", "throughput.csv",
             "throughput-buckets-10ms.json", "interval-latency.json"}

Init ==
    /\ now = 0
    /\ warmupUntil = None
    /\ tracker = Unanchored(0) /\ anchored = FALSE
    /\ start = None
    /\ grid = NewGrid
    /\ intervals = NewIntervals(None)       \* init(), with an output directory
    /\ burst = NewBurst(None)
    /\ latencies = 0
    /\ swaps = NewSwaps
    /\ measured = <<>>
    /\ artifacts = <<>>

\* record_sequence anchors the population with the first stamps it sees.
Anchor(stamps) ==
    IF anchored THEN tracker ELSE AnchorEnd(AnchorStart(tracker, stamps.first), stamps.end)

\* What collect() makes of a measured message; stamps is <<>> or <<stamps>>.
Measure(stamps, version) ==
    LET stamped == stamps # <<>>
        m == stamps[1]
        origin == IF stamped THEN m.origin ELSE None
        begin == IF start = None THEN now ELSE start
        duplicate == stamped /\ IsDuplicate(Anchor(m), m.sequence)
        elapsed == IF origin # None /\ m.intended >= origin THEN m.intended - origin
                   ELSE now - begin
        opened == IF start = None THEN NewIntervals(origin) ELSE intervals
    IN /\ start' = begin
       /\ tracker' = IF stamped THEN RecordSeq(Anchor(m), m.sequence) ELSE tracker
       /\ anchored' = (anchored \/ stamped)
       /\ burst' = IF origin = None THEN burst
                   ELSE RecordBurst(IF burst.origin = None THEN NewBurst(origin) ELSE burst,
                                    origin, now, duplicate)
       /\ grid' = RecordThroughput(grid, now - begin)
       /\ latencies' = latencies + (IF stamped THEN 1 ELSE 0)
       /\ intervals' = RecordInterval(opened, elapsed, stamped, duplicate)
       /\ swaps' = IF version = "none" THEN swaps ELSE RecordVersion(swaps, version, now)
       /\ measured' = Append(measured, [at |-> now, stamped |-> stamped, origin |-> origin,
                                        seq |-> IF stamped THEN m.sequence ELSE None,
                                        elapsed |-> elapsed, version |-> version])

VersionSet == IF Versions = {} THEN {"none"} ELSE Versions

\* A message of the bench source; the source decides whether it is warm-up.
CollectStamped(n) ==
    LET m == StampsOf(n, 0, now)
    IN /\ artifacts = <<>> /\ Len(measured) < MaxArrivals
       /\ m.intended <= now
       /\ warmupUntil' = IF warmupUntil = None THEN now + WarmupTicks ELSE warmupUntil
       /\ IF m.warmup
          THEN UNCHANGED <<tracker, anchored, start, grid, intervals, burst, latencies,
                           swaps, measured>>
          ELSE \E version \in VersionSet : Measure(<<m>>, version)
       /\ UNCHANGED <<now, artifacts>>

\* A message of another source; the first message of all starts its warm-up.
CollectPlain ==
    LET until == IF warmupUntil = None THEN now + WarmupTicks ELSE warmupUntil
    IN /\ Plain /\ artifacts = <<>> /\ Len(measured) < MaxArrivals
       /\ warmupUntil' = until
       /\ IF now < until
          THEN UNCHANGED <<tracker, anchored, start, grid, intervals, burst, latencies,
                           swaps, measured>>
          ELSE \E version \in VersionSet : Measure(<<>>, version)
       /\ UNCHANGED <<now, artifacts>>

\* The recorded outcome of one artifact: absent, failed or written.
Outcome(present, valid, disk) ==
    IF ~present THEN "absent" ELSE IF valid /\ disk THEN "written" ELSE "failed"

\* When the swap script says the swap happened; there is no receipt, and no
\* question, without a burst.
ReceiptTimes == IF burst.origin = None THEN {0} ELSE 0 .. now

\* close(): finish the grid and the intervals, then export.  Any one write may
\* fail; a failure does not stop the others.  event is the swap receipt.
Close ==
    LET elapsed == IF intervals.origin # None \/ start = None
                   THEN MeasurementSecs * Sec ELSE now - start
        final == FinalizeIntervals(intervals, elapsed)
    IN /\ artifacts = <<>>
       /\ grid' = FinishGrid(grid)
       /\ intervals' = final
       /\ \E broken \in {{}} \cup {{a} : a \in Artifact}, event \in ReceiptTimes :
             artifacts' = <<[a \in Artifact |->
                Outcome(CASE a = "swap_timeline.json" -> swaps.pauses # <<>>
                          [] a = "throughput-buckets-10ms.json" -> burst.origin # None
                          [] OTHER -> TRUE,
                        CASE a = "interval-latency.json" -> IntervalsValid(final, latencies)
                          [] a = "throughput-buckets-10ms.json" -> FineValid(burst, event)
                          [] OTHER -> TRUE,
                        a \notin broken)], event>>
       /\ UNCHANGED <<now, warmupUntil, tracker, anchored, start, burst, latencies, swaps, measured>>

Tick ==
    /\ artifacts = <<>>
    /\ \E d \in 1 .. MaxStep : now + d <= MaxTime /\ now' = now + d
    /\ UNCHANGED <<warmupUntil, tracker, anchored, start, grid, intervals, burst, latencies,
                   swaps, measured, artifacts>>

Next == (\E n \in 0 .. Total - 1 : CollectStamped(n)) \/ CollectPlain \/ Close \/ Tick

Spec == Init /\ [][Next]_vars

-----------------------------------------------------------------------------
(***************************************************************************)
(* Properties.                                                             *)
(***************************************************************************)
SinkTypeOK ==
    /\ now \in 0 .. MaxTime
    /\ tracker.received <= Len(measured)
    /\ Len(intervals.rows) <= intervals.maximum
    /\ Len(burst.fine) <= FineCapacity

Indices(P(_)) == {i \in 1 .. Len(measured) : P(measured[i])}

\* The numbers of the stamped arrivals, in order.
LogOf(arrivals) ==
    LET log[n \in 0 .. Len(arrivals)] ==
            IF n = 0 THEN <<>>
            ELSE IF arrivals[n].stamped THEN Append(log[n - 1], arrivals[n].seq)
            ELSE log[n - 1]
    IN log[Len(arrivals)]
SeqLog == LogOf(measured)

\* sequence.csv accounts for the measured population exactly, whatever was
\* lost, repeated, reordered or left over from the warm-up.
SequenceExact == anchored => TrackerExact(tracker, SeqLog) /\ RangesExact(tracker, SeqLog)

Closed == artifacts # <<>>
Wrote(a) == Closed /\ artifacts[1][a] = "written"

\* throughput.csv has one row per second from the first measured arrival to the
\* last, and each row counts the arrivals of its second: a stall shows as zeros.
GridExact ==
    Closed =>
      /\ \A k \in 1 .. Len(grid.samples) :
            grid.samples[k] = Cardinality(Indices(LAMBDA m : (m.at - start) \div Sec = k - 1))
      /\ \A i \in 1 .. Len(measured) : (measured[i].at - start) \div Sec < Len(grid.samples)

\* interval-latency.json is written only when its rows are consecutive seconds
\* that hold every measured message exactly once, in the second it belongs to.
\* (The one exception takes a sink closed in the very tick of its first message.)
IntervalsComplete ==
    (Wrote("interval-latency.json") /\ (intervals.origin = None => now # start)) =>
      /\ RowSum(intervals, "events") = Len(measured)
      /\ \A k \in 1 .. Len(intervals.rows) :
            LET row == intervals.rows[k]
                mine == Indices(LAMBDA m : m.elapsed \div Sec = k - 1)
            IN /\ row.start = (k - 1) * Sec
               /\ k > 1 => intervals.rows[k - 1].end = row.start
               /\ row.counts.events = Cardinality(mine)
               /\ row.counts.unique + row.counts.duplicates = row.counts.events

\* It is refused only with a reason: a disk error, a message that came after a
\* later second had begun, or a run longer than the declared one.
IntervalsRefusedForCause ==
    (Closed /\ artifacts[1]["interval-latency.json"] = "failed") =>
        \/ IntervalsValid(intervals, latencies)
        \/ \E i, j \in 1 .. Len(measured) :
              i < j /\ measured[j].elapsed \div Sec < measured[i].elapsed \div Sec
        \/ \E i \in 1 .. Len(measured) : measured[i].elapsed \div Sec >= intervals.maximum
        \/ intervals.origin = None /\ (now - start) \notin 1 .. intervals.maximum * Sec

\* Every burst arrival is in exactly one of the primary, drain and after-drain
\* populations, none names another origin, and none precedes its origin.
BurstAccounted ==
    LET stamped == Indices(LAMBDA m : m.origin # None)
        zone(b, lo, hi) == {i \in stamped : measured[i].at - measured[i].origin \in lo .. hi}
    IN /\ Len(burst.primary) = Cardinality(zone(burst, 0, PrimaryEnd - 1))
       /\ Len(burst.drain) = Cardinality(zone(burst, PrimaryEnd, DrainEnd - 1))
       /\ Len(burst.after) = Cardinality(stamped) - Len(burst.primary) - Len(burst.drain)
       /\ burst.mismatches = 0

\* The fine buckets around the swap that really happened count every arrival in
\* their window, although the samples were kept around the swap as scheduled.
FineWindowComplete ==
    Wrote("throughput-buckets-10ms.json") =>
        FineTotal(burst.fine, artifacts[2], FineWidth)
          = Cardinality(Indices(LAMBDA m : m.origin # None
                            /\ m.at - artifacts[2] \in -FineHalf .. FineHalf - 1))

\* The pause of a transition runs from the last arrival of the old version to
\* the first of the new one, and last_v1_ns is that last arrival.
PauseExact ==
    \A k \in {Len(swaps.pauses)} \ {0} :
        LET turns == {i \in 2 .. Len(measured) : measured[i].version # measured[i - 1].version}
            i == Max(turns)
        IN /\ Cardinality(turns) = k
           /\ swaps.pauses[k].pause = measured[i].at - measured[i - 1].at
           /\ LastV1(swaps) = measured[i - 1].at
           /\ swaps.first_v2 = measured[i].at
=============================================================================
