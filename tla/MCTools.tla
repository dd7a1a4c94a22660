------------------------------- MODULE MCTools -------------------------------
(***************************************************************************)
(* The measuring side on small instances: the bench source and sink of a   *)
(* pipeline, and wafer-loadgen's profiles, publisher and subscriber.       *)
(*                                                                         *)
(* They are processes of their own, or nodes that meet only through the    *)
(* messages they exchange, and each module already lets those be lost,     *)
(* repeated, reordered and late.  So one behaviour is that of one of them, *)
(* the one SuiteInit picks; the variables of the others stay Off.          *)
(***************************************************************************)
EXTENDS Integers, Sequences, FiniteSets

CONSTANT Absent

VARIABLES
    part,       \* which of them this behaviour is about
    now, pc, emitted, next, due, summary, stop, reason, link, task,     \* shared names
    pacer, origin, polling, sequence, phaseCounts, completedAt, alive,
    warmupUntil, tracker, anchored, start, grid, intervals, burst, latencies, swaps,
    measured, artifacts,
    given, shape, offset, offsets,
    timer, begun, duration, open, queue, bye, inflight, index, count, trace, swap,
    artifact, since,
    shift, failures, held, cancelled, chan, rec, dir, heard, taken, counted

Off == "off"

-----------------------------------------------------------------------------
(***************************************************************************)
(* The source with a burst in the middle; the sink behind such a source,   *)
(* and behind sources without stamps with a plugin that changes version.   *)
(***************************************************************************)
Source == INSTANCE BenchSource WITH
    Sec <- 3, Rate <- 1, Total <- 5, Warmup <- 1,
    HasBurst <- TRUE, BurstRate <- 2, BurstStart <- 1, BurstEnd <- 2,
    PacerAhead <- 2, MaxStart <- 0, Slack <- 1

BurstSink == INSTANCE BenchSink WITH
    MaxTracked <- 3, Sec <- 2, Rate <- 1, Total <- 5, Warmup <- 1,
    HasBurst <- TRUE, BurstRate <- 2, BurstStart <- 1, BurstEnd <- 2,
    MeasurementSecs <- 2, WarmupTicks <- 0, Plain <- FALSE, Versions <- {},
    BucketWidth <- 1, PrimaryEnd <- 1, DrainEnd <- 2, SwapOffset <- 2,
    FineHalf <- 1, FineWidth <- 1, ParentWidth <- 2, Tolerance <- 1, FineCapacity <- 2,
    MaxArrivals <- 3, MaxTime <- 5, MaxStep <- 2

PlainSink == INSTANCE BenchSink WITH
    MaxTracked <- 8, Sec <- 1, Rate <- 1, Total <- 2, Warmup <- 1,
    HasBurst <- FALSE, BurstRate <- 0, BurstStart <- 0, BurstEnd <- 0,
    MeasurementSecs <- 1, WarmupTicks <- 1, Plain <- TRUE, Versions <- {"v1", "v2"},
    BucketWidth <- 1, PrimaryEnd <- 4, DrainEnd <- 6, SwapOffset <- 3,
    FineHalf <- 2, FineWidth <- 1, ParentWidth <- 2, Tolerance <- 1, FineCapacity <- 2,
    MaxArrivals <- 3, MaxTime <- 5, MaxStep <- 3

(***************************************************************************)
(* Profiles: two values for the flags that matter, at the defaults and     *)
(* away from them, with zeros where the code puts a floor.                 *)
(***************************************************************************)
Defaults == [profile |-> "steady", rate |-> 4, duration |-> 3, multiplier |-> 2,
             on |-> 1, cycle |-> 2, start |-> 1, step |-> 2, interval |-> 1, max |-> 6,
             swapAt |-> 90, node |-> Absent, plugin |-> Absent]

CliValues == [f \in DOMAIN Defaults |->
    CASE f = "profile" -> {"steady", "burst", "ramp", "hotswap-trigger", "sine"}
      [] f = "rate" -> {0, 4, 7}
      [] f = "on" -> {1, 3}
      [] f = "cycle" -> {0, 2}
      [] f = "interval" -> {0, 1}
      [] f = "swapAt" -> {90, 180}
      [] f = "node" -> {Absent, 1}
      [] OTHER -> {Defaults[f]}]

FileValues == [f \in DOMAIN Defaults |->
    CASE f = "profile" -> {Absent, "burst"}
      [] f = "rate" -> {Absent, 5}
      [] f = "max" -> {Absent, 0}
      [] f = "multiplier" -> {Absent, 0}
      [] f = "plugin" -> {1}
      [] OTHER -> {Absent}]

Profile == INSTANCE LoadProfile WITH
    Sec <- 60, MaxOffsets <- 50, Default <- Defaults, Cli <- CliValues, File <- FileValues

(***************************************************************************)
(* The publisher: waiting for room with a swap on its way, stopped by a    *)
(* signal at any point, over a link that fails under a signal, and with    *)
(* messages dropped while the tasks are slow.                              *)
(***************************************************************************)
SwapLoad(rate) == [profile |-> "hotswap-trigger", rate |-> rate, duration |-> 1, swapAt |-> 1,
                   node |-> 1, plugin |-> 1]
SteadyLoad == [profile |-> "steady", rate |-> 2, duration |-> 1]

PubSwap == INSTANCE Publisher WITH
    Sec <- 3, Shape <- SwapLoad(3), SequenceStart <- 5, DropWhenFull <- FALSE, QueueCap <- 1,
    Ahead <- 1, ConnectTimeout <- 1, DrainTimeout <- 1, DisconnectTimeout <- 1,
    SwapTimeout <- 1, MaxInflight <- 1, MaxLinkErrors <- 1, Signals <- {}, Horizon <- 5,
    Prompt <- TRUE

PubStop == INSTANCE Publisher WITH
    Sec <- 2, Shape <- SwapLoad(2), SequenceStart <- 5, DropWhenFull <- FALSE, QueueCap <- 1,
    Ahead <- 1, ConnectTimeout <- 1, DrainTimeout <- 1, DisconnectTimeout <- 1,
    SwapTimeout <- 1, MaxInflight <- 1, MaxLinkErrors <- 0, Signals <- {"sigterm"},
    Horizon <- 4, Prompt <- TRUE

PubLink == INSTANCE Publisher WITH
    Sec <- 2, Shape <- SteadyLoad, SequenceStart <- 5, DropWhenFull <- FALSE, QueueCap <- 1,
    Ahead <- 1, ConnectTimeout <- 1, DrainTimeout <- 1, DisconnectTimeout <- 1,
    SwapTimeout <- 1, MaxInflight <- 1, MaxLinkErrors <- 1, Signals <- {"sigterm"},
    Horizon <- 4, Prompt <- TRUE

PubDrop == INSTANCE Publisher WITH
    Sec <- 2, Shape <- SteadyLoad, SequenceStart <- 5, DropWhenFull <- TRUE, QueueCap <- 1,
    Ahead <- 1, ConnectTimeout <- 1, DrainTimeout <- 1, DisconnectTimeout <- 1,
    SwapTimeout <- 1, MaxInflight <- 1, MaxLinkErrors <- 1, Signals <- {}, Horizon <- 4,
    Prompt <- FALSE

(***************************************************************************)
(* The subscriber: stopped by a signal, with numbers past the end and a    *)
(* payload that does not parse; with event buckets and a step of the wall  *)
(* clock; and stopping by itself at a number of messages.                  *)
(***************************************************************************)
SubSignal == INSTANCE Subscriber WITH
    MaxTracked <- 8, Width <- 1, MaxRows <- 3, Event <- 3, Coverage <- 1, Tolerance <- 1,
    SampleCap <- 2, StepTolerance <- 1, Seqs <- {-1, 0, 1, 2}, SequenceEnd <- 2,
    TotalMessages <- 0, WithEvents <- FALSE, ChanCap <- 1, MaxArrivals <- 2, MaxNow <- 4,
    MaxLinkFailures <- 1, Steps <- {}

SubEvents == INSTANCE Subscriber WITH
    MaxTracked <- 8, Width <- 2, MaxRows <- 2, Event <- 3, Coverage <- 1, Tolerance <- 1,
    SampleCap <- 1, StepTolerance <- 1, Seqs <- {0, 1}, SequenceEnd <- -1,
    TotalMessages <- 0, WithEvents <- TRUE, ChanCap <- 1, MaxArrivals <- 2, MaxNow <- 4,
    MaxLinkFailures <- 1, Steps <- {2}

SubTotal == INSTANCE Subscriber WITH
    MaxTracked <- 8, Width <- 2, MaxRows <- 2, Event <- 3, Coverage <- 1, Tolerance <- 1,
    SampleCap <- 2, StepTolerance <- 1, Seqs <- {0, 1}, SequenceEnd <- -1,
    TotalMessages <- 2, WithEvents <- FALSE, ChanCap <- 1, MaxArrivals <- 3, MaxNow <- 1,
    MaxLinkFailures <- 1, Steps <- {}

ASSUME ToolsFit ==
    /\ Source!SourceAssumption /\ Source!ScheduleAssumption
    /\ BurstSink!SinkAssumption /\ BurstSink!ScheduleAssumption /\ BurstSink!TrackerAssumption
    /\ PlainSink!SinkAssumption /\ PlainSink!ScheduleAssumption /\ PlainSink!TrackerAssumption
    /\ Profile!ProfileAssumption /\ Profile!SecAssumption
    /\ PubSwap!PublisherAssumption /\ PubStop!PublisherAssumption
    /\ PubLink!PublisherAssumption /\ PubDrop!PublisherAssumption
    /\ PubSwap!SecAssumption /\ PubStop!SecAssumption
    /\ PubLink!SecAssumption /\ PubDrop!SecAssumption
    /\ SubSignal!SubscriberAssumption /\ SubSignal!RecorderAssumption /\ SubSignal!TrackerAssumption
    /\ SubEvents!SubscriberAssumption /\ SubEvents!RecorderAssumption /\ SubEvents!TrackerAssumption
    /\ SubTotal!SubscriberAssumption /\ SubTotal!RecorderAssumption /\ SubTotal!TrackerAssumption

-----------------------------------------------------------------------------
(***************************************************************************)
(* The variables only one of them has, and the specification.              *)
(***************************************************************************)
sourceOwn == <<pacer, origin, polling, sequence, phaseCounts, completedAt, alive>>
sinkOwn == <<warmupUntil, tracker, anchored, start, grid, intervals, burst, latencies, swaps,
             measured, artifacts>>
profileOwn == <<given, shape, offset, offsets>>
pubOwn == <<timer, begun, duration, open, queue, bye, inflight, index, count, trace, swap,
            artifact, since>>
subOwn == <<shift, failures, held, cancelled, chan, rec, dir, heard, taken, counted>>
suiteVars == <<part, now, pc, emitted, next, due, summary, stop, reason, link, task,
               sourceOwn, sinkOwn, profileOwn, pubOwn, subOwn>>

sourceVars == Source!vars
profileVars == Profile!vars
pubVars == PubSwap!vars
subVars == SubTotal!vars

SourceOff == /\ pacer = Off /\ origin = Off /\ polling = Off /\ sequence = Off
             /\ phaseCounts = Off /\ completedAt = Off /\ alive = Off

SinkOff == /\ warmupUntil = Off /\ tracker = Off /\ anchored = Off /\ start = Off /\ grid = Off
           /\ intervals = Off /\ burst = Off /\ latencies = Off /\ swaps = Off
           /\ measured = Off /\ artifacts = Off

ProfileOff == given = Off /\ shape = Off /\ offset = Off /\ offsets = Off

PubOff == /\ timer = Off /\ begun = Off /\ duration = Off /\ open = Off /\ queue = Off
          /\ bye = Off /\ inflight = Off /\ index = Off /\ count = Off /\ trace = Off
          /\ swap = Off /\ artifact = Off /\ since = Off

SubOff == /\ shift = Off /\ failures = Off /\ held = Off /\ cancelled = Off /\ chan = Off
          /\ rec = Off /\ dir = Off /\ heard = Off /\ taken = Off /\ counted = Off

TaskOff == stop = Off /\ reason = Off /\ link = Off /\ task = Off
PacerOff == next = Off /\ due = Off /\ summary = Off

SuiteInit ==
    \/ /\ part = "source" /\ Source!Init
       /\ SinkOff /\ ProfileOff /\ PubOff /\ SubOff /\ TaskOff /\ pc = Off
    \/ /\ \/ part = "burst" /\ BurstSink!Init
          \/ part = "plain" /\ PlainSink!Init
       /\ SourceOff /\ ProfileOff /\ PubOff /\ SubOff /\ TaskOff /\ PacerOff
       /\ pc = Off /\ emitted = Off
    \/ /\ part = "profile" /\ Profile!Init
       /\ SourceOff /\ SinkOff /\ PubOff /\ SubOff /\ TaskOff /\ PacerOff /\ now = Off
    \/ /\ \/ part = "swap" /\ PubSwap!Init
          \/ part = "stop" /\ PubStop!Init
          \/ part = "link" /\ PubLink!Init
          \/ part = "drop" /\ PubDrop!Init
       /\ SourceOff /\ SinkOff /\ ProfileOff /\ SubOff /\ emitted = Off
    \/ /\ \/ part = "signal" /\ SubSignal!Init
          \/ part = "events" /\ SubEvents!Init
          \/ part = "total" /\ SubTotal!Init
       /\ SourceOff /\ SinkOff /\ ProfileOff /\ PubOff /\ PacerOff /\ emitted = Off

BenchNext ==
    \/ /\ part = "source" /\ Source!Next
       /\ UNCHANGED <<part, pc, stop, reason, link, task, sinkOwn, profileOwn, pubOwn, subOwn>>
    \/ /\ \/ part = "burst" /\ BurstSink!Next
          \/ part = "plain" /\ PlainSink!Next
       /\ UNCHANGED <<part, pc, emitted, next, due, summary, stop, reason, link, task,
                      sourceOwn, profileOwn, pubOwn, subOwn>>

ProfileNext ==
    /\ part = "profile" /\ Profile!Next
    /\ UNCHANGED <<part, now, next, due, summary, stop, reason, link, task,
                   sourceOwn, sinkOwn, pubOwn, subOwn>>

PubNext ==
    /\ \/ part = "swap" /\ PubSwap!Next
       \/ part = "stop" /\ PubStop!Next
       \/ part = "link" /\ PubLink!Next
       \/ part = "drop" /\ PubDrop!Next
    /\ UNCHANGED <<part, emitted, sourceOwn, sinkOwn, profileOwn, subOwn>>

SubNext ==
    /\ \/ part = "signal" /\ SubSignal!Next
       \/ part = "events" /\ SubEvents!Next
       \/ part = "total" /\ SubTotal!Next
    /\ UNCHANGED <<part, emitted, next, due, summary, sourceOwn, sinkOwn, profileOwn, pubOwn>>

SuiteNext == BenchNext \/ ProfileNext \/ PubNext \/ SubNext

\* The fairness of the modules themselves.
Fairness ==
    /\ WF_sourceVars(part = "source" /\ Source!PacerSend)
    /\ WF_sourceVars(part = "source" /\ Source!PacerStop)
    /\ WF_sourceVars(part = "source" /\ Source!Tick)
    /\ WF_sourceVars(part = "source" /\ Source!PollBegin)
    /\ SF_sourceVars(part = "source" /\ Source!PollReady)
    /\ WF_profileVars(part = "profile" /\ Profile!Next)
    /\ WF_pubVars(part = "swap" /\ PubSwap!Main)
    /\ WF_pubVars(part = "swap" /\ PubSwap!Pace)
    /\ WF_pubVars(part = "swap" /\ PubSwap!Trigger)
    /\ WF_pubVars(part = "swap" /\ PubSwap!Tick)
    /\ WF_pubVars(part = "swap" /\ PubSwap!Serve)
    /\ WF_pubVars(part = "stop" /\ PubStop!Main)
    /\ WF_pubVars(part = "stop" /\ PubStop!Pace)
    /\ WF_pubVars(part = "stop" /\ PubStop!Trigger)
    /\ WF_pubVars(part = "stop" /\ PubStop!Tick)
    /\ WF_pubVars(part = "stop" /\ PubStop!Serve)
    /\ WF_subVars(part = "total" /\ SubTotal!Main)
    /\ WF_subVars(part = "total" /\ SubTotal!EventLoop)

SuiteSpec == SuiteInit /\ [][SuiteNext]_suiteVars /\ Fairness

-----------------------------------------------------------------------------
\* What a benchmark reports of a pipeline is what happened: the bench source
\* stamps each message with the due time of an open-loop schedule and loses
\* none across cancelled polls, and the artifacts of the bench sink account for
\* every measured arrival once, in its second, bucket, phase and version,
\* whatever was lost, repeated, reordered or late; what they cannot account for
\* exactly they refuse to write, and only then.
BenchExact ==
    /\ part = "source" =>
         /\ Source!SourceTypeOK /\ Source!OpenLoop
         /\ Source!NoneLost /\ Source!PhasesFollowClock
    /\ part = "burst" =>
         /\ BurstSink!SequenceExact
         /\ BurstSink!IntervalsComplete
         /\ BurstSink!IntervalsRefusedForCause
         /\ BurstSink!BurstAccounted
         /\ BurstSink!FineWindowComplete
    /\ part = "plain" =>
         /\ PlainSink!SinkTypeOK
         /\ PlainSink!GridExact
         /\ PlainSink!IntervalsComplete
         /\ PlainSink!IntervalsRefusedForCause
         /\ PlainSink!PauseExact

\* The load a publisher offers is the load it was asked for: the schedule has
\* the rates of its flags and the operator's flags win over the file, the trace
\* is that schedule however late messages left, a completed run offered all of
\* it, its summary reconciles however it ended, and a run with a swap ends well
\* only with the swap.
LoadExact ==
    /\ part = "profile" =>
         Profile!PopulationExact /\ Profile!SecondsFollowRate /\ Profile!OperatorWins
    /\ part = "swap" =>
         PubSwap!Reconciles /\ PubSwap!WholePopulation /\ PubSwap!TraceIsSchedule
           /\ PubSwap!SwapDecidesRun
    /\ part = "stop" =>
         PubStop!PubTypeOK /\ PubStop!Reconciles /\ PubStop!WholePopulation
           /\ PubStop!TraceIsSchedule
           /\ PubStop!SwapDecidesRun
    /\ part = "link" =>
         PubLink!Reconciles /\ PubLink!WholePopulation /\ PubLink!TraceIsSchedule
    /\ part = "drop" =>
         PubDrop!Reconciles /\ PubDrop!WholePopulation /\ PubDrop!TraceIsSchedule

\* What the subscriber writes is what it heard: the shutdown loses no message
\* on the way, complete metadata means complete artifacts, the counters, rows
\* and buckets are those of the recorded messages or are left out for cause,
\* and a step of the wall clock is never measured unnoticed.
SubscriberExact ==
    /\ part = "signal" =>
         /\ SubSignal!SubTypeOK
         /\ SubSignal!MetadataMeansComplete
         /\ SubSignal!ShutdownLosesNothing
         /\ SubSignal!SequenceExact
         /\ SubSignal!RowsExact
         /\ SubSignal!RowsRefusedForCause
    /\ part = "events" =>
         /\ SubEvents!MetadataMeansComplete
         /\ SubEvents!ShutdownLosesNothing
         /\ SubEvents!BucketsExact
         /\ SubEvents!StepNoticed
    /\ part = "total" => SubTotal!SequenceExact

\* wafer-loadgen reports of a run what happened in it: the load it offered is
\* the load it was asked for, and what the subscriber writes is what it heard.
LoadgenExact == LoadExact /\ SubscriberExact

\* A source that is polled to its end emits its whole population and its pacer
\* thread does not outlive it; an accepted schedule ends; a publisher whose
\* broker serves the link comes to an end; a stopped subscriber exits, and one
\* whose link comes up again subscribes again.
Awaited(k) ==
    CASE part = "source" -> k = "run" \/ (pacer = "running" /\ ~alive)
      [] part = "profile" -> pc = "schedule"
      [] part \in {"swap", "stop"} -> k = "run"
      [] part = "total" -> IF k = "run" THEN stop ELSE link = "up"
      [] OTHER -> FALSE

Ended(k) ==
    CASE part = "source" -> IF k = "run" THEN ~alive \/ sequence = 5 ELSE pacer = "ended"
      [] part = "profile" -> pc = "done"
      [] part = "swap" -> pc \in PubSwap!Final
      [] part = "stop" -> pc \in PubStop!Final
      [] part = "total" -> pc \in SubTotal!Final
                           \/ (k = "link" /\ (link # "up" \/ cancelled))
      [] OTHER -> TRUE

ToolsEnd == \A k \in {"run", "link"} : Awaited(k) ~> Ended(k)
=============================================================================
