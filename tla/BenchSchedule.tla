---------------------------- MODULE BenchSchedule ----------------------------
(***************************************************************************)
(* The open-loop schedule of BenchSource: when message n is due, to which  *)
(* phase of a burst experiment it belongs, and the stamps it carries.      *)
(* Rates are whole messages per second and a second has Sec clock ticks,   *)
(* so the truncation of interval_ns is kept.                               *)
(***************************************************************************)
EXTENDS Integers, FiniteSets, Sequences

CONSTANTS
    Sec,            \* clock ticks in a second
    Rate,           \* rate_per_sec
    Total,          \* total_messages, warmup included
    Warmup,         \* warmup_messages
    HasBurst,       \* is a burst schedule configured?
    BurstRate, BurstStart, BurstEnd

\* interval_ns and messages_for; 0 stands for None.
IntervalNs(rate) == IF rate = 0 THEN 0 ELSE Sec \div rate
MessagesFor(rate, secs) == rate * secs

Before == MessagesFor(Rate, BurstStart)
During == MessagesFor(BurstRate, BurstEnd - BurstStart)

\* What an instance has to give: a schedule BenchSource::validate accepts.
ScheduleAssumption ==
    /\ {Sec, Total} \subseteq Nat \ {0}
    /\ Warmup \in Nat /\ Rate \in Nat /\ HasBurst \in BOOLEAN
    /\ IntervalNs(Rate) > 0
    /\ HasBurst => /\ BurstRate \in Nat /\ IntervalNs(BurstRate) > 0
                   /\ BurstStart \in Nat /\ BurstEnd \in Nat /\ BurstStart < BurstEnd
                   /\ Total >= Warmup + Before + During

BurstPhase(n) ==
    IF ~HasBurst \/ n < Warmup THEN "none"
    ELSE IF n - Warmup < Before THEN "before"
    ELSE IF n - Warmup < Before + During THEN "burst"
    ELSE "after"

\* measurement_offset_ns
MeasurementOffset(n) ==
    LET i == n - Warmup
    IN CASE BurstPhase(n) = "before" -> i * IntervalNs(Rate)
         [] BurstPhase(n) = "burst" -> BurstStart * Sec + (i - Before) * IntervalNs(BurstRate)
         [] OTHER -> BurstEnd * Sec + (i - Before - During) * IntervalNs(Rate)

ScheduleOffset(n) ==
    IF BurstPhase(n) = "none" THEN n * IntervalNs(Rate)
    ELSE Warmup * IntervalNs(Rate) + MeasurementOffset(n)

\* measurement_start_unix_ns, for a pacer that started at origin.
MeasurementStart(origin) == origin + ScheduleOffset(Warmup)

\* The stamps of message n; a source without a burst stamps no burst origin.
StampsOf(n, origin, emit) ==
    [sequence |-> n, intended |-> origin + ScheduleOffset(n), emit |-> emit,
     warmup |-> n < Warmup, first |-> Warmup, end |-> Total,
     phase |-> BurstPhase(n),
     origin |-> IF HasBurst /\ n >= Warmup THEN MeasurementStart(origin) ELSE -1]
=============================================================================
