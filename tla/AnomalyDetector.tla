--------------------------- MODULE AnomalyDetector --------------------------
(***************************************************************************)
(* The anomaly-detector plugin: per field an exponentially weighted mean   *)
(* and variance, a z-score of every new value against them, and the        *)
(* severity of the largest.                                                *)
(*                                                                         *)
(* alpha is one half, so the arithmetic is exact in fractions of a power   *)
(* of two: a mean is in units of 1 / Scale and a variance in units of      *)
(* 1 / Scale^2, with Scale = 2^MaxSamples.  A z-score is compared by its   *)
(* square.                                                                 *)
(***************************************************************************)
EXTENDS Integers, Sequences, FiniteSetsExt, Functions

CONSTANTS
    Fields,
    Values,         \* values a field may have in a message
    WarmupSamples,
    ZThreshold,
    MaxSamples      \* bound: samples of a field in the life of an instance

Missing == [is |-> "none", v |-> 0]
Some(v) == [is |-> "num", v |-> v]

VARIABLES
    acc,            \* field -> accumulator of the running instance
    seen,           \* field -> the samples since the instance started
    severity,       \* of the last message: "none", "normal", "warning", "critical"
    restarts        \* how often the instance was replaced

vars == <<acc, seen, severity, restarts>>

Scale == 2 ^ MaxSamples
Default == [mean |-> 0, variance |-> 0, count |-> 0]

-----------------------------------------------------------------------------
(* EwmaAccumulator. *)

Diff(a, v) == v * Scale - a.mean

Update(a, v) ==
    IF a.count = 0 THEN [mean |-> v * Scale, variance |-> 0, count |-> 1]
    ELSE [mean |-> a.mean + Diff(a, v) \div 2,
          variance |-> (a.variance + (Diff(a, v) * Diff(a, v)) \div 2) \div 2,
          count |-> a.count + 1]

\* z_score, by the multiples of the threshold it reaches: no deviation from a
\* zero variance is a score of zero, any other the largest there is.
Reaches(a, v, times) ==
    /\ a.count >= WarmupSamples
    /\ IF a.variance = 0 THEN Diff(a, v) # 0
       ELSE Diff(a, v) * Diff(a, v) >= (times * ZThreshold) ^ 2 * a.variance

\* The severity of the largest score of a message's fields
SeverityOf(accs, m) ==
    LET Any(times) == \E f \in Fields : m[f] # Missing /\ Reaches(accs[f], m[f].v, times)
    IN IF Any(2) THEN "critical" ELSE IF Any(1) THEN "warning" ELSE "normal"

-----------------------------------------------------------------------------
Init ==
    /\ acc = [f \in Fields |-> Default]
    /\ seen = [f \in Fields |-> <<>>]
    /\ severity = "none"
    /\ restarts = 0

Sampled(m) == [f \in Fields |-> IF m[f] = Missing THEN acc[f] ELSE Update(acc[f], m[f].v)]

Room(m) == \A f \in Fields : m[f] # Missing => Len(seen[f]) < MaxSamples

\* process: every field the message has a number for is scored against the
\* samples before it, then becomes one.
Process(m) ==
    /\ Room(m)
    /\ severity' = SeverityOf(acc, m)
    /\ acc' = Sampled(m)
    /\ seen' = [f \in Fields |-> IF m[f] = Missing THEN seen[f] ELSE Append(seen[f], m[f].v)]
    /\ UNCHANGED restarts

\* A hot-swap, a reconfiguration or a recovery: the new instance starts from its
\* own init.
Restart ==
    /\ restarts < 1
    /\ acc' = [f \in Fields |-> Default]
    /\ seen' = [f \in Fields |-> <<>>]
    /\ restarts' = restarts + 1
    /\ UNCHANGED severity

\* The bound on samples is reached.
Full == (\A f \in Fields : Len(seen[f]) = MaxSamples) /\ UNCHANGED vars

Messages == [Fields -> {Missing} \cup {Some(v) : v \in Values}]

Next == (\E m \in Messages : Process(m)) \/ Restart \/ Full

Spec == Init /\ [][Next]_vars

-----------------------------------------------------------------------------
(* Properties. *)

\* The weight of the i-th of n samples, in units of 1 / Scale: one half to the
\* age of the sample, the first one taking what is left.
Weight(n, i) == Scale \div 2 ^ (IF i = 1 THEN n - 1 ELSE n - i + 1)

Weighted(s, Op(_)) ==
    FoldFunctionOnSet(LAMBDA x, y : x + y, 0,
                      [i \in 1..Len(s) |-> Weight(Len(s), i) * Op(s[i])], 1..Len(s))

\* The two accumulators are the exponentially weighted mean and variance of the
\* samples the running instance has seen, whatever the order of the messages,
\* missing fields and restarts (plugins/anomaly-detector/src/lib.rs:40).
BaselineExact ==
    \A f \in Fields :
        LET n == Len(seen[f])
            mean == Weighted(seen[f], LAMBDA v : v)
            square == Weighted(seen[f], LAMBDA v : v * v)
        IN /\ acc[f].count = n
           /\ n > 0 => /\ acc[f].mean = mean
                       /\ acc[f].variance = square * Scale - mean * mean

\* An alarm is about the past: a message is not normal only if, for some field,
\* the warm-up is over and the value differs from a sample seen before it, and a
\* steady field never raises one (plugins/anomaly-detector/src/lib.rs:56).
Caused ==
    severity' \in {"warning", "critical"} /\ severity' # severity =>
        \E f \in Fields :
           /\ seen'[f] # seen[f]
           /\ Len(seen[f]) >= WarmupSamples
           /\ \E i \in 1..Len(seen[f]) : seen[f][i] # seen'[f][Len(seen'[f])]

\* The first value of a field is no alarm: there is nothing to deviate from.
\* "Zero variance means all samples were identical.  Any deviation from the mean
\* is infinitely anomalous" (plugins/anomaly-detector/src/lib.rs:62).
FirstIsNormal ==
    [][(\A f \in Fields : seen[f] = <<>>) /\ seen' # seen => severity' = "normal"]_vars

=============================================================================
