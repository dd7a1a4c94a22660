--------------------------- MODULE SequenceTracker ---------------------------
(***************************************************************************)
(* Exact sequence accounting, wafer_types::sequence.  BenchSink and the    *)
(* load generator's subscriber both keep one tracker; here it is a record, *)
(* and every method is an operator on it.  The bitset over the population  *)
(* is the set of the indices marked in it.                                 *)
(***************************************************************************)
EXTENDS Integers, FiniteSets, Sequences, SequencesExt

CONSTANT MaxTracked     \* MAX_TRACKED_SEQUENCES

\* What an instance has to give.
TrackerAssumption == MaxTracked \in Nat \ {0}

None == -1              \* an Option that holds nothing; numbers are naturals
Unlimited == 1000000    \* max_examples = None: no limit on the examples

Tracker == [start : Nat \cup {None}, end : Nat \cup {None}, seen : SUBSET Nat,
            highest : Nat \cup {None}, received : Nat, unique : Nat,
            duplicates : Nat, out_of_order : Nat, out_of_range : Nat,
            examples : Seq(Nat), max_examples : Nat, truncated : BOOLEAN]

NewTracker(limit) ==
    [start |-> 0, end |-> None, seen |-> {}, highest |-> None, received |-> 0,
     unique |-> 0, duplicates |-> 0, out_of_order |-> 0, out_of_range |-> 0,
     examples |-> <<>>, max_examples |-> limit, truncated |-> FALSE]

Unanchored(limit) == [NewTracker(limit) EXCEPT !.start = None]

AnchorStart(t, s) == IF t.start = None THEN [t EXCEPT !.start = s] ELSE t
AnchorEnd(t, e) == IF t.end = None THEN [t EXCEPT !.end = e] ELSE t

InRange(t, n) ==
    /\ n >= t.start
    /\ t.end # None => n < t.end
    /\ n - t.start < MaxTracked

\* record() once the population is anchored, by outcome.
OutOfRange(t) == [t EXCEPT !.received = @ + 1, !.out_of_range = @ + 1]

Duplicate(t, n) ==
    LET room == Len(t.examples) < t.max_examples
    IN [t EXCEPT !.received = @ + 1, !.duplicates = @ + 1,
                 !.examples = IF room THEN Append(@, n) ELSE @,
                 !.truncated = @ \/ ~room]

Unique(t, n) ==
    [t EXCEPT !.received = @ + 1, !.unique = @ + 1,
              !.seen = @ \cup {n - t.start},
              !.out_of_order = @ + (IF n < t.highest THEN 1 ELSE 0),
              !.highest = IF n > @ THEN n ELSE @]

IsSeen(t, n) == n - t.start \in t.seen

RecordSeq(t0, n) ==
    LET t == AnchorStart(t0, n)
    IN CASE ~InRange(t, n) -> OutOfRange(t)
         [] InRange(t, n) /\ IsSeen(t, n) -> Duplicate(t, n)
         [] OTHER -> Unique(t, n)

IsDuplicate(t0, n) ==
    LET t == AnchorStart(t0, n) IN InRange(t, n) /\ IsSeen(t, n)

Expected(t) ==
    LET end == IF t.end # None THEN t.end
               ELSE IF t.highest # None THEN t.highest + 1 ELSE t.start
    IN IF t.start = None \/ end <= t.start THEN 0
       ELSE IF end - t.start < MaxTracked THEN end - t.start ELSE MaxTracked

Missing(t) == IF Expected(t) > t.unique THEN Expected(t) - t.unique ELSE 0

\* MissingRanges::push
PushRange(m, start, first, last, limit) ==
    [m EXCEPT !.total = @ + 1,
              !.ranges = IF Len(@) < limit
                         THEN Append(@, <<start + first, start + last>>) ELSE @]

\* One step of the scan over the bitset; run is the start of an open gap.
ScanIndex(t, m, i) ==
    CASE i \notin t.seen /\ m.run = None -> [m EXCEPT !.run = i]
      [] i \in t.seen /\ m.run # None ->
             [PushRange(m, t.start, m.run, i - 1, t.max_examples) EXCEPT !.run = None]
      [] OTHER -> m

MissingRanges(t) ==
    LET scan[i \in 0 .. Expected(t)] ==
            IF i = 0 THEN [ranges |-> <<>>, total |-> 0, run |-> None]
            ELSE ScanIndex(t, scan[i - 1], i - 1)
        m == scan[Expected(t)]
    IN IF m.run = None THEN m
       ELSE PushRange(m, t.start, m.run, Expected(t) - 1, t.max_examples)

-----------------------------------------------------------------------------
(***************************************************************************)
(* The reference: what the counters mean for a log of recorded numbers,    *)
(* the population being [start, end).                                      *)
(***************************************************************************)
CountWhere(log, P(_)) == Cardinality({i \in 1 .. Len(log) : P(log[i])})

Population(t, log) ==
    LET arrived == {n \in ToSet(log) : InRange(t, n)}
    IN IF t.end # None THEN {n \in t.start .. t.end - 1 : n - t.start < MaxTracked}
       ELSE UNION {t.start .. n : n \in arrived}

\* The tracker agrees with its log: every arrival is unique, a repeat or out of
\* range, and what is missing is the population less what arrived.
TrackerExact(t, log) ==
    LET arrived == {n \in ToSet(log) : InRange(t, n)}
        late(i) == /\ InRange(t, log[i])
                   /\ \A j \in 1 .. i - 1 : log[j] # log[i]
                   /\ \E j \in 1 .. i - 1 : InRange(t, log[j]) /\ log[j] > log[i]
    IN /\ t.received = Len(log)
       /\ t.unique = Cardinality(arrived)
       /\ t.out_of_range = CountWhere(log, LAMBDA n : ~InRange(t, n))
       /\ t.duplicates = Len(log) - t.unique - t.out_of_range
       /\ t.out_of_order = Cardinality({i \in 1 .. Len(log) : late(i)})
       /\ Missing(t) = Cardinality(Population(t, log) \ arrived)

\* The gap rows name the missing numbers, each once, in maximal runs; when the
\* examples are limited they are the first of those runs and the total is exact.
RangesExact(t, log) ==
    LET missing == Population(t, log) \ ToSet(log)
        m == MissingRanges(t)
        heads == {n \in missing : n - 1 \notin missing}
        covered == UNION {r[1] .. r[2] : r \in ToSet(m.ranges)}
    IN /\ m.total = Cardinality(heads)
       /\ Len(m.ranges) = IF m.total < t.max_examples THEN m.total ELSE t.max_examples
       /\ covered \subseteq missing
       /\ \A r \in ToSet(m.ranges) : r[1] - 1 \notin missing /\ r[2] + 1 \notin missing
       /\ m.total <= t.max_examples => covered = missing
       /\ \A n \in missing \ covered : \A c \in covered : c < n
=============================================================================
