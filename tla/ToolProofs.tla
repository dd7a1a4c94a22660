------------------------------ MODULE ToolProofs ------------------------------
(***************************************************************************)
(* Proofs about the tools that measure a pipeline: the load generator's    *)
(* subscriber, the sequence tracker this shares with the bench sink, its   *)
(* publisher and load profiles, the bench source and the bench sink.       *)
(***************************************************************************)
EXTENDS Subscriber, FiniteSetTheorems, SequenceTheorems, WellFoundedInduction, TLAPS

-----------------------------------------------------------------------------
(***************************************************************************)
(* The tracker, for any log of numbers.                                    *)
(***************************************************************************)
Arrived(t, log) == {n \in ToSet(log) : InRange(t, n)}
Outside(t, log) == {i \in 1 .. Len(log) : ~InRange(t, log[i])}
IsLate(t, log, i) ==
    /\ InRange(t, log[i])
    /\ \A j \in 1 .. i - 1 : log[j] # log[i]
    /\ \E j \in 1 .. i - 1 : InRange(t, log[j]) /\ log[j] > log[i]
Late(t, log) == {i \in 1 .. Len(log) : IsLate(t, log, i)}

\* The tracker's fields, all of them, as functions of the log.
TrackerFits(t, log) ==
    /\ t.start # None
    /\ \A k \in Nat : k \in t.seen <=> t.start + k \in Arrived(t, log)
    /\ t.highest = None => Arrived(t, log) = {}
    /\ t.highest # None => t.highest \in Arrived(t, log)
    /\ \A n \in Arrived(t, log) : n <= t.highest
    /\ t.received = Len(log)
    /\ t.unique = Cardinality(Arrived(t, log))
    /\ t.out_of_range = Cardinality(Outside(t, log))
    /\ t.duplicates = Len(log) - t.unique - t.out_of_range
    /\ t.out_of_order = Cardinality(Late(t, log))

\* A number of a log is one of its entries.
LEMMA ToSetIs == ASSUME NEW log \in Seq(Nat)
                 PROVE  /\ ToSet(log) = {log[i] : i \in 1 .. Len(log)}
                        /\ ToSet(log) \subseteq Nat
  BY DEF ToSet

\* What comes to a log's set with one entry more.
LEMMA ToSetAppend == ASSUME NEW log \in Seq(Nat), NEW n \in Nat
                     PROVE  ToSet(Append(log, n)) = ToSet(log) \cup {n}
  <1>1. Append(log, n) \in Seq(Nat) /\ Len(Append(log, n)) = Len(log) + 1
    OBVIOUS
  <1>2. ToSet(Append(log, n)) = {Append(log, n)[i] : i \in 1 .. Len(log) + 1}
    BY <1>1, ToSetIs
  <1>3. \A i \in 1 .. Len(log) : Append(log, n)[i] = log[i]
    OBVIOUS
  <1>4. Append(log, n)[Len(log) + 1] = n
    OBVIOUS
  <1> QED BY <1>2, <1>3, <1>4, ToSetIs

\* The sets of indices and numbers the counters stand for are finite.
LEMMA CountsFinite ==
  ASSUME NEW t, NEW log \in Seq(Nat)
  PROVE  /\ IsFiniteSet(ToSet(log)) /\ IsFiniteSet(Arrived(t, log))
         /\ IsFiniteSet(Outside(t, log)) /\ IsFiniteSet(Late(t, log))
  <1>1. IsFiniteSet(1 .. Len(log))
    BY FS_Interval
  <1>2. IsFiniteSet(ToSet(log))
    <2>1. log \in Surjection(1 .. Len(log), ToSet(log))
      BY ToSetIs DEF Surjection
    <2> QED BY <1>1, <2>1, FS_Surjection
  <1>3. Arrived(t, log) \subseteq ToSet(log) /\ Outside(t, log) \subseteq 1 .. Len(log)
        /\ Late(t, log) \subseteq 1 .. Len(log)
    BY DEF Arrived, Outside, Late
  <1> QED BY <1>1, <1>2, <1>3, FS_Subset

\* The population does not move: what is in range is decided by start and end.
LEMMA RangeStays ==
  ASSUME NEW t \in Tracker, NEW u \in Tracker, u.start = t.start, u.end = t.end
  PROVE  /\ \A n : InRange(u, n) <=> InRange(t, n)
         /\ \A log : /\ Arrived(u, log) = Arrived(t, log)
                     /\ Outside(u, log) = Outside(t, log)
                     /\ Late(u, log) = Late(t, log)
  <1>1. \A n : InRange(u, n) <=> InRange(t, n)
    BY DEF InRange
  <1> QED BY <1>1 DEF Arrived, Outside, Late, IsLate

\* A new tracker fits the empty log.
LEMMA NewFits ==
  ASSUME NEW end \in Nat \cup {None}
  PROVE  LET t == [NewTracker(Unlimited) EXCEPT !.end = end]
         IN  /\ t \in Tracker /\ t.start = 0 /\ t.end = end /\ t.unique = 0
             /\ TrackerFits(t, <<>>)
  <1> DEFINE t == [NewTracker(Unlimited) EXCEPT !.end = end]
             empty == <<>>
  <1>1. empty \in Seq(Nat) /\ Len(empty) = 0 /\ DOMAIN empty = {} /\ 1 .. Len(empty) = {}
    OBVIOUS
  <1>2. /\ t.start = 0 /\ t.end = end /\ t.seen = {} /\ t.highest = None /\ t.received = 0
        /\ t.unique = 0 /\ t.duplicates = 0 /\ t.out_of_order = 0 /\ t.out_of_range = 0
    BY DEF NewTracker
  <1>3. Cardinality({}) = 0
    BY FS_EmptySet
  <1>4. t \in Tracker
    <2>1. NewTracker(Unlimited) \in Tracker
      <3> HIDE DEF t
      <3>1. \A s \in Seq(Nat) :
              [start |-> 0, end |-> None, seen |-> {}, highest |-> None, received |-> 0,
               unique |-> 0, duplicates |-> 0, out_of_order |-> 0, out_of_range |-> 0,
               examples |-> s, max_examples |-> Unlimited, truncated |-> FALSE] \in Tracker
        BY DEF Tracker, None, Unlimited
      <3> QED BY <1>1, <3>1, Zenon DEF NewTracker
    <2> QED BY <2>1 DEF Tracker
  <1> HIDE DEF t, empty
  <1>5. Arrived(t, empty) = {} /\ Outside(t, empty) = {} /\ Late(t, empty) = {}
    BY <1>1 DEF Arrived, Outside, Late, ToSet
  <1>6. TrackerFits(t, empty)
    <2>1. t.start # None /\ t.received = Len(empty)
          /\ t.duplicates = Len(empty) - t.unique - t.out_of_range
      BY <1>1, <1>2 DEF None
    <2> QED BY <1>2, <1>3, <1>5, <2>1 DEF TrackerFits
  <1> QED BY <1>2, <1>4, <1>6 DEF t, empty

\* A tracker stays one when a field is given a value of its type.
LEMMA TrackerWith ==
  ASSUME NEW t \in Tracker
  PROVE  /\ \A v \in Nat : [t EXCEPT !.received = v] \in Tracker
         /\ \A v \in Nat : [t EXCEPT !.unique = v] \in Tracker
         /\ \A v \in Nat : [t EXCEPT !.duplicates = v] \in Tracker
         /\ \A v \in Nat : [t EXCEPT !.out_of_order = v] \in Tracker
         /\ \A v \in Nat : [t EXCEPT !.out_of_range = v] \in Tracker
         /\ \A v \in Nat : [t EXCEPT !.highest = v] \in Tracker
         /\ \A v \in SUBSET Nat : [t EXCEPT !.seen = v] \in Tracker
         /\ \A v \in Seq(Nat) : [t EXCEPT !.examples = v] \in Tracker
         /\ \A v \in BOOLEAN : [t EXCEPT !.truncated = v] \in Tracker
  BY DEF Tracker

\* record() by outcome: its result is typed, the fields it sets are these, and
\* those it leaves alone, the population's bounds among them, are as they were.
LEMMA OutOfRangeIs ==
  ASSUME NEW t \in Tracker
  PROVE  LET u == OutOfRange(t)
         IN  /\ u \in Tracker /\ u.start = t.start /\ u.end = t.end
             /\ u.seen = t.seen /\ u.highest = t.highest
             /\ u.received = t.received + 1 /\ u.out_of_range = t.out_of_range + 1
             /\ u.unique = t.unique /\ u.duplicates = t.duplicates
             /\ u.out_of_order = t.out_of_order
  <1> DEFINE a == [t EXCEPT !.received = @ + 1]
  <1>1. t.received + 1 \in Nat /\ t.out_of_range + 1 \in Nat
    BY DEF Tracker
  <1>2. a \in Tracker /\ a.out_of_range = t.out_of_range
    BY <1>1, TrackerWith DEF Tracker
  <1> HIDE DEF a
  <1>3. \A v \in Nat : [a EXCEPT !.out_of_range = v] \in Tracker
    BY <1>2, TrackerWith
  <1>4. OutOfRange(t) = [a EXCEPT !.out_of_range = t.out_of_range + 1]
    BY <1>2 DEF OutOfRange, a
  <1>5. OutOfRange(t) \in Tracker
    BY <1>1, <1>3, <1>4
  <1> QED BY <1>5 DEF OutOfRange, Tracker

LEMMA DuplicateIs ==
  ASSUME NEW t \in Tracker, NEW n \in Nat
  PROVE  LET u == Duplicate(t, n)
         IN  /\ u \in Tracker /\ u.start = t.start /\ u.end = t.end
             /\ u.seen = t.seen /\ u.highest = t.highest
             /\ u.received = t.received + 1 /\ u.out_of_range = t.out_of_range
             /\ u.unique = t.unique /\ u.duplicates = t.duplicates + 1
             /\ u.out_of_order = t.out_of_order
  <1> DEFINE room == Len(t.examples) < t.max_examples
             kept == IF room THEN Append(t.examples, n) ELSE t.examples
             cut == t.truncated \/ ~room
             a == [t EXCEPT !.received = @ + 1]
             b == [a EXCEPT !.duplicates = @ + 1]
             c == [b EXCEPT !.examples = kept]
  <1>1. t.received + 1 \in Nat /\ t.duplicates + 1 \in Nat
    BY DEF Tracker
  <1>2. kept \in Seq(Nat) /\ cut \in BOOLEAN
    <2>1. t.examples \in Seq(Nat) /\ t.truncated \in BOOLEAN
      BY DEF Tracker
    <2>2. Append(t.examples, n) \in Seq(Nat)
      BY <2>1
    <2> QED BY <2>1, <2>2
  <1> HIDE DEF kept, cut
  <1>3. a \in Tracker /\ a.duplicates = t.duplicates
    BY <1>1, TrackerWith DEF Tracker
  <1> HIDE DEF a
  <1>4. \A v \in Nat : [a EXCEPT !.duplicates = v] \in Tracker
    BY <1>3, TrackerWith
  <1>5. b \in Tracker
    BY <1>1, <1>3, <1>4
  <1> HIDE DEF b
  <1>6. c \in Tracker
    BY <1>2, <1>5, TrackerWith
  <1> HIDE DEF c
  <1>7. [c EXCEPT !.truncated = cut] \in Tracker
    BY <1>2, <1>6, TrackerWith
  <1>8. Duplicate(t, n) \in Tracker
    BY <1>7 DEF Duplicate, a, b, c, kept, cut
  <1> QED BY <1>8 DEF Duplicate, Tracker

LEMMA UniqueIs ==
  ASSUME NEW t \in Tracker, NEW n \in Nat, n - t.start \in Nat
  PROVE  LET u == Unique(t, n)
         IN  /\ u \in Tracker /\ u.start = t.start /\ u.end = t.end
             /\ u.seen = t.seen \cup {n - t.start}
             /\ u.highest = IF n > t.highest THEN n ELSE t.highest
             /\ u.received = t.received + 1 /\ u.out_of_range = t.out_of_range
             /\ u.unique = t.unique + 1 /\ u.duplicates = t.duplicates
             /\ u.out_of_order = t.out_of_order + (IF n < t.highest THEN 1 ELSE 0)
  <1> DEFINE marks == t.seen \cup {n - t.start}
             late == t.out_of_order + (IF n < t.highest THEN 1 ELSE 0)
             top == IF n > t.highest THEN n ELSE t.highest
             a == [t EXCEPT !.received = @ + 1]
             b == [a EXCEPT !.unique = @ + 1]
             c == [b EXCEPT !.seen = marks]
             d == [c EXCEPT !.out_of_order = late]
  <1>1. t.received + 1 \in Nat /\ t.unique + 1 \in Nat
    BY DEF Tracker
  <1>2. marks \in SUBSET Nat /\ late \in Nat /\ top \in Nat
    <2>1. /\ t.seen \subseteq Nat /\ t.out_of_order \in Nat
          /\ t.highest \in Nat \/ t.highest = -1
      BY DEF Tracker, None
    <2>2. marks \in SUBSET Nat
      BY <2>1
    <2>3. late \in Nat /\ top \in Nat
      BY <2>1
    <2> QED BY <2>2, <2>3
  <1> HIDE DEF marks, late, top
  <1>3. a \in Tracker /\ a.unique = t.unique
    BY <1>1, TrackerWith DEF Tracker
  <1> HIDE DEF a
  <1>4. \A v \in Nat : [a EXCEPT !.unique = v] \in Tracker
    BY <1>3, TrackerWith
  <1>5. b \in Tracker
    BY <1>1, <1>3, <1>4
  <1> HIDE DEF b
  <1>6. c \in Tracker
    BY <1>2, <1>5, TrackerWith
  <1> HIDE DEF c
  <1>7. d \in Tracker
    BY <1>2, <1>6, TrackerWith
  <1> HIDE DEF d
  <1>8. [d EXCEPT !.highest = top] \in Tracker
    BY <1>2, <1>7, TrackerWith
  <1>9. Unique(t, n) \in Tracker
    BY <1>8 DEF Unique, a, b, c, d, marks, late, top
  <1> QED BY <1>9 DEF Unique, Tracker

\* What the sets of the reference gain with one entry more.
LEMMA AppendCounts ==
  ASSUME NEW t \in Tracker, t.start # None, NEW log \in Seq(Nat), NEW n \in Nat
  PROVE  LET more == Append(log, n)
             last == Len(log) + 1
         IN  /\ more \in Seq(Nat) /\ Len(more) = last
             /\ Arrived(t, more) = IF InRange(t, n) THEN Arrived(t, log) \cup {n}
                                   ELSE Arrived(t, log)
             /\ Outside(t, more) = IF InRange(t, n) THEN Outside(t, log)
                                   ELSE Outside(t, log) \cup {last}
             /\ Late(t, more) = IF /\ InRange(t, n) /\ n \notin Arrived(t, log)
                                   /\ \E a \in Arrived(t, log) : a > n
                                THEN Late(t, log) \cup {last} ELSE Late(t, log)
  <1> DEFINE more == Append(log, n)
             last == Len(log) + 1
  <1>1. more \in Seq(Nat) /\ Len(more) = last /\ Len(log) \in Nat
    OBVIOUS
  <1>2. \A i \in 1 .. Len(log) : more[i] = log[i]
    OBVIOUS
  <1>3. more[last] = n
    OBVIOUS
  <1>4. ToSet(more) = ToSet(log) \cup {n}
    BY ToSetAppend
  <1>5. \A i \in 1 .. Len(log) : log[i] \in Nat
    OBVIOUS
  <1> HIDE DEF more
  <1>6. 1 .. last = 1 .. Len(log) \cup {last}
    BY <1>1
  <1>7. Arrived(t, more) = IF InRange(t, n) THEN Arrived(t, log) \cup {n} ELSE Arrived(t, log)
    BY <1>4 DEF Arrived
  <1>8. Outside(t, more) = IF InRange(t, n) THEN Outside(t, log)
                           ELSE Outside(t, log) \cup {last}
    BY <1>1, <1>2, <1>3, <1>6 DEF Outside
  <1>9. \A i \in 1 .. Len(log) : IsLate(t, more, i) <=> IsLate(t, log, i)
    <2>1. ASSUME NEW i \in 1 .. Len(log)
          PROVE  IsLate(t, more, i) <=> IsLate(t, log, i)
      <3>1. more[i] = log[i] /\ \A j \in 1 .. i - 1 : more[j] = log[j]
        BY <1>1, <1>2
      <3> HIDE DEF last
      <3> QED BY <3>1, Zenon DEF IsLate
    <2> QED BY <2>1
  <1>10. IsLate(t, more, last) <=> /\ InRange(t, n) /\ n \notin Arrived(t, log)
                                   /\ \E a \in Arrived(t, log) : a > n
    <2>1. last - 1 = Len(log)
      BY <1>1
    <2>2. ToSet(log) = {log[j] : j \in 1 .. Len(log)}
      BY ToSetIs
    <2> QED BY <1>2, <1>3, <2>1, <2>2 DEF IsLate, Arrived
  <1>11. Late(t, more) = IF /\ InRange(t, n) /\ n \notin Arrived(t, log)
                            /\ \E a \in Arrived(t, log) : a > n
                         THEN Late(t, log) \cup {last} ELSE Late(t, log)
    BY <1>1, <1>6, <1>9, <1>10 DEF Late
  <1> QED BY <1>1, <1>7, <1>8, <1>11 DEF more

\* record(): the message is out of range, a repeat or new.
LEMMA RecordByOutcome ==
  ASSUME NEW t \in Tracker, t.start # None, NEW n \in Nat
  PROVE  /\ ~InRange(t, n) => RecordSeq(t, n) = OutOfRange(t)
         /\ InRange(t, n) /\ IsSeen(t, n) => RecordSeq(t, n) = Duplicate(t, n)
         /\ InRange(t, n) /\ ~IsSeen(t, n) => RecordSeq(t, n) = Unique(t, n)
         /\ InRange(t, n) => n - t.start \in Nat
  <1>1. AnchorStart(t, n) = t
    BY DEF AnchorStart
  <1>2. InRange(t, n) => n - t.start \in Nat
    BY DEF InRange, Tracker, None
  <1> QED BY <1>1, <1>2 DEF RecordSeq

\* record() keeps the tracker typed and its population in place.
LEMMA RecordTyped ==
  ASSUME NEW t \in Tracker, t.start # None, NEW n \in Nat
  PROVE  /\ RecordSeq(t, n) \in Tracker
         /\ RecordSeq(t, n).start = t.start /\ RecordSeq(t, n).end = t.end
         /\ RecordSeq(t, n).unique \in {t.unique, t.unique + 1}
  <1>1. CASE ~InRange(t, n)
    <2>1. RecordSeq(t, n) = OutOfRange(t)
      BY <1>1, RecordByOutcome
    <2> QED BY <2>1, OutOfRangeIs
  <1>2. CASE InRange(t, n) /\ IsSeen(t, n)
    <2>1. RecordSeq(t, n) = Duplicate(t, n)
      BY <1>2, RecordByOutcome
    <2> QED BY <2>1, DuplicateIs
  <1>3. CASE InRange(t, n) /\ ~IsSeen(t, n)
    <2>1. RecordSeq(t, n) = Unique(t, n) /\ n - t.start \in Nat
      BY <1>3, RecordByOutcome
    <2> QED BY <2>1, UniqueIs
  <1> QED BY <1>1, <1>2, <1>3

\* The tracker goes on fitting its log, whatever number comes next: one that
\* repeats, is late, skips ahead or lies outside the population.
THEOREM RecordFits ==
  ASSUME NEW t \in Tracker, NEW log \in Seq(Nat), TrackerFits(t, log), NEW n \in Nat
  PROVE  TrackerFits(RecordSeq(t, n), Append(log, n))
  <1> DEFINE more == Append(log, n)
             u == RecordSeq(t, n)
  <1>1. t.start # None
    BY DEF TrackerFits
  <1>0. /\ {t.start, t.received, t.unique, t.out_of_range, t.duplicates, t.out_of_order}
             \subseteq Nat
        /\ t.highest \in Nat \/ t.highest = -1
    BY <1>1 DEF Tracker, None
  <1>2. /\ more \in Seq(Nat) /\ Len(more) = Len(log) + 1 /\ Len(log) \in Nat
        /\ Arrived(t, more) = IF InRange(t, n) THEN Arrived(t, log) \cup {n}
                              ELSE Arrived(t, log)
        /\ Outside(t, more) = IF InRange(t, n) THEN Outside(t, log)
                              ELSE Outside(t, log) \cup {Len(log) + 1}
        /\ Late(t, more) = IF /\ InRange(t, n) /\ n \notin Arrived(t, log)
                              /\ \E a \in Arrived(t, log) : a > n
                           THEN Late(t, log) \cup {Len(log) + 1} ELSE Late(t, log)
    BY <1>1, AppendCounts
  <1>3. u \in Tracker /\ u.start = t.start /\ u.end = t.end
    BY <1>1, RecordTyped
  <1>4. /\ Arrived(u, more) = Arrived(t, more) /\ Outside(u, more) = Outside(t, more)
        /\ Late(u, more) = Late(t, more)
    BY <1>3, RangeStays
  <1>5. /\ IsFiniteSet(Arrived(t, log)) /\ IsFiniteSet(Outside(t, log))
        /\ IsFiniteSet(Late(t, log))
    BY CountsFinite
  <1>6. Len(log) + 1 \notin Outside(t, log) /\ Len(log) + 1 \notin Late(t, log)
    BY <1>2 DEF Outside, Late
  <1>7. /\ Cardinality(Outside(t, log) \cup {Len(log) + 1}) = Cardinality(Outside(t, log)) + 1
        /\ Cardinality(Late(t, log) \cup {Len(log) + 1}) = Cardinality(Late(t, log)) + 1
        /\ Cardinality(Arrived(t, log) \cup {n})
             = IF n \in Arrived(t, log) THEN Cardinality(Arrived(t, log))
               ELSE Cardinality(Arrived(t, log)) + 1
    BY <1>5, <1>6, FS_AddElement
  <1>8. Arrived(t, log) \subseteq Nat
    BY ToSetIs DEF Arrived
  <1>9. InRange(t, n) => (IsSeen(t, n) <=> n \in Arrived(t, log))
    <2>1. ASSUME InRange(t, n) PROVE IsSeen(t, n) <=> n \in Arrived(t, log)
      <3>1. n - t.start \in Nat /\ t.start + (n - t.start) = n
        BY <1>0, <1>1, <2>1, RecordByOutcome
      <3> QED BY <3>1 DEF IsSeen, TrackerFits
    <2> QED BY <2>1
  <1> HIDE DEF more, u
  <1> SUFFICES TrackerFits(u, more)
    BY DEF more, u
  <1>10. CASE ~InRange(t, n)
    <2>1. u = OutOfRange(t)
      BY <1>1, <1>10, RecordByOutcome DEF u
    <2>2. /\ u.seen = t.seen /\ u.highest = t.highest
          /\ u.received = t.received + 1 /\ u.out_of_range = t.out_of_range + 1
          /\ u.unique = t.unique /\ u.duplicates = t.duplicates
          /\ u.out_of_order = t.out_of_order
      BY <2>1, OutOfRangeIs
    <2>3. Arrived(t, more) = Arrived(t, log) /\ Late(t, more) = Late(t, log)
          /\ Cardinality(Outside(t, more)) = t.out_of_range + 1
      BY <1>2, <1>7, <1>10 DEF TrackerFits
    <2>4. /\ u.received = Len(more)
          /\ u.duplicates = Len(more) - u.unique - u.out_of_range
      BY <1>0, <1>2, <2>2 DEF TrackerFits
    <2> QED BY <1>1, <1>3, <1>4, <2>2, <2>3, <2>4 DEF TrackerFits
  <1>11. CASE InRange(t, n) /\ IsSeen(t, n)
    <2>1. u = Duplicate(t, n)
      BY <1>1, <1>11, RecordByOutcome DEF u
    <2>2. /\ u.seen = t.seen /\ u.highest = t.highest
          /\ u.received = t.received + 1 /\ u.out_of_range = t.out_of_range
          /\ u.unique = t.unique /\ u.duplicates = t.duplicates + 1
          /\ u.out_of_order = t.out_of_order
      BY <2>1, DuplicateIs
    <2>3. Arrived(t, more) = Arrived(t, log) /\ Late(t, more) = Late(t, log)
          /\ Outside(t, more) = Outside(t, log)
      BY <1>2, <1>9, <1>11
    <2>4. /\ u.received = Len(more)
          /\ u.duplicates = Len(more) - u.unique - u.out_of_range
      BY <1>0, <1>2, <2>2 DEF TrackerFits
    <2> QED BY <1>1, <1>3, <1>4, <2>2, <2>3, <2>4 DEF TrackerFits
  <1>12. CASE InRange(t, n) /\ ~IsSeen(t, n)
    <2>1. u = Unique(t, n) /\ n - t.start \in Nat
      BY <1>1, <1>12, RecordByOutcome DEF u
    <2>2. /\ u.seen = t.seen \cup {n - t.start}
          /\ u.highest = IF n > t.highest THEN n ELSE t.highest
          /\ u.received = t.received + 1 /\ u.out_of_range = t.out_of_range
          /\ u.unique = t.unique + 1 /\ u.duplicates = t.duplicates
          /\ u.out_of_order = t.out_of_order + (IF n < t.highest THEN 1 ELSE 0)
      BY <2>1, UniqueIs
    <2>3. n \notin Arrived(t, log) /\ Arrived(t, more) = Arrived(t, log) \cup {n}
          /\ Outside(t, more) = Outside(t, log)
      BY <1>2, <1>9, <1>12
    <2>4. /\ t.highest = -1 => Arrived(t, log) = {}
          /\ t.highest # -1 => t.highest \in Arrived(t, log)
          /\ \A a \in Arrived(t, log) : a <= t.highest
      BY DEF TrackerFits, None
    <2>5. n < t.highest <=> \E a \in Arrived(t, log) : a > n
      <3>1. CASE t.highest = -1
        BY <2>4, <3>1
      <3>2. CASE t.highest \in Nat
        BY <1>8, <2>4, <3>2
      <3> QED BY <1>0, <3>1, <3>2
    <2>6. \A k \in Nat : k \in u.seen <=> t.start + k \in Arrived(t, more)
      <3>1. ASSUME NEW k \in Nat PROVE k = n - t.start <=> t.start + k = n
        BY <1>0
      <3>2. \A k \in Nat : k \in t.seen <=> t.start + k \in Arrived(t, log)
        BY DEF TrackerFits
      <3> QED BY <2>2, <2>3, <3>1, <3>2
    <2>7. /\ u.highest # None /\ u.highest \in Arrived(t, more)
          /\ \A a \in Arrived(t, more) : a <= u.highest
      <3>1. CASE t.highest = -1
        BY <2>2, <2>3, <2>4, <3>1 DEF None
      <3>2. CASE t.highest \in Nat
        <4>1. u.highest \in Nat /\ u.highest \in {n, t.highest}
              /\ n <= u.highest /\ t.highest <= u.highest
          BY <2>2, <3>2
        <4>2. \A a \in Arrived(t, log) : a <= u.highest
          BY <1>8, <2>4, <3>2, <4>1
        <4> QED BY <2>3, <2>4, <3>2, <4>1, <4>2 DEF None
      <3> QED BY <1>0, <3>1, <3>2
    <2>8. u.out_of_order = Cardinality(Late(t, more))
      <3>1. t.out_of_order = Cardinality(Late(t, log))
        BY DEF TrackerFits
      <3>2. CASE n < t.highest
        <4>1. Late(t, more) = Late(t, log) \cup {Len(log) + 1}
          BY <1>2, <1>12, <2>3, <2>5, <3>2
        <4> QED BY <1>7, <2>2, <3>1, <3>2, <4>1
      <3>3. CASE ~(n < t.highest)
        <4>1. Late(t, more) = Late(t, log)
          BY <1>2, <2>5, <3>3
        <4> QED BY <1>0, <2>2, <3>1, <3>3, <4>1
      <3> QED BY <3>2, <3>3
    <2>9. u.unique = Cardinality(Arrived(t, more))
      BY <1>7, <2>2, <2>3 DEF TrackerFits
    <2>10. /\ u.received = Len(more) /\ u.out_of_range = Cardinality(Outside(t, more))
           /\ u.duplicates = Len(more) - u.unique - u.out_of_range
      <3>1. /\ t.received = Len(log) /\ t.out_of_range = Cardinality(Outside(t, log))
            /\ t.duplicates = Len(log) - t.unique - t.out_of_range
        BY DEF TrackerFits
      <3>2. Len(more) = Len(log) + 1 /\ Len(log) \in Nat
        BY <1>2
      <3>3. t.unique \in Nat /\ t.out_of_range \in Nat
        BY <1>0
      <3>4. \A l, q, o \in Nat : l - q - o = (l + 1) - (q + 1) - o
        OBVIOUS
      <3>5. Len(log) - t.unique - t.out_of_range
              = (Len(log) + 1) - (t.unique + 1) - t.out_of_range
        BY <3>2, <3>3, <3>4
      <3>6. u.duplicates = Len(more) - u.unique - u.out_of_range
        BY <2>2, <3>1, <3>2, <3>5
      <3> QED BY <2>2, <2>3, <3>1, <3>2, <3>6
    <2> QED BY <1>1, <1>3, <1>4, <2>6, <2>7, <2>8, <2>9, <2>10 DEF TrackerFits
  <1> QED BY <1>10, <1>11, <1>12 DEF more, u

\* The population of the reference is as large as the code expects it to be,
\* and every number that arrived belongs to it.
LEMMA PopulationExpected ==
  ASSUME TrackerAssumption, NEW t \in Tracker, NEW log \in Seq(Nat), TrackerFits(t, log)
  PROVE  /\ IsFiniteSet(Population(t, log))
         /\ Cardinality(Population(t, log)) = Expected(t)
         /\ Arrived(t, log) \subseteq Population(t, log)
  <1> DEFINE first == t.start
             limit == MaxTracked
  <1>1. /\ first \in Nat /\ limit \in Nat /\ limit > 0
        /\ t.end \in Nat \/ t.end = -1
        /\ t.highest \in Nat \/ t.highest = -1
    BY DEF Tracker, TrackerFits, TrackerAssumption, None
  <1>2. Arrived(t, log) \subseteq Nat
    BY ToSetIs DEF Arrived
  <1>3. \A n \in Arrived(t, log) : /\ n >= first /\ n - first < limit
                                   /\ t.end # -1 => n < t.end
    BY DEF Arrived, InRange, None
  <1>4. /\ t.highest = -1 => Arrived(t, log) = {}
        /\ t.highest # -1 => t.highest \in Arrived(t, log)
        /\ \A n \in Arrived(t, log) : n <= t.highest
    BY DEF TrackerFits, None
  <1>5. CASE t.end # -1
    <2> DEFINE end == t.end
               final == IF end - first < limit THEN end - 1 ELSE first + limit - 1
    <2>1. Population(t, log) = {n \in first .. end - 1 : n - first < limit}
      BY <1>5 DEF Population, None
    <2>2. end \in Nat /\ final \in Int
      BY <1>1, <1>5
    <2>3. {n \in first .. end - 1 : n - first < limit} = first .. final
      BY <1>1, <2>2
    <2>4. Expected(t) = IF end <= first THEN 0
                        ELSE IF end - first < limit THEN end - first ELSE limit
      BY <1>1, <1>5 DEF Expected, None
    <2>5. Expected(t) = IF first > final THEN 0 ELSE final - first + 1
      BY <1>1, <2>2, <2>4
    <2>6. Arrived(t, log) \subseteq {n \in first .. end - 1 : n - first < limit}
      BY <1>1, <1>2, <1>3, <1>5, <2>2
    <2>7. first \in Int
      BY <1>1
    <2> HIDE DEF final, end, first
    <2>8. /\ IsFiniteSet(first .. final)
          /\ Cardinality(first .. final) = IF first > final THEN 0 ELSE final - first + 1
      BY <2>2, <2>7, FS_Interval
    <2> QED BY <2>1, <2>3, <2>5, <2>6, <2>8
  <1>6. CASE t.end = -1
    <2>1. Population(t, log) = UNION {first .. n : n \in Arrived(t, log)}
      BY <1>6 DEF Population, Arrived, None
    <2>2. CASE t.highest = -1
      <3>1. Arrived(t, log) = {}
        BY <1>4, <2>2
      <3>2. Population(t, log) = {}
        BY <2>1, <3>1
      <3>3. Expected(t) = 0
        BY <1>1, <1>6, <2>2 DEF Expected, None
      <3> QED BY <3>1, <3>2, <3>3, FS_EmptySet
    <2>3. CASE t.highest # -1
      <3> DEFINE top == t.highest
      <3>1. top \in Nat /\ top \in Arrived(t, log) /\ top >= first /\ top - first < limit
        BY <1>1, <1>3, <1>4, <2>3
      <3>2. Population(t, log) = first .. top
        <4>1. ASSUME NEW x \in first .. top PROVE x \in Population(t, log)
          BY <2>1, <3>1, <4>1
        <4>2. ASSUME NEW n \in Arrived(t, log), NEW x \in first .. n PROVE x \in first .. top
          <5>1. n \in Nat /\ n <= top
            BY <1>2, <1>4
          <5> HIDE DEF top, first
          <5> QED BY <1>1, <3>1, <5>1
        <4> HIDE DEF first, top
        <4> QED BY <2>1, <4>1, <4>2
      <3>3. Expected(t) = top - first + 1
        <4>1. Expected(t) = IF top + 1 <= first THEN 0
                            ELSE IF top + 1 - first < limit THEN top + 1 - first ELSE limit
          <5>1. t.start # -1
            BY <1>1
          <5> DEFINE end == IF t.end # None THEN t.end
                            ELSE IF t.highest # None THEN t.highest + 1 ELSE t.start
          <5>2. end = top + 1
            BY <1>6, <2>3 DEF None
          <5>3. Expected(t) = IF t.start = None \/ end <= t.start THEN 0
                              ELSE IF end - t.start < MaxTracked THEN end - t.start
                              ELSE MaxTracked
            BY DEF Expected
          <5> HIDE DEF end
          <5> QED BY <1>1, <3>1, <5>1, <5>2, <5>3 DEF None
        <4> QED BY <1>1, <3>1, <4>1
      <3>4. Arrived(t, log) \subseteq first .. top
        BY <1>1, <1>2, <1>3, <1>4, <3>1
      <3> HIDE DEF first, top
      <3> QED BY <1>1, <3>1, <3>2, <3>3, <3>4, FS_Interval
    <2> QED BY <2>2, <2>3
  <1> QED BY <1>5, <1>6

\* What fits its log is exact: each arrival is new, a repeat or out of range,
\* lateness is counted at first sight, and what the tracker calls missing is the
\* population less what arrived.
LEMMA FitsIsExact ==
  ASSUME TrackerAssumption, NEW t \in Tracker, NEW log \in Seq(Nat), TrackerFits(t, log)
  PROVE  TrackerExact(t, log)
  <1> DEFINE pop == Population(t, log)
             arrived == Arrived(t, log)
  <1>1. IsFiniteSet(pop) /\ Cardinality(pop) = Expected(t) /\ arrived \subseteq pop
    BY PopulationExpected
  <1>2. Cardinality(pop \ arrived) = Cardinality(pop) - Cardinality(pop \cap arrived)
    BY <1>1, FS_Difference
  <1>3. pop \cap arrived = arrived
    BY <1>1
  <1>4. Cardinality(arrived) <= Cardinality(pop)
    BY <1>1, FS_Subset
  <1>5. Cardinality(arrived) \in Nat /\ Cardinality(pop) \in Nat
    BY <1>1, FS_CardinalityType, FS_Subset
  <1>6. t.unique = Cardinality(arrived)
    BY DEF TrackerFits
  <1>7. Missing(t) = Cardinality(pop \ arrived)
    <2>1. Cardinality(pop \ arrived) = Expected(t) - t.unique
      BY <1>1, <1>2, <1>3, <1>6
    <2>2. Expected(t) \in Nat /\ t.unique \in Nat /\ t.unique <= Expected(t)
      BY <1>1, <1>4, <1>5, <1>6
    <2> HIDE DEF pop, arrived
    <2> QED BY <2>1, <2>2 DEF Missing
  <1>8. CountWhere(log, LAMBDA n : ~InRange(t, n)) = Cardinality(Outside(t, log))
    BY DEF CountWhere, Outside
  <1> QED BY <1>6, <1>7, <1>8 DEF TrackerFits, TrackerExact, Arrived, Late, IsLate

-----------------------------------------------------------------------------
(***************************************************************************)
(* The subscriber: its inductive invariant, in parts.                      *)
(***************************************************************************)
SubMessage == [seq : Nat \cup {None}, elapsed : Nat, wall : Nat]
Gap(m) == m.wall - m.elapsed
Numbers(s) == [i \in DOMAIN s |-> s[i].seq]
Loop == {"receipt", "loop"}
Writing == {"hdr", "csv", "intervals", "buckets", "metadata"}

\* The recorder; of the intervals only that there is a field for them, for
\* their rows are computed by recursion.
IsRecorder(r) ==
    /\ r \in [tracker : Tracker, end : {SequenceEnd}, total : Nat, parseErrors : Nat,
              ignored : Nat, recorded : Nat, intervals : {r.intervals},
              origin : {r.origin}, gap : Int, steps : Nat, samples : {r.samples},
              partial : SUBSET {"intervals", "buckets"}]
    /\ r.tracker.start # None
    /\ r.samples \in Seq([wall : Nat, duplicate : BOOLEAN]) /\ Len(r.samples) <= SampleCap

SubTypes ==
    /\ pc \in Final \cup Loop \cup {"drain"} \cup Writing
    /\ now \in Nat /\ shift \in {0} \cup Steps /\ stop \in BOOLEAN
    /\ reason \in {"eof", "signal", "total-messages"}
    /\ task \in {"poll", "subscribe", "send", "backoff", "over"}
    /\ held \in Seq(SubMessage) /\ chan \in Seq(SubMessage) /\ heard \in Seq(SubMessage)
    /\ taken \in Seq(SubMessage) /\ counted \in Seq(SubMessage)
    /\ Len(held) <= 1 /\ Len(chan) <= ChanCap
    /\ IsRecorder(rec)

\* Every message is with the event loop, in the channel or with the recorder,
\* in the order it was heard, unless the run stopped by itself.
InFlight ==
    /\ reason # "total-messages" => heard = taken \o chan \o held
    /\ task # "send" => held = <<>>
    /\ rec.total + rec.ignored = Len(taken)
    /\ pc \in Writing => task = "over" /\ chan = <<>>

\* The artifacts there are at each point of the end; a part that was given up
\* is marked, and the metadata is the last.
OnDisk ==
    /\ pc \in {"csv", "intervals", "buckets", "metadata"} => Written("latency.hdr")
    /\ pc \in {"intervals", "buckets", "metadata"} => Written("sequence.csv")
    /\ pc \in {"buckets", "metadata"} /\ "intervals" \notin rec.partial =>
         Written("interval-latency.json")
    /\ pc = "metadata" /\ WithEvents /\ "buckets" \notin rec.partial =>
         ToSet(BucketFiles) \subseteq dir
    /\ Written("subscriber-metadata.json") => pc \in Final
    /\ MetadataMeansComplete

\* The tracker fits the numbers that were counted, and a run of so many
\* distinct ones is still short of them while it records.
Tracked ==
    /\ \A i \in DOMAIN counted : counted[i].seq \in Nat
    /\ TrackerFits(rec.tracker, Numbers(counted))
    /\ pc \in Loop => reason = "eof" /\ ~Reached(rec)
    /\ reason = "total-messages" => rec.tracker.unique = TotalMessages

\* The clocks of a message are apart by a step or not at all, and the recorder
\* has counted the step once it has seen it.
StepsSeen ==
    /\ \A s \in {held, chan} : \A i \in DOMAIN s : Gap(s[i]) \in {0, shift}
    /\ rec.gap \in {0, shift} /\ (rec.gap # 0 => rec.steps > 0)
    /\ StepNoticed

SubInv == SubTypes /\ InFlight /\ OnDisk /\ Tracked /\ StepsSeen

-----------------------------------------------------------------------------
(***************************************************************************)
(* The recorder: what a message, and the closing of the intervals, do to   *)
(* the fields the invariant speaks of.                                     *)
(***************************************************************************)
Assumptions == TrackerAssumption /\ RecorderAssumption /\ SubscriberAssumption

\* The fields a step leaves alone that only buckets or intervals are about.
Kept(u, r) == /\ u.tracker = r.tracker /\ u.total = r.total /\ u.ignored = r.ignored
              /\ u.gap = r.gap /\ u.steps = r.steps /\ u.end = r.end

\* A recorder stays one when a field is given a value of its type.
LEMMA RecorderWith ==
  ASSUME NEW r, IsRecorder(r)
  PROVE  /\ \A v \in Tracker : v.start # None => IsRecorder([r EXCEPT !.tracker = v])
         /\ \A v \in Nat : IsRecorder([r EXCEPT !.total = v])
         /\ \A v \in Nat : IsRecorder([r EXCEPT !.parseErrors = v])
         /\ \A v \in Nat : IsRecorder([r EXCEPT !.ignored = v])
         /\ \A v \in Nat : IsRecorder([r EXCEPT !.recorded = v])
         /\ \A v : IsRecorder([r EXCEPT !.intervals = v])
         /\ \A v : IsRecorder([r EXCEPT !.origin = v])
         /\ \A v \in Int : IsRecorder([r EXCEPT !.gap = v])
         /\ \A v \in Nat : IsRecorder([r EXCEPT !.steps = v])
         /\ \A v \in Seq([wall : Nat, duplicate : BOOLEAN]) :
              Len(v) <= SampleCap => IsRecorder([r EXCEPT !.samples = v])
         /\ \A v \in SUBSET {"intervals", "buckets"} : IsRecorder([r EXCEPT !.partial = v])
  BY DEF IsRecorder

\* The clock gap of a message is kept, and a jump of it counted.
LEMMA ObserveIs ==
  ASSUME Assumptions, NEW r, IsRecorder(r), NEW m \in SubMessage
  PROVE  LET u == Observe(r, m)
         IN  /\ IsRecorder(u) /\ u.gap = Gap(m)
             /\ u.steps = r.steps + (IF Gap(m) - r.gap > StepTolerance
                                        \/ r.gap - Gap(m) > StepTolerance THEN 1 ELSE 0)
             /\ u.tracker = r.tracker /\ u.total = r.total /\ u.ignored = r.ignored
             /\ u.end = r.end /\ u.partial = r.partial /\ u.samples = r.samples
  <1> DEFINE gap == m.wall - m.elapsed
             more == IF gap - r.gap > StepTolerance \/ r.gap - gap > StepTolerance
                     THEN 1 ELSE 0
             a == [r EXCEPT !.gap = gap]
             b == [a EXCEPT !.steps = r.steps + more]
  <1>1. gap \in Int /\ r.steps \in Nat /\ more \in {0, 1}
    BY DEF SubMessage, IsRecorder
  <1>2. r.steps + more \in Nat
    BY <1>1
  <1>3. gap = Gap(m)
    BY DEF Gap
  <1>4. a.steps = r.steps
    BY DEF IsRecorder
  <1>5. Observe(r, m) = b
    BY <1>4 DEF Observe
  <1> HIDE DEF more, gap
  <1>6. IsRecorder(a)
    BY <1>1, RecorderWith
  <1>7. /\ a.gap = gap /\ a.tracker = r.tracker /\ a.total = r.total
        /\ a.ignored = r.ignored /\ a.end = r.end /\ a.partial = r.partial
        /\ a.samples = r.samples
    BY DEF IsRecorder
  <1> HIDE DEF a
  <1>8. IsRecorder(b)
    BY <1>2, <1>6, RecorderWith
  <1>9. /\ b.steps = r.steps + more
        /\ b.gap = a.gap /\ b.tracker = a.tracker /\ b.total = a.total
        /\ b.ignored = a.ignored /\ b.end = a.end /\ b.partial = a.partial
        /\ b.samples = a.samples
    BY <1>6 DEF IsRecorder
  <1> HIDE DEF b
  <1> QED BY <1>3, <1>5, <1>7, <1>8, <1>9 DEF more

\* Giving up the intervals changes the mark only.
LEMMA DropIs ==
  ASSUME NEW r, IsRecorder(r)
  PROVE  IsRecorder(DropIntervals(r)) /\ Kept(DropIntervals(r), r)
  <1> DEFINE a == [r EXCEPT !.partial = @ \cup {"intervals"}]
  <1>1. r.partial \cup {"intervals"} \in SUBSET {"intervals", "buckets"}
    BY DEF IsRecorder
  <1>2. IsRecorder(a)
    BY <1>1, RecorderWith
  <1>3. Kept(a, r) /\ Kept(r, r)
    BY DEF IsRecorder, Kept
  <1>4. DropIntervals(r) = a \/ DropIntervals(r) = r
    BY DEF DropIntervals
  <1> HIDE DEF a
  <1> QED BY <1>2, <1>3, <1>4

\* A sample is appended, or the buckets given up.
LEMMA SampleIs ==
  ASSUME Assumptions, NEW r, IsRecorder(r), NEW m \in SubMessage, NEW again \in BOOLEAN
  PROVE  IsRecorder(RecordSample(r, m, again)) /\ Kept(RecordSample(r, m, again), r)
  <1> DEFINE sample == [wall |-> m.wall, duplicate |-> again]
             empty == <<>>
             a == [r EXCEPT !.samples = empty]
             b == [a EXCEPT !.partial = r.partial \cup {"buckets"}]
             c == [r EXCEPT !.samples = Append(r.samples, sample)]
  <1>1. r.partial \cup {"buckets"} \in SUBSET {"intervals", "buckets"}
    BY DEF IsRecorder
  <1>2. sample \in [wall : Nat, duplicate : BOOLEAN]
    BY DEF SubMessage
  <1>3. empty \in Seq([wall : Nat, duplicate : BOOLEAN]) /\ Len(empty) <= SampleCap
    BY DEF Assumptions, RecorderAssumption
  <1> HIDE DEF empty
  <1>4. IsRecorder(a) /\ a.partial = r.partial
    BY <1>3, RecorderWith DEF IsRecorder
  <1>5. Kept(a, r)
    BY DEF IsRecorder, Kept
  <1> HIDE DEF a
  <1>6. IsRecorder(b)
    BY <1>1, <1>4, RecorderWith
  <1>7. Kept(b, a)
    BY <1>4 DEF IsRecorder, Kept
  <1>8. b = [r EXCEPT !.samples = <<>>, !.partial = @ \cup {"buckets"}]
    BY <1>4 DEF a, empty
  <1> HIDE DEF b
  <1>9. Kept(b, r) /\ Kept(r, r)
    BY <1>5, <1>7 DEF Kept
  <1>10. Len(r.samples) # SampleCap => IsRecorder(c)
    <2> SUFFICES ASSUME Len(r.samples) # SampleCap PROVE IsRecorder(c)
      OBVIOUS
    <2>1. /\ r.samples \in Seq([wall : Nat, duplicate : BOOLEAN])
          /\ Len(r.samples) <= SampleCap /\ SampleCap \in Nat
      BY DEF IsRecorder, Assumptions, RecorderAssumption
    <2> HIDE DEF sample
    <2>2. /\ Append(r.samples, sample) \in Seq([wall : Nat, duplicate : BOOLEAN])
          /\ Len(Append(r.samples, sample)) = Len(r.samples) + 1
      BY <1>2, <2>1
    <2>3. Len(Append(r.samples, sample)) <= SampleCap
      BY <2>1, <2>2
    <2> QED BY <2>2, <2>3, RecorderWith
  <1>11. Kept(c, r)
    BY DEF IsRecorder, Kept
  <1>12. RecordSample(r, m, again)
           = IF "buckets" \in r.partial \/ ~Captured(m.wall) THEN r
             ELSE IF Len(r.samples) = SampleCap THEN b ELSE c
    BY <1>8 DEF RecordSample
  <1> HIDE DEF c
  <1> QED BY <1>6, <1>9, <1>10, <1>11, <1>12

\* A number of the population goes to the tracker and is counted once.
LEMMA RecordOneIs ==
  ASSUME NEW r, IsRecorder(r), NEW m \in SubMessage, m.seq \in Nat
  PROVE  LET u == RecordOne(r, m)
         IN  /\ IsRecorder(u) /\ u.tracker = RecordSeq(r.tracker, m.seq)
             /\ u.total = r.total + 1 /\ u.ignored = r.ignored
             /\ u.gap = r.gap /\ u.steps = r.steps
  <1> DEFINE duplicate == IsDuplicate(r.tracker, m.seq)
             origin == IF r.origin = None THEN m.elapsed ELSE r.origin
             from == IF "intervals" \in r.partial THEN r.origin ELSE origin
             rows == IF "intervals" \in r.partial THEN r.intervals
                     ELSE RecordRow(r.intervals, m.elapsed - origin, duplicate)
             t == RecordSeq(r.tracker, m.seq)
             a == [r EXCEPT !.total = @ + 1]
             b == [a EXCEPT !.recorded = @ + 1]
             c == [b EXCEPT !.tracker = t]
             d == [c EXCEPT !.origin = from]
             e == [d EXCEPT !.intervals = rows]
  <1>1. t \in Tracker /\ t.start # None
    <2>1. r.tracker \in Tracker /\ r.tracker.start # None
      BY DEF IsRecorder
    <2>2. t \in Tracker /\ t.start = r.tracker.start
      BY <2>1, RecordTyped
    <2> QED BY <2>1, <2>2
  <1>2. RecordOne(r, m)
          = DropIntervals([r EXCEPT !.total = @ + 1, !.recorded = @ + 1,
                  !.tracker = RecordSeq(@, m.seq),
                  !.origin = IF "intervals" \in r.partial THEN @ ELSE origin,
                  !.intervals = IF "intervals" \in r.partial THEN @
                                ELSE RecordRow(@, m.elapsed - origin, duplicate)])
    BY DEF RecordOne
  <1>3. e = [r EXCEPT !.total = @ + 1, !.recorded = @ + 1,
                  !.tracker = RecordSeq(@, m.seq),
                  !.origin = IF "intervals" \in r.partial THEN @ ELSE origin,
                  !.intervals = IF "intervals" \in r.partial THEN @
                                ELSE RecordRow(@, m.elapsed - origin, duplicate)]
    <2> HIDE DEF duplicate, origin
    <2> QED OBVIOUS
  <1> HIDE DEF t, rows, from, origin, duplicate
  <1>4. IsRecorder(a) /\ a.recorded \in Nat
    <2>1. r.total + 1 \in Nat /\ r.recorded \in Nat
      BY DEF IsRecorder
    <2>2. IsRecorder(a)
      BY <2>1, RecorderWith
    <2> QED BY <2>2 DEF IsRecorder
  <1>5. /\ a.total = r.total + 1 /\ a.ignored = r.ignored /\ a.gap = r.gap
        /\ a.steps = r.steps
    BY DEF IsRecorder
  <1> HIDE DEF a
  <1>6. IsRecorder(b) /\ Kept(b, a)
    <2>1. a.recorded + 1 \in Nat
      BY <1>4
    <2>2. IsRecorder(b)
      BY <1>4, <2>1, RecorderWith
    <2> QED BY <1>4, <2>2 DEF IsRecorder, Kept
  <1> HIDE DEF b
  <1>7. IsRecorder(c)
    BY <1>1, <1>6, RecorderWith
  <1>8. /\ c.tracker = t /\ c.total = b.total /\ c.ignored = b.ignored /\ c.gap = b.gap
        /\ c.steps = b.steps
    BY <1>6 DEF IsRecorder
  <1> HIDE DEF c
  <1>9. IsRecorder(d)
    BY <1>7, RecorderWith
  <1>10. Kept(d, c)
    BY <1>7 DEF IsRecorder, Kept
  <1> HIDE DEF d
  <1>11. IsRecorder(e)
    BY <1>9, RecorderWith
  <1>12. Kept(e, d)
    BY <1>9 DEF IsRecorder, Kept
  <1>13. RecordOne(r, m) = DropIntervals(e)
    BY <1>2, <1>3
  <1> HIDE DEF e
  <1>14. IsRecorder(DropIntervals(e)) /\ Kept(DropIntervals(e), e)
    BY <1>11, DropIs
  <1> QED BY <1>5, <1>6, <1>8, <1>10, <1>12, <1>13, <1>14 DEF Kept, t

\* record_json_at: a message is accounted for once, whether it parses, belongs
\* to the population or neither; only what counts reaches the tracker.
LEMMA RecordMessageIs ==
  ASSUME Assumptions, NEW r, IsRecorder(r), NEW m \in SubMessage, NEW events \in BOOLEAN
  PROVE  LET u == RecordMessage(r, m, events)
         IN  /\ IsRecorder(u)
             /\ u.tracker = IF Counts(m) THEN RecordSeq(r.tracker, m.seq) ELSE r.tracker
             /\ u.total + u.ignored = r.total + r.ignored + 1
             /\ u.gap = Gap(m)
             /\ u.steps = r.steps + (IF Gap(m) - r.gap > StepTolerance
                                        \/ r.gap - Gap(m) > StepTolerance THEN 1 ELSE 0)
  <1> DEFINE o == Observe(r, m)
             u == RecordMessage(r, m, events)
             again == IsDuplicate(o.tracker, m.seq)
  <1>1. /\ IsRecorder(o) /\ o.gap = Gap(m)
        /\ o.steps = r.steps + (IF Gap(m) - r.gap > StepTolerance
                                   \/ r.gap - Gap(m) > StepTolerance THEN 1 ELSE 0)
        /\ o.tracker = r.tracker /\ o.total = r.total /\ o.ignored = r.ignored
    BY ObserveIs
  <1>2. /\ o.total \in Nat /\ o.ignored \in Nat /\ o.parseErrors \in Nat
        /\ o.end = SequenceEnd
    BY <1>1 DEF IsRecorder
  <1>3. u = CASE m.seq = None -> [o EXCEPT !.total = @ + 1, !.parseErrors = @ + 1]
              [] m.seq # None /\ o.end # None /\ m.seq >= o.end ->
                   [o EXCEPT !.ignored = @ + 1]
              [] OTHER -> IF events THEN RecordSample(RecordOne(o, m), m, again)
                                    ELSE RecordOne(o, m)
    BY DEF RecordMessage
  <1>4. m.seq \in Nat \cup {-1} /\ SequenceEnd \in Nat \cup {-1} /\ None = -1
    BY DEF SubMessage, Assumptions, SubscriberAssumption, None
  <1> HIDE DEF o, u
  <1> SUFFICES /\ IsRecorder(u)
               /\ u.tracker = IF Counts(m) THEN RecordSeq(r.tracker, m.seq) ELSE r.tracker
               /\ u.total + u.ignored = o.total + o.ignored + 1
               /\ u.gap = o.gap /\ u.steps = o.steps
    BY <1>1 DEF u
  <1>5. CASE m.seq = None
    <2> DEFINE a == [o EXCEPT !.total = @ + 1]
               b == [a EXCEPT !.parseErrors = @ + 1]
    <2>1. u = b /\ ~Counts(m)
      BY <1>3, <1>5 DEF Counts
    <2>2. IsRecorder(a)
      <3>1. o.total + 1 \in Nat
        BY <1>2
      <3> QED BY <1>1, <3>1, RecorderWith
    <2>3. /\ a.total = o.total + 1 /\ a.ignored = o.ignored /\ a.gap = o.gap
          /\ a.steps = o.steps /\ a.tracker = o.tracker
      BY <1>1 DEF IsRecorder
    <2> HIDE DEF a
    <2>4. a.parseErrors + 1 \in Nat
      BY <2>2 DEF IsRecorder
    <2>5. IsRecorder(b)
      BY <2>2, <2>4, RecorderWith
    <2>6. Kept(b, a)
      BY <2>2 DEF IsRecorder, Kept
    <2> HIDE DEF b
    <2>7. u.total + u.ignored = o.total + o.ignored + 1
      BY <1>2, <2>1, <2>3, <2>6 DEF Kept
    <2> QED BY <1>1, <2>1, <2>3, <2>5, <2>6, <2>7 DEF Kept
  <1>6. CASE m.seq # None /\ o.end # None /\ m.seq >= o.end
    <2> DEFINE a == [o EXCEPT !.ignored = @ + 1]
    <2>1. u = a
      BY <1>3, <1>6
    <2>2. ~Counts(m)
      BY <1>2, <1>4, <1>6 DEF Counts
    <2>3. IsRecorder(a)
      <3>1. o.ignored + 1 \in Nat
        BY <1>2
      <3> QED BY <1>1, <3>1, RecorderWith
    <2>4. /\ a.total = o.total /\ a.ignored = o.ignored + 1 /\ a.gap = o.gap
          /\ a.steps = o.steps /\ a.tracker = o.tracker
      BY <1>1 DEF IsRecorder
    <2> HIDE DEF a
    <2>5. u.total + u.ignored = o.total + o.ignored + 1
      BY <1>2, <2>1, <2>4
    <2> QED BY <1>1, <2>1, <2>2, <2>3, <2>4, <2>5
  <1>7. CASE m.seq # None /\ ~(o.end # None /\ m.seq >= o.end)
    <2> DEFINE q == RecordOne(o, m)
    <2>1. m.seq \in Nat /\ Counts(m)
      BY <1>2, <1>4, <1>7 DEF Counts
    <2>2. /\ IsRecorder(q) /\ q.tracker = RecordSeq(o.tracker, m.seq)
          /\ q.total = o.total + 1 /\ q.ignored = o.ignored
          /\ q.gap = o.gap /\ q.steps = o.steps
      BY <1>1, <2>1, RecordOneIs
    <2>3. again \in BOOLEAN
      BY DEF IsDuplicate
    <2> HIDE DEF q, again
    <2>4. IsRecorder(RecordSample(q, m, again)) /\ Kept(RecordSample(q, m, again), q)
      BY <2>2, <2>3, SampleIs
    <2>5. u = IF events THEN RecordSample(q, m, again) ELSE q
      BY <1>3, <1>7 DEF q
    <2>6. IsRecorder(u) /\ Kept(u, q)
      BY <2>2, <2>4, <2>5 DEF Kept
    <2>7. u.total + u.ignored = o.total + o.ignored + 1
      BY <1>2, <2>2, <2>6 DEF Kept
    <2> QED BY <1>1, <2>1, <2>2, <2>6, <2>7 DEF Kept
  <1> QED BY <1>5, <1>6, <1>7

\* finalize_intervals closes the rows or gives them up, nothing else.
LEMMA FinalizeIs ==
  ASSUME NEW r, IsRecorder(r), NEW elapsed
  PROVE  IsRecorder(Finalize(r, elapsed)) /\ Kept(Finalize(r, elapsed), r)
  <1> DEFINE rows == FinalizeRows(r.intervals,
                                  elapsed - (IF r.origin = None THEN 0 ELSE r.origin))
             a == [r EXCEPT !.intervals = rows]
  <1>1. Finalize(r, elapsed) = IF "intervals" \in r.partial THEN r ELSE DropIntervals(a)
    BY DEF Finalize
  <1> HIDE DEF rows
  <1>2. IsRecorder(a)
    BY RecorderWith
  <1>3. Kept(a, r) /\ Kept(r, r)
    BY DEF IsRecorder, Kept
  <1> HIDE DEF a
  <1>4. IsRecorder(DropIntervals(a)) /\ Kept(DropIntervals(a), a)
    BY <1>2, DropIs
  <1> QED BY <1>1, <1>2, <1>3, <1>4 DEF Kept

-----------------------------------------------------------------------------
(***************************************************************************)
(* The steps of the subscriber.                                            *)
(***************************************************************************)

\* A part that is given up is marked, and nothing else of the recorder changes.
LEMMA MarkIs ==
  ASSUME NEW r, IsRecorder(r), NEW part \in {"intervals", "buckets"}
  PROVE  LET u == [r EXCEPT !.partial = @ \cup {part}]
         IN  IsRecorder(u) /\ Kept(u, r) /\ u.partial = r.partial \cup {part}
  <1>1. r.partial \cup {part} \in SUBSET {"intervals", "buckets"}
    BY DEF IsRecorder
  <1>2. IsRecorder([r EXCEPT !.partial = r.partial \cup {part}])
    BY <1>1, RecorderWith
  <1> QED BY <1>2 DEF IsRecorder, Kept

\* The head of the channel is a message, and the rest a channel.
LEMMA TakeIs ==
  ASSUME Assumptions, SubTypes, Take, chan # <<>>
  PROVE  /\ Head(chan) \in SubMessage /\ IsRecorder(rec')
         /\ chan' \in Seq(SubMessage) /\ Len(chan') <= ChanCap
         /\ taken' \in Seq(SubMessage) /\ counted' \in Seq(SubMessage)
  <1>1. Head(chan) \in SubMessage /\ Tail(chan) \in Seq(SubMessage)
        /\ Len(Tail(chan)) = Len(chan) - 1
    BY DEF SubTypes
  <1>2. IsRecorder(rec')
    BY <1>1, RecordMessageIs DEF SubTypes, Take, Assumptions, SubscriberAssumption
  <1>3. Len(chan') <= ChanCap
    BY <1>1 DEF SubTypes, Take, Assumptions, SubscriberAssumption
  <1> QED BY <1>1, <1>2, <1>3 DEF SubTypes, Take

\* Either a step gives the recorder a message, or the recorder keeps what it
\* has of the messages before and the loop goes on for the same reason.
LEMMA RecorderSteps ==
  ASSUME Assumptions, SubTypes, [Next]_vars
  PROVE  \/ /\ Take /\ chan # <<>>
            /\ \/ Record
               \/ pc = "drain" /\ UNCHANGED <<pc, reason>> /\ reason # "total-messages"
         \/ /\ taken' = taken /\ counted' = counted
            /\ IsRecorder(rec') /\ Kept(rec', rec)
            /\ pc' \in Loop => pc \in Loop /\ reason' = reason
            /\ reason' = "total-messages" => reason = "total-messages"
  <1>1. IsRecorder(rec) /\ Kept(rec, rec)
    BY DEF SubTypes, Kept
  <1>2. CASE EventLoop \/ Receipt \/ Stopped \/ WriteHdr \/ WriteCsv \/ WriteMetadata
             \/ TraceFails \/ Signal \/ Clock \/ UNCHANGED vars
    BY <1>1, <1>2 DEF EventLoop, Receipt, Stopped, TraceFails, WriteHdr, WriteCsv, WriteMetadata, Write,
                      Signal, Clock, vars, Loop
  <1>3. CASE Record
    BY <1>3 DEF Record
  <1>4. CASE Drain
    BY <1>1, <1>4 DEF Drain, Loop
  <1>5. CASE Drained
    BY <1>1, <1>5, FinalizeIs DEF Drained, Loop
  <1>6. CASE WriteIntervals
    BY <1>1, <1>6, MarkIs DEF WriteIntervals, Write, Loop
  <1>7. CASE WriteBuckets
    BY <1>1, <1>7, MarkIs DEF WriteBuckets, Loop
  <1> QED BY <1>2, <1>3, <1>4, <1>5, <1>6, <1>7 DEF Next, Main

\* The new recorder is typed, its tracker empty.
LEMMA NewRecorderIs ==
  ASSUME Assumptions
  PROVE  LET r == NewRecorder(SequenceEnd)
         IN  /\ IsRecorder(r) /\ r.total = 0 /\ r.ignored = 0 /\ r.gap = 0 /\ r.steps = 0
             /\ r.tracker.unique = 0 /\ TrackerFits(r.tracker, <<>>)
  <1> DEFINE end == SequenceEnd
             t == IF end = None THEN NewTracker(Unlimited)
                  ELSE AnchorEnd(NewTracker(Unlimited), end)
             empty == <<>>
             part == {}
             r == [tracker |-> t, end |-> end, total |-> 0, recorded |-> 0,
                   parseErrors |-> 0, ignored |-> 0, intervals |-> NewRows, origin |-> None,
                   gap |-> 0, steps |-> 0, samples |-> empty, partial |-> part]
  <1>1. NewRecorder(SequenceEnd) = r
    BY Zenon DEF NewRecorder
  <1>2. end \in Nat \cup {None}
    BY DEF Assumptions, SubscriberAssumption
  <1>3. t = [NewTracker(Unlimited) EXCEPT !.end = end]
    <2>1. NewTracker(Unlimited).end = None
      BY DEF NewTracker
    <2>2. CASE end # None
      BY <2>1, <2>2 DEF AnchorEnd
    <2>3. CASE end = None
      BY <2>1, <2>3 DEF NewTracker
    <2> QED BY <2>2, <2>3
  <1>4. /\ t \in Tracker /\ t.start = 0 /\ t.unique = 0 /\ TrackerFits(t, <<>>)
    BY <1>2, <1>3, NewFits
  <1>5. empty \in Seq([wall : Nat, duplicate : BOOLEAN]) /\ Len(empty) <= SampleCap
    BY DEF Assumptions, RecorderAssumption
  <1>6. part \in SUBSET {"intervals", "buckets"}
    OBVIOUS
  <1> HIDE DEF t, empty, part, end
  <1>7. /\ r.tracker = t /\ r.total = 0 /\ r.ignored = 0 /\ r.gap = 0 /\ r.steps = 0
        /\ r.samples = empty
    OBVIOUS
  <1>8. IsRecorder(r)
    <2>1. r \in [tracker : Tracker, end : {SequenceEnd}, total : Nat, parseErrors : Nat,
              ignored : Nat, recorded : Nat, intervals : {r.intervals},
              origin : {r.origin}, gap : Int, steps : Nat, samples : {r.samples},
              partial : SUBSET {"intervals", "buckets"}]
      BY <1>4, <1>6 DEF end
    <2>2. r.tracker.start # None
      BY <1>4, <1>7 DEF None
    <2> QED BY <1>5, <1>7, <2>1, <2>2 DEF IsRecorder
  <1> HIDE DEF r
  <1> QED BY <1>1, <1>4, <1>7, <1>8

\* The types hold at the start,
LEMMA SubTypesInit == ASSUME Assumptions, Init PROVE SubTypes
  <1> DEFINE empty == <<>>
  <1>1. empty \in Seq(SubMessage) /\ Len(empty) <= 1 /\ Len(empty) <= ChanCap
    BY DEF Assumptions, SubscriberAssumption
  <1>2. held = empty /\ chan = empty /\ heard = empty /\ taken = empty /\ counted = empty
    BY DEF Init
  <1>3. IsRecorder(rec)
    BY NewRecorderIs DEF Init
  <1> HIDE DEF empty
  <1>4. /\ pc \in Loop /\ now \in Nat /\ shift \in {0} \cup Steps /\ stop \in BOOLEAN
        /\ reason \in {"eof", "signal", "total-messages"}
        /\ task \in {"poll", "subscribe", "send", "backoff", "over"}
    BY DEF Init, Loop
  <1> QED BY <1>1, <1>2, <1>3, <1>4 DEF SubTypes

\* and after every step.
LEMMA SubTypesStep == ASSUME Assumptions, SubTypes, [Next]_vars PROVE SubTypes'
  <1> DEFINE Recording == IsRecorder(rec) /\ taken \in Seq(SubMessage)
                          /\ counted \in Seq(SubMessage)
             Holding == held \in Seq(SubMessage) /\ Len(held) <= 1
             Queue == chan \in Seq(SubMessage) /\ Len(chan) <= ChanCap
             Hearing == heard \in Seq(SubMessage)
             Tasks == task \in {"poll", "subscribe", "send", "backoff", "over"}
             Timing == now \in Nat /\ shift \in {0} \cup Steps
             Control == /\ pc \in Final \cup Loop \cup {"drain"} \cup Writing
                        /\ stop \in BOOLEAN
                        /\ reason \in {"eof", "signal", "total-messages"}
  <1>1. Recording /\ Holding /\ Queue /\ Hearing /\ Tasks /\ Timing /\ Control
    BY DEF SubTypes
  <1>2. Recording'
    BY <1>1, RecorderSteps, TakeIs
  <1>3. Timing'
    <2>1. UNCHANGED clocks \/ Clock \/ Drained
      BY DEF Next, Main, EventLoop, Receipt, Record, Stopped, Drain, WriteHdr, WriteCsv,
             WriteIntervals, WriteBuckets, WriteMetadata, TraceFails, Signal, clocks, vars
    <2> QED BY <1>1, <2>1 DEF clocks, Clock, Drained
  <1>4. Control'
    BY <1>1 DEF Next, Main, EventLoop, Receipt, Record, Stopped, Drain, Drained, WriteHdr,
             WriteCsv, WriteIntervals, WriteBuckets, WriteMetadata, Write, TraceFails, Signal, Clock,
             vars, Final, Loop, Writing
  <1>5. Holding' /\ Queue' /\ Hearing' /\ Tasks'
    <2>1. CASE EventLoop /\ Push
      <3>1. chan \o held \in Seq(SubMessage) /\ Len(chan \o held) = Len(chan) + Len(held)
        BY <1>1
      <3>2. Queue'
        BY <1>1, <2>1, <3>1 DEF Push, Assumptions, SubscriberAssumption
      <3> DEFINE empty == <<>>
      <3>3. empty \in Seq(SubMessage) /\ Len(empty) <= 1
        OBVIOUS
      <3>4. held' = empty /\ heard' = heard /\ task' = "poll"
        BY <2>1 DEF Push
      <3> HIDE DEF empty
      <3> QED BY <1>1, <3>2, <3>3, <3>4
    <2>2. ASSUME EventLoop, NEW s \in Seqs, Receive(s), UNCHANGED chan
          PROVE  Holding' /\ Queue' /\ Hearing' /\ Tasks'
      <3>1. Message(s) \in SubMessage
        <4>1. s \in Nat \cup {None} /\ now \in Nat /\ now + shift \in Nat
          BY <1>1 DEF Assumptions, SubscriberAssumption
        <4> QED BY <4>1 DEF Message, SubMessage
      <3>2. <<Message(s)>> \in Seq(SubMessage) /\ Len(<<Message(s)>>) = 1
            /\ Append(heard, Message(s)) \in Seq(SubMessage)
        BY <1>1, <3>1
      <3> QED BY <1>1, <2>2, <3>2 DEF Receive
    <2>3. CASE EventLoop /\ UNCHANGED chan
               /\ (ConnAck \/ Subscribe \/ LinkFails \/ BackoffEnds \/ TaskStops)
      BY <1>1, <2>3 DEF ConnAck, Subscribe, LinkFails, BackoffEnds, TaskStops
    <2>4. CASE Record \/ Drain
      <3>1. UNCHANGED producer /\ chan # <<>> /\ (Take \/ chan' = Tail(chan))
        BY <2>4 DEF Record, Drain
      <3>2. Queue'
        <4>1. CASE Take
          BY <3>1, <4>1, TakeIs
        <4>2. CASE chan' = Tail(chan)
          <5>1. Tail(chan) \in Seq(SubMessage) /\ Len(Tail(chan)) = Len(chan) - 1
                /\ Len(chan) \in Nat /\ ChanCap \in Nat
            BY <1>1, <3>1 DEF Assumptions, SubscriberAssumption
          <5> QED BY <1>1, <4>2, <5>1
        <4> QED BY <3>1, <4>1, <4>2
      <3> QED BY <1>1, <3>1, <3>2 DEF producer
    <2>5. CASE Receipt \/ Stopped \/ Drained \/ WriteHdr \/ WriteCsv \/ WriteIntervals
               \/ WriteBuckets \/ WriteMetadata \/ TraceFails \/ Signal \/ Clock \/ UNCHANGED vars
      BY <1>1, <2>5 DEF Receipt, Stopped, Drained, WriteHdr, WriteCsv, WriteIntervals,
           WriteBuckets, WriteMetadata, TraceFails, Signal, Clock, vars, producer
    <2> QED BY <2>1, <2>2, <2>3, <2>4, <2>5 DEF Next, Main, EventLoop
  <1> QED BY <1>2, <1>3, <1>4, <1>5 DEF SubTypes

\* Type correctness: what the recorder counts are naturals, the channel and
\* the samples keep within their bounds, whatever the wire delivers.
THEOREM SubTypeCorrect == ASSUME Assumptions PROVE Spec => [](SubTypes /\ SubTypeOK)
  <1>1. SubTypes => SubTypeOK
    BY DEF SubTypes, SubTypeOK, IsRecorder, Final, Loop, Writing
  <1>2. Init => SubTypes
    BY SubTypesInit
  <1>3. SubTypes /\ [Next]_vars => SubTypes'
    BY SubTypesStep
  <1> QED BY <1>1, <1>2, <1>3, PTL DEF Spec

\* Moving an element along a chain of sequences keeps the whole.
LEMMA ChainFacts ==
  ASSUME NEW S, NEW a \in Seq(S), NEW b \in Seq(S), NEW c \in Seq(S)
  PROVE  /\ a \o (b \o c) \o <<>> = a \o b \o c
         /\ b # <<>> => Append(a, Head(b)) \o Tail(b) \o c = a \o b \o c
         /\ \A e \in S : a \o b \o <<e>> = Append(a \o b \o <<>>, e)
         /\ a \o <<>> \o <<>> = a
  <1>1. a \o b \in Seq(S) /\ b \o c \in Seq(S) /\ a \o (b \o c) \in Seq(S)
    BY ConcatProperties
  <1>2. a \o (b \o c) \o <<>> = a \o b \o c
    BY <1>1, ConcatEmptySeq, ConcatAssociative
  <1>3. ASSUME b # <<>> PROVE Append(a, Head(b)) \o Tail(b) \o c = a \o b \o c
    <2>1. Head(b) \in S /\ Tail(b) \in Seq(S) /\ <<Head(b)>> \in Seq(S)
      BY <1>3, HeadTailProperties
    <2>2. b = <<Head(b)>> \o Tail(b)
      BY <1>3
    <2>3. Append(a, Head(b)) = a \o <<Head(b)>>
      BY <2>1, AppendIsConcat
    <2>4. a \o <<Head(b)>> \o Tail(b) = a \o (<<Head(b)>> \o Tail(b))
      BY <2>1, ConcatAssociative
    <2> QED BY <2>2, <2>3, <2>4
  <1>4. ASSUME NEW e \in S PROVE a \o b \o <<e>> = Append(a \o b \o <<>>, e)
    BY <1>1, ConcatEmptySeq, AppendIsConcat
  <1>5. a \o <<>> \o <<>> = a
    BY ConcatEmptySeq
  <1> QED BY <1>2, <1>3, <1>4, <1>5

\* The run ends by itself only from the recording loop.
LEMMA ReasonMoves ==
  ASSUME SubTypes, [Next]_vars
  PROVE  reason' = reason \/ pc = "loop"
  BY DEF Next, Main, EventLoop, Receipt, Record, Stopped, Drain, Drained, WriteHdr, WriteCsv,
         WriteIntervals, WriteBuckets, WriteMetadata, TraceFails, Signal, Clock, vars

LEMMA InFlightStep ==
  ASSUME Assumptions, SubTypes, InFlight, pc = "loop" => reason = "eof", [Next]_vars
  PROVE  InFlight'
  <1> DEFINE Whole == reason # "total-messages" => heard = taken \o chan \o held
             Free == task # "send" => held = <<>>
             Accounted == rec.total + rec.ignored = Len(taken)
             Closed == pc \in Writing => task = "over" /\ chan = <<>>
             Ends == reason' # "total-messages" => reason # "total-messages"
  <1>1. Whole /\ Free /\ Accounted /\ Closed
    BY DEF InFlight
  <1>2. /\ chan \in Seq(SubMessage) /\ held \in Seq(SubMessage)
        /\ taken \in Seq(SubMessage) /\ heard \in Seq(SubMessage)
    BY DEF SubTypes
  <1>3. Accounted'
    <2>1. CASE Take /\ chan # <<>>
      <3>1. Head(chan) \in SubMessage /\ IsRecorder(rec)
        BY <2>1, TakeIs DEF SubTypes
      <3>2. rec'.total + rec'.ignored = rec.total + rec.ignored + 1
        BY <2>1, <3>1, RecordMessageIs DEF Take, Assumptions, SubscriberAssumption
      <3>3. taken' = Append(taken, Head(chan)) /\ Len(taken') = Len(taken) + 1
        BY <1>2, <2>1, <3>1 DEF Take
      <3> QED BY <1>1, <3>2, <3>3
    <2>2. CASE taken' = taken /\ Kept(rec', rec)
      BY <1>1, <2>2 DEF Kept
    <2> QED BY <2>1, <2>2, RecorderSteps
  <1>4. Ends
    <2>1. CASE reason' = reason
      BY <2>1
    <2>2. CASE pc = "loop"
      BY <2>2
    <2> QED BY <2>1, <2>2, ReasonMoves
  <1>5. Whole' /\ Free' /\ Closed'
    <2>1. CASE EventLoop /\ Push
      <3>1. task = "send" /\ chan' = chan \o held /\ held' = <<>> /\ task' = "poll"
            /\ heard' = heard /\ taken' = taken /\ pc' = pc /\ reason' = reason
        BY <2>1 DEF EventLoop, Push
      <3>2. taken \o (chan \o held) \o <<>> = taken \o chan \o held
        BY <1>2, ChainFacts
      <3>3. pc \notin Writing
        BY <1>1, <3>1
      <3> QED BY <1>1, <3>1, <3>2, <3>3
    <2>2. ASSUME EventLoop, NEW s \in Seqs, Receive(s), UNCHANGED chan
          PROVE  Whole' /\ Free' /\ Closed'
      <3> DEFINE m == Message(s)
      <3>1. task = "poll" /\ held' = <<m>> /\ heard' = Append(heard, m) /\ task' = "send"
            /\ chan' = chan /\ taken' = taken /\ pc' = pc /\ reason' = reason
        BY <2>2 DEF EventLoop, Receive
      <3>2. m \in SubMessage
        <4>1. s \in Nat \cup {None} /\ now \in Nat /\ now + shift \in Nat
          BY DEF SubTypes, Assumptions, SubscriberAssumption
        <4> QED BY <4>1 DEF Message, SubMessage
      <3> HIDE DEF m
      <3>3. held = <<>> /\ pc \notin Writing
        BY <1>1, <3>1
      <3>4. taken \o chan \o <<m>> = Append(taken \o chan \o <<>>, m)
        BY <1>2, <3>2, ChainFacts
      <3> QED BY <1>1, <3>1, <3>3, <3>4
    <2>3. CASE EventLoop /\ UNCHANGED chan
               /\ (ConnAck \/ Subscribe \/ LinkFails \/ BackoffEnds \/ TaskStops)
      <3>1. /\ UNCHANGED <<held, heard, taken, chan, pc, reason>>
            /\ task # "send" /\ task' # "send" /\ task # "over"
        BY <2>3 DEF EventLoop, ConnAck, Subscribe, LinkFails, BackoffEnds, TaskStops
      <3> QED BY <1>1, <3>1
    <2>4. CASE Record \/ Drain
      <3>1. UNCHANGED producer /\ chan # <<>> /\ pc' \notin Writing
            /\ (Take \/ (reason' = "total-messages" /\ pc = "drain"))
        BY <2>4 DEF Record, Drain, Writing
      <3>2. Free' /\ Closed'
        BY <1>1, <3>1 DEF producer
      <3>3. CASE Take
        <4>1. Append(taken, Head(chan)) \o Tail(chan) \o held = taken \o chan \o held
          BY <1>2, <3>1, ChainFacts
        <4> QED BY <1>1, <1>4, <3>1, <3>2, <3>3, <4>1 DEF Take, producer
      <3> QED BY <3>1, <3>2, <3>3
    <2>5. CASE Receipt \/ Stopped \/ Drained \/ WriteHdr \/ WriteCsv \/ WriteIntervals
               \/ WriteBuckets \/ WriteMetadata \/ TraceFails \/ Signal \/ Clock \/ UNCHANGED vars
      <3>1. UNCHANGED <<task, held, heard, chan, taken>>
        BY <2>5 DEF Receipt, Stopped, Drained, WriteHdr, WriteCsv, WriteIntervals,
             WriteBuckets, WriteMetadata, TraceFails, Signal, Clock, vars, producer
      <3>2. pc' \in Writing => pc \in Writing \/ (task = "over" /\ chan = <<>>)
        BY <2>5 DEF Receipt, Stopped, Drained, WriteHdr, WriteCsv, WriteIntervals,
             WriteBuckets, WriteMetadata, Write, TraceFails, Signal, Clock, vars, Writing
      <3> QED BY <1>1, <1>4, <3>1, <3>2
    <2> QED BY <2>1, <2>2, <2>3, <2>4, <2>5 DEF Next, Main, EventLoop
  <1> QED BY <1>3, <1>5 DEF InFlight

\* The artifacts: each is written before the next is begun.
LEMMA OnDiskStep ==
  ASSUME Assumptions, SubTypes, OnDisk, [Next]_vars
  PROVE  OnDisk'
  <1>1. IsRecorder(rec)
    BY DEF SubTypes
  <1>2. CASE \/ EventLoop \/ Receipt \/ Stopped \/ TraceFails \/ Signal \/ Clock
             \/ UNCHANGED vars
    <2>1. rec' = rec /\ dir' = dir
          /\ \/ pc' = pc \/ pc' \in Final
             \/ pc \in {"receipt", "loop"} /\ pc' \in {"loop", "drain"}
      BY <1>2 DEF EventLoop, Receipt, Stopped, TraceFails, Signal, Clock, vars, Final
    <2> QED BY <2>1 DEF OnDisk, MetadataMeansComplete, Written, Final
  <1>3. CASE Record \/ Drain \/ Drained
    <2>1. pc \in {"loop", "drain"} /\ pc' \in {"loop", "drain", "hdr"} /\ dir' = dir
      BY <1>3 DEF Record, Drain, Drained
    <2>2. ~Written("subscriber-metadata.json")
      BY <2>1 DEF OnDisk, Final
    <2> QED BY <2>1, <2>2 DEF OnDisk, MetadataMeansComplete, Written
  <1>4. CASE WriteHdr \/ WriteCsv
    <2>1. /\ pc \in {"hdr", "csv"} /\ rec' = rec /\ ~Written("subscriber-metadata.json")
      BY <1>4 DEF WriteHdr, WriteCsv, OnDisk, Final
    <2> QED BY <1>4, <2>1 DEF WriteHdr, WriteCsv, Write, OnDisk, MetadataMeansComplete,
                              Written, Final
  <1>5. CASE WriteIntervals
    <2>1. pc = "intervals" /\ ~Written("subscriber-metadata.json")
          /\ Written("latency.hdr") /\ Written("sequence.csv")
      BY <1>5 DEF WriteIntervals, OnDisk, Final
    <2>2. \/ "intervals" \in rec.partial /\ pc' = "buckets" /\ UNCHANGED <<dir, rec>>
          \/ rec' = rec /\ pc' = "failed" /\ dir' = dir
          \/ rec' = rec /\ pc' = "buckets" /\ dir' = dir \cup {"interval-latency.json"}
          \/ "intervals" \in rec'.partial /\ pc' = "buckets" /\ dir' = dir
      BY <1>1, <1>5, MarkIs DEF WriteIntervals, Write
    <2> QED BY <2>1, <2>2 DEF OnDisk, MetadataMeansComplete, Written, Final
  <1>6. CASE WriteBuckets
    <2> DEFINE both == ToSet(BucketFiles)
    <2>1. pc = "buckets" /\ pc' = "metadata" /\ ~Written("subscriber-metadata.json")
          /\ Written("latency.hdr") /\ Written("sequence.csv")
          /\ ("intervals" \notin rec.partial => Written("interval-latency.json"))
      BY <1>6 DEF WriteBuckets, OnDisk, Final
    <2>2. \/ (~WithEvents \/ "buckets" \in rec.partial) /\ UNCHANGED <<dir, rec>>
          \/ dir' = dir \cup both /\ rec' = rec
          \/ /\ \E n \in 0 .. 1 : dir' = dir \cup {BucketFiles[i] : i \in 1 .. n}
             /\ rec' = [rec EXCEPT !.partial = @ \cup {"buckets"}]
      BY <1>6 DEF WriteBuckets
    <2>3. \A n \in 0 .. 1 : \A i \in 1 .. n : BucketFiles[i] = "throughput-buckets.json"
      BY DEF BucketFiles
    <2>4. [rec EXCEPT !.partial = @ \cup {"buckets"}].partial = rec.partial \cup {"buckets"}
      BY <1>1, MarkIs
    <2> HIDE DEF both
    <2>5. CASE (~WithEvents \/ "buckets" \in rec.partial) /\ UNCHANGED <<dir, rec>>
      BY <2>1, <2>5 DEF OnDisk, MetadataMeansComplete, Written
    <2>6. CASE dir' = dir \cup both /\ rec' = rec
      <3>1. \A f \in both : f # "subscriber-metadata.json"
        <4>1. both = {"throughput-buckets.json", "throughput-buckets-10ms.json"}
          BY DEF both, BucketFiles, ToSet
        <4> QED BY <4>1
      <3>2. "subscriber-metadata.json" \notin dir' /\ both \subseteq dir' /\ dir \subseteq dir'
        BY <2>1, <2>6, <3>1 DEF Written
      <3> QED BY <2>1, <2>6, <3>2 DEF OnDisk, MetadataMeansComplete, Written, both
    <2>7. CASE /\ \E n \in 0 .. 1 : dir' = dir \cup {BucketFiles[i] : i \in 1 .. n}
               /\ rec' = [rec EXCEPT !.partial = @ \cup {"buckets"}]
      <3>1. "subscriber-metadata.json" \notin dir' /\ dir \subseteq dir'
        BY <2>1, <2>3, <2>7 DEF Written
      <3>2. rec'.partial = rec.partial \cup {"buckets"}
        BY <2>4, <2>7
      <3> QED BY <2>1, <3>1, <3>2 DEF OnDisk, MetadataMeansComplete, Written
    <2> QED BY <2>2, <2>5, <2>6, <2>7
  <1>7. CASE WriteMetadata
    <2>1. /\ pc = "metadata" /\ rec' = rec
          /\ Written("latency.hdr") /\ Written("sequence.csv")
          /\ ("intervals" \notin rec.partial => Written("interval-latency.json"))
          /\ (WithEvents /\ "buckets" \notin rec.partial => ToSet(BucketFiles) \subseteq dir)
      BY <1>7 DEF WriteMetadata, OnDisk
    <2>2. pc' \in Final /\ dir' \in {dir, dir \cup {"subscriber-metadata.json"}}
      BY <1>7 DEF WriteMetadata, Write, Final
    <2> QED BY <2>1, <2>2 DEF OnDisk, MetadataMeansComplete, Written, Final
  <1> QED BY <1>2, <1>3, <1>4, <1>5, <1>6, <1>7 DEF Next, Main

\* What the numbers of a log gain with one message more.
LEMMA NumbersAppend ==
  ASSUME NEW s \in Seq(SubMessage), NEW m \in SubMessage, m.seq \in Nat,
         \A i \in DOMAIN s : s[i].seq \in Nat
  PROVE  LET more == Append(s, m)
         IN  /\ \A i \in DOMAIN more : more[i].seq \in Nat
             /\ Numbers(s) \in Seq(Nat) /\ Numbers(more) = Append(Numbers(s), m.seq)
  <1> DEFINE more == Append(s, m)
  <1>1. /\ more \in Seq(SubMessage) /\ Len(more) = Len(s) + 1 /\ Len(s) \in Nat
        /\ \A i \in 1 .. Len(s) : more[i] = s[i]
        /\ more[Len(s) + 1] = m
    BY AppendProperties
  <1>2. DOMAIN s = 1 .. Len(s) /\ DOMAIN more = 1 .. Len(s) + 1
    BY <1>1
  <1> HIDE DEF more
  <1>3. Numbers(s) \in Seq(Nat) /\ Len(Numbers(s)) = Len(s)
    <2>1. Numbers(s) \in [1 .. Len(s) -> Nat]
      BY <1>2 DEF Numbers
    <2> QED BY <1>1, <2>1
  <1>4. \A i \in 1 .. Len(s) + 1 : more[i].seq = Append(Numbers(s), m.seq)[i]
    <2>1. ASSUME NEW i \in 1 .. Len(s) PROVE more[i].seq = Append(Numbers(s), m.seq)[i]
      <3>1. Append(Numbers(s), m.seq)[i] = Numbers(s)[i]
        BY <1>3, AppendProperties
      <3> QED BY <1>1, <1>2, <3>1 DEF Numbers
    <2>2. Append(Numbers(s), m.seq)[Len(s) + 1] = m.seq
      BY <1>3, AppendProperties
    <2>3. \A i \in 1 .. Len(s) + 1 : i \in 1 .. Len(s) \/ i = Len(s) + 1
      BY <1>1
    <2> QED BY <1>1, <2>1, <2>2, <2>3
  <1>5. \A i \in DOMAIN more : more[i].seq \in Nat
    <2>1. \A i \in 1 .. Len(s) + 1 : i \in 1 .. Len(s) \/ i = Len(s) + 1
      BY <1>1
    <2> QED BY <1>1, <1>2, <2>1
  <1>6. Numbers(more) = Append(Numbers(s), m.seq)
    <2>1. /\ Append(Numbers(s), m.seq) \in Seq(Nat)
          /\ Len(Append(Numbers(s), m.seq)) = Len(s) + 1
      BY <1>3, AppendProperties
    <2>2. Numbers(more) = [i \in 1 .. Len(s) + 1 |-> Append(Numbers(s), m.seq)[i]]
      BY <1>2, <1>4 DEF Numbers
    <2> HIDE DEF Numbers
    <2>3. \A q \in Seq(Nat) : q = [i \in 1 .. Len(q) |-> q[i]]
      OBVIOUS
    <2> QED BY <2>1, <2>2, <2>3
  <1> QED BY <1>3, <1>5, <1>6 DEF more

\* The tracker fits what was counted after every step.
LEMMA TrackedStep ==
  ASSUME Assumptions, SubTypes, Tracked, [Next]_vars
  PROVE  Tracked'
  <1> DEFINE Fits == /\ \A i \in DOMAIN counted : counted[i].seq \in Nat
                     /\ TrackerFits(rec.tracker, Numbers(counted))
  <1>1. CASE /\ Take /\ chan # <<>>
             /\ \/ Record
                \/ pc = "drain" /\ UNCHANGED <<pc, reason>> /\ reason # "total-messages"
    <2> DEFINE m == Head(chan)
    <2>1. /\ m \in SubMessage /\ IsRecorder(rec) /\ IsRecorder(rec')
          /\ counted \in Seq(SubMessage)
      BY <1>1, TakeIs DEF SubTypes
    <2>2. rec'.tracker = IF Counts(m) THEN RecordSeq(rec.tracker, m.seq) ELSE rec.tracker
      BY <1>1, <2>1, RecordMessageIs DEF Take, Assumptions, SubscriberAssumption
    <2>3. counted' = IF Counts(m) THEN Append(counted, m) ELSE counted
      BY <1>1 DEF Take
    <2>4. rec.tracker \in Tracker /\ rec.tracker.start # None
          /\ rec.tracker.unique \in Nat
      BY <2>1 DEF IsRecorder, Tracker
    <2> HIDE DEF m
    <2>5. /\ Fits'
          /\ rec'.tracker.unique \in {rec.tracker.unique, rec.tracker.unique + 1}
      <3>1. CASE Counts(m)
        <4>1. m.seq \in Nat
          BY <2>1, <3>1 DEF SubMessage, Counts
        <4>2. /\ \A i \in DOMAIN counted' : counted'[i].seq \in Nat
              /\ Numbers(counted) \in Seq(Nat)
              /\ Numbers(counted') = Append(Numbers(counted), m.seq)
          BY <2>1, <2>3, <3>1, <4>1, NumbersAppend DEF Tracked
        <4>3. TrackerFits(rec'.tracker, Numbers(counted'))
          BY <2>2, <2>4, <3>1, <4>1, <4>2, RecordFits DEF Tracked
        <4>4. rec'.tracker.unique \in {rec.tracker.unique, rec.tracker.unique + 1}
          BY <2>2, <2>4, <3>1, <4>1, RecordTyped
        <4> QED BY <4>2, <4>3, <4>4
      <3>2. CASE ~Counts(m)
        BY <2>2, <2>3, <3>2 DEF Tracked
      <3> QED BY <3>1, <3>2
    <2>6. CASE Record
      <3>1. pc = "loop" /\ reason = "eof" /\ ~Reached(rec)
        BY <2>6 DEF Record, Tracked, Loop
      <3>2. IF Reached(rec') THEN pc' = "drain" /\ reason' = "total-messages"
                             ELSE UNCHANGED <<pc, reason>>
        BY <2>6 DEF Record
      <3>3. Reached(rec') => rec'.tracker.unique = TotalMessages
        BY <2>4, <2>5, <3>1 DEF Reached, Assumptions, SubscriberAssumption
      <3> HIDE DEF Reached, Fits
      <3>4. /\ pc' \in Loop => reason' = "eof" /\ ~Reached(rec')
            /\ reason' = "total-messages" => rec'.tracker.unique = TotalMessages
        BY <3>1, <3>2, <3>3 DEF Loop
      <3> QED BY <2>5, <3>4 DEF Tracked, Fits, Reached
    <2>7. CASE pc = "drain" /\ UNCHANGED <<pc, reason>> /\ reason # "total-messages"
      BY <2>5, <2>7 DEF Tracked, Loop
    <2> QED BY <1>1, <2>6, <2>7
  <1>2. CASE /\ taken' = taken /\ counted' = counted
             /\ IsRecorder(rec') /\ Kept(rec', rec)
             /\ pc' \in Loop => pc \in Loop /\ reason' = reason
             /\ reason' = "total-messages" => reason = "total-messages"
    <2>1. rec'.tracker = rec.tracker
      BY <1>2 DEF Kept
    <2>2. Fits'
      BY <1>2, <2>1 DEF Tracked
    <2>3. pc' \in Loop => reason' = "eof" /\ ~Reached(rec)'
      BY <1>2, <2>1 DEF Tracked, Reached
    <2>4. reason' = "total-messages" => rec'.tracker.unique = TotalMessages
      BY <1>2, <2>1 DEF Tracked
    <2> QED BY <2>2, <2>3, <2>4 DEF Tracked
  <1> QED BY <1>1, <1>2, RecorderSteps

\* The clocks of a message are apart by the step there was, and the recorder
\* notices the first message of either kind.
LEMMA StepsSeenStep ==
  ASSUME Assumptions, SubTypes, StepsSeen, [Next]_vars,
         \A s \in Steps : s > StepTolerance
  PROVE  StepsSeen'
  <1> DEFINE Apart(s, d) == \A i \in DOMAIN s : Gap(s[i]) \in {0, d}
  <1>1. /\ Apart(held, shift) /\ Apart(chan, shift) /\ rec.gap \in {0, shift}
        /\ rec.gap # 0 => rec.steps > 0
        /\ StepNoticed
    BY DEF StepsSeen
  <1>2. /\ shift \in Nat /\ now \in Nat /\ StepTolerance \in Nat
        /\ shift # 0 => shift > StepTolerance
        /\ chan \in Seq(SubMessage) /\ held \in Seq(SubMessage) /\ taken \in Seq(SubMessage)
        /\ IsRecorder(rec) /\ rec.steps \in Nat
    <2>1. /\ shift \in {0} \cup Steps /\ Steps \subseteq Nat /\ now \in Nat
          /\ StepTolerance \in Nat
          /\ chan \in Seq(SubMessage) /\ held \in Seq(SubMessage)
          /\ taken \in Seq(SubMessage) /\ IsRecorder(rec)
      BY DEF SubTypes, Assumptions, RecorderAssumption, SubscriberAssumption
    <2>2. rec.steps \in Nat
      BY <2>1 DEF IsRecorder
    <2> QED BY <2>1, <2>2
  <1>3. shift' = shift \/ (shift = 0 /\ UNCHANGED <<held, chan, rec, taken>>)
    BY DEF Next, Main, EventLoop, Receipt, Record, Stopped, Drain, Drained, WriteHdr,
           WriteCsv, WriteIntervals, WriteBuckets, WriteMetadata, TraceFails, Signal, Clock,
           vars, clocks, producer
  <1>4. CASE shift = 0 /\ UNCHANGED <<held, chan, rec, taken>>
    <2>1. Apart(held', shift') /\ Apart(chan', shift') /\ rec'.gap \in {0, shift'}
      BY <1>1, <1>4
    <2>2. StepNoticed'
      BY <1>1, <1>4 DEF StepNoticed
    <2> QED BY <1>1, <1>4, <2>1, <2>2 DEF StepsSeen
  <1>5. CASE shift' = shift
    <2>1. Apart(held', shift) /\ Apart(chan', shift)
      <3>1. CASE EventLoop /\ Push
        <4>1. chan' = chan \o held /\ held' = <<>>
          BY <3>1 DEF Push
        <4>2. Apart(chan \o held, shift)
          <5>1. /\ chan \o held \in Seq(SubMessage)
                /\ Len(chan \o held) = Len(chan) + Len(held)
                /\ \A i \in 1 .. Len(chan) + Len(held) : (chan \o held)[i] =
                     IF i <= Len(chan) THEN chan[i] ELSE held[i - Len(chan)]
            BY <1>2, ConcatProperties
          <5>2. DOMAIN (chan \o held) = 1 .. Len(chan) + Len(held)
                /\ DOMAIN chan = 1 .. Len(chan) /\ DOMAIN held = 1 .. Len(held)
                /\ Len(chan) \in Nat /\ Len(held) \in Nat
            BY <1>2, <5>1
          <5>3. \A i \in 1 .. Len(chan) + Len(held) :
                  IF i <= Len(chan) THEN i \in 1 .. Len(chan)
                                    ELSE i - Len(chan) \in 1 .. Len(held)
            BY <5>2
          <5> QED BY <1>1, <5>1, <5>2, <5>3
        <4> QED BY <4>1, <4>2
      <3>2. ASSUME NEW s \in Seqs, Receive(s), UNCHANGED chan
            PROVE  Apart(held', shift) /\ Apart(chan', shift)
        <4>1. held' = <<Message(s)>>
          BY <3>2 DEF Receive
        <4>2. Gap(Message(s)) = shift
          BY <1>2 DEF Gap, Message
        <4>3. DOMAIN held' = {1} /\ held'[1] = Message(s)
          BY <4>1
        <4> QED BY <1>1, <3>2, <4>2, <4>3
      <3>3. CASE UNCHANGED <<held, chan>>
        BY <1>1, <3>3
      <3>4. CASE UNCHANGED held /\ chan # <<>> /\ chan' = Tail(chan)
        <4>1. /\ Tail(chan) \in Seq(SubMessage) /\ Len(Tail(chan)) = Len(chan) - 1
              /\ \A i \in 1 .. Len(Tail(chan)) : Tail(chan)[i] = chan[i + 1]
          BY <1>2, <3>4, HeadTailProperties
        <4>2. DOMAIN Tail(chan) = 1 .. Len(chan) - 1 /\ DOMAIN chan = 1 .. Len(chan)
              /\ Len(chan) \in Nat
          BY <1>2, <4>1
        <4>3. \A i \in 1 .. Len(chan) - 1 : i + 1 \in 1 .. Len(chan)
          BY <4>2
        <4>4. Apart(Tail(chan), shift)
          BY <1>1, <4>1, <4>2, <4>3
        <4> QED BY <1>1, <3>4, <4>4
      <3> HIDE DEF Apart
      <3>5. CASE Record \/ Drain
        BY <3>4, <3>5 DEF Record, Drain, Take, producer
      <3>6. CASE Receipt \/ Stopped \/ Drained \/ WriteHdr \/ WriteCsv \/ WriteIntervals
               \/ WriteBuckets \/ WriteMetadata \/ TraceFails \/ Signal \/ Clock \/ UNCHANGED vars
        BY <3>3, <3>6 DEF Receipt, Stopped, Drained, WriteHdr, WriteCsv, WriteIntervals,
             WriteBuckets, WriteMetadata, TraceFails, Signal, Clock, vars, producer
      <3>7. CASE UNCHANGED chan
                 /\ (ConnAck \/ Subscribe \/ LinkFails \/ BackoffEnds \/ TaskStops)
        BY <3>3, <3>7 DEF ConnAck, Subscribe, LinkFails, BackoffEnds, TaskStops
      <3> QED BY <3>1, <3>2, <3>5, <3>6, <3>7 DEF Next, Main, EventLoop
    <2>2. /\ rec'.gap \in {0, shift} /\ (rec'.gap # 0 => rec'.steps > 0)
          /\ StepNoticed'
      <3>1. CASE Take /\ chan # <<>>
        <4> DEFINE m == Head(chan)
        <4>1. m \in SubMessage /\ m = chan[1] /\ 1 \in DOMAIN chan
          BY <1>2, <3>1
        <4>2. Gap(m) \in {0, shift}
          BY <1>1, <4>1
        <4>3. /\ rec'.gap = Gap(m)
              /\ rec'.steps = rec.steps + (IF Gap(m) - rec.gap > StepTolerance
                                   \/ rec.gap - Gap(m) > StepTolerance THEN 1 ELSE 0)
          BY <1>2, <3>1, <4>1, RecordMessageIs DEF Take, Assumptions, SubscriberAssumption
        <4>4. m.wall # m.elapsed => Gap(m) # 0
          BY <4>1 DEF Gap, SubMessage
        <4>5. taken' = Append(taken, m)
          BY <3>1 DEF Take
        <4>6. /\ Append(taken, m) \in Seq(SubMessage)
              /\ DOMAIN Append(taken, m) = 1 .. Len(taken) + 1
              /\ \A i \in 1 .. Len(taken) : Append(taken, m)[i] = taken[i]
              /\ Append(taken, m)[Len(taken) + 1] = m
              /\ DOMAIN taken = 1 .. Len(taken) /\ Len(taken) \in Nat
          BY <1>2, <4>1, AppendProperties
        <4> HIDE DEF m
        <4>7. Gap(m) # 0 => rec'.steps > 0
          <5>1. CASE rec.gap = 0
            BY <1>2, <4>2, <4>3, <5>1
          <5>2. CASE rec.gap # 0
            BY <1>1, <1>2, <4>3, <5>2
          <5> QED BY <5>1, <5>2
        <4>8. rec.steps > 0 => rec'.steps > 0
          BY <1>2, <4>3
        <4>9. ASSUME NEW i \in DOMAIN taken', taken'[i].wall # taken'[i].elapsed
              PROVE  rec'.steps > 0
          <5>1. i \in 1 .. Len(taken) \/ i = Len(taken) + 1
            BY <4>5, <4>6, <4>9
          <5>2. CASE i \in 1 .. Len(taken)
            BY <1>1, <4>5, <4>6, <4>8, <4>9, <5>2 DEF StepNoticed
          <5>3. CASE i = Len(taken) + 1
            BY <4>4, <4>5, <4>6, <4>7, <4>9, <5>3
          <5> QED BY <5>1, <5>2, <5>3
        <4> QED BY <4>2, <4>3, <4>7, <4>9 DEF StepNoticed
      <3>2. CASE taken' = taken /\ Kept(rec', rec)
        BY <1>1, <3>2 DEF Kept, StepNoticed
      <3> QED BY <3>1, <3>2, RecorderSteps
    <2> QED BY <1>5, <2>1, <2>2 DEF StepsSeen
  <1> QED BY <1>3, <1>4, <1>5

-----------------------------------------------------------------------------
(***************************************************************************)
(* The theorems of the subscriber.                                         *)
(***************************************************************************)

\* The invariant holds at the start, its parts about the messages as well.
LEMMA SubInvInit == ASSUME Assumptions, Init PROVE SubInv
  <1> DEFINE empty == <<>>
  <1>1. held = empty /\ chan = empty /\ heard = empty /\ taken = empty /\ counted = empty
        /\ dir = {} /\ task = "poll" /\ reason = "eof" /\ pc \in Loop /\ shift = 0
    BY DEF Init, Loop
  <1>2. /\ rec.total = 0 /\ rec.ignored = 0 /\ rec.gap = 0 /\ rec.steps = 0
        /\ rec.tracker.unique = 0 /\ TrackerFits(rec.tracker, empty)
    BY NewRecorderIs DEF Init
  <1>3. empty \o empty \o empty = empty /\ Len(empty) = 0 /\ DOMAIN empty = {}
    OBVIOUS
  <1>4. Numbers(empty) = empty
    BY DEF Numbers
  <1> HIDE DEF empty
  <1>5. InFlight
    <2>1. pc \notin Writing
      BY <1>1 DEF Loop, Writing
    <2>2. task # "send" => held = <<>>
      BY <1>1 DEF empty
    <2>3. heard = taken \o chan \o held
      BY <1>1, <1>3
    <2> QED BY <1>1, <1>2, <1>3, <2>1, <2>2, <2>3 DEF InFlight
  <1>6. OnDisk
    BY <1>1 DEF OnDisk, MetadataMeansComplete, Written, Loop
  <1>7. Tracked
    <2>1. ~Reached(rec)
      BY <1>2 DEF Reached, Assumptions, SubscriberAssumption
    <2> QED BY <1>1, <1>2, <1>3, <1>4, <2>1 DEF Tracked
  <1>8. StepsSeen
    BY <1>1, <1>2, <1>3 DEF StepsSeen, StepNoticed
  <1> QED BY <1>5, <1>6, <1>7, <1>8, SubTypesInit DEF SubInv

\* What the tracker fits is what SequenceExact compares it with.
LEMMA TrackedIsExact == ASSUME Assumptions, SubTypes, Tracked PROVE SequenceExact
  <1>1. Numbers(counted) \in Seq(Nat)
    <2>1. counted \in Seq(SubMessage)
      BY DEF SubTypes
    <2>2. DOMAIN counted = 1 .. Len(counted) /\ Len(counted) \in Nat
      BY <2>1
    <2>3. Numbers(counted) \in [1 .. Len(counted) -> Nat]
      BY <2>2 DEF Numbers, Tracked
    <2> QED BY <2>2, <2>3
  <1>2. rec.tracker \in Tracker
    BY DEF SubTypes, IsRecorder
  <1>3. TrackerExact(rec.tracker, Numbers(counted))
    BY <1>1, <1>2, FitsIsExact DEF Tracked, Assumptions
  <1> QED BY <1>3 DEF SequenceExact, Numbers, Tracked

\* Whenever the shutdown comes, with the event loop anywhere between the link
\* and the channel, a run stopped by a signal has recorded all it was sent.
THEOREM NothingLostAtShutdown == ASSUME Assumptions PROVE Spec => []ShutdownLosesNothing
  <1>1. InFlight /\ SubTypes => ShutdownLosesNothing
    <2> SUFFICES ASSUME InFlight, SubTypes, pc = "hdr", reason = "signal"
                 PROVE  taken = heard /\ rec.total + rec.ignored = Len(heard)
      BY DEF ShutdownLosesNothing
    <2>1. chan = <<>> /\ held = <<>> /\ heard = taken \o chan \o held
          /\ rec.total + rec.ignored = Len(taken) /\ taken \in Seq(SubMessage)
      BY DEF InFlight, Writing, SubTypes
    <2>2. taken \o <<>> \o <<>> = taken
      BY <2>1, ChainFacts
    <2> QED BY <2>1, <2>2
  <1>2. Init => SubTypes /\ Tracked /\ InFlight
    BY SubInvInit DEF SubInv
  <1>3. SubTypes /\ Tracked /\ InFlight /\ [Next]_vars
          => (SubTypes /\ Tracked /\ InFlight)'
    <2>1. Tracked => (pc = "loop" => reason = "eof")
      BY DEF Tracked, Loop
    <2> QED BY <2>1, SubTypesStep, TrackedStep, InFlightStep
  <1> QED BY <1>1, <1>2, <1>3, PTL DEF Spec

\* The metadata is the last artifact: whichever write fails and whenever the
\* second signal comes, metadata that claims a complete run has a complete run.
THEOREM MetadataVouches == ASSUME Assumptions PROVE Spec => []MetadataMeansComplete
  <1>1. OnDisk => MetadataMeansComplete
    BY DEF OnDisk
  <1>2. Init => SubTypes /\ OnDisk
    BY SubInvInit DEF SubInv
  <1>3. SubTypes /\ OnDisk /\ [Next]_vars => (SubTypes /\ OnDisk)'
    BY SubTypesStep, OnDiskStep
  <1> QED BY <1>1, <1>2, <1>3, PTL DEF Spec

\* The tracker's counters are exact for what was recorded at every moment, and
\* a run that ends by itself has recorded exactly the distinct numbers asked for.
THEOREM SequenceAlwaysExact == ASSUME Assumptions PROVE Spec => []SequenceExact
  <1>1. SubTypes /\ Tracked => SequenceExact
    BY TrackedIsExact
  <1>2. Init => SubTypes /\ Tracked
    BY SubInvInit DEF SubInv
  <1>3. SubTypes /\ Tracked /\ [Next]_vars => (SubTypes /\ Tracked)'
    BY SubTypesStep, TrackedStep
  <1> QED BY <1>1, <1>2, <1>3, PTL DEF Spec

\* A wall clock that steps by more than the tolerance is noticed by the first
\* message whose latency it falsifies, though that be the first message of all.
THEOREM StepsAlwaysNoticed ==
  ASSUME Assumptions, \A s \in Steps : s > StepTolerance
  PROVE  Spec => []StepNoticed
  <1>1. StepsSeen => StepNoticed
    BY DEF StepsSeen
  <1>2. Init => SubTypes /\ StepsSeen
    BY SubInvInit DEF SubInv
  <1>3. SubTypes /\ StepsSeen /\ [Next]_vars => (SubTypes /\ StepsSeen)'
    BY SubTypesStep, StepsSeenStep
  <1> QED BY <1>1, <1>2, <1>3, PTL DEF Spec

-------------------------------------------------------------------------------
(***************************************************************************)
(* The publisher.  Its specification is independent of the subscriber's:   *)
(* the variables of the same name are its own.                             *)
(***************************************************************************)
CONSTANTS Sec, Absent, Shape, SequenceStart, DropWhenFull, QueueCap, Ahead, ConnectTimeout,
          DrainTimeout, DisconnectTimeout, SwapTimeout, MaxInflight, MaxLinkErrors, Signals,
          Horizon, Prompt
VARIABLES timer, begun, duration, open, queue, bye, inflight, next, due, index, count, trace,
          swap, artifact, summary, since
Pub == INSTANCE Publisher

-----------------------------------------------------------------------------
PubAssumptions == Pub!PublisherAssumption /\ Pub!SecAssumption

\* The places of run_publisher: while it offers, and from then to its report.
Offering == {"loop", "enqueue"}
Closing == {"disconnect", "join", "swap", "report"}
Whole == Shape.duration * Sec

Places ==
    /\ pc \in {"handshake", "drain", "drained"} \cup Offering \cup Closing \cup Pub!Final
    /\ stop \in Signals \cup {"none"} /\ reason \in Signals \cup {"duration", "broker-lost"}

LinkTypes ==
    /\ task \in {"dial", "up", "backoff", "ending", "over"}
    /\ link \in [connects : Nat, acked : Nat, errors : Nat, refused : BOOLEAN]
    /\ queue \in 0 .. QueueCap /\ inflight \in 0 .. MaxInflight

PacerTypes ==
    /\ next \in Nat \cup {Absent} /\ index \in Nat
    /\ due \in Seq(Nat) /\ Len(due) <= Ahead

\* What was handed to the client was not refused and has its lag sample.
CountTypes ==
    /\ count \in [offered : Nat, errors : Nat, lag : Nat, misses : Nat]
    /\ count.errors <= count.offered /\ count.lag = Pub!Enqueued

SwapTypes ==
    /\ swap \in [at : {"none", "sleeping", "posting", "ok", "failed", "cancelled", "aborted"},
                 left : Nat]
    /\ artifact \in {"none", "ok", "error"}

\* The counters collected for the summary are of messages handed over.
SummaryTypes ==
    /\ summary \in Pub!Summaries \cup {Absent}
    /\ pc \in Closing => summary # Absent /\ summary.pending /\ summary.acked <= Pub!Enqueued

\* What the client was given is acknowledged, on its way or lost with a link.
AckBound == link.acked + inflight + queue <= Pub!Enqueued

\* A step is one of these.
LEMMA Split ==
  ASSUME [Pub!Next]_(Pub!vars)
  PROVE  \/ Pub!HandshakeDone \/ Pub!HandshakeStopped \/ Pub!HandshakeFailed
         \/ Pub!TakeTick \/ Pub!Enqueue \/ Pub!Refuse \/ Pub!LoopStopped
         \/ Pub!ScheduleDone \/ Pub!DrainEnds \/ Pub!Snapshot \/ Pub!Disconnect
         \/ Pub!Join \/ Pub!JoinSwap \/ Pub!Report \/ Pub!WriteFails
         \/ (\E s \in Signals : Pub!Signal(s)) \/ Pub!Pace \/ Pub!EventLoop
         \/ Pub!Trigger \/ Pub!Tick \/ UNCHANGED Pub!vars
  BY DEF Pub!Next, Pub!Main

LEMMA PlacesStep == ASSUME PubAssumptions, Places, [Pub!Next]_(Pub!vars) PROVE Places'
  <1> USE DEF Places, Offering, Closing, Pub!Final
  <1>1. CASE Pub!HandshakeDone \/ Pub!HandshakeStopped \/ Pub!HandshakeFailed
    BY <1>1 DEF Pub!HandshakeDone, Pub!HandshakeStopped, Pub!HandshakeFailed, Pub!Begin
  <1>2. CASE Pub!TakeTick \/ Pub!Enqueue \/ Pub!Refuse
    BY <1>2 DEF Pub!TakeTick, Pub!Enqueue, Pub!Refuse
  <1>3. CASE Pub!LoopStopped \/ Pub!ScheduleDone \/ Pub!DrainEnds
    BY <1>3 DEF Pub!LoopStopped, Pub!ScheduleDone, Pub!DrainEnds
  <1>4. CASE Pub!Snapshot \/ Pub!Disconnect \/ Pub!Join
    BY <1>4 DEF Pub!Snapshot, Pub!Disconnect, Pub!Join
  <1>5. CASE Pub!JoinSwap \/ Pub!Report \/ Pub!WriteFails \/ (\E s \in Signals : Pub!Signal(s))
    BY <1>5 DEF Pub!JoinSwap, Pub!Report, Pub!WriteFails, Pub!Signal
  <1>6. CASE Pub!Pace \/ Pub!EventLoop \/ Pub!Trigger
    BY <1>6 DEF Pub!Pace, Pub!EventLoop, Pub!Trigger, Pub!main
  <1>7. CASE Pub!Tick \/ UNCHANGED Pub!vars
    BY <1>7 DEF Pub!Tick, Pub!vars
  <1> QED BY <1>1, <1>2, <1>3, <1>4, <1>5, <1>6, <1>7, Split

LEMMA LinkTypesStep ==
  ASSUME PubAssumptions, LinkTypes, [Pub!Next]_(Pub!vars) PROVE LinkTypes'
  <1>1. CASE UNCHANGED <<task, link, queue, inflight>>
    BY <1>1 DEF LinkTypes
  <1>2. CASE Pub!Enqueue
    BY <1>2 DEF LinkTypes, Pub!Enqueue, PubAssumptions, Pub!PublisherAssumption
  <1>3. CASE Pub!Join
    BY <1>3 DEF LinkTypes, Pub!Join
  <1>4. CASE Pub!EventLoop
    <2> USE DEF LinkTypes
    <2>1. CASE Pub!LinkUp
      BY <2>1 DEF Pub!LinkUp
    <2>6. CASE Pub!LinkRefused
      BY <2>6 DEF Pub!LinkRefused
    <2>2. CASE Pub!LinkFails \/ Pub!LinkRetries
      BY <2>2, 0 \in 0 .. QueueCap, 0 \in 0 .. MaxInflight
         DEF Pub!LinkFails, Pub!LinkRetries, PubAssumptions, Pub!PublisherAssumption
    <2>3. CASE Pub!Send
      BY <2>3 DEF Pub!Send, PubAssumptions, Pub!PublisherAssumption
    <2>4. CASE Pub!Ack
      BY <2>4 DEF Pub!Ack, PubAssumptions, Pub!PublisherAssumption
    <2>5. CASE Pub!TaskEnds
      BY <2>5 DEF Pub!TaskEnds
    <2> QED BY <1>4, <2>1, <2>2, <2>3, <2>4, <2>5, <2>6 DEF Pub!EventLoop
  <1>5. CASE \/ Pub!HandshakeDone \/ Pub!HandshakeStopped \/ Pub!HandshakeFailed
             \/ Pub!TakeTick \/ Pub!LoopStopped \/ Pub!ScheduleDone
    BY <1>1, <1>5 DEF Pub!HandshakeDone, Pub!HandshakeStopped, Pub!HandshakeFailed,
       Pub!TakeTick, Pub!LoopStopped, Pub!ScheduleDone, Pub!net
  <1>6. CASE Pub!Refuse \/ Pub!DrainEnds \/ Pub!Snapshot \/ Pub!Disconnect \/ Pub!JoinSwap
    BY <1>1, <1>6 DEF Pub!Refuse, Pub!DrainEnds, Pub!Snapshot, Pub!Disconnect, Pub!JoinSwap,
       Pub!net
  <1>7. CASE \/ Pub!Report \/ (\E s \in Signals : Pub!Signal(s)) \/ Pub!Pace \/ Pub!Trigger
             \/ Pub!Tick \/ Pub!WriteFails \/ UNCHANGED Pub!vars
    BY <1>1, <1>7 DEF Pub!Report, Pub!WriteFails, Pub!Signal, Pub!Pace, Pub!Trigger, Pub!Tick, Pub!vars, Pub!net
  <1> QED BY <1>2, <1>3, <1>4, <1>5, <1>6, <1>7, Split

\* What a step leaves alone.
LEMMA Frames ==
  ASSUME [Pub!Next]_(Pub!vars)
  PROVE  /\ Pub!Enqueue \/ Pub!Refuse \/ UNCHANGED <<count, trace>>
         /\ Pub!Enqueue \/ Pub!EventLoop \/ UNCHANGED <<link, queue, inflight>>
         /\ \/ Pub!HandshakeDone \/ Pub!HandshakeStopped \/ Pub!TakeTick \/ Pub!Refuse
            \/ Pub!LoopStopped \/ Pub!Pace \/ UNCHANGED <<next, due, index>>
         /\ \/ Pub!HandshakeDone \/ Pub!HandshakeStopped \/ Pub!JoinSwap \/ Pub!Trigger
            \/ Pub!Tick \/ UNCHANGED <<swap, artifact>>
         /\ Pub!Snapshot \/ Pub!Report \/ UNCHANGED summary
         /\ Pub!HandshakeDone \/ Pub!HandshakeStopped \/ UNCHANGED duration
         /\ Pub!Main \/ Pub!WriteFails \/ (\E s \in Signals : Pub!Signal(s))
            \/ UNCHANGED <<pc, reason, stop>>
  <1>1. CASE \/ Pub!HandshakeDone \/ Pub!HandshakeStopped \/ Pub!HandshakeFailed
             \/ Pub!TakeTick \/ Pub!LoopStopped \/ Pub!ScheduleDone
    BY <1>1 DEF Pub!HandshakeDone, Pub!HandshakeStopped, Pub!HandshakeFailed, Pub!Begin,
       Pub!TakeTick, Pub!LoopStopped, Pub!ScheduleDone, Pub!net, Pub!pacer, Pub!trig, Pub!Main
  <1>2. CASE Pub!Enqueue \/ Pub!Refuse \/ Pub!DrainEnds \/ Pub!Snapshot
    BY <1>2 DEF Pub!Enqueue, Pub!Refuse, Pub!DrainEnds, Pub!Snapshot, Pub!net, Pub!pacer,
       Pub!trig, Pub!Main
  <1>3. CASE Pub!Disconnect \/ Pub!Join \/ Pub!JoinSwap \/ Pub!Report \/ Pub!WriteFails
    BY <1>3 DEF Pub!Disconnect, Pub!Join, Pub!JoinSwap, Pub!Report, Pub!WriteFails, Pub!net,
       Pub!pacer, Pub!trig, Pub!Main
  <1>4. CASE (\E s \in Signals : Pub!Signal(s)) \/ UNCHANGED Pub!vars
    BY <1>4 DEF Pub!Signal, Pub!net, Pub!pacer, Pub!trig, Pub!vars
  <1>5. CASE Pub!Pace \/ Pub!EventLoop \/ Pub!Trigger \/ Pub!Tick
    BY <1>5 DEF Pub!Pace, Pub!EventLoop, Pub!Trigger, Pub!Tick, Pub!main, Pub!net, Pub!pacer,
       Pub!trig
  <1> QED BY <1>1, <1>2, <1>3, <1>4, <1>5, Split

\* An iteration counts one message more, handed over or refused.
LEMMA OfferIs ==
  ASSUME CountTypes, NEW failed \in BOOLEAN, Pub!Offer(failed)
  PROVE  /\ CountTypes' /\ count'.offered = count.offered + 1
         /\ Pub!Enqueued' = Pub!Enqueued + (IF failed THEN 0 ELSE 1)
  <1>1. /\ count'.offered = count.offered + 1
        /\ count'.errors = count.errors + (IF failed THEN 1 ELSE 0)
        /\ count'.lag = count.lag + (IF failed THEN 0 ELSE 1)
    BY DEF Pub!Offer
  <1>2. count.offered \in Nat /\ count.errors \in Nat /\ count.lag \in Nat /\ count.misses \in Nat
    BY DEF CountTypes
  <1>3. count' \in [offered : Nat, errors : Nat, lag : Nat, misses : Nat]
    BY <1>2 DEF Pub!Offer
  <1> QED BY <1>1, <1>2, <1>3 DEF CountTypes, Pub!Enqueued

LEMMA CountTypesStep ==
  ASSUME CountTypes, [Pub!Next]_(Pub!vars)
  PROVE  CountTypes' /\ (Pub!Enqueue \/ Pub!Enqueued' = Pub!Enqueued)
  <1>0. Pub!Enqueued \in Int
    BY DEF CountTypes, Pub!Enqueued
  <1>1. CASE Pub!Enqueue
    BY <1>1, OfferIs DEF Pub!Enqueue
  <1>2. CASE Pub!Refuse
    <2>1. CASE "stats" \in open
      <3>1. CountTypes' /\ Pub!Enqueued' = Pub!Enqueued + 0
        BY <1>2, <2>1, OfferIs DEF Pub!Refuse
      <3> QED BY <1>0, <3>1
    <2>2. CASE "stats" \notin open
      BY <1>2, <2>2 DEF Pub!Refuse, CountTypes, Pub!Enqueued
    <2> QED BY <2>1, <2>2
  <1>3. CASE UNCHANGED count
    BY <1>3 DEF CountTypes, Pub!Enqueued
  <1> QED BY <1>1, <1>2, <1>3, Frames

LEMMA AckBoundStep ==
  ASSUME LinkTypes, CountTypes, AckBound, [Pub!Next]_(Pub!vars) PROVE AckBound'
  <1>0. /\ link.acked \in Nat /\ inflight \in Nat /\ queue \in Nat /\ Pub!Enqueued \in Int
    <2>1. count.offered \in Nat /\ count.errors \in Nat
      BY DEF CountTypes
    <2> QED BY <2>1 DEF LinkTypes, Pub!Enqueued
  <1>1. CASE Pub!Enqueue
    <2>1. Pub!Enqueued' = Pub!Enqueued + 1
      BY <1>1, OfferIs DEF Pub!Enqueue
    <2> QED BY <1>0, <1>1, <2>1 DEF Pub!Enqueue, AckBound
  <1>2. CASE Pub!EventLoop
    <2>0. Pub!Enqueued' = Pub!Enqueued
      BY <1>2 DEF Pub!EventLoop, Pub!main, Pub!Enqueued
    <2>1. CASE Pub!LinkUp \/ Pub!LinkRefused \/ Pub!LinkFails
      <3>1. link'.acked = link.acked
        BY <2>1 DEF Pub!LinkUp, Pub!LinkRefused, Pub!LinkFails, LinkTypes
      <3> QED BY <1>0, <2>0, <2>1, <3>1 DEF Pub!LinkUp, Pub!LinkRefused, Pub!LinkFails, AckBound
    <2>2. CASE Pub!LinkRetries \/ Pub!Send \/ Pub!TaskEnds
      BY <1>0, <2>0, <2>2 DEF Pub!LinkRetries, Pub!Send, Pub!TaskEnds, AckBound
    <2>3. CASE Pub!Ack
      <3>1. link'.acked = link.acked + 1
        BY <2>3 DEF Pub!Ack, LinkTypes
      <3> QED BY <1>0, <2>0, <2>3, <3>1 DEF Pub!Ack, AckBound
    <2> QED BY <1>2, <2>1, <2>2, <2>3 DEF Pub!EventLoop
  <1>3. CASE UNCHANGED <<link, queue, inflight>> /\ ~Pub!Enqueue
    BY <1>3, CountTypesStep DEF AckBound
  <1> QED BY <1>1, <1>2, <1>3, Frames

\* A head is taken from a typed channel, and what is appended fits.
LEMMA PacerTypesStep ==
  ASSUME PubAssumptions, PacerTypes, [Pub!Next]_(Pub!vars) PROVE PacerTypes'
  <1> USE DEF PubAssumptions, Pub!PublisherAssumption
  <1>1. CASE Pub!HandshakeDone \/ Pub!HandshakeStopped
    BY <1>1 DEF PacerTypes, Pub!HandshakeDone, Pub!HandshakeStopped, Pub!Begin
  <1>2. CASE Pub!TakeTick
    <2>1. Head(due) \in Nat /\ Tail(due) \in Seq(Nat) /\ Len(Tail(due)) <= Len(due)
      BY <1>2 DEF PacerTypes, Pub!TakeTick
    <2>2. Len(Tail(due)) <= Ahead
      BY <2>1 DEF PacerTypes
    <2> QED BY <1>2, <2>1, <2>2 DEF PacerTypes, Pub!TakeTick
  <1>3. CASE Pub!Refuse \/ Pub!LoopStopped
    <2>1. <<>> \in Seq(Nat) /\ Len(<<>>) <= Ahead
      OBVIOUS
    <2>2. UNCHANGED <<next, index>> /\ due' \in {<<>>, due}
      BY <1>3 DEF Pub!Refuse, Pub!LoopStopped
    <2> QED BY <2>1, <2>2 DEF PacerTypes
  <1>4. CASE Pub!Pace
    <2>1. CASE next' = Absent /\ UNCHANGED <<due, index>>
      BY <2>1 DEF PacerTypes
    <2>2. CASE /\ next' = next + 1 /\ next # Absent /\ due' = Append(due, next)
               /\ Len(due) < Ahead /\ UNCHANGED index
      BY <2>2 DEF PacerTypes
    <2> QED BY <1>4, <2>1, <2>2 DEF Pub!Pace, Pub!main
  <1>5. CASE UNCHANGED <<next, due, index>>
    BY <1>5 DEF PacerTypes
  <1> QED BY <1>1, <1>2, <1>3, <1>4, <1>5, Frames

LEMMA SwapTypesStep ==
  ASSUME PubAssumptions, SwapTypes, [Pub!Next]_(Pub!vars) PROVE SwapTypes'
  <1>1. CASE Pub!HandshakeDone \/ Pub!HandshakeStopped
    BY <1>1 DEF SwapTypes, Pub!HandshakeDone, Pub!HandshakeStopped, Pub!Begin
  <1>2. CASE Pub!JoinSwap
    BY <1>2 DEF SwapTypes, Pub!JoinSwap
  <1>3. CASE Pub!Trigger
    <2>1. CASE Pub!SwapFires
      BY <2>1 DEF SwapTypes, Pub!SwapFires, PubAssumptions, Pub!PublisherAssumption
    <2>2. CASE Pub!SwapAnswers
      BY <2>2 DEF SwapTypes, Pub!SwapAnswers
    <2> QED BY <1>3, <2>1, <2>2 DEF Pub!Trigger
  <1>4. CASE Pub!Tick
    BY <1>4 DEF SwapTypes, Pub!Tick, Pub!Dec
  <1>5. CASE UNCHANGED <<swap, artifact>>
    BY <1>5 DEF SwapTypes
  <1> QED BY <1>1, <1>2, <1>3, <1>4, <1>5, Frames

-----------------------------------------------------------------------------
\* The message that is offered next, and what the pacer is ahead of it.
Turn == count.offered + (IF pc = "enqueue" THEN 1 ELSE 0)
Stamped == Turn + Len(due)

\* While run_publisher offers, the messages come in their order.
Ordered ==
    /\ pc = "handshake" => due = <<>> /\ count.offered = 0 /\ next = Absent
    /\ pc = "enqueue" => index = count.offered
    /\ pc \in Offering =>
          /\ \A i \in 1 .. Len(due) : due[i] = Turn + i - 1
          /\ next # Absent => next = Stamped

LEMMA OrderedStep ==
  ASSUME PubAssumptions, Places, PacerTypes, CountTypes, Ordered, [Pub!Next]_(Pub!vars)
  PROVE  Ordered'
  <1>0. /\ count.offered \in Nat /\ due \in Seq(Nat) /\ next \in Nat \cup {Absent}
        /\ Absent \notin Nat /\ Len(due) \in Nat
    BY DEF CountTypes, PacerTypes, PubAssumptions, Pub!PublisherAssumption
  <1>1. CASE Pub!HandshakeDone \/ Pub!HandshakeStopped
    <2>1. pc = "handshake" /\ pc' = "loop" /\ next' = 0 /\ UNCHANGED <<due, count>>
      BY <1>1 DEF Pub!HandshakeDone, Pub!HandshakeStopped, Pub!Begin
    <2>2. due' = <<>> /\ count'.offered = 0
      BY <2>1 DEF Ordered
    <2> QED BY <2>1, <2>2 DEF Ordered, Turn, Stamped, Offering
  <1>2. CASE Pub!TakeTick
    <2>1. /\ pc = "loop" /\ pc' = "enqueue" /\ due # <<>> /\ index' = Head(due)
          /\ due' = Tail(due) /\ UNCHANGED <<next, count>>
      BY <1>2 DEF Pub!TakeTick
    <2>2. /\ \A i \in 1 .. Len(due) : due[i] = count.offered + i - 1
          /\ next # Absent => next = count.offered + Len(due)
      BY <1>0, <2>1 DEF Ordered, Turn, Stamped, Offering
    <2>3. /\ Len(due) >= 1 /\ Len(Tail(due)) = Len(due) - 1
          /\ \A i \in 1 .. Len(due) - 1 : Tail(due)[i] = due[i + 1]
      BY <1>0, <2>1
    <2>4. index' = count'.offered
      BY <1>0, <2>1, <2>2, <2>3
    <2>5. \A i \in 1 .. Len(due') : due'[i] = count.offered + 1 + i - 1
      BY <1>0, <2>1, <2>2, <2>3
    <2>6. next' # Absent => next' = count.offered + 1 + Len(due')
      BY <1>0, <2>1, <2>2, <2>3
    <2> QED BY <2>1, <2>4, <2>5, <2>6 DEF Ordered, Turn, Stamped, Offering
  <1>3. CASE Pub!Enqueue
    <2>1. /\ pc = "enqueue" /\ pc' = "loop" /\ count'.offered = count.offered + 1
          /\ UNCHANGED <<next, due, index>>
      BY <1>3, OfferIs DEF Pub!Enqueue, Pub!pacer
    <2> QED BY <1>0, <2>1 DEF Ordered, Turn, Stamped, Offering
  <1>4. CASE Pub!Refuse
    <2>1. CASE "stats" \in open
      <3>1. /\ pc = "enqueue" /\ pc' = "loop" /\ count'.offered = count.offered + 1
            /\ UNCHANGED <<next, due, index>>
        BY <1>4, <2>1, OfferIs DEF Pub!Refuse
      <3> QED BY <1>0, <3>1 DEF Ordered, Turn, Stamped, Offering
    <2>2. CASE "stats" \notin open
      BY <1>4, <2>2 DEF Pub!Refuse, Ordered, Offering
    <2> QED BY <2>1, <2>2
  <1>5. CASE Pub!LoopStopped
    BY <1>5 DEF Pub!LoopStopped, Ordered, Offering
  <1>6. CASE Pub!Pace
    <2>0. next # Absent /\ UNCHANGED <<pc, count, index>>
      BY <1>6 DEF Pub!Pace, Pub!main
    <2>1. CASE next' = Absent /\ UNCHANGED due
      BY <2>0, <2>1 DEF Ordered, Turn, Stamped, Offering
    <2>2. CASE next' = next + 1 /\ due' = Append(due, next) /\ pc \in Offering
      <3>1. /\ Len(due') = Len(due) + 1 /\ due'[Len(due) + 1] = next
            /\ \A i \in 1 .. Len(due) : due'[i] = due[i]
        BY <1>0, <2>0, <2>2
      <3>2. next = Stamped /\ Turn \in Nat /\ \A i \in 1 .. Len(due) : due[i] = Turn + i - 1
        BY <1>0, <2>0, <2>2 DEF Ordered, Turn
      <3>3. next = Turn + Len(due)
        BY <3>2 DEF Stamped
      <3>4. Turn' = Turn
        BY <2>0 DEF Turn
      <3>5. \A i \in 1 .. Len(due') : due'[i] = Turn + i - 1
        <4> TAKE i \in 1 .. Len(due')
        <4>1. CASE i = Len(due) + 1
          BY <1>0, <3>1, <3>2, <3>3, <4>1
        <4>2. CASE i # Len(due) + 1
          <5>1. i \in 1 .. Len(due)
            BY <1>0, <3>1, <4>2
          <5> QED BY <3>1, <3>2, <5>1
        <4> QED BY <4>1, <4>2
      <3>6. next' = Turn + Len(due')
        BY <1>0, <2>2, <3>1, <3>2, <3>3
      <3>7. pc' # "handshake" /\ (pc' = "enqueue" => index' = count'.offered)
        BY <2>0, <2>2 DEF Ordered, Offering
      <3> QED BY <3>4, <3>5, <3>6, <3>7 DEF Ordered, Stamped
    <2> QED BY <1>6, <2>1, <2>2 DEF Pub!Pace, Offering
  <1>7. CASE UNCHANGED <<next, due, index, count>> /\ (pc' = pc \/ pc' \notin Offering \cup {"handshake"})
    BY <1>7 DEF Ordered, Turn, Stamped, Offering
  <1>8. CASE Pub!HandshakeFailed \/ Pub!ScheduleDone \/ Pub!DrainEnds \/ Pub!WriteFails
    <2>1. pc' \notin Offering \cup {"handshake"}
      BY <1>8 DEF Pub!HandshakeFailed, Pub!WriteFails, Pub!ScheduleDone, Pub!DrainEnds, Offering
    <2> QED BY <2>1 DEF Ordered, Offering
  <1>9. CASE Pub!Snapshot \/ Pub!Disconnect \/ Pub!Join \/ Pub!JoinSwap \/ Pub!Report
    <2>1. pc' \notin Offering \cup {"handshake"}
      BY <1>9 DEF Pub!Snapshot, Pub!Disconnect, Pub!Join, Pub!JoinSwap, Pub!Report, Offering
    <2> QED BY <2>1 DEF Ordered, Offering
  <1>10. CASE (\E s \in Signals : Pub!Signal(s)) \/ Pub!EventLoop
    BY <1>7, <1>10 DEF Pub!Signal, Pub!EventLoop, Pub!main, Pub!pacer, Offering
  <1>11. CASE Pub!Trigger \/ Pub!Tick \/ UNCHANGED Pub!vars
    BY <1>7, <1>11 DEF Pub!Trigger, Pub!Tick, Pub!vars, Pub!main, Pub!pacer
  <1> QED BY <1>1, <1>2, <1>3, <1>4, <1>5, <1>6, <1>8, <1>9, <1>10, <1>11, Split

-----------------------------------------------------------------------------
\* A schedule of duration d has n messages.
HasMessages(d, n) == (\A k \in 0 .. n - 1 : Pub!Offset[k] < d) /\ Pub!Offset[n] >= d

Running == Offering \cup {"drain", "drained"} \cup Closing

\* No message of the schedule is passed over, and a run that goes on past the
\* last is the whole schedule's.
Covered ==
    /\ pc \in Offering =>
          /\ \A k \in 0 .. Stamped - 1 : Pub!Offset[k] < duration
          /\ next = Absent => Pub!Offset[Stamped] >= duration
    /\ pc \in Running /\ reason = "duration" =>
          /\ duration = Whole
          /\ pc \notin Offering => HasMessages(duration, count.offered)

\* A process that has ended does nothing more.
LEMMA FinalStays ==
  ASSUME pc \in Pub!Final, [Pub!Next]_(Pub!vars) PROVE UNCHANGED Pub!vars
  <1> USE DEF Pub!Final
  <1>1. ~(Pub!HandshakeDone \/ Pub!HandshakeStopped \/ Pub!HandshakeFailed \/ Pub!TakeTick)
    BY DEF Pub!HandshakeDone, Pub!HandshakeStopped, Pub!HandshakeFailed, Pub!TakeTick
  <1>2. ~(Pub!Enqueue \/ Pub!Refuse \/ Pub!LoopStopped \/ Pub!ScheduleDone \/ Pub!DrainEnds)
    BY DEF Pub!Enqueue, Pub!Refuse, Pub!LoopStopped, Pub!ScheduleDone, Pub!DrainEnds
  <1>3. ~(Pub!Snapshot \/ Pub!Disconnect \/ Pub!Join \/ Pub!JoinSwap \/ Pub!Report \/ Pub!WriteFails)
    BY DEF Pub!Snapshot, Pub!Disconnect, Pub!Join, Pub!JoinSwap, Pub!Report, Pub!WriteFails
  <1>4. ~((\E s \in Signals : Pub!Signal(s)) \/ Pub!Pace \/ Pub!EventLoop \/ Pub!Trigger \/ Pub!Tick)
    BY DEF Pub!Signal, Pub!Pace, Pub!EventLoop, Pub!Trigger, Pub!Tick
  <1> QED BY <1>1, <1>2, <1>3, <1>4, Split

\* Where run_publisher is before and after each of its steps.
LEMMA Moves ==
  ASSUME PubAssumptions
  PROVE  /\ Pub!HandshakeDone => pc = "handshake" /\ pc' = "loop" /\ reason' = reason
         /\ Pub!HandshakeStopped => pc = "handshake" /\ pc' = "loop" /\ reason' = stop /\ stop # "none"
         /\ Pub!HandshakeFailed => pc = "handshake" /\ pc' = "failed" /\ reason' = reason
         /\ Pub!TakeTick => pc = "loop" /\ pc' = "enqueue" /\ reason' = reason
         /\ Pub!Enqueue => pc = "enqueue" /\ pc' = "loop" /\ reason' = reason
         /\ Pub!Refuse => /\ pc = "enqueue"
                          /\ \/ pc' = "loop" /\ reason' = reason
                             \/ pc' = "drained" /\ reason' = "broker-lost"
         /\ Pub!LoopStopped => /\ pc \in Offering /\ pc' = "drained"
                               /\ reason' = stop /\ stop # "none"
         /\ Pub!ScheduleDone => pc = "loop" /\ pc' \in {"drain", "drained"} /\ reason' = reason
         /\ Pub!DrainEnds => /\ pc = "drain" /\ pc' = "drained"
                             /\ reason' = reason \/ (reason' = stop /\ stop # "none")
         /\ Pub!Snapshot => pc = "drained" /\ pc' = "disconnect" /\ reason' = reason
         /\ Pub!Disconnect => pc = "disconnect" /\ pc' = "join" /\ reason' = reason
         /\ Pub!Join => pc = "join" /\ pc' = "swap" /\ reason' = reason
         /\ Pub!JoinSwap => pc = "swap" /\ pc' = "report" /\ reason' = reason
         /\ Pub!Report => pc = "report" /\ pc' \in {"ok", "failed"} /\ reason' = reason
         /\ Pub!WriteFails => /\ pc \in {"handshake", "report"} \cup Offering
                              /\ pc' = "unwritten" /\ reason' = reason
         /\ \A s \in Signals : Pub!Signal(s) => pc' \in {pc, "killed"} /\ reason' = reason
         /\ Pub!Pace \/ Pub!EventLoop \/ Pub!Trigger \/ Pub!Tick \/ UNCHANGED Pub!vars
               => pc' = pc /\ reason' = reason
  <1>1. Pub!HandshakeDone => pc = "handshake" /\ pc' = "loop" /\ reason' = reason
    BY DEF Pub!HandshakeDone, Pub!Begin
  <1>2. Pub!HandshakeStopped => pc = "handshake" /\ pc' = "loop" /\ reason' = stop /\ stop # "none"
    BY DEF Pub!HandshakeStopped, Pub!Begin
  <1>3. Pub!HandshakeFailed => pc = "handshake" /\ pc' = "failed" /\ reason' = reason
    BY DEF Pub!HandshakeFailed
  <1>4. /\ Pub!TakeTick => pc = "loop" /\ pc' = "enqueue" /\ reason' = reason
        /\ Pub!Enqueue => pc = "enqueue" /\ pc' = "loop" /\ reason' = reason
    BY DEF Pub!TakeTick, Pub!Enqueue
  <1>5. Pub!Refuse => /\ pc = "enqueue"
                      /\ \/ pc' = "loop" /\ reason' = reason
                         \/ pc' = "drained" /\ reason' = "broker-lost"
    BY DEF Pub!Refuse
  <1>6. /\ Pub!LoopStopped => /\ pc \in Offering /\ pc' = "drained"
                              /\ reason' = stop /\ stop # "none"
        /\ Pub!ScheduleDone => pc = "loop" /\ pc' \in {"drain", "drained"} /\ reason' = reason
        /\ Pub!DrainEnds => /\ pc = "drain" /\ pc' = "drained"
                            /\ reason' = reason \/ (reason' = stop /\ stop # "none")
    BY DEF Pub!LoopStopped, Pub!ScheduleDone, Pub!DrainEnds, Offering
  <1>7. /\ Pub!Snapshot => pc = "drained" /\ pc' = "disconnect" /\ reason' = reason
        /\ Pub!Disconnect => pc = "disconnect" /\ pc' = "join" /\ reason' = reason
        /\ Pub!Join => pc = "join" /\ pc' = "swap" /\ reason' = reason
        /\ Pub!JoinSwap => pc = "swap" /\ pc' = "report" /\ reason' = reason
    BY DEF Pub!Snapshot, Pub!Disconnect, Pub!Join, Pub!JoinSwap
  <1>8. Pub!Report => pc = "report" /\ pc' \in {"ok", "failed"} /\ reason' = reason
    BY DEF Pub!Report
  <1>9. \A s \in Signals : Pub!Signal(s) => pc' \in {pc, "killed"} /\ reason' = reason
    BY DEF Pub!Signal
  <1>10. Pub!Pace \/ Pub!EventLoop \/ Pub!Trigger \/ Pub!Tick \/ UNCHANGED Pub!vars
           => pc' = pc /\ reason' = reason
    BY DEF Pub!Pace, Pub!EventLoop, Pub!Trigger, Pub!Tick, Pub!vars, Pub!main
  <1>11. Pub!WriteFails => /\ pc \in {"handshake", "report"} \cup Offering
                           /\ pc' = "unwritten" /\ reason' = reason
    BY DEF Pub!WriteFails, Offering
  <1> QED BY <1>1, <1>2, <1>3, <1>4, <1>5, <1>6, <1>7, <1>8, <1>9, <1>10, <1>11

\* Who changes the reason, and what comes before each place.
LEMMA Steers ==
  ASSUME PubAssumptions, Places, [Pub!Next]_(Pub!vars)
  PROVE  /\ \/ reason' = reason
            \/ Pub!Refuse /\ reason' = "broker-lost" /\ pc' = "drained"
            \/ reason' \in Signals /\ pc \in Offering \cup {"handshake", "drain"}
         /\ pc' \in Running => pc \in Running \/ Pub!HandshakeDone \/ Pub!HandshakeStopped
         /\ pc' \in Running \ Offering =>
              Pub!Refuse \/ Pub!LoopStopped \/ Pub!ScheduleDone \/ pc \in Running \ Offering
         /\ pc' \in Offering =>
              Pub!HandshakeDone \/ Pub!HandshakeStopped \/ (pc \in Offering /\ reason' = reason)
         /\ pc' \in Closing => Pub!Snapshot \/ pc \in Closing
         /\ pc' = "report" => Pub!JoinSwap \/ pc = "report"
         /\ pc' \in {"ok", "failed"} =>
              Pub!Report \/ Pub!HandshakeFailed \/ pc \in {"ok", "failed"}
         /\ pc' = "handshake" => pc = "handshake"
  <1> USE Moves DEF Offering, Closing, Running
  <1>0. stop # "none" => stop \in Signals
    BY DEF Places
  <1>1. CASE Pub!HandshakeDone \/ Pub!HandshakeStopped \/ Pub!HandshakeFailed
    BY <1>0, <1>1
  <1>2. CASE Pub!TakeTick \/ Pub!Enqueue \/ Pub!Refuse
    BY <1>0, <1>2
  <1>3. CASE Pub!LoopStopped \/ Pub!ScheduleDone \/ Pub!DrainEnds
    BY <1>0, <1>3
  <1>4. CASE Pub!Snapshot \/ Pub!Disconnect \/ Pub!Join \/ Pub!JoinSwap \/ Pub!Report \/ Pub!WriteFails
    BY <1>0, <1>4
  <1>5. CASE (\E s \in Signals : Pub!Signal(s))
    BY <1>0, <1>5
  <1>6. CASE Pub!Pace \/ Pub!EventLoop \/ Pub!Trigger \/ Pub!Tick \/ UNCHANGED Pub!vars
    BY <1>0, <1>6
  <1> QED BY <1>1, <1>2, <1>3, <1>4, <1>5, <1>6, Split

LEMMA CoveredStep ==
  ASSUME PubAssumptions, Places, PacerTypes, CountTypes, Ordered, Covered,
         [Pub!Next]_(Pub!vars)
  PROVE  Covered'
  <1>0. /\ count.offered \in Nat /\ due \in Seq(Nat) /\ next \in Nat \cup {Absent}
        /\ Absent \notin Nat /\ Len(due) \in Nat /\ "duration" \notin Signals
    BY DEF CountTypes, PacerTypes, PubAssumptions, Pub!PublisherAssumption
  <1>1. CASE Pub!HandshakeDone \/ Pub!HandshakeStopped
    <2>1. pc = "handshake" /\ pc' = "loop" /\ next' = 0 /\ UNCHANGED <<due, count>>
      BY <1>1 DEF Pub!HandshakeDone, Pub!HandshakeStopped, Pub!Begin
    <2>2. Stamped' = 0
      BY <2>1 DEF Ordered, Stamped, Turn
    <2>3. reason' = "duration" => duration' = Whole
      BY <1>0, <1>1 DEF Pub!HandshakeDone, Pub!HandshakeStopped, Pub!Begin, Places, Whole
    <2>4. next' # Absent /\ pc' \in Offering
      BY <1>0, <2>1 DEF Offering
    <2> QED BY <2>2, <2>3, <2>4 DEF Covered
  <1>2. ASSUME UNCHANGED duration PROVE Covered'
    <2>1. pc' \in Running /\ reason' = "duration" => duration' = Whole
      BY <1>0, <1>1, <1>2, Steers DEF Covered
    <2>2. ASSUME pc' \in Offering, pc \in Offering, ~Pub!HandshakeDone, ~Pub!HandshakeStopped
          PROVE  /\ \A k \in 0 .. Stamped' - 1 : Pub!Offset[k] < duration
                 /\ next' = Absent => Pub!Offset[Stamped'] >= duration
      <3>0. /\ \A k \in 0 .. Stamped - 1 : Pub!Offset[k] < duration
            /\ next = Absent => Pub!Offset[Stamped] >= duration
            /\ Stamped \in Nat /\ (next # Absent => next = Stamped)
        BY <1>0, <2>2 DEF Covered, Ordered, Stamped, Turn
      <3>1. CASE Pub!Pace
        <4>1. UNCHANGED <<pc, count>> /\ next # Absent
          BY <3>1 DEF Pub!Pace, Pub!main
        <4>2. CASE next' = Absent /\ UNCHANGED due /\ Pub!Offset[next] >= duration
          <5>1. Stamped' = Stamped
            BY <4>1, <4>2 DEF Stamped, Turn
          <5> QED BY <3>0, <4>1, <4>2, <5>1
        <4>3. CASE next' = next + 1 /\ due' = Append(due, next) /\ Pub!Offset[next] < duration
          <5>1. Len(due') = Len(due) + 1
            BY <1>0, <4>1, <4>3
          <5>2. Stamped' = Stamped + 1
            BY <1>0, <4>1, <5>1 DEF Stamped, Turn
          <5>3. next' # Absent
            BY <1>0, <4>1, <4>3
          <5>4. \A k \in 0 .. Stamped : k \in 0 .. Stamped - 1 \/ k = next
            BY <3>0, <4>1
          <5>5. Stamped' - 1 = Stamped
            BY <3>0, <5>2
          <5> QED BY <3>0, <4>3, <5>3, <5>4, <5>5
        <4> QED BY <2>2, <3>1, <4>1, <4>2, <4>3 DEF Pub!Pace, Offering
      <3>2. CASE UNCHANGED next /\ Stamped' = Stamped
        BY <3>0, <3>2
      <3>3. CASE Pub!TakeTick
        <4>1. /\ pc = "loop" /\ pc' = "enqueue" /\ UNCHANGED <<next, count>>
              /\ due # <<>> /\ due' = Tail(due)
          BY <3>3 DEF Pub!TakeTick
        <4>2. Len(due') = Len(due) - 1
          BY <1>0, <4>1
        <4> QED BY <1>0, <3>2, <4>1, <4>2 DEF Stamped, Turn
      <3>4. CASE Pub!Enqueue \/ Pub!Refuse
        <4>1. pc = "enqueue" /\ pc' = "loop" /\ UNCHANGED <<next, due>>
              /\ count'.offered = count.offered + 1
          <5>1. CASE Pub!Enqueue
            BY <5>1, OfferIs DEF Pub!Enqueue, Pub!pacer
          <5>2. CASE Pub!Refuse
            <6>1. "stats" \in open
              BY <2>2, <5>2 DEF Pub!Refuse, Offering
            <6> QED BY <5>2, <6>1, OfferIs DEF Pub!Refuse
          <5> QED BY <3>4, <5>1, <5>2
        <4> QED BY <1>0, <3>2, <4>1 DEF Stamped, Turn
      <3>5. ~Pub!LoopStopped
        BY <2>2, Moves DEF Offering
      <3>6. CASE UNCHANGED <<next, due, count, pc>>
        BY <3>2, <3>6 DEF Stamped, Turn
      <3>7. pc' = pc \/ Pub!TakeTick \/ Pub!Enqueue \/ Pub!Refuse
        BY <2>2, Moves, Split DEF Offering
      <3> QED BY <2>2, <3>1, <3>3, <3>4, <3>5, <3>6, <3>7, Frames
    <2>3. ASSUME pc' \in Running \ Offering, reason' = "duration",
                 ~Pub!HandshakeDone, ~Pub!HandshakeStopped
          PROVE  HasMessages(duration', count'.offered)
      <3>1. CASE Pub!ScheduleDone
        <4>1. /\ pc = "loop" /\ due = <<>> /\ next = Absent /\ UNCHANGED count
          BY <3>1 DEF Pub!ScheduleDone
        <4>2. Stamped = count.offered
          BY <1>0, <4>1 DEF Stamped, Turn
        <4> QED BY <1>2, <4>1, <4>2 DEF Covered, HasMessages, Offering
      <3>2. ~Pub!Refuse /\ ~Pub!LoopStopped
        <4>1. ~Pub!Refuse
          BY <2>3, Moves DEF Running, Offering
        <4>2. ~Pub!LoopStopped
          BY <1>0, <2>3, Moves DEF Places
        <4> QED BY <4>1, <4>2
      <3>3. CASE pc \in Running \ Offering
        <4>1. reason = "duration"
          BY <1>0, <2>3, Steers
        <4>2. ~Pub!Enqueue
          BY <3>3, Moves DEF Offering
        <4>3. UNCHANGED count
          BY <3>2, <4>2, Frames
        <4> QED BY <1>2, <3>3, <4>1, <4>3 DEF Covered, HasMessages
      <3> QED BY <2>3, <3>1, <3>2, <3>3, Steers
    <2> QED BY <1>1, <1>2, <2>1, <2>2, <2>3, Steers DEF Covered, Running
  <1> QED BY <1>1, <1>2, Frames

-----------------------------------------------------------------------------
\* The rows of the trace file.
Rows == {<<SequenceStart + k, Pub!Offset[k]>> : k \in Nat}

Traced ==
    /\ trace \in Seq(Rows) /\ Pub!TraceIsSchedule
    /\ reason = "broker-lost" => pc \notin Offering \cup {"handshake", "drain"}

LEMMA TracedStep ==
  ASSUME PubAssumptions, Places, CountTypes, Ordered, Traced, [Pub!Next]_(Pub!vars)
  PROVE  Traced'
  <1>0. /\ count.offered \in Nat /\ SequenceStart \in Nat /\ "broker-lost" \notin Signals
        /\ trace \in Seq(Rows) /\ Len(trace) \in Nat /\ DOMAIN trace = 1 .. Len(trace)
        /\ \A i \in 1 .. Len(trace) : trace[i] = <<SequenceStart + i - 1, Pub!Offset[i - 1]>>
        /\ Len(trace) = count.offered + (IF reason = "broker-lost" THEN 1 ELSE 0)
    <2>1. count.offered \in Nat /\ SequenceStart \in Nat /\ "broker-lost" \notin Signals
      BY DEF CountTypes, PubAssumptions, Pub!PublisherAssumption
    <2>2. trace \in Seq(Rows) /\ Pub!TraceIsSchedule
      BY DEF Traced
    <2>3. Len(trace) \in Nat /\ DOMAIN trace = 1 .. Len(trace)
      BY <2>2, LenProperties
    <2> QED BY <2>1, <2>2, <2>3 DEF Pub!TraceIsSchedule
  <1>1. reason' = "broker-lost" => pc' \notin Offering \cup {"handshake", "drain"}
    <2> SUFFICES ASSUME reason' = "broker-lost" PROVE pc' \notin Offering \cup {"handshake", "drain"}
      OBVIOUS
    <2>1. CASE pc' = "drained"
      BY <2>1 DEF Offering
    <2>2. CASE reason = "broker-lost"
      <3>1. pc \notin Offering \cup {"handshake", "drain"}
        BY <2>2 DEF Traced
      <3>2. pc' # "drain"
        BY <3>1, Moves, Split DEF Offering
      <3> QED BY <3>1, <3>2, Steers, Moves
    <2> QED BY <1>0, <2>1, <2>2, Steers
  <1>2. ASSUME Pub!Enqueue \/ Pub!Refuse, trace' = Append(trace, Pub!Row(index))
        PROVE  /\ trace' \in Seq(Rows) /\ Len(trace') = count.offered + 1
               /\ \A i \in DOMAIN trace' :
                      trace'[i] = <<SequenceStart + i - 1, Pub!Offset[i - 1]>>
    <2>1. pc = "enqueue"
      BY <1>2, Moves
    <2>2. index = count.offered /\ reason # "broker-lost"
      BY <2>1 DEF Ordered, Traced, Offering
    <2>3. Len(trace) = count.offered
      BY <1>0, <2>2
    <2>4. Pub!Row(index) = <<SequenceStart + count.offered, Pub!Offset[count.offered]>>
      BY <2>2 DEF Pub!Row
    <2>5. Pub!Row(index) \in Rows
      BY <1>0, <2>4 DEF Rows
    <2>6. /\ trace' \in Seq(Rows) /\ Len(trace') = Len(trace) + 1
          /\ DOMAIN trace' = 1 .. Len(trace) + 1
          /\ \A i \in 1 .. Len(trace) : trace'[i] = trace[i]
          /\ trace'[Len(trace) + 1] = Pub!Row(index)
      BY <1>0, <1>2, <2>5
    <2>7. ASSUME NEW i \in 1 .. Len(trace) + 1
          PROVE  trace'[i] = <<SequenceStart + i - 1, Pub!Offset[i - 1]>>
      <3>1. CASE i = Len(trace) + 1
        <4>1. i - 1 = count.offered /\ SequenceStart + i - 1 = SequenceStart + count.offered
          BY <1>0, <2>3, <3>1
        <4> QED BY <2>4, <2>6, <3>1, <4>1
      <3>2. CASE i # Len(trace) + 1
        <4>1. i \in 1 .. Len(trace)
          BY <1>0, <3>2
        <4> QED BY <1>0, <2>6, <4>1
      <3> QED BY <3>1, <3>2
    <2> QED BY <2>3, <2>6, <2>7
  <1>3. CASE Pub!Enqueue
    <2>1. /\ trace' = Append(trace, Pub!Row(index)) /\ count'.offered = count.offered + 1
          /\ reason' = reason /\ reason # "broker-lost"
      BY <1>3, OfferIs, Moves DEF Pub!Enqueue, Traced, Offering
    <2> QED BY <1>0, <1>1, <1>2, <1>3, <2>1 DEF Traced, Pub!TraceIsSchedule
  <1>4. CASE Pub!Refuse
    <2>1. trace' = Append(trace, Pub!Row(index)) /\ reason # "broker-lost"
      BY <1>4, Moves DEF Pub!Refuse, Traced, Offering
    <2>2. Len(trace') = count'.offered + (IF reason' = "broker-lost" THEN 1 ELSE 0)
      <3>1. CASE "stats" \in open
        <4>1. Pub!Offer(TRUE) /\ reason' = reason
          BY <1>4, <3>1 DEF Pub!Refuse
        <4>2. count'.offered = count.offered + 1
          BY <4>1, OfferIs
        <4>3. Len(trace') = count.offered + 1
          BY <1>2, <1>4, <2>1
        <4> QED BY <1>0, <2>1, <4>1, <4>2, <4>3
      <3>2. CASE "stats" \notin open
        BY <1>2, <1>4, <2>1, <3>2 DEF Pub!Refuse
      <3> QED BY <3>1, <3>2
    <2> QED BY <1>1, <1>2, <1>4, <2>1, <2>2 DEF Traced, Pub!TraceIsSchedule
  <1>5. CASE UNCHANGED <<count, trace>> /\ ~Pub!Refuse
    <2>1. reason' = "broker-lost" <=> reason = "broker-lost"
      BY <1>0, <1>5, Steers DEF Traced
    <2> QED BY <1>1, <1>5, <2>1 DEF Traced, Pub!TraceIsSchedule
  <1> QED BY <1>3, <1>4, <1>5, Frames

-----------------------------------------------------------------------------
\* The summary that is written is one.
LEMMA ReportIs ==
  ASSUME PubAssumptions, Places, CountTypes, SummaryTypes, Pub!Report
  PROVE  summary' \in Pub!Summaries /\ summary' # Absent /\ summary'.pending = FALSE
  <1>1. /\ count.offered \in Nat /\ count.errors \in Nat /\ count.lag \in Nat
        /\ Pub!Enqueued \in Nat
    BY DEF CountTypes, Pub!Enqueued
  <1>2. pc = "report" /\ pc \in Closing
    BY DEF Pub!Report, Closing
  <1>3. summary.pending = TRUE /\ summary \in Pub!Summaries
    BY <1>2 DEF SummaryTypes, Pub!Summaries
  <1>4. summary.acked \in Nat /\ summary.connects \in Nat
    BY <1>3 DEF Pub!Summaries
  <1>5. reason \in Signals \cup {"duration", "broker-lost"}
    BY DEF Places
  <1>6. (IF Pub!Enqueued > summary.acked THEN Pub!Enqueued - summary.acked ELSE 0) \in Nat
    BY <1>1, <1>4
  <1>7. summary' \in Pub!Summaries /\ summary'.pending = FALSE
    BY <1>1, <1>4, <1>5, <1>6 DEF Pub!Report, Pub!Summaries
  <1> QED BY <1>7 DEF PubAssumptions, Pub!PublisherAssumption

\* What the summary is collected from and written as.
LEMMA SummaryTypesStep ==
  ASSUME PubAssumptions, Places, LinkTypes, CountTypes, AckBound, SummaryTypes,
         [Pub!Next]_(Pub!vars)
  PROVE  SummaryTypes'
  <1>0. /\ link.acked \in Nat /\ link.connects \in Nat /\ inflight \in Nat /\ queue \in Nat
        /\ count.offered \in Nat /\ count.errors \in Nat /\ count.lag \in Nat
        /\ count.errors <= count.offered /\ Pub!Enqueued = count.offered - count.errors
    BY DEF LinkTypes, CountTypes, Pub!Enqueued
  <1>1. CASE Pub!Snapshot
    <2>1. /\ summary' = [pending |-> TRUE, acked |-> link.acked, connects |-> link.connects]
          /\ UNCHANGED count
      BY <1>1 DEF Pub!Snapshot
    <2>2. summary' \in Pub!Summaries /\ summary'.pending /\ summary'.acked = link.acked
      BY <1>0, <2>1 DEF Pub!Summaries
    <2>3. link.acked <= Pub!Enqueued' /\ Pub!Enqueued' = Pub!Enqueued
      BY <1>0, <2>1 DEF AckBound, Pub!Enqueued
    <2>4. summary' # Absent
      BY <2>2 DEF PubAssumptions, Pub!PublisherAssumption
    <2> QED BY <2>2, <2>3, <2>4 DEF SummaryTypes
  <1>2. CASE Pub!Report
    <2>1. pc' \notin Closing
      BY <1>2 DEF Pub!Report, Closing
    <2> QED BY <1>2, <2>1, ReportIs DEF SummaryTypes
  <1>3. CASE UNCHANGED summary /\ ~Pub!Snapshot
    <2>1. ASSUME pc' \in Closing
          PROVE  summary # Absent /\ summary.pending /\ summary.acked <= Pub!Enqueued'
      <3>1. pc \in Closing
        BY <1>3, <2>1, Steers
      <3>2. ~Pub!Enqueue
        BY <3>1, Moves DEF Closing
      <3> QED BY <3>1, <3>2, CountTypesStep DEF SummaryTypes
    <2> QED BY <1>3, <2>1 DEF SummaryTypes
  <1> QED BY <1>1, <1>2, <1>3, Frames

\* A summary that was written reconciles, and is of a whole schedule when it
\* says that the schedule completed.
Summed ==
    summary # Absent /\ ~summary.pending =>
        /\ pc \in {"ok", "failed"}
        /\ summary.intended = summary.rejected + summary.enqueued
        /\ summary.enqueued = summary.acked + summary.unacked
        /\ summary.lag = summary.enqueued
        /\ summary.reason = "duration" => HasMessages(Whole, summary.intended)

LEMMA SummedStep ==
  ASSUME PubAssumptions, Places, CountTypes, SummaryTypes, Covered, Summed,
         [Pub!Next]_(Pub!vars)
  PROVE  Summed'
  <1>1. CASE Pub!Snapshot
    BY <1>1 DEF Pub!Snapshot, Summed
  <1>2. CASE Pub!Report
    <2>1. pc = "report" /\ pc' \in {"ok", "failed"}
      BY <1>2 DEF Pub!Report
    <2>2. summary.pending = TRUE /\ summary \in Pub!Summaries /\ summary.acked <= Pub!Enqueued
      BY <2>1 DEF SummaryTypes, Closing, Pub!Summaries
    <2>3. summary.acked \in Nat
      BY <2>2 DEF Pub!Summaries
    <2>4. /\ summary'.intended = count.offered /\ summary'.rejected = count.errors
          /\ summary'.enqueued = Pub!Enqueued /\ summary'.acked = summary.acked
          /\ summary'.unacked = (IF Pub!Enqueued > summary.acked
                                 THEN Pub!Enqueued - summary.acked ELSE 0)
          /\ summary'.lag = count.lag /\ summary'.reason = reason
      BY <1>2 DEF Pub!Report
    <2>5. reason = "duration" => HasMessages(Whole, count.offered)
      BY <2>1 DEF Covered, Running, Closing, Offering
    <2>6. HasMessages(Whole, count.offered) => HasMessages(Whole, summary'.intended)
      BY <2>4
    <2>7. /\ summary'.intended = summary'.rejected + summary'.enqueued
          /\ summary'.enqueued = summary'.acked + summary'.unacked
          /\ summary'.lag = summary'.enqueued
      <3>1. /\ count.offered \in Nat /\ count.errors \in Nat /\ count.lag = Pub!Enqueued
            /\ Pub!Enqueued = count.offered - count.errors
        BY DEF CountTypes, Pub!Enqueued
      <3> QED BY <2>2, <2>3, <2>4, <3>1
    <2>8. summary'.reason = "duration" => HasMessages(Whole, summary'.intended)
      BY <2>4, <2>5, <2>6
    <2> QED BY <2>1, <2>7, <2>8 DEF Summed, HasMessages, Whole
  <1>3. CASE UNCHANGED summary
    <2>1. CASE pc \in {"ok", "failed"}
      <3>1. UNCHANGED pc
        BY <2>1, FinalStays DEF Pub!vars, Pub!Final
      <3> QED BY <1>3, <2>1, <3>1 DEF Summed, HasMessages, Whole
    <2>2. CASE pc \notin {"ok", "failed"}
      BY <1>3, <2>2 DEF Summed
    <2> QED BY <2>1, <2>2
  <1> QED BY <1>1, <1>2, <1>3, Frames

-----------------------------------------------------------------------------
\* The swap task and the run that waits for it or gives it up.
SwapFlow ==
    /\ artifact = "ok" <=> swap.at = "ok"
    /\ pc = "handshake" => swap.at = "none" /\ duration = 0
    /\ pc \in Running /\ reason = "duration" /\ Shape.profile = "hotswap-trigger" =>
          swap.at # "none"
    /\ swap.at \in {"cancelled", "aborted"} =>
          pc \in {"report"} \cup Pub!Final /\ reason # "duration"
    /\ pc = "report" /\ reason = "duration" => swap.at \in {"none", "ok", "failed"}
    /\ pc = "ok" /\ reason = "duration" /\ Shape.profile = "hotswap-trigger" => swap.at = "ok"
    /\ pc = "failed" /\ duration > 0 =>
          summary # Absent /\ ~summary.pending /\ swap.at = "failed"

LEMMA SwapFlowStep ==
  ASSUME PubAssumptions, Places, CountTypes, SwapTypes, SummaryTypes, SwapFlow,
         [Pub!Next]_(Pub!vars)
  PROVE  SwapFlow'
  <1>0. /\ "duration" \notin Signals /\ Whole \in Nat
        /\ Shape.profile = "hotswap-trigger" => Shape.swapAt < Whole
    <2>1. Whole \in Nat
      BY DEF PubAssumptions, Pub!PublisherAssumption, Pub!SecAssumption, Whole
    <2> QED BY <2>1 DEF PubAssumptions, Pub!PublisherAssumption, Whole
  <1>1. CASE Pub!HandshakeDone \/ Pub!HandshakeStopped
    <2>1. /\ pc = "handshake" /\ pc' = "loop" /\ UNCHANGED artifact
          /\ swap.at = "none" /\ artifact # "ok"
      BY <1>1 DEF Pub!HandshakeDone, Pub!HandshakeStopped, Pub!Begin, SwapFlow
    <2>2. swap'.at \in {"none", "sleeping"}
      BY <1>1, <2>1 DEF Pub!HandshakeDone, Pub!HandshakeStopped, Pub!Begin, SwapTypes
    <2>3. ASSUME reason' = "duration", Shape.profile = "hotswap-trigger"
          PROVE  swap'.at # "none"
      <3>1. Pub!Begin(Whole)
        BY <1>0, <1>1, <2>3 DEF Pub!HandshakeDone, Pub!HandshakeStopped, Places, Whole
      <3>2. swap' = [swap EXCEPT !.at = "sleeping"]
        BY <1>0, <2>3, <3>1 DEF Pub!Begin
      <3> QED BY <3>2 DEF SwapTypes
    <2> QED BY <2>1, <2>2, <2>3 DEF SwapFlow
  <1>2. CASE Pub!JoinSwap
    <2>1. pc = "swap" /\ pc' = "report" /\ UNCHANGED <<reason, artifact, duration>>
      BY <1>2 DEF Pub!JoinSwap
    <2>2. CASE reason # "duration" /\ swap.at # "none"
      <3>1. /\ swap'.at \in {"cancelled", "aborted", swap.at}
            /\ swap'.at # swap.at => swap.at \in {"sleeping", "posting"}
        BY <1>2, <2>2 DEF Pub!JoinSwap, SwapTypes
      <3> QED BY <2>1, <2>2, <3>1 DEF SwapFlow, Running, Closing, Offering
    <2>3. CASE ~(reason # "duration" /\ swap.at # "none")
      <3>1. swap.at \in {"none", "ok", "failed"} /\ UNCHANGED swap
        BY <1>2, <2>3 DEF Pub!JoinSwap
      <3> QED BY <2>1, <3>1 DEF SwapFlow, Running, Closing, Offering
    <2> QED BY <2>2, <2>3
  <1>3. CASE Pub!Trigger
    <2>1. pc \notin Pub!Final /\ UNCHANGED <<pc, reason, duration, summary>>
      BY <1>3 DEF Pub!Trigger, Pub!main
    <2>2. /\ swap.at \in {"sleeping", "posting"} /\ swap'.at \in {"posting", "ok", "failed"}
          /\ artifact' = "ok" <=> swap'.at = "ok"
      <3>1. artifact # "ok" \/ swap.at = "ok"
        BY DEF SwapFlow
      <3>2. CASE Pub!SwapFires
        BY <3>1, <3>2 DEF Pub!SwapFires, SwapTypes
      <3>3. CASE Pub!SwapAnswers
        BY <3>1, <3>3 DEF Pub!SwapAnswers, SwapTypes
      <3> QED BY <1>3, <3>2, <3>3 DEF Pub!Trigger
    <2> QED BY <2>1, <2>2 DEF SwapFlow, Pub!Final
  <1>4. CASE Pub!Tick
    <2>1. swap'.at = swap.at /\ UNCHANGED <<pc, reason, duration, artifact, summary>>
      BY <1>4 DEF Pub!Tick, SwapTypes
    <2> QED BY <2>1 DEF SwapFlow
  <1>5. CASE Pub!Report
    <2>1. /\ pc = "report" /\ UNCHANGED <<reason, duration, swap, artifact>>
          /\ pc' = IF Pub!SwapFailure THEN "failed" ELSE "ok"
      BY <1>5 DEF Pub!Report, Pub!trig
    <2>2. summary' # Absent /\ ~summary'.pending
      BY <1>5, ReportIs
    <2> QED BY <2>1, <2>2 DEF SwapFlow, Pub!SwapFailure, Running, Closing, Offering, Pub!Final
  <1>6. CASE pc \in Pub!Final
    <2>1. UNCHANGED <<pc, reason, duration, swap, artifact, summary>>
      BY <1>6, FinalStays DEF Pub!vars
    <2> QED BY <2>1 DEF SwapFlow
  <1>7. CASE /\ pc \notin Pub!Final /\ UNCHANGED <<swap, artifact, duration>>
             /\ ~(Pub!HandshakeDone \/ Pub!HandshakeStopped \/ Pub!Report \/ Pub!JoinSwap)
    <2>1. pc' \in Running => pc \in Running
      BY <1>7, Steers
    <2>2. reason' = "duration" => reason = "duration"
      BY <1>0, Steers
    <2>3. pc = "report" => pc' \in {"report", "unwritten", "killed"} /\ reason' = reason
      BY <1>7, Moves, Split DEF Offering
    <2>4. pc' = "report" => pc = "report"
      BY <1>7, Steers
    <2>5. pc' \in {"ok", "failed"} => pc = "handshake" /\ pc' = "failed"
      BY <1>7, Steers, Moves DEF Pub!Final
    <2>6. pc' = "handshake" => pc = "handshake"
      BY Steers
    <2>7. swap.at \in {"cancelled", "aborted"} => pc = "report" /\ reason # "duration"
      BY <1>7 DEF SwapFlow
    <2> QED BY <1>7, <2>1, <2>2, <2>3, <2>4, <2>5, <2>6, <2>7 DEF SwapFlow, Pub!Final
  <1> QED BY <1>1, <1>2, <1>3, <1>4, <1>5, <1>6, <1>7, Frames

-----------------------------------------------------------------------------
\* What a run of the publisher is in at every moment.
PubInv ==
    /\ Places /\ LinkTypes /\ PacerTypes /\ CountTypes /\ SwapTypes /\ SummaryTypes
    /\ AckBound /\ Ordered /\ Covered /\ Traced /\ Summed /\ SwapFlow

LEMMA PubInvInit == ASSUME PubAssumptions, Pub!Init PROVE PubInv
  <1> USE DEF Pub!Init, PubAssumptions, Pub!PublisherAssumption
  <1>1. Places /\ LinkTypes /\ SwapTypes
    BY 0 \in 0 .. QueueCap, 0 \in 0 .. MaxInflight DEF Places, LinkTypes, SwapTypes
  <1>2. PacerTypes
    <2>1. <<>> \in Seq(Nat) /\ Len(<<>>) <= Ahead
      OBVIOUS
    <2> QED BY <2>1 DEF PacerTypes
  <1>3. CountTypes /\ AckBound
    BY DEF CountTypes, AckBound, Pub!Enqueued
  <1>4. SummaryTypes /\ Summed
    BY DEF SummaryTypes, Summed, Closing
  <1>5. Ordered /\ Covered /\ SwapFlow
    BY DEF Ordered, Covered, SwapFlow, Offering, Running, Closing, Pub!Final
  <1>6. Traced
    <2>1. trace = <<>> /\ <<>> \in Seq(Rows) /\ Len(<<>>) = 0 /\ DOMAIN <<>> = {}
      OBVIOUS
    <2>2. Pub!TraceIsSchedule
      BY <2>1 DEF Pub!TraceIsSchedule
    <2> QED BY <2>1, <2>2 DEF Traced
  <1> QED BY <1>1, <1>2, <1>3, <1>4, <1>5, <1>6 DEF PubInv

LEMMA PubInvHolds == ASSUME PubAssumptions PROVE Pub!Spec => []PubInv
  <1>1. ASSUME PubInv, [Pub!Next]_(Pub!vars) PROVE PubInv'
    <2>1. Places' /\ LinkTypes' /\ PacerTypes' /\ CountTypes' /\ SwapTypes'
      BY <1>1, PlacesStep, LinkTypesStep, PacerTypesStep, CountTypesStep, SwapTypesStep
         DEF PubInv
    <2>2. AckBound' /\ SummaryTypes'
      BY <1>1, AckBoundStep, SummaryTypesStep DEF PubInv
    <2>3. Ordered' /\ Covered' /\ Traced'
      BY <1>1, OrderedStep, CoveredStep, TracedStep DEF PubInv
    <2>4. Summed' /\ SwapFlow'
      BY <1>1, SummedStep, SwapFlowStep DEF PubInv
    <2> QED BY <2>1, <2>2, <2>3, <2>4 DEF PubInv
  <1> QED BY <1>1, PubInvInit, PTL DEF Pub!Spec

\* Types, and what the broker acknowledged, holds or is still to be sent never
\* exceeds what run_publisher handed to the client, through every lost link.
THEOREM PubTypeCorrect == ASSUME PubAssumptions PROVE Pub!Spec => []Pub!PubTypeOK
  <1>1. ASSUME PubInv PROVE Pub!PubTypeOK
    BY <1>1 DEF PubInv, Places, LinkTypes, PacerTypes, SwapTypes, SummaryTypes, AckBound,
       Pub!PubTypeOK
  <1> QED BY <1>1, PubInvHolds, PTL

\* The summary that is written reconciles, however the run ended: no message is
\* counted twice or forgotten, whatever was refused, lost or interrupted
\* (run_publisher, PublisherReport).
THEOREM SummaryReconciles == ASSUME PubAssumptions PROVE Pub!Spec => []Pub!Reconciles
  <1>1. ASSUME PubInv PROVE Pub!Reconciles
    BY <1>1 DEF PubInv, Summed, Pub!Reconciles, Pub!Reported
  <1> QED BY <1>1, PubInvHolds, PTL

\* The trace file is the schedule from its start, in order and without a gap,
\* however far the loop is behind the pacer (Trace, run_publisher).
THEOREM TraceAlwaysSchedule == ASSUME PubAssumptions PROVE Pub!Spec => []Pub!TraceIsSchedule
  <1>1. ASSUME PubInv PROVE Pub!TraceIsSchedule
    BY <1>1 DEF PubInv, Traced
  <1> QED BY <1>1, PubInvHolds, PTL

\* A run that ends well has swapped and kept the artifact, and one that fails
\* for its swap has written its summary (run_publisher).
THEOREM SwapAlwaysDecides == ASSUME PubAssumptions PROVE Pub!Spec => []Pub!SwapDecidesRun
  <1>1. ASSUME PubInv PROVE Pub!SwapDecidesRun
    <2>1. /\ pc = "ok" /\ reason = "duration" /\ Shape.profile = "hotswap-trigger" =>
               swap.at = "ok" /\ artifact = "ok"
          /\ pc = "failed" /\ duration > 0 =>
               summary # Absent /\ ~summary.pending /\ artifact # "ok"
      BY <1>1 DEF PubInv, SwapFlow
    <2> QED BY <2>1 DEF Pub!SwapDecidesRun, Pub!Reported, Pub!Final
  <1> QED BY <1>1, PubInvHolds, PTL

-----------------------------------------------------------------------------
\* The messages of a schedule have their ticks in order, each its own.
Paced == \A n \in Nat : /\ Pub!Offset[n] \in Nat /\ n <= Pub!Offset[n]
                        /\ \A m \in 0 .. n : Pub!Offset[m] <= Pub!Offset[n]

\* A set of numbers has a least one.
LEMMA Least == ASSUME NEW T \in SUBSET Nat, T # {} PROVE \E x \in T : \A y \in T : x <= y
  <1> DEFINE less == {ss \in Nat \X Nat : ss[1] < ss[2]}
  <1>1. OpToRel(<, Nat) = less
    BY Zenon DEF OpToRel
  <1>2. IsWellFoundedOn(less, Nat)
    BY <1>1, NatLessThanWellFounded
  <1> HIDE DEF less
  <1>3. PICK x \in T : \A y \in T : ~(<<y, x>> \in less)
    BY <1>2, WFMin
  <1>4. ASSUME NEW y \in T PROVE x <= y
    <2>1. ~(y < x)
      BY <1>3 DEF less
    <2> QED BY <2>1
  <1> QED BY <1>4

\* At every tick of the run the rate is some messages a second, at most one a tick.
Rates == \A t \in Nat : Pub!RateAt(Shape, t) \in 1 .. Sec

\* What comes next after a message is a tick later at least.
LEMMA NextIs ==
  ASSUME PubAssumptions, Rates, NEW n \in Nat, NEW t \in Nat, n > 0
  PROVE  /\ Pub!NextOffset(Shape, n, t) \in Nat
         /\ Shape.profile \notin {"steady", "hotswap-trigger"} => Pub!NextOffset(Shape, n, t) > t
         /\ Shape.profile \in {"steady", "hotswap-trigger"} =>
              Pub!NextOffset(Shape, n, t) = (n * Sec) \div Pub!RateAt(Shape, 0)
  <1> DEFINE r == Pub!RateAt(Shape, t)
  <1>0. Sec \in Nat /\ r \in Nat /\ 1 <= r /\ r <= Sec
    BY DEF Rates, PubAssumptions, Pub!SecAssumption
  <1>1. CASE Shape.profile \in {"steady", "hotswap-trigger"}
    <2>1. /\ Pub!NextOffset(Shape, n, t) = (n * Sec) \div r
          /\ r = Pub!RateAt(Shape, 0)
      BY <1>1 DEF Pub!NextOffset, Pub!RateAt
    <2> HIDE DEF r
    <2>2. n * Sec \in Nat
      BY <1>0
    <2>3. (n * Sec) \div r \in Nat
      BY <1>0, <2>2
    <2> QED BY <1>1, <2>1, <2>3
  <1>2. CASE Shape.profile \notin {"steady", "hotswap-trigger"}
    <2>1. Pub!NextOffset(Shape, n, t) = t + (2 * Sec + r) \div (2 * r)
      BY <1>2 DEF Pub!NextOffset
    <2> HIDE DEF r
    <2>2. (2 * Sec + r) \div (2 * r) \in Nat /\ (2 * Sec + r) \div (2 * r) >= 1
      BY <1>0
    <2> QED BY <1>2, <2>1, <2>2
  <1> QED BY <1>1, <1>2

\* The schedule up to its n-th message.
Upto(n) == {f \in [0 .. n -> Nat] :
               f[0] = 0 /\ \A k \in 1 .. n : f[k] = Pub!NextOffset(Shape, k, f[k - 1])}

LEMMA UptoIsOne ==
  ASSUME NEW n \in Nat, NEW m \in 0 .. n, NEW f \in Upto(m), NEW g \in Upto(n)
  PROVE  \A k \in 0 .. m : f[k] = g[k]
  <1> DEFINE T == {k \in 0 .. m : f[k] # g[k]}
  <1> SUFFICES ASSUME T # {} PROVE FALSE
    OBVIOUS
  <1>0. T \in SUBSET Nat
    OBVIOUS
  <1> HIDE DEF T
  <1>1. PICK k \in T : \A y \in T : k <= y
    BY <1>0, Least
  <1> USE DEF T
  <1>2. k # 0
    BY DEF Upto
  <1>3. k - 1 \in 0 .. m /\ k \in 1 .. m /\ k \in 1 .. n /\ k - 1 \notin T
    BY <1>1, <1>2
  <1> QED BY <1>3 DEF Upto

LEMMA UptoIsThere == ASSUME PubAssumptions, Rates, NEW n \in Nat PROVE Upto(n) # {}
  <1> DEFINE T == {k \in Nat : Upto(k) = {}}
  <1> SUFFICES ASSUME T # {} PROVE FALSE
    OBVIOUS
  <1>1. PICK k \in T : \A y \in T : k <= y
    BY Least
  <1>2. k # 0
    <2>1. [i \in 0 .. 0 |-> 0] \in Upto(0)
      BY DEF Upto
    <2> QED BY <1>1, <2>1
  <1>3. k - 1 \in Nat /\ k - 1 \notin T
    BY <1>1, <1>2
  <1>4. PICK f : f \in Upto(k - 1)
    BY <1>3
  <1> DEFINE g == [i \in 0 .. k |-> IF i = k THEN Pub!NextOffset(Shape, k, f[k - 1]) ELSE f[i]]
  <1>5. f[k - 1] \in Nat
    BY <1>3, <1>4 DEF Upto
  <1>6. g \in [0 .. k -> Nat]
    BY <1>2, <1>3, <1>4, <1>5, NextIs DEF Upto
  <1>7. g[0] = 0
    BY <1>2, <1>3, <1>4 DEF Upto
  <1>8. ASSUME NEW i \in 1 .. k PROVE g[i] = Pub!NextOffset(Shape, i, g[i - 1])
    <2>1. CASE i = k
      BY <1>3, <2>1
    <2>2. CASE i # k
      <3>1. i \in 1 .. k - 1 /\ i \in 0 .. k /\ i - 1 \in 0 .. k /\ i - 1 # k
        BY <1>3, <2>2
      <3>2. g[i] = f[i] /\ g[i - 1] = f[i - 1]
        BY <2>2, <3>1
      <3> QED BY <1>4, <3>1, <3>2 DEF Upto
    <2> QED BY <2>1, <2>2
  <1>9. g \in Upto(k)
    BY <1>6, <1>7, <1>8 DEF Upto
  <1> QED BY <1>9

\* The schedule is what its recursive definition says.
LEMMA OffsetIs ==
  ASSUME PubAssumptions, Rates
  PROVE  /\ Pub!Offset \in [Nat -> Nat] /\ Pub!Offset[0] = 0
         /\ \A n \in Nat \ {0} : Pub!Offset[n] = Pub!NextOffset(Shape, n, Pub!Offset[n - 1])
  <1> DEFINE P(f) == f = [n \in Nat |-> IF n = 0 THEN 0 ELSE Pub!NextOffset(Shape, n, f[n - 1])]
             h == [n \in Nat |-> CHOOSE f : f \in Upto(n)]
             g == [n \in Nat |-> h[n][n]]
  <1>1. \A n \in Nat : h[n] \in Upto(n)
    BY UptoIsThere
  <1>2. \A n \in Nat : g[n] = h[n][n]
    OBVIOUS
  <1> HIDE DEF h
  <1>3. g \in [Nat -> Nat] /\ g[0] = 0
    BY <1>1 DEF Upto
  <1>4. ASSUME NEW n \in Nat, n # 0 PROVE g[n] = Pub!NextOffset(Shape, n, g[n - 1])
    <2>1. n - 1 \in Nat /\ n - 1 \in 0 .. n /\ n \in 1 .. n
      BY <1>4
    <2>2. h[n][n] = Pub!NextOffset(Shape, n, h[n][n - 1])
      BY <1>1, <2>1 DEF Upto
    <2>3. h[n - 1][n - 1] = h[n][n - 1]
      BY <1>1, <2>1, UptoIsOne
    <2> QED BY <1>2, <2>1, <2>2, <2>3
  <1>5. P(g)
    <2> DEFINE e == [n \in Nat |-> IF n = 0 THEN 0 ELSE Pub!NextOffset(Shape, n, g[n - 1])]
    <2>1. \A n \in Nat : g[n] = e[n]
      BY <1>3, <1>4
    <2>2. g = [n \in Nat |-> g[n]] /\ e = [n \in Nat |-> e[n]]
      OBVIOUS
    <2> QED BY <2>1, <2>2
  <1>6. Pub!Offset = CHOOSE f : P(f)
    BY DEF Pub!Offset
  <1> HIDE DEF g
  <1>7. P(Pub!Offset)
    BY <1>5, <1>6
  <1> DEFINE o == Pub!Offset
  <1>8. /\ o = [n \in Nat |-> o[n]] /\ o[0] = 0
        /\ \A n \in Nat \ {0} : o[n] = Pub!NextOffset(Shape, n, o[n - 1])
    BY <1>7
  <1>9. ASSUME NEW n \in Nat, o[n] \notin Nat PROVE FALSE
    <2>1. PICK k \in {i \in Nat : o[i] \notin Nat} : \A y \in {i \in Nat : o[i] \notin Nat} : k <= y
      BY <1>9, Least
    <2>2. k # 0
      BY <1>8, <2>1
    <2>3. k - 1 \in Nat /\ o[k - 1] \in Nat
      BY <2>1, <2>2
    <2>4. Pub!NextOffset(Shape, k, o[k - 1]) \in Nat
      BY <2>2, <2>3, NextIs
    <2> QED BY <1>8, <2>1, <2>2, <2>4
  <1> QED BY <1>8, <1>9

\* Whatever the rates, the messages of a schedule are in ticks of their own, in order.
LEMMA SchedulePaced == ASSUME PubAssumptions, Rates PROVE Paced
  <1> DEFINE o == Pub!Offset
             r == Pub!RateAt(Shape, 0)
  <1>0. /\ Sec \in Nat /\ r \in Nat /\ 1 <= r /\ r <= Sec
        /\ o \in [Nat -> Nat] /\ o[0] = 0
    BY OffsetIs DEF Rates, PubAssumptions, Pub!SecAssumption
  <1>1. ASSUME Shape.profile \in {"steady", "hotswap-trigger"}, NEW n \in Nat
        PROVE  n <= o[n] /\ \A m \in 0 .. n : o[m] <= o[n]
    <2>1. \A i \in Nat \ {0} : o[i] = (i * Sec) \div r
      BY <1>1, OffsetIs, NextIs
    <2> HIDE DEF r, o
    <2>2. CASE n = 0
      BY <1>0, <2>2
    <2>3. CASE n # 0
      <3>1. o[n] = (n * Sec) \div r /\ n * Sec \in Nat
        BY <1>0, <2>1, <2>3
      <3>2. o[n] \in Nat /\ n * Sec < r * (o[n] + 1)
        BY <1>0, <3>1
      <3>3. ASSUME o[n] < n PROVE FALSE
        <4>1. o[n] + 1 <= n
          BY <3>2, <3>3
        <4>2. r * (o[n] + 1) <= r * n
          BY <1>0, <3>2, <4>1
        <4>3. r * n <= Sec * n
          BY <1>0
        <4> QED BY <1>0, <3>1, <3>2, <4>2, <4>3
      <3>4. ASSUME NEW m \in 0 .. n PROVE o[m] <= o[n]
        <4>1. CASE m = 0
          BY <1>0, <3>2, <4>1
        <4>2. CASE m # 0
          <5>1. o[m] = (m * Sec) \div r /\ m * Sec \in Nat /\ m * Sec <= n * Sec
            BY <1>0, <2>1, <4>2
          <5> QED BY <1>0, <3>1, <5>1
        <4> QED BY <4>1, <4>2
      <3> QED BY <3>2, <3>3, <3>4
    <2> QED BY <2>2, <2>3
  <1>2. ASSUME Shape.profile \notin {"steady", "hotswap-trigger"}, NEW n \in Nat
        PROVE  n <= o[n] /\ \A m \in 0 .. n : o[m] <= o[n]
    <2> DEFINE Q(i) == i <= o[i] /\ \A m \in 0 .. i : o[m] <= o[i]
               T == {i \in Nat : ~Q(i)}
    <2>1. \A i \in Nat \ {0} : o[i] > o[i - 1]
      BY <1>0, <1>2, OffsetIs, NextIs
    <2> HIDE DEF o
    <2>2. SUFFICES ASSUME T # {} PROVE FALSE
      BY <2>2
    <2>0. T \in SUBSET Nat
      OBVIOUS
    <2> HIDE DEF T
    <2>3. PICK k \in T : \A y \in T : k <= y
      BY <2>0, <2>2, Least
    <2> USE DEF T
    <2>4. k # 0
      BY <1>0, <2>3
    <2>5. k - 1 \in Nat /\ Q(k - 1)
      BY <2>3, <2>4
    <2>6. o[k] > o[k - 1] /\ o[k] \in Nat /\ o[k - 1] \in Nat
      BY <1>0, <2>1, <2>4, <2>5
    <2>7. k <= o[k]
      BY <2>5, <2>6
    <2>8. ASSUME NEW m \in 0 .. k PROVE o[m] <= o[k]
      <3>1. CASE m = k
        BY <2>6, <3>1
      <3>2. CASE m # k
        <4>1. m \in 0 .. k - 1 /\ o[m] \in Nat
          BY <1>0, <2>5, <3>2
        <4> QED BY <2>5, <2>6, <4>1
      <3> QED BY <3>1, <3>2
    <2> QED BY <2>3, <2>7, <2>8
  <1> QED BY <1>0, <1>1, <1>2 DEF Paced
\* The rates of every command line that is accepted, up to a message a tick.
LEMMA ResolvedRates ==
  ASSUME PubAssumptions,
         NEW a, a = [f \in Pub!ShapeFlags |-> a[f]],
         \A f \in Pub!ShapeFlags \ {"profile", "node", "plugin"} : a[f] \in Nat,
         Pub!Accepted(a), Shape = Pub!ResolveShape(a),
         Shape.rate * Shape.multiplier <= Sec, Shape.start <= Sec, Shape.max <= Sec
  PROVE  Rates
  <1>0. /\ Sec \in Nat /\ Sec >= 1 /\ a.rate \in Nat /\ a.rate >= 1
        /\ a.start \in Nat /\ a.max \in Nat /\ a.multiplier \in Nat /\ a.cycle \in Nat
        /\ a.interval \in Nat /\ a.step \in Nat /\ a.on \in Nat
        /\ a.profile \in {"steady", "burst", "ramp", "hotswap-trigger"}
    BY DEF PubAssumptions, Pub!SecAssumption, Pub!ShapeFlags, Pub!Accepted
  <1>1. /\ Shape.profile = a.profile /\ Shape.rate = a.rate
        /\ Shape.step = a.step /\ Shape.on = a.on
        /\ Shape.multiplier \in Nat \ {0} /\ Shape.start \in Nat \ {0}
        /\ Shape.interval \in Nat \ {0} /\ Shape.cycle \in Nat \ {0} /\ Shape.max \in Nat
    BY <1>0 DEF Pub!ResolveShape, Pub!ShapeFlags
  <1>2. Shape.rate <= Shape.rate * Shape.multiplier /\ Shape.rate * Shape.multiplier \in Nat
    BY <1>0, <1>1
  <1>3. ASSUME NEW t \in Nat PROVE Pub!RateAt(Shape, t) \in 1 .. Sec
    <2>1. CASE Shape.profile \in {"steady", "hotswap-trigger"}
      BY <1>0, <1>1, <1>2, <2>1 DEF Pub!RateAt
    <2>2. CASE Shape.profile = "burst"
      <3>1. Pub!RateAt(Shape, t) \in {Shape.rate, Shape.rate * Shape.multiplier}
        BY <2>2 DEF Pub!RateAt
      <3> QED BY <1>0, <1>1, <1>2, <3>1
    <2>3. CASE Shape.profile = "ramp"
      <3> DEFINE later == Shape.step * (t \div (Shape.interval * Sec))
      <3>1. later \in Nat
        <4>1. Shape.interval * Sec \in Nat \ {0}
          BY <1>0, <1>1
        <4>2. t \div (Shape.interval * Sec) \in Nat
          BY <4>1
        <4> QED BY <1>0, <1>1, <4>2
      <3> HIDE DEF later
      <3>2. /\ Pub!RateAt(Shape, t) \in {Shape.start + later, Shape.max, Shape.start}
            /\ Pub!RateAt(Shape, t) >= Shape.start /\ Pub!RateAt(Shape, t) <= Sec
        BY <1>0, <1>1, <2>3, <3>1 DEF Pub!RateAt, later
      <3> QED BY <1>0, <1>1, <3>1, <3>2
    <2> QED BY <1>0, <1>1, <2>1, <2>2, <2>3
  <1> QED BY <1>3 DEF Rates

\* A paced schedule has as many messages as have an offset before its end.
LEMMA PopulationIs ==
  ASSUME PubAssumptions, Paced, NEW n \in Nat, HasMessages(Whole, n)
  PROVE  n = Pub!Population
  <1>0. Whole \in Nat
    BY DEF PubAssumptions, Pub!PublisherAssumption, Pub!SecAssumption, Whole
  <1>1. ASSUME NEW k \in 0 .. Whole PROVE Pub!Offset[k] < Whole <=> k \in 0 .. n - 1
    <2>1. CASE k \in 0 .. n - 1
      BY <2>1 DEF HasMessages
    <2>2. CASE k \notin 0 .. n - 1
      <3>1. k \in Nat /\ n \in 0 .. k
        BY <1>0, <2>2
      <3>2. Pub!Offset[n] <= Pub!Offset[k] /\ Pub!Offset[n] >= Whole
        BY <3>1 DEF Paced, HasMessages
      <3>3. Pub!Offset[n] \in Nat /\ Pub!Offset[k] \in Nat
        BY <3>1 DEF Paced
      <3> QED BY <1>0, <2>2, <3>2, <3>3
    <2> QED BY <2>1, <2>2
  <1>2. ASSUME NEW k \in 0 .. n - 1 PROVE k \in 0 .. Whole
    <2>1. k \in Nat /\ Pub!Offset[k] < Whole /\ Pub!Offset[k] \in Nat /\ k <= Pub!Offset[k]
      BY <1>2 DEF Paced, HasMessages
    <2> QED BY <1>0, <2>1
  <1>3. {k \in 0 .. Whole : Pub!Offset[k] < Whole} = 0 .. n - 1
    BY <1>1, <1>2
  <1>4. Cardinality(0 .. n - 1) = n
    BY FS_Interval
  <1>5. Pub!Cardinality(0 .. n - 1) = Cardinality(0 .. n - 1)
    BY DEF Pub!Cardinality, Cardinality, Pub!IsFiniteSet, IsFiniteSet
  <1> QED BY <1>3, <1>4, <1>5 DEF Pub!Population, Whole

\* A run that says it completed its schedule offered every message of it,
\* however long a full queue held it up (run_publisher): for every profile, at
\* rates of up to a message a tick (ResolvedRates).
THEOREM WholePopulationOffered ==
  ASSUME PubAssumptions, Rates PROVE Pub!Spec => []Pub!WholePopulation
  <1>1. ASSUME PubInv PROVE Pub!WholePopulation
    <2> SUFFICES ASSUME Pub!Reported, summary.reason = "duration"
                 PROVE  summary.intended = Pub!Population
      BY DEF Pub!WholePopulation
    <2>1. summary \in Pub!Summaries /\ ~summary.pending
      BY <1>1 DEF PubInv, SummaryTypes, Pub!Reported
    <2>2. summary.intended \in Nat
      BY <2>1 DEF Pub!Summaries
    <2>3. HasMessages(Whole, summary.intended)
      BY <1>1 DEF PubInv, Summed, Pub!Reported
    <2> QED BY <2>2, <2>3, PopulationIs, SchedulePaced
  <1> QED BY <1>1, PubInvHolds, PTL

-------------------------------------------------------------------------------
(***************************************************************************)
(* From flags to schedule.                                                 *)
(***************************************************************************)
CONSTANTS Cli, File, Default, MaxOffsets
VARIABLES given, shape, emitted, offset, offsets
Profile == INSTANCE LoadProfile

ProfileAssumptions == Profile!ProfileAssumption /\ Profile!SecAssumption

\* The profiles of one rate.
Constant == {"steady", "hotswap-trigger"}

\* The offset of message n at such a rate.
At(n) == (n * Sec) \div shape.rate

\* At a constant rate the next offset is that of as many messages as there are,
\* and the last one is inside the schedule.
Scheduling ==
    /\ shape.rate \in Nat \ {0} /\ shape.duration \in Nat
    /\ offsets \in Seq(Nat) /\ emitted = Len(offsets)
    /\ offset = At(emitted)
    /\ emitted > 0 => At(emitted - 1) < shape.duration * Sec
    /\ pc = "done" => offset >= shape.duration * Sec

ProfileInv ==
    /\ given \in [cli : Profile!Choices(Cli), file : Profile!Choices(File)]
    /\ pc \in {"parse", "schedule", "refused", "done"}
    /\ pc = "parse" => offsets = <<>> /\ emitted = 0 /\ offset = 0
    /\ pc \in {"schedule", "done"} /\ shape.profile \in Constant => Scheduling
    /\ Profile!OperatorWins

LEMMA AtIs ==
  ASSUME ProfileAssumptions, shape.rate \in Nat \ {0}, NEW n \in Nat PROVE At(n) \in Nat
  <1>1. n * Sec \in Nat
    BY DEF ProfileAssumptions, Profile!SecAssumption
  <1> QED BY <1>1 DEF At

\* The flags a command line and a file fold into.
LEMMA FoldIs ==
  ASSUME ProfileAssumptions,
         given \in [cli : Profile!Choices(Cli), file : Profile!Choices(File)]
  PROVE  /\ Profile!Folded.rate \in Nat /\ Profile!Folded.duration \in Nat
         /\ Profile!Folded = [f \in Profile!ShapeFlags |->
               IF given.cli[f] # Default[f] \/ given.file[f] = Absent
               THEN given.cli[f] ELSE given.file[f]]
  <1>1. /\ given.cli.rate \in Nat /\ given.file.rate \in Nat \cup {Absent}
        /\ given.cli.duration \in Nat /\ given.file.duration \in Nat \cup {Absent}
    <2>1. /\ Cli["rate"] \subseteq Nat /\ File["rate"] \subseteq Nat \cup {Absent}
          /\ Cli["duration"] \subseteq Nat /\ File["duration"] \subseteq Nat \cup {Absent}
      BY DEF ProfileAssumptions, Profile!ProfileAssumption, Profile!ShapeFlags
    <2> QED BY <2>1 DEF Profile!Choices
  <1>2. Profile!Folded = [f \in Profile!ShapeFlags |->
               IF given.cli[f] # Default[f] \/ given.file[f] = Absent
               THEN given.cli[f] ELSE given.file[f]]
    BY DEF Profile!Folded, Profile!FoldProfile
  <1>3. "rate" \in Profile!ShapeFlags /\ "duration" \in Profile!ShapeFlags
    BY DEF Profile!ShapeFlags
  <1> QED BY <1>1, <1>2, <1>3

\* What resolve_shape makes of the flags it accepts.
LEMMA ResolveIs ==
  ASSUME ProfileAssumptions, NEW a, a = [f \in Profile!ShapeFlags |-> a[f]],
         a.rate \in Nat, Profile!Accepted(a)
  PROVE  /\ a.rate > 0
         /\ \A f \in Profile!ShapeFlags \ {"multiplier", "cycle", "start", "interval", "max"} :
               Profile!ResolveShape(a)[f] = a[f]
  <1>1. a.rate > 0
    BY DEF Profile!Accepted
  <1>2. ASSUME NEW f \in Profile!ShapeFlags \ {"multiplier", "cycle", "start", "interval", "max"}
        PROVE  Profile!ResolveShape(a)[f] = a[f]
    BY <1>2 DEF Profile!ResolveShape
  <1> QED BY <1>1, <1>2

LEMMA ResolveStep ==
  ASSUME ProfileAssumptions, ProfileInv, Profile!Resolve PROVE ProfileInv'
  <1> DEFINE a == Profile!Folded
  <1>0. /\ pc = "parse" /\ UNCHANGED <<given, emitted, offset, offsets>>
        /\ offsets = <<>> /\ emitted = 0 /\ offset = 0
    BY DEF Profile!Resolve, ProfileInv
  <1>1. /\ a.rate \in Nat /\ a.duration \in Nat /\ a = [f \in Profile!ShapeFlags |-> a[f]]
        /\ \A f \in Profile!ShapeFlags :
             a[f] = IF given.cli[f] # Default[f] \/ given.file[f] = Absent
                    THEN given.cli[f] ELSE given.file[f]
    BY FoldIs DEF ProfileInv
  <1> HIDE DEF a
  <1>2. CASE Profile!Accepted(a)
    <2>1. pc' = "schedule" /\ shape' = Profile!ResolveShape(a)
      BY <1>2 DEF Profile!Resolve, a
    <2>2. /\ a.rate > 0
          /\ \A f \in Profile!ShapeFlags \ {"multiplier", "cycle", "start", "interval", "max"} :
               shape'[f] = a[f]
      BY <1>1, <1>2, <2>1, ResolveIs
    <2>3. shape'.rate \in Nat \ {0} /\ shape'.duration \in Nat
      BY <1>1, <2>2 DEF Profile!ShapeFlags
    <2>4. Scheduling'
      <3>1. Sec \in Nat
        BY DEF ProfileAssumptions, Profile!SecAssumption
      <3>2. (0 * Sec) \div shape'.rate = 0
        BY <2>3, <3>1
      <3>3. <<>> \in Seq(Nat) /\ Len(<<>>) = 0
        OBVIOUS
      <3> QED BY <1>0, <2>1, <2>3, <3>2, <3>3 DEF Scheduling, At
    <2>5. Profile!OperatorWins'
      BY <1>0, <1>1, <2>2 DEF Profile!OperatorWins
    <2> QED BY <1>0, <2>1, <2>4, <2>5 DEF ProfileInv
  <1>3. CASE ~Profile!Accepted(a)
    <2>1. pc' = "refused"
      BY <1>3 DEF Profile!Resolve, a
    <2> QED BY <1>0, <2>1 DEF ProfileInv, Profile!OperatorWins
  <1> QED BY <1>2, <1>3

LEMMA ScheduleStep ==
  ASSUME ProfileAssumptions, ProfileInv, Profile!Schedule PROVE ProfileInv'
  <1>0. pc = "schedule" /\ pc' \in {"schedule", "done"} /\ UNCHANGED <<given, shape>>
    BY DEF Profile!Schedule
  <1>1. Profile!OperatorWins'
    BY <1>0 DEF Profile!OperatorWins, ProfileInv
  <1>2. ASSUME shape.profile \in Constant PROVE Scheduling'
    <2>0. /\ shape.rate \in Nat \ {0} /\ shape.duration \in Nat
          /\ offsets \in Seq(Nat) /\ emitted = Len(offsets) /\ offset = At(emitted)
          /\ emitted > 0 => At(emitted - 1) < shape.duration * Sec
      BY <1>0, <1>2 DEF ProfileInv, Scheduling
    <2>1. CASE offset >= shape.duration * Sec
      <3>1. pc' = "done" /\ UNCHANGED <<emitted, offset, offsets>>
        BY <2>1 DEF Profile!Schedule
      <3> QED BY <1>0, <2>0, <2>1, <3>1 DEF Scheduling, At
    <2>2. CASE ~(offset >= shape.duration * Sec)
      <3>1. /\ offsets' = Append(offsets, offset) /\ emitted' = emitted + 1 /\ pc' = "schedule"
            /\ offset' = Profile!NextOffset(shape, emitted + 1, offset)
        BY <1>0, <2>2 DEF Profile!Schedule
      <3>2. offset' = At(emitted')
        BY <1>0, <1>2, <2>0, <3>1 DEF Profile!NextOffset, Constant, At
      <3>3. emitted \in Nat /\ emitted' - 1 = emitted
        BY <2>0, <3>1
      <3>4. shape.duration * Sec \in Nat
        BY <2>0 DEF ProfileAssumptions, Profile!SecAssumption
      <3>5. offset \in Nat
        BY <2>0, <3>3, AtIs
      <3>6. offsets' \in Seq(Nat) /\ Len(offsets') = emitted'
        BY <2>0, <3>1, <3>5
      <3>7. At(emitted' - 1) < shape.duration * Sec
        BY <2>0, <2>2, <3>3, <3>4, <3>5
      <3>8. At(emitted)' = (emitted' * Sec) \div shape.rate
        BY <1>0 DEF At
      <3> QED BY <1>0, <2>0, <3>1, <3>2, <3>6, <3>7, <3>8 DEF Scheduling, At
    <2> QED BY <2>1, <2>2
  <1> QED BY <1>0, <1>1, <1>2 DEF ProfileInv

LEMMA ProfileInvHolds == ASSUME ProfileAssumptions PROVE Profile!Spec => []ProfileInv
  <1>1. ASSUME Profile!Init PROVE ProfileInv
    BY <1>1 DEF Profile!Init, ProfileInv, Profile!OperatorWins
  <1>2. ASSUME ProfileInv, [Profile!Next]_(Profile!vars) PROVE ProfileInv'
    <2>1. CASE UNCHANGED Profile!vars
      BY <1>2, <2>1 DEF Profile!vars, ProfileInv, Scheduling, At, Profile!OperatorWins
    <2> QED BY <1>2, <2>1, ResolveStep, ScheduleStep DEF Profile!Next
  <1> QED BY <1>1, <1>2, PTL DEF Profile!Spec

\* A schedule of a constant rate has exactly rate * duration messages: the
\* offsets are derived from the index, so the rounding of the interval never
\* adds up to a message more or less, at any rate (Scheduler::next_offset).
THEOREM PopulationAlwaysExact ==
  ASSUME ProfileAssumptions PROVE Profile!Spec => []Profile!PopulationExact
  <1>1. ASSUME ProfileInv PROVE Profile!PopulationExact
    <2> SUFFICES ASSUME pc = "done", shape.profile \in Constant
                 PROVE  Len(offsets) = shape.rate * shape.duration
      BY DEF Profile!PopulationExact, Constant
    <2> DEFINE n == Len(offsets)
               r == shape.rate
               d == shape.duration
    <2>0. /\ r \in Nat \ {0} /\ d \in Nat /\ n \in Nat /\ Sec \in Nat \ {0}
          /\ At(n) >= d * Sec /\ (n > 0 => At(n - 1) < d * Sec)
          /\ \A k \in Nat : At(k) = (k * Sec) \div r
      <3>1. Scheduling
        BY <1>1 DEF ProfileInv
      <3>2. \A k \in Nat : At(k) = (k * Sec) \div r
        BY DEF At
      <3> QED BY <3>1, <3>2 DEF Scheduling, ProfileAssumptions, Profile!SecAssumption
    <2> HIDE DEF n, r, d
    <2>1. r * d \in Nat /\ d * Sec \in Nat /\ n * Sec \in Nat /\ (r * d) * Sec = r * (d * Sec)
      BY <2>0
    <2>2. r * (d * Sec) <= n * Sec
      <3> DEFINE q == At(n)
      <3>1. q \in Nat /\ r * q <= n * Sec
        <4>1. q = (n * Sec) \div r
          BY <2>0
        <4> HIDE DEF q
        <4> QED BY <2>0, <2>1, <4>1
      <3> HIDE DEF q
      <3>2. r * (d * Sec) <= r * q
        <4>1. d * Sec <= q
          BY <2>0 DEF q
        <4> QED BY <2>0, <2>1, <3>1, <4>1
      <3> QED BY <2>0, <2>1, <3>1, <3>2
    <2>3. ASSUME n > 0 PROVE (n - 1) * Sec < r * (d * Sec)
      <3> DEFINE q == At(n - 1)
      <3>0. (n - 1) * Sec \in Nat
        BY <2>0, <2>3
      <3>1. q \in Nat /\ (n - 1) * Sec < r * (q + 1)
        <4>1. q = ((n - 1) * Sec) \div r
          BY <2>0, <2>3
        <4> HIDE DEF q
        <4> QED BY <2>0, <3>0, <4>1
      <3>2. q + 1 <= d * Sec
        BY <2>0, <2>1, <2>3, <3>1
      <3> HIDE DEF q
      <3>3. r * (q + 1) <= r * (d * Sec)
        BY <2>0, <2>1, <3>1, <3>2
      <3> QED BY <2>0, <2>1, <3>0, <3>1, <3>3
    <2>4. r * d <= n
      <3> SUFFICES ASSUME n + 1 <= r * d PROVE FALSE
        BY <2>0, <2>1
      <3>1. (n + 1) * Sec <= (r * d) * Sec
        BY <2>0, <2>1
      <3>2. (n + 1) * Sec = n * Sec + Sec
        BY <2>0
      <3> QED BY <2>0, <2>1, <2>2, <3>1, <3>2
    <2>5. n <= r * d
      <3> SUFFICES ASSUME r * d <= n - 1 PROVE FALSE
        BY <2>0, <2>1
      <3>1. n > 0
        BY <2>0, <2>1
      <3>2. (r * d) * Sec <= (n - 1) * Sec
        BY <2>0, <2>1, <3>1
      <3> QED BY <2>0, <2>1, <2>3, <3>1, <3>2
    <2>6. n = r * d
      BY <2>0, <2>1, <2>4, <2>5
    <2> QED BY <2>6 DEF n, r, d
  <1> QED BY <1>1, ProfileInvHolds, PTL

\* The operator's flags win over the profile file (apply_profile_file).
LEMMA OperatorAlwaysWins ==
  ASSUME ProfileAssumptions PROVE Profile!Spec => []Profile!OperatorWins
  <1>1. ASSUME ProfileInv PROVE Profile!OperatorWins
    BY <1>1 DEF ProfileInv
  <1> QED BY <1>1, ProfileInvHolds, PTL

-------------------------------------------------------------------------------
(***************************************************************************)
(* The bench source.                                                       *)
(***************************************************************************)
CONSTANTS Rate, Total, Warmup, HasBurst, BurstRate, BurstStart, BurstEnd, PacerAhead, MaxStart,
          Slack
VARIABLES pacer, origin, polling, sequence, phaseCounts, completedAt, alive
Bench == INSTANCE BenchSource

BenchAssumptions == Bench!SourceAssumption /\ Bench!ScheduleAssumption

\* The two intervals and the lengths of the first two phases.
Long == Bench!IntervalNs(Rate)
Short == Bench!IntervalNs(BurstRate)

LEMMA Grows ==
  ASSUME NEW a \in Nat, NEW b \in Nat, a <= b, NEW c \in Nat
  PROVE  a * c \in Nat /\ b * c \in Nat /\ a * c <= b * c
  OBVIOUS

LEMMA IntervalIs ==
  ASSUME NEW rate \in Nat, NEW secs \in Nat, Bench!IntervalNs(rate) > 0, Sec \in Nat
  PROVE  /\ Bench!IntervalNs(rate) \in Nat \ {0} /\ rate > 0
         /\ rate * secs \in Nat /\ (rate * secs) * Bench!IntervalNs(rate) \in Nat
         /\ (rate * secs) * Bench!IntervalNs(rate) <= secs * Sec
  <1> DEFINE int == Bench!IntervalNs(rate)
  <1>1. rate > 0
    BY DEF Bench!IntervalNs
  <1>2. int = Sec \div rate
    BY <1>1 DEF Bench!IntervalNs
  <1> HIDE DEF int
  <1>3. int \in Nat /\ rate * int <= Sec
    BY <1>1, <1>2
  <1>4. int > 0
    BY DEF int
  <1>5. (rate * secs) * int = (rate * int) * secs /\ Sec * secs = secs * Sec
    BY <1>3
  <1>6. rate * int \in Nat /\ rate * secs \in Nat
    BY <1>3
  <1>7. (rate * int) * secs <= Sec * secs /\ (rate * int) * secs \in Nat
    BY <1>3, <1>6, Grows
  <1> QED BY <1>1, <1>3, <1>4, <1>5, <1>6, <1>7 DEF int

\* What the phases of a schedule are made of.
LEMMA ScheduleFacts ==
  ASSUME Bench!ScheduleAssumption
  PROVE  /\ Sec \in Nat \ {0} /\ Total \in Nat \ {0} /\ Warmup \in Nat /\ Long \in Nat \ {0}
         /\ HasBurst \in BOOLEAN
         /\ HasBurst =>
              /\ Short \in Nat \ {0} /\ BurstStart \in Nat /\ BurstEnd \in Nat
              /\ BurstStart < BurstEnd
              /\ Bench!Before \in Nat /\ Bench!During \in Nat \ {0}
              /\ Bench!Before * Long <= BurstStart * Sec
              /\ Bench!During * Short <= (BurstEnd - BurstStart) * Sec
              /\ BurstStart * Sec \in Nat /\ BurstEnd * Sec \in Nat
              /\ BurstStart * Sec + (BurstEnd - BurstStart) * Sec = BurstEnd * Sec
              /\ (BurstStart = 0 <=> Bench!Before = 0)
  <1>1. /\ Sec \in Nat \ {0} /\ Total \in Nat \ {0} /\ Warmup \in Nat /\ Rate \in Nat
        /\ HasBurst \in BOOLEAN /\ Long > 0
    BY DEF Bench!ScheduleAssumption, Long
  <1>2. Long \in Nat \ {0} /\ Rate > 0
    BY <1>1, IntervalIs, 0 \in Nat DEF Long
  <1>3. ASSUME HasBurst
        PROVE  /\ Short \in Nat \ {0} /\ BurstStart \in Nat /\ BurstEnd \in Nat
               /\ BurstStart < BurstEnd
               /\ Bench!Before \in Nat /\ Bench!During \in Nat \ {0}
               /\ Bench!Before * Long <= BurstStart * Sec
               /\ Bench!During * Short <= (BurstEnd - BurstStart) * Sec
               /\ (BurstStart = 0 <=> Bench!Before = 0)
    <2>1. /\ BurstStart \in Nat /\ BurstEnd \in Nat /\ BurstStart < BurstEnd
          /\ BurstRate \in Nat /\ Short > 0 /\ BurstEnd - BurstStart \in Nat
      BY <1>3 DEF Bench!ScheduleAssumption, Short
    <2>2. Bench!Before = Rate * BurstStart /\ Bench!During = BurstRate * (BurstEnd - BurstStart)
      BY DEF Bench!Before, Bench!During, Bench!MessagesFor
    <2>3. /\ Bench!Before \in Nat /\ Bench!Before * Long <= BurstStart * Sec
      BY <1>1, <2>1, <2>2, IntervalIs DEF Long
    <2>4. /\ Short \in Nat \ {0} /\ BurstRate > 0 /\ Bench!During \in Nat
          /\ Bench!During * Short <= (BurstEnd - BurstStart) * Sec
      BY <1>1, <2>1, <2>2, IntervalIs DEF Short
    <2>5. Bench!During # 0
      BY <2>1, <2>2, <2>4
    <2>6. BurstStart = 0 <=> Bench!Before = 0
      BY <1>1, <1>2, <2>1, <2>2
    <2> QED BY <2>1, <2>3, <2>4, <2>5, <2>6
  <1>4. ASSUME HasBurst
        PROVE  /\ BurstStart * Sec \in Nat /\ BurstEnd * Sec \in Nat
               /\ BurstStart * Sec + (BurstEnd - BurstStart) * Sec = BurstEnd * Sec
    BY <1>1, <1>3, <1>4
  <1> QED BY <1>1, <1>2, <1>3, <1>4

\* A phase of the schedule lies in its window of time.
LEMMA Windows ==
  ASSUME Bench!ScheduleAssumption, HasBurst, NEW n \in Nat, n >= Warmup
  PROVE  /\ Bench!BurstPhase(n) \in {"before", "burst", "after"}
         /\ Bench!MeasurementOffset(n) \in Nat
         /\ Bench!BurstPhase(n) = "before" =>
              /\ n - Warmup < Bench!Before
              /\ Bench!MeasurementOffset(n) = (n - Warmup) * Long
              /\ Bench!MeasurementOffset(n) < BurstStart * Sec
         /\ Bench!BurstPhase(n) = "burst" =>
              /\ n - Warmup - Bench!Before \in 0 .. Bench!During - 1
              /\ Bench!MeasurementOffset(n)
                   = BurstStart * Sec + (n - Warmup - Bench!Before) * Short
              /\ BurstStart * Sec <= Bench!MeasurementOffset(n)
              /\ Bench!MeasurementOffset(n) < BurstEnd * Sec
         /\ Bench!BurstPhase(n) = "after" =>
              /\ n - Warmup - Bench!Before - Bench!During \in Nat
              /\ Bench!MeasurementOffset(n)
                   = BurstEnd * Sec + (n - Warmup - Bench!Before - Bench!During) * Long
              /\ BurstEnd * Sec <= Bench!MeasurementOffset(n)
  <1> DEFINE B == Bench!Before
             D == Bench!During
             i == n - Warmup
             at == Bench!MeasurementOffset(n)
  <1>0. /\ Long \in Nat \ {0} /\ Short \in Nat \ {0} /\ B \in Nat /\ D \in Nat \ {0} /\ i \in Nat
        /\ B * Long <= BurstStart * Sec /\ D * Short <= (BurstEnd - BurstStart) * Sec
        /\ BurstStart * Sec \in Nat /\ BurstEnd * Sec \in Nat
        /\ BurstStart * Sec + (BurstEnd - BurstStart) * Sec = BurstEnd * Sec
        /\ BurstStart \in Nat /\ BurstEnd \in Nat /\ Sec \in Nat
    BY ScheduleFacts
  <1>1. Bench!BurstPhase(n) = IF i < B THEN "before" ELSE IF i < B + D THEN "burst" ELSE "after"
    <2>1. ~(n < Warmup)
      BY ScheduleFacts
    <2> QED BY <2>1 DEF Bench!BurstPhase
  <1>2. at = CASE Bench!BurstPhase(n) = "before" -> i * Long
               [] Bench!BurstPhase(n) = "burst" -> BurstStart * Sec + (i - B) * Short
               [] OTHER -> BurstEnd * Sec + (i - B - D) * Long
    BY DEF Bench!MeasurementOffset, Long, Short
  <1> HIDE DEF B, D, i, at
  <1>3. CASE i < B
    <2>1. at = i * Long /\ Bench!BurstPhase(n) = "before"
      BY <1>1, <1>2, <1>3
    <2>2. (i + 1) * Long <= B * Long /\ (i + 1) * Long = i * Long + Long /\ i * Long \in Nat
      BY <1>0, <1>3, Grows
    <2>3. at \in Nat /\ at < BurstStart * Sec
      BY <1>0, <2>1, <2>2
    <2> QED BY <1>3, <2>1, <2>3 DEF at, i, B
  <1>4. CASE i >= B /\ i < B + D
    <2>1. at = BurstStart * Sec + (i - B) * Short /\ Bench!BurstPhase(n) = "burst"
      BY <1>0, <1>1, <1>2, <1>4
    <2>2. i - B \in 0 .. D - 1
      BY <1>0, <1>4
    <2>3. /\ (i - B + 1) * Short <= D * Short /\ (i - B) * Short \in Nat
          /\ (i - B + 1) * Short = (i - B) * Short + Short
      BY <1>0, <2>2, Grows
    <2>4. at \in Nat /\ BurstStart * Sec <= at /\ at < BurstEnd * Sec
      BY <1>0, <2>1, <2>3
    <2> QED BY <2>1, <2>2, <2>4 DEF at, i, B, D
  <1>5. CASE i >= B + D
    <2>1. at = BurstEnd * Sec + (i - B - D) * Long /\ Bench!BurstPhase(n) = "after"
      BY <1>0, <1>1, <1>2, <1>5
    <2>2. i - B - D \in Nat
      BY <1>0, <1>5
    <2>3. (i - B - D) * Long \in Nat
      BY <1>0, <2>2
    <2>4. at \in Nat /\ BurstEnd * Sec <= at
      BY <1>0, <2>1, <2>3
    <2> QED BY <2>1, <2>2, <2>4 DEF at, i, B, D
  <1> QED BY <1>0, <1>3, <1>4, <1>5

\* The measurement starts where the warm-up ends, and no message is due before
\* the one in front of it, across all phases.
LEMMA OffsetsRise ==
  ASSUME Bench!ScheduleAssumption, NEW n \in Nat, NEW m \in 0 .. n
  PROVE  /\ Bench!ScheduleOffset(n) \in Nat /\ Bench!ScheduleOffset(m) \in Nat
         /\ Bench!ScheduleOffset(m) <= Bench!ScheduleOffset(n)
         /\ HasBurst /\ n >= Warmup =>
              Bench!ScheduleOffset(n) = Warmup * Long + Bench!MeasurementOffset(n)
         /\ HasBurst => Bench!ScheduleOffset(Warmup) = Warmup * Long
  <1>0. /\ Long \in Nat \ {0} /\ Warmup \in Nat /\ HasBurst \in BOOLEAN /\ m \in Nat /\ m <= n
        /\ Warmup * Long \in Nat
    BY ScheduleFacts
  <1>1. ASSUME NEW k \in Nat, ~HasBurst \/ k < Warmup
        PROVE  Bench!ScheduleOffset(k) = k * Long /\ k * Long \in Nat
    BY <1>0, <1>1 DEF Bench!ScheduleOffset, Bench!BurstPhase, Long
  <1>2. ASSUME NEW k \in Nat, HasBurst, k >= Warmup
        PROVE  /\ Bench!ScheduleOffset(k) = Warmup * Long + Bench!MeasurementOffset(k)
               /\ Bench!MeasurementOffset(k) \in Nat
    <2>1. Bench!BurstPhase(k) # "none" /\ Bench!MeasurementOffset(k) \in Nat
      BY <1>2, Windows
    <2> QED BY <2>1 DEF Bench!ScheduleOffset, Long
  <1> DEFINE Rising == /\ Bench!ScheduleOffset(n) \in Nat /\ Bench!ScheduleOffset(m) \in Nat
                       /\ Bench!ScheduleOffset(m) <= Bench!ScheduleOffset(n)
  <1>3. ASSUME ~HasBurst \/ n < Warmup PROVE Rising
    <2>1. ~HasBurst \/ m < Warmup
      BY <1>0, <1>3
    <2>2. m * Long <= n * Long
      BY <1>0, Grows
    <2>3. /\ Bench!ScheduleOffset(n) \in Nat /\ Bench!ScheduleOffset(m) \in Nat
          /\ Bench!ScheduleOffset(m) <= Bench!ScheduleOffset(n)
      BY <1>0, <1>1, <1>3, <2>1, <2>2
    <2> QED BY <2>3
  <1>4. ASSUME HasBurst, n >= Warmup PROVE Rising
    <2> DEFINE M(k) == Bench!MeasurementOffset(k)
               P(k) == Bench!BurstPhase(k)
    <2>1. ASSUME m < Warmup PROVE Rising
      <3>1. m * Long <= Warmup * Long
        BY <1>0, <2>1, Grows
      <3>2. Bench!ScheduleOffset(m) = m * Long /\ m * Long \in Nat
        BY <1>0, <1>1, <2>1
      <3>3. Bench!ScheduleOffset(n) = Warmup * Long + M(n) /\ M(n) \in Nat
        BY <1>2, <1>4
      <3> HIDE DEF M
      <3> QED BY <1>0, <3>1, <3>2, <3>3
    <2>2. ASSUME m >= Warmup PROVE Rising
      <3> DEFINE B == Bench!Before
                 D == Bench!During
      <3>0. /\ Short \in Nat /\ B \in Nat /\ D \in Nat
            /\ BurstStart * Sec \in Nat /\ BurstEnd * Sec \in Nat
            /\ BurstStart * Sec <= BurstEnd * Sec
        <4>1. (BurstEnd - BurstStart) * Sec \in Nat
          BY <1>4, ScheduleFacts
        <4> QED BY <1>4, <4>1, ScheduleFacts
      <3>1. M(m) \in Nat /\ M(n) \in Nat
        BY <1>0, <1>2, <1>4, <2>2
      <3>2. /\ P(m) \in {"before", "burst", "after"} /\ P(n) \in {"before", "burst", "after"}
            /\ P(m) = "burst" => P(n) # "before"
            /\ P(m) = "after" => P(n) = "after"
        <4>1. \A k \in {m, n} : P(k) = IF k - Warmup < B THEN "before"
                     ELSE IF k - Warmup < B + D THEN "burst" ELSE "after"
          BY <1>0, <1>4, <2>2 DEF Bench!BurstPhase
        <4> HIDE DEF P, B, D
        <4> QED BY <1>0, <3>0, <4>1
      <3>3. ASSUME P(m) = "before", P(n) = "before" PROVE M(m) <= M(n)
        <4>1. M(m) = (m - Warmup) * Long /\ M(n) = (n - Warmup) * Long
          BY <1>0, <1>4, <2>2, <3>3, Windows
        <4>2. (m - Warmup) * Long <= (n - Warmup) * Long
          BY <1>0, <1>4, <2>2, Grows
        <4> QED BY <4>1, <4>2
      <3>4. ASSUME P(m) = "burst", P(n) = "burst" PROVE M(m) <= M(n)
        <4>1. /\ M(m) = BurstStart * Sec + (m - Warmup - B) * Short
              /\ M(n) = BurstStart * Sec + (n - Warmup - B) * Short
              /\ m - Warmup - B \in Nat /\ n - Warmup - B \in Nat
          BY <1>0, <1>4, <2>2, <3>0, <3>4, Windows
        <4>2. m - Warmup - B <= n - Warmup - B
          BY <1>0, <3>0
        <4>3. /\ (m - Warmup - B) * Short <= (n - Warmup - B) * Short
              /\ (m - Warmup - B) * Short \in Nat /\ (n - Warmup - B) * Short \in Nat
          BY <3>0, <4>1, <4>2, Grows
        <4> HIDE DEF M, B
        <4> QED BY <3>0, <4>1, <4>3
      <3>5. ASSUME P(m) = "after", P(n) = "after" PROVE M(m) <= M(n)
        <4>1. /\ M(m) = BurstEnd * Sec + (m - Warmup - B - D) * Long
              /\ M(n) = BurstEnd * Sec + (n - Warmup - B - D) * Long
              /\ m - Warmup - B - D \in Nat /\ n - Warmup - B - D \in Nat
          BY <1>0, <1>4, <2>2, <3>5, Windows
        <4>2. m - Warmup - B - D <= n - Warmup - B - D
          BY <1>0, <3>0
        <4>3. /\ (m - Warmup - B - D) * Long <= (n - Warmup - B - D) * Long
              /\ (m - Warmup - B - D) * Long \in Nat /\ (n - Warmup - B - D) * Long \in Nat
          BY <1>0, <4>1, <4>2, Grows
        <4> HIDE DEF M, B, D
        <4> QED BY <3>0, <4>1, <4>3
      <3>6. ASSUME P(m) = "before", P(n) # "before" PROVE M(m) <= M(n)
        <4>1. M(m) < BurstStart * Sec
          BY <1>0, <1>4, <2>2, <3>6, Windows
        <4>2. BurstStart * Sec <= M(n)
          <5>1. BurstStart * Sec <= M(n) \/ BurstEnd * Sec <= M(n)
            BY <1>0, <1>4, <3>2, <3>6, Windows
          <5> HIDE DEF M
          <5> QED BY <3>0, <3>1, <5>1
        <4> HIDE DEF M
        <4> QED BY <3>0, <3>1, <4>1, <4>2
      <3>7. ASSUME P(m) = "burst", P(n) = "after" PROVE M(m) <= M(n)
        <4>1. M(m) < BurstEnd * Sec /\ BurstEnd * Sec <= M(n)
          BY <1>0, <1>4, <2>2, <3>7, Windows
        <4> HIDE DEF M
        <4> QED BY <3>0, <3>1, <4>1
      <3>8. M(m) <= M(n)
        BY <3>2, <3>3, <3>4, <3>5, <3>6, <3>7
      <3>9. /\ Bench!ScheduleOffset(m) = Warmup * Long + M(m)
            /\ Bench!ScheduleOffset(n) = Warmup * Long + M(n)
        BY <1>0, <1>2, <1>4, <2>2
      <3> HIDE DEF M
      <3> QED BY <1>0, <3>1, <3>8, <3>9
    <2> QED BY <1>0, <2>1, <2>2
  <1>5. ASSUME HasBurst PROVE Bench!MeasurementOffset(Warmup) = 0
    <2>1. /\ Warmup >= Warmup /\ Warmup - Warmup = 0 /\ 0 * Long = 0 /\ 0 * Short = 0
          /\ BurstStart \in Nat /\ Bench!Before \in Nat /\ Bench!During \in Nat \ {0}
          /\ (BurstStart = 0 <=> Bench!Before = 0) /\ Sec \in Nat /\ 0 * Sec = 0
      BY <1>0, <1>5, ScheduleFacts
    <2>2. CASE Bench!Before = 0
      <3>1. Bench!BurstPhase(Warmup) = "burst"
        BY <1>0, <1>5, <2>1, <2>2 DEF Bench!BurstPhase
      <3>2. Bench!MeasurementOffset(Warmup)
              = BurstStart * Sec + (Warmup - Warmup - Bench!Before) * Short
        BY <1>0, <1>5, <2>1, <3>1, Windows
      <3> QED BY <2>1, <2>2, <3>2
    <2>3. CASE Bench!Before # 0
      <3>1. Bench!BurstPhase(Warmup) = "before"
        BY <1>0, <1>5, <2>1, <2>3 DEF Bench!BurstPhase
      <3>2. Bench!MeasurementOffset(Warmup) = (Warmup - Warmup) * Long
        BY <1>0, <1>5, <2>1, <3>1, Windows
      <3> QED BY <2>1, <3>2
    <2> QED BY <2>2, <2>3
  <1>6. HasBurst => Bench!ScheduleOffset(Warmup) = Warmup * Long
    <2> SUFFICES ASSUME HasBurst PROVE Bench!ScheduleOffset(Warmup) = Warmup * Long
      OBVIOUS
    <2>1. Bench!ScheduleOffset(Warmup) = Warmup * Long + Bench!MeasurementOffset(Warmup)
      BY <1>0, <1>2
    <2> QED BY <1>0, <1>5, <2>1
  <1>7. HasBurst /\ n >= Warmup =>
          Bench!ScheduleOffset(n) = Warmup * Long + Bench!MeasurementOffset(n)
    BY <1>2
  <1>8. (~HasBurst \/ n < Warmup) \/ (HasBurst /\ n >= Warmup)
    BY <1>0
  <1> QED BY <1>3, <1>4, <1>6, <1>7, <1>8

-----------------------------------------------------------------------------
\* The stamps a source can give.
\* What the source's constants are.
LEMMA SourceFacts ==
  ASSUME BenchAssumptions
  PROVE  /\ Sec \in Nat \ {0} /\ Total \in Nat \ {0} /\ Warmup \in Nat /\ Long \in Nat \ {0}
         /\ HasBurst \in BOOLEAN /\ PacerAhead \in Nat \ {0} /\ MaxStart \in Nat /\ Slack \in Nat
         /\ HasBurst =>
              /\ Short \in Nat \ {0} /\ BurstStart \in Nat /\ BurstEnd \in Nat
              /\ BurstStart < BurstEnd
              /\ Bench!Before \in Nat /\ Bench!During \in Nat \ {0}
              /\ Bench!Before * Long <= BurstStart * Sec
              /\ Bench!During * Short <= (BurstEnd - BurstStart) * Sec
              /\ BurstStart * Sec \in Nat /\ BurstEnd * Sec \in Nat
              /\ BurstStart * Sec + (BurstEnd - BurstStart) * Sec = BurstEnd * Sec
              /\ (BurstStart = 0 <=> Bench!Before = 0)
         /\ Bench!ScheduleAssumption
  <1>1. Bench!ScheduleAssumption /\ Bench!SourceAssumption
    BY DEF BenchAssumptions
  <1>2. PacerAhead \in Nat \ {0} /\ MaxStart \in Nat /\ Slack \in Nat
    BY <1>1 DEF Bench!SourceAssumption
  <1> QED BY <1>1, <1>2, ScheduleFacts

StampSet == {Bench!StampsOf(n, o, e) : n \in Nat, o \in Nat, e \in Nat}

SourceTypes ==
    /\ now \in Nat /\ origin \in Nat \cup {-1}
    /\ pacer \in {"none", "running", "ended"}
    /\ next \in 0 .. Total /\ due \in Seq(0 .. Total) /\ Len(due) <= PacerAhead
    /\ polling \in BOOLEAN /\ alive \in BOOLEAN
    /\ phaseCounts \in [Bench!Phases -> Nat]
    /\ completedAt \in -1 .. now
    /\ emitted \in Seq(StampSet)
    /\ summary \in {"none", "written", "failed"}

\* The clock against the pacer's start and its last message.
Clocked ==
    /\ pacer = "none" => origin = -1 /\ next = 0 /\ now <= MaxStart
    /\ pacer # "none" => origin <= now /\ origin \in 0 .. MaxStart
                         /\ now <= Bench!DueAt(Total - 1) + Slack

\* Every message up to the pacer's was emitted or waits in the channel, in
\* order, due, and with the stamps of the schedule.
InTurn ==
    /\ sequence = Len(emitted) /\ next = sequence + Len(due)
    /\ \A i \in 1 .. Len(due) : due[i] = sequence + i - 1 /\ Bench!DueAt(due[i]) <= now
    /\ \A i \in 1 .. Len(emitted) :
          /\ emitted[i] = Bench!StampsOf(i - 1, origin, emitted[i].emit)
          /\ Bench!DueAt(i - 1) <= emitted[i].emit

OfPhase(p) == {i \in 1 .. Len(emitted) : Bench!BurstPhase(i - 1) = p}

Tallied == \A p \in Bench!Phases : phaseCounts[p] = Cardinality(OfPhase(p))

SourceInv == SourceTypes /\ Clocked /\ InTurn /\ Tallied

LEMMA SourceInvInit == ASSUME BenchAssumptions, Bench!Init PROVE SourceInv
  <1>0. Total \in Nat \ {0} /\ PacerAhead \in Nat \ {0} /\ MaxStart \in Nat
    BY SourceFacts
  <1>1. SourceTypes /\ Clocked /\ InTurn
    <2>1. /\ due \in Seq(0 .. Total) /\ Len(due) = 0 /\ 1 .. Len(due) = {}
          /\ emitted \in Seq(StampSet) /\ Len(emitted) = 0 /\ 1 .. Len(emitted) = {}
      BY DEF Bench!Init
    <2>2. phaseCounts \in [Bench!Phases -> Nat]
      BY DEF Bench!Init
    <2>3. SourceTypes
      <3>1. /\ polling \in BOOLEAN /\ alive \in BOOLEAN
            /\ pacer \in {"none", "running", "ended"} /\ summary \in {"none", "written", "failed"}
        BY DEF Bench!Init
      <3>2. /\ now \in Nat /\ origin \in Nat \cup {-1} /\ next \in 0 .. Total
            /\ completedAt \in -1 .. now /\ Len(due) <= PacerAhead
        BY <1>0, <2>1 DEF Bench!Init
      <3> QED BY <2>1, <2>2, <3>1, <3>2 DEF SourceTypes
    <2>4. Clocked
      BY <1>0 DEF Bench!Init, Clocked
    <2>5. InTurn
      BY <2>1 DEF Bench!Init, InTurn
    <2> QED BY <2>3, <2>4, <2>5
  <1>2. Tallied
    <2>1. \A p : OfPhase(p) = {}
      BY DEF OfPhase, Bench!Init
    <2> QED BY <2>1, FS_EmptySet DEF Bench!Init, Tallied
  <1> QED BY <1>1, <1>2 DEF SourceInv

\* No message is due before its pacer started.
LEMMA DueIs ==
  ASSUME BenchAssumptions, NEW n \in Nat, origin \in Nat
  PROVE  /\ Bench!DueAt(n) \in Nat /\ Bench!DueAt(n) = origin + Bench!ScheduleOffset(n)
         /\ Bench!ScheduleOffset(n) \in Nat
  <1>1. Bench!ScheduleOffset(n) \in Nat
    BY SourceFacts, OffsetsRise, n \in 0 .. n
  <1> QED BY <1>1 DEF Bench!DueAt

\* The number of the message that was returned, counted in its phase only.
LEMMA TallyStep ==
  ASSUME SourceTypes, InTurn, Tallied, Len(emitted') = Len(emitted) + 1,
         Bench!BurstPhase(sequence) \in Bench!Phases \cup {"none"},
         phaseCounts' = IF Bench!BurstPhase(sequence) = "none" THEN phaseCounts
                        ELSE [phaseCounts EXCEPT ![Bench!BurstPhase(sequence)] = @ + 1]
  PROVE  Tallied'
  <1> DEFINE n == Len(emitted)
             phase == Bench!BurstPhase(n)
  <1>0. n \in Nat /\ sequence = n /\ phaseCounts \in [Bench!Phases -> Nat]
    BY DEF SourceTypes, InTurn
  <1> SUFFICES ASSUME NEW p \in Bench!Phases PROVE phaseCounts'[p] = Cardinality(OfPhase(p)')
    BY DEF Tallied
  <1>1. phaseCounts[p] = Cardinality(OfPhase(p)) /\ p # "none"
    BY DEF Tallied, Bench!Phases
  <1>2. IsFiniteSet(OfPhase(p)) /\ n + 1 \notin OfPhase(p)
    <2>1. IsFiniteSet(1 .. n)
      BY <1>0, FS_Interval
    <2> QED BY <1>0, <2>1, FS_Subset DEF OfPhase
  <1>3. OfPhase(p)' = {i \in 1 .. n + 1 : Bench!BurstPhase(i - 1) = p}
    BY DEF OfPhase, Bench!BurstPhase, Bench!Before, Bench!During, Bench!MessagesFor
  <1>4. CASE phase = p
    <2>1. OfPhase(p)' = OfPhase(p) \cup {n + 1}
      <3>1. ASSUME NEW i PROVE i \in 1 .. n + 1 <=> i \in 1 .. n \/ i = n + 1
        BY <1>0
      <3>2. n + 1 - 1 = n
        BY <1>0
      <3> QED BY <1>3, <1>4, <3>1, <3>2 DEF OfPhase
    <2>2. Cardinality(OfPhase(p)') = Cardinality(OfPhase(p)) + 1
      BY <1>2, <2>1, FS_AddElement
    <2>3. phaseCounts'[p] = phaseCounts[p] + 1
      BY <1>0, <1>1, <1>4
    <2> QED BY <1>1, <2>2, <2>3
  <1>5. CASE phase # p
    <2>1. OfPhase(p)' = OfPhase(p)
      <3>1. ASSUME NEW i PROVE i \in 1 .. n + 1 <=> i \in 1 .. n \/ i = n + 1
        BY <1>0
      <3>2. n + 1 - 1 = n
        BY <1>0
      <3> QED BY <1>3, <1>5, <3>1, <3>2 DEF OfPhase
    <2>2. phaseCounts'[p] = phaseCounts[p]
      BY <1>0, <1>1, <1>5
    <2> QED BY <1>1, <2>1, <2>2
  <1> QED BY <1>4, <1>5


LEMMA SourceStep ==
  ASSUME BenchAssumptions, SourceInv, [Bench!Next]_(Bench!vars) PROVE SourceInv'
  <1>0. /\ Total \in Nat \ {0} /\ PacerAhead \in Nat \ {0} /\ MaxStart \in Nat /\ Slack \in Nat
        /\ Total - 1 \in Nat
    BY SourceFacts
  <1> USE DEF Bench!sourceVars
  <1>1. CASE UNCHANGED Bench!vars
    BY <1>1 DEF Bench!vars, SourceInv, SourceTypes, Clocked, InTurn, Tallied, OfPhase,
         Bench!BurstPhase, Bench!DueAt, Bench!StampsOf
  <1>2. CASE Bench!PollEnd
    <2>1. UNCHANGED <<now, pacer, origin, next, due, polling, sequence, phaseCounts, emitted,
                      alive, summary>>
      BY <1>2 DEF Bench!PollEnd
    <2>2. completedAt' \in -1 .. now
      <3>1. CASE completedAt = -1 /\ HasBurst /\ pacer # "none"
        <4>1. origin \in Nat /\ origin <= now /\ now \in Nat
          BY <3>1 DEF SourceInv, SourceTypes, Clocked
        <4>2. Bench!MeasurementStart(origin) \in Nat
          <5>1. Bench!ScheduleOffset(Warmup) \in Nat
            BY SourceFacts, OffsetsRise, Warmup \in 0 .. Warmup
          <5> QED BY <4>1, <5>1 DEF Bench!MeasurementStart
        <4> QED BY <1>2, <3>1, <4>1, <4>2 DEF Bench!PollEnd
      <3>2. CASE ~(completedAt = -1 /\ HasBurst /\ pacer # "none")
        BY <1>2, <3>2 DEF Bench!PollEnd, SourceInv, SourceTypes
      <3> QED BY <3>1, <3>2
    <2> QED BY <2>1, <2>2 DEF SourceInv, SourceTypes, Clocked, InTurn, Tallied, OfPhase, Bench!DueAt
  <1>3. CASE Bench!PollBegin \/ Bench!PollTimingFails
    <2>1. UNCHANGED <<now, next, due, sequence, phaseCounts, completedAt, emitted, alive, summary>>
          /\ polling' \in BOOLEAN
      BY <1>3 DEF Bench!PollBegin, Bench!PollTimingFails, SourceInv, SourceTypes
    <2>2. CASE pacer # "none"
      <3>1. UNCHANGED <<pacer, origin>>
        BY <1>3, <2>2 DEF Bench!PollBegin, Bench!PollTimingFails
      <3> QED BY <2>1, <3>1 DEF SourceInv, SourceTypes, Clocked, InTurn, Tallied, OfPhase, Bench!DueAt
    <2>3. CASE pacer = "none"
      <3>1. pacer' = "running" /\ origin' = now
        BY <1>3, <2>3 DEF Bench!PollBegin, Bench!PollTimingFails
      <3>2. /\ next = 0 /\ now <= MaxStart /\ now \in Nat
            /\ Len(due) \in Nat /\ Len(emitted) \in Nat
        BY <2>3 DEF SourceInv, Clocked, SourceTypes
      <3>3. Len(due) = 0 /\ Len(emitted) = 0 /\ sequence = 0
        BY <3>2 DEF SourceInv, InTurn
      <3>4. SourceTypes'
        BY <2>1, <3>1, <3>2 DEF SourceInv, SourceTypes
      <3>5. Clocked'
        <4>1. Bench!DueAt(Total - 1)' = now + Bench!ScheduleOffset(Total - 1)
          BY <3>1 DEF Bench!DueAt
        <4>2. Bench!ScheduleOffset(Total - 1) \in Nat
          BY <1>0, SourceFacts, OffsetsRise, Total - 1 \in 0 .. Total - 1
        <4> QED BY <1>0, <2>1, <3>1, <3>2, <4>1, <4>2 DEF Clocked
      <3>6. InTurn' /\ Tallied'
        BY <2>1, <3>3 DEF SourceInv, InTurn, Tallied, OfPhase
      <3> QED BY <3>4, <3>5, <3>6 DEF SourceInv
    <2> QED BY <2>2, <2>3
  <1>4. CASE Bench!PollReady
    <2> DEFINE n == Head(due)
               m == Bench!StampsOf(n, origin, now)
    <2>1. /\ due # <<>> /\ polling' = FALSE /\ due' = Tail(due) /\ sequence' = n + 1
          /\ emitted' = Append(emitted, m)
          /\ phaseCounts' = IF Bench!BurstPhase(n) = "none" THEN phaseCounts
                            ELSE [phaseCounts EXCEPT ![Bench!BurstPhase(n)] = @ + 1]
          /\ UNCHANGED <<now, pacer, origin, next, completedAt, alive, summary>>
      BY <1>4 DEF Bench!PollReady, Bench!Emit
    <2>2. /\ due \in Seq(0 .. Total) /\ emitted \in Seq(StampSet) /\ now \in Nat
          /\ phaseCounts \in [Bench!Phases -> Nat]
          /\ sequence = Len(emitted) /\ next = sequence + Len(due)
          /\ \A i \in 1 .. Len(due) : due[i] = sequence + i - 1 /\ Bench!DueAt(due[i]) <= now
      BY DEF SourceInv, SourceTypes, InTurn
    <2>3. /\ Len(due) >= 1 /\ Len(Tail(due)) = Len(due) - 1
          /\ Tail(due) \in Seq(0 .. Total) /\ n = due[1]
          /\ \A i \in 1 .. Len(due) - 1 : Tail(due)[i] = due[i + 1]
      BY <2>1, <2>2
    <2>4. n = sequence /\ n \in Nat /\ Bench!DueAt(n) <= now
      BY <2>2, <2>3
    <2>5. pacer # "none" /\ origin \in Nat
      <3>1. next # 0
        BY <2>2, <2>3
      <3> QED BY <3>1 DEF SourceInv, Clocked, SourceTypes
    <2>6. m \in StampSet
      BY <2>2, <2>4, <2>5 DEF StampSet
    <2>7. Bench!BurstPhase(n) \in Bench!Phases \cup {"none"}
      BY DEF Bench!BurstPhase, Bench!Phases
    <2>8. /\ emitted' \in Seq(StampSet) /\ Len(emitted') = Len(emitted) + 1
          /\ emitted'[Len(emitted) + 1] = m
          /\ \A i \in 1 .. Len(emitted) : emitted'[i] = emitted[i]
      BY <2>1, <2>2, <2>6
    <2>9. m = Bench!StampsOf(n, origin, m.emit) /\ m.emit = now
      BY DEF Bench!StampsOf
    <2> HIDE DEF n, m
    <2>10. phaseCounts' \in [Bench!Phases -> Nat]
      BY <2>1, <2>2, <2>7
    <2>11. SourceTypes'
      <3>1. Len(due') <= PacerAhead
        BY <1>0, <2>1, <2>2, <2>3 DEF SourceInv, SourceTypes
      <3> QED BY <2>1, <2>3, <2>8, <2>10, <3>1 DEF SourceInv, SourceTypes
    <2>12. Clocked'
      BY <2>1 DEF SourceInv, Clocked, Bench!DueAt
    <2>13. InTurn'
      <3>1. sequence' = Len(emitted') /\ next' = sequence' + Len(due')
        BY <2>1, <2>2, <2>3, <2>4, <2>8
      <3>2. \A i \in 1 .. Len(due') :
               due'[i] = sequence' + i - 1 /\ origin + Bench!ScheduleOffset(due'[i]) <= now
        <4> TAKE i \in 1 .. Len(due')
        <4>1. i + 1 \in 1 .. Len(due) /\ due'[i] = due[i + 1] /\ i \in Nat
          BY <2>1, <2>2, <2>3
        <4>2. due[i + 1] = sequence + i /\ Bench!DueAt(due[i + 1]) <= now
          BY <2>2, <4>1
        <4> QED BY <2>1, <2>2, <2>4, <4>1, <4>2 DEF Bench!DueAt
      <3>3. \A i \in 1 .. Len(emitted') :
               /\ emitted'[i] = Bench!StampsOf(i - 1, origin, emitted'[i].emit)
               /\ Bench!DueAt(i - 1) <= emitted'[i].emit
        <4> TAKE i \in 1 .. Len(emitted')
        <4>2. CASE i = Len(emitted) + 1
          <5>1. i - 1 = n
            BY <2>2, <2>4, <4>2
          <5> QED BY <2>4, <2>8, <2>9, <4>2, <5>1
        <4>3. CASE i # Len(emitted) + 1
          <5>1. i \in 1 .. Len(emitted)
            BY <2>2, <2>8, <4>3
          <5> QED BY <2>8, <5>1 DEF SourceInv, InTurn
        <4> QED BY <4>2, <4>3
      <3> QED BY <2>1, <3>1, <3>2, <3>3 DEF InTurn, Bench!StampsOf, Bench!DueAt
    <2>14. Tallied'
      BY <2>1, <2>4, <2>7, <2>8, TallyStep DEF SourceInv
    <2> QED BY <2>11, <2>12, <2>13, <2>14 DEF SourceInv
  <1>5. CASE Bench!PollCancelled \/ Bench!Close
    <2>1. UNCHANGED <<now, pacer, origin, next, due, sequence, phaseCounts, completedAt, emitted>>
          /\ polling' \in BOOLEAN /\ alive' \in BOOLEAN /\ summary' \in {"none", "written", "failed"}
      BY <1>5 DEF Bench!PollCancelled, Bench!Close, SourceInv, SourceTypes
    <2> QED BY <2>1 DEF SourceInv, SourceTypes, Clocked, InTurn, Tallied, OfPhase, Bench!DueAt
  <1>6. CASE Bench!PacerSend
    <2>1. /\ pacer = "running" /\ pacer' \in {"running", "ended"} /\ next < Total
          /\ now >= Bench!DueAt(next) /\ Len(due) < PacerAhead
          /\ due' = Append(due, next) /\ next' = next + 1
          /\ UNCHANGED <<now, origin, polling, sequence, phaseCounts, completedAt, emitted, alive,
                         summary>>
      BY <1>6 DEF Bench!PacerSend
    <2>2. /\ due \in Seq(0 .. Total) /\ next \in 0 .. Total /\ now \in Nat
          /\ Len(emitted) \in Nat /\ origin \in Nat
          /\ sequence = Len(emitted) /\ next = sequence + Len(due)
          /\ \A i \in 1 .. Len(due) : due[i] = sequence + i - 1 /\ Bench!DueAt(due[i]) <= now
      BY <2>1 DEF SourceInv, SourceTypes, InTurn, Clocked
    <2>3. /\ due' \in Seq(0 .. Total) /\ Len(due') = Len(due) + 1 /\ due'[Len(due) + 1] = next
          /\ \A i \in 1 .. Len(due) : due'[i] = due[i]
      BY <2>1, <2>2
    <2>4. SourceTypes'
      BY <1>0, <2>1, <2>2, <2>3 DEF SourceInv, SourceTypes
    <2>5. Clocked' /\ Tallied'
      BY <2>1 DEF SourceInv, Clocked, Tallied, OfPhase, Bench!DueAt
    <2>6. InTurn'
      <3>1. \A i \in 1 .. Len(due') : due'[i] = sequence + i - 1 /\ Bench!DueAt(due'[i]) <= now
        <4> TAKE i \in 1 .. Len(due')
        <4>1. CASE i = Len(due) + 1
          <5>1. Bench!DueAt(next) \in Nat
            BY <2>2, DueIs
          <5> QED BY <2>1, <2>2, <2>3, <4>1, <5>1
        <4>2. CASE i # Len(due) + 1
          <5>1. i \in 1 .. Len(due)
            BY <2>2, <2>3, <4>2
          <5> QED BY <2>2, <2>3, <5>1
        <4> QED BY <4>1, <4>2
      <3>2. sequence' = Len(emitted') /\ next' = sequence' + Len(due')
        BY <2>1, <2>2, <2>3
      <3> QED BY <2>1, <3>1, <3>2 DEF SourceInv, InTurn, Bench!DueAt
    <2> QED BY <2>4, <2>5, <2>6 DEF SourceInv
  <1>7. CASE Bench!PacerStop
    <2>1. pacer = "running" /\ pacer' = "ended"
          /\ UNCHANGED <<now, origin, next, due, polling, sequence, phaseCounts, completedAt,
                         emitted, alive, summary>>
      BY <1>7 DEF Bench!PacerStop
    <2> QED BY <2>1 DEF SourceInv, SourceTypes, Clocked, InTurn, Tallied, OfPhase, Bench!DueAt
  <1>8. CASE Bench!Tick
    <2>1. /\ now < IF pacer = "none" THEN MaxStart ELSE Bench!DueAt(Total - 1) + Slack
          /\ now' = now + 1
          /\ UNCHANGED <<pacer, origin, next, due, polling, sequence, phaseCounts, completedAt,
                         emitted, alive, summary>>
      BY <1>8 DEF Bench!Tick
    <2>2. now \in Nat
      BY DEF SourceInv, SourceTypes
    <2>3. SourceTypes'
      BY <2>1, <2>2 DEF SourceInv, SourceTypes
    <2>4. Clocked'
      <3>1. CASE pacer = "none"
        BY <1>0, <2>1, <2>2, <3>1 DEF SourceInv, Clocked
      <3>2. CASE pacer # "none"
        <4>1. origin \in Nat /\ origin <= now /\ origin \in 0 .. MaxStart
          BY <3>2 DEF SourceInv, Clocked
        <4>2. Bench!DueAt(Total - 1) \in Nat
          BY <1>0, <4>1, DueIs
        <4>3. Bench!DueAt(Total - 1)' = Bench!DueAt(Total - 1)
          BY <2>1 DEF Bench!DueAt
        <4> QED BY <1>0, <2>1, <2>2, <3>2, <4>1, <4>2, <4>3 DEF Clocked
      <3> QED BY <3>1, <3>2
    <2>5. InTurn'
      <3>1. \A i \in 1 .. Len(due) : Bench!DueAt(due[i]) <= now + 1
        <4> TAKE i \in 1 .. Len(due)
        <4>1. Bench!DueAt(due[i]) <= now /\ due[i] \in Nat
          BY DEF SourceInv, InTurn, SourceTypes
        <4>2. origin \in Nat
          <5>1. next # 0
            BY <2>2 DEF SourceInv, InTurn, SourceTypes
          <5> QED BY <5>1 DEF SourceInv, Clocked, SourceTypes
        <4>3. Bench!DueAt(due[i]) \in Nat
          BY <4>1, <4>2, DueIs
        <4> QED BY <2>2, <4>1, <4>3
      <3>2. /\ \A i \in 1 .. Len(due) : due[i] = sequence + i - 1
            /\ \A i \in 1 .. Len(emitted) :
                  /\ emitted[i] = Bench!StampsOf(i - 1, origin, emitted[i].emit)
                  /\ Bench!DueAt(i - 1) <= emitted[i].emit
            /\ sequence = Len(emitted) /\ next = sequence + Len(due)
        BY DEF SourceInv, InTurn
      <3> QED BY <2>1, <3>1, <3>2 DEF InTurn, Bench!DueAt
    <2>6. Tallied'
      BY <2>1 DEF SourceInv, Tallied, OfPhase
    <2> QED BY <2>3, <2>4, <2>5, <2>6 DEF SourceInv
  <1> QED BY <1>1, <1>2, <1>3, <1>4, <1>5, <1>6, <1>7, <1>8 DEF Bench!Next


LEMMA SourceInvHolds == ASSUME BenchAssumptions PROVE Bench!Spec => []SourceInv
  <1>1. SourceInv /\ [Bench!Next]_(Bench!vars) => SourceInv'
    BY SourceStep
  <1>2. Bench!Init => SourceInv
    BY SourceInvInit
  <1> QED BY <1>1, <1>2, PTL DEF Bench!Spec

\* A message that left has the stamps of the schedule.
LEMMA EmittedIs ==
  ASSUME BenchAssumptions, SourceInv, NEW i \in 1 .. Len(emitted)
  PROVE  /\ i - 1 \in Nat /\ origin \in Nat
         /\ emitted[i].sequence = i - 1
         /\ emitted[i].intended = origin + Bench!ScheduleOffset(i - 1)
         /\ emitted[i].intended <= emitted[i].emit
         /\ emitted[i].phase = Bench!BurstPhase(i - 1)
         /\ HasBurst /\ i - 1 >= Warmup =>
              emitted[i].origin = origin + Bench!ScheduleOffset(Warmup)
  <1>1. /\ emitted[i] = Bench!StampsOf(i - 1, origin, emitted[i].emit)
        /\ Bench!DueAt(i - 1) <= emitted[i].emit
    BY DEF SourceInv, InTurn
  <1>2. Len(emitted) \in Nat /\ Len(due) \in Nat /\ i - 1 \in Nat
    BY DEF SourceInv, SourceTypes
  <1>3. next # 0
    BY <1>2 DEF SourceInv, InTurn
  <1>4. origin \in Nat
    BY <1>3 DEF SourceInv, SourceTypes, Clocked
  <1>5. HasBurst /\ i - 1 >= Warmup =>
          emitted[i].origin = origin + Bench!ScheduleOffset(Warmup)
    BY <1>1 DEF Bench!StampsOf, Bench!MeasurementStart
  <1>6. /\ emitted[i].sequence = i - 1
        /\ emitted[i].intended = origin + Bench!ScheduleOffset(i - 1)
        /\ emitted[i].phase = Bench!BurstPhase(i - 1)
    BY <1>1 DEF Bench!StampsOf
  <1> QED BY <1>1, <1>2, <1>4, <1>5, <1>6 DEF Bench!DueAt

\* Every message that left a bench source carries the due time the schedule
\* gave it, and none left before it: however the pipeline blocks the source,
\* later messages are not rescheduled (start_pacer, BenchSource::poll).
THEOREM SourceIsOpenLoop == ASSUME BenchAssumptions PROVE Bench!Spec => []Bench!OpenLoop
  <1>1. ASSUME SourceInv PROVE Bench!OpenLoop
    <2> SUFFICES ASSUME NEW i \in 1 .. Len(emitted)
                 PROVE  /\ emitted[i].intended
                             = origin + Bench!ScheduleOffset(emitted[i].sequence)
                        /\ emitted[i].emit >= emitted[i].intended
                        /\ \A j \in 1 .. i - 1 : emitted[j].intended <= emitted[i].intended
      BY DEF Bench!OpenLoop
    <2>1. /\ emitted[i].intended = origin + Bench!ScheduleOffset(emitted[i].sequence)
          /\ emitted[i].emit >= emitted[i].intended
      BY <1>1, EmittedIs
    <2>2. ASSUME NEW j \in 1 .. i - 1 PROVE emitted[j].intended <= emitted[i].intended
      <3>1. Len(emitted) \in Nat
        BY <1>1 DEF SourceInv, SourceTypes
      <3>2. j \in 1 .. Len(emitted) /\ i - 1 \in Nat /\ j - 1 \in 0 .. i - 1 /\ j - 1 \in Nat
        BY <3>1
      <3>3. /\ Bench!ScheduleOffset(i - 1) \in Nat /\ Bench!ScheduleOffset(j - 1) \in Nat
            /\ Bench!ScheduleOffset(j - 1) <= Bench!ScheduleOffset(i - 1)
        BY <3>2, SourceFacts, OffsetsRise
      <3>4. /\ emitted[i].intended = origin + Bench!ScheduleOffset(i - 1)
            /\ emitted[j].intended = origin + Bench!ScheduleOffset(j - 1) /\ origin \in Nat
        BY <1>1, <3>2, EmittedIs
      <3> QED BY <3>3, <3>4
    <2> QED BY <2>1, <2>2
  <1> QED BY <1>1, SourceInvHolds, PTL

\* Messages leave in order, none lost or repeated over any number of dropped
\* polls (BenchSource::poll, next_due).
THEOREM SourceLosesNone == ASSUME BenchAssumptions PROVE Bench!Spec => []Bench!NoneLost
  <1>1. ASSUME SourceInv PROVE Bench!NoneLost
    <2>1. \A i \in 1 .. Len(emitted) : emitted[i].sequence = i - 1
      BY <1>1, EmittedIs
    <2> QED BY <1>1, <2>1 DEF SourceInv, InTurn, Bench!NoneLost
  <1> QED BY <1>1, SourceInvHolds, PTL

\* A message says "burst" exactly when it was due in the burst window, and the
\* counts of the summary are those of the messages that left, at any rates and
\* boundaries (burst_phase, measurement_offset_ns, emitted_phase_counts).
THEOREM PhasesAlwaysFollowClock ==
  ASSUME BenchAssumptions PROVE Bench!Spec => []Bench!PhasesFollowClock
  <1>1. ASSUME SourceInv PROVE Bench!PhasesFollowClock
    <2>1. ASSUME NEW i \in 1 .. Len(emitted), emitted[i].phase # "none"
          PROVE  /\ (emitted[i].phase = "before")
                      = (emitted[i].intended - emitted[i].origin < BurstStart * Sec)
                 /\ (emitted[i].phase = "after")
                      = (emitted[i].intended - emitted[i].origin >= BurstEnd * Sec)
      <3> DEFINE n == i - 1
      <3>1. n \in Nat /\ origin \in Nat /\ emitted[i].phase = Bench!BurstPhase(n)
            /\ emitted[i].intended = origin + Bench!ScheduleOffset(n)
        BY <1>1, EmittedIs
      <3>2. HasBurst /\ n >= Warmup
        <4>1. ~(~HasBurst \/ n < Warmup)
          BY <2>1, <3>1 DEF Bench!BurstPhase
        <4>2. Warmup \in Nat /\ HasBurst \in BOOLEAN
          BY SourceFacts
        <4>3. HasBurst /\ ~(n < Warmup)
          BY <4>1, <4>2
        <4> HIDE DEF n
        <4> QED BY <3>1, <4>2, <4>3
      <3>3. emitted[i].origin = origin + Bench!ScheduleOffset(Warmup)
        BY <1>1, <3>2, EmittedIs
      <3> DEFINE at == Bench!MeasurementOffset(n)
      <3>4. /\ Bench!ScheduleOffset(n) = Warmup * Long + at
            /\ Bench!ScheduleOffset(Warmup) = Warmup * Long
        BY <3>1, <3>2, SourceFacts, OffsetsRise, n \in 0 .. n
      <3>5. /\ Warmup * Long \in Nat /\ at \in Nat
            /\ BurstStart * Sec \in Nat /\ BurstEnd * Sec \in Nat
            /\ BurstStart * Sec <= BurstEnd * Sec
        <4>1. /\ Warmup \in Nat /\ Long \in Nat /\ Sec \in Nat /\ BurstStart \in Nat
              /\ BurstEnd \in Nat /\ BurstStart < BurstEnd
          BY <3>2, SourceFacts
        <4>2. Warmup * Long \in Nat
          BY <4>1
        <4>3. /\ BurstStart * Sec \in Nat /\ BurstEnd * Sec \in Nat
              /\ BurstStart * Sec <= BurstEnd * Sec
          BY <4>1, Grows
        <4>4. at \in Nat
          BY <3>1, <3>2, SourceFacts, Windows
        <4> QED BY <4>2, <4>3, <4>4
      <3>6. emitted[i].intended - emitted[i].origin = at
        <4> HIDE DEF at, n
        <4> QED BY <3>1, <3>3, <3>4, <3>5
      <3>7. /\ Bench!BurstPhase(n) \in {"before", "burst", "after"}
            /\ Bench!BurstPhase(n) = "before" => at < BurstStart * Sec
            /\ Bench!BurstPhase(n) = "burst" => BurstStart * Sec <= at /\ at < BurstEnd * Sec
            /\ Bench!BurstPhase(n) = "after" => BurstEnd * Sec <= at
        BY <3>1, <3>2, SourceFacts, Windows
      <3> HIDE DEF at, n
      <3> QED BY <3>1, <3>5, <3>6, <3>7
    <2>2. \A p \in Bench!Phases :
             phaseCounts[p] = Bench!Cardinality({i \in 1 .. Len(emitted) : emitted[i].phase = p})
      <3> TAKE p \in Bench!Phases
      <3>1. {i \in 1 .. Len(emitted) : emitted[i].phase = p} = OfPhase(p)
        BY <1>1, EmittedIs DEF OfPhase
      <3>2. Bench!Cardinality(OfPhase(p)) = Cardinality(OfPhase(p))
        BY DEF Bench!Cardinality, Cardinality, Bench!IsFiniteSet, IsFiniteSet
      <3> QED BY <1>1, <3>1, <3>2 DEF SourceInv, Tallied
    <2> QED BY <2>1, <2>2 DEF Bench!PhasesFollowClock
  <1> QED BY <1>1, SourceInvHolds, PTL

\* Types, and the bounds of clock and channel: the completion time that is
\* reported is never negative, and no message beyond the last is numbered.
THEOREM SourceTypeCorrect == ASSUME BenchAssumptions PROVE Bench!Spec => []Bench!SourceTypeOK
  <1>1. ASSUME SourceInv PROVE Bench!SourceTypeOK
    <2>0. /\ Total \in Nat \ {0} /\ MaxStart \in Nat /\ Slack \in Nat /\ Total - 1 \in Nat
      BY SourceFacts
    <2>1. Bench!ScheduleOffset(Total - 1) \in Nat
      BY <2>0, SourceFacts, OffsetsRise, Total - 1 \in 0 .. Total - 1
    <2>2. now \in 0 .. Bench!MaxTime /\ origin \in -1 .. Bench!MaxTime
      <3>1. CASE pacer = "none"
        BY <1>1, <2>0, <2>1, <3>1 DEF SourceInv, SourceTypes, Clocked, Bench!MaxTime
      <3>2. CASE pacer # "none"
        <4>1. origin \in 0 .. MaxStart /\ now <= origin + Bench!ScheduleOffset(Total - 1) + Slack
              /\ now \in Nat
          BY <1>1, <3>2 DEF SourceInv, SourceTypes, Clocked, Bench!DueAt
        <4> QED BY <2>0, <2>1, <4>1 DEF Bench!MaxTime
      <3> QED BY <3>1, <3>2
    <2>3. completedAt \in -1 .. Bench!MaxTime
      <3>1. completedAt \in -1 .. now /\ now \in Nat
        BY <1>1 DEF SourceInv, SourceTypes
      <3>2. Bench!MaxTime \in Nat
        BY <2>0, <2>1 DEF Bench!MaxTime
      <3> QED BY <2>2, <3>1, <3>2
    <2>4. sequence \in 0 .. Total /\ Len(emitted) <= Total
      BY <1>1, <2>0 DEF SourceInv, SourceTypes, InTurn
    <2> QED BY <1>1, <2>2, <2>3, <2>4 DEF SourceInv, SourceTypes, Bench!SourceTypeOK
  <1> QED BY <1>1, SourceInvHolds, PTL
-------------------------------------------------------------------------------
(***************************************************************************)
(* The bench sink.                                                         *)
(***************************************************************************)
CONSTANTS MeasurementSecs, WarmupTicks, Plain, Versions, BucketWidth, PrimaryEnd, DrainEnd,
          SwapOffset, FineHalf, FineWidth, ParentWidth, FineCapacity, MaxTime, MaxStep
VARIABLES warmupUntil, tracker, anchored, start, grid, intervals, burst, latencies, swaps,
          measured, artifacts
Sink == INSTANCE BenchSink

SinkAssumptions == Sink!SinkAssumption /\ Sink!ScheduleAssumption /\ TrackerAssumption

-----------------------------------------------------------------------------
\* The elements in which a fold takes the elements of a set, and its partial sums.
Pick(s) == CHOOSE x \in s : TRUE
Sized(S, n) == {s \in SUBSET S : IsFiniteSet(s) /\ Cardinality(s) <= n}
Sums(S, w, n) == {f \in [Sized(S, n) -> Nat] :
    \A s \in Sized(S, n) : f[s] = IF s = {} THEN 0 ELSE w[Pick(s)] + f[s \ {Pick(s)}]}

LEMMA PickIs == ASSUME NEW s, s # {} PROVE Pick(s) \in s
  BY DEF Pick

LEMMA Smaller ==
  ASSUME NEW S, NEW n \in Nat, NEW s \in Sized(S, n), s # {}
  PROVE  /\ Pick(s) \in S /\ n > 0
         /\ s \ {Pick(s)} \in Sized(S, n - 1)
         /\ Cardinality(s \ {Pick(s)}) = Cardinality(s) - 1
  <1>1. Pick(s) \in s /\ s \in SUBSET S /\ IsFiniteSet(s) /\ Cardinality(s) <= n
    BY PickIs DEF Sized
  <1>2. IsFiniteSet(s \ {Pick(s)}) /\ Cardinality(s \ {Pick(s)}) = Cardinality(s) - 1
    BY <1>1, FS_RemoveElement
  <1>3. Cardinality(s) \in Nat /\ Cardinality(s \ {Pick(s)}) \in Nat
    BY <1>1, <1>2, FS_CardinalityType
  <1> QED BY <1>1, <1>2, <1>3 DEF Sized

LEMMA SumsAreThere ==
  ASSUME NEW S, NEW w \in [S -> Nat], NEW n \in Nat
  PROVE  Sums(S, w, n) # {}
  <1> DEFINE T == {k \in Nat : Sums(S, w, k) = {}}
  <1> SUFFICES ASSUME T # {} PROVE FALSE
    OBVIOUS
  <1>1. PICK k \in T : \A y \in T : k <= y
    BY Least
  <1>2. k # 0
    <2>1. ASSUME NEW s \in Sized(S, 0), s # {} PROVE FALSE
      <3>1. IsFiniteSet(s) /\ Cardinality(s) <= 0
        BY DEF Sized
      <3> QED BY <2>1, <3>1, FS_EmptySet, FS_CardinalityType
    <2>2. [s \in Sized(S, 0) |-> 0] \in Sums(S, w, 0)
      BY <2>1 DEF Sums
    <2> QED BY <1>1, <2>2
  <1>3. k - 1 \in Nat /\ k - 1 \notin T /\ k \in Nat
    BY <1>1, <1>2
  <1>4. PICK f : f \in Sums(S, w, k - 1)
    BY <1>3
  <1> DEFINE g == [s \in Sized(S, k) |->
                     IF s = {} THEN 0 ELSE w[Pick(s)] + f[s \ {Pick(s)}]]
  <1>5. ASSUME NEW s \in Sized(S, k), s # {}
        PROVE  /\ s \ {Pick(s)} \in Sized(S, k - 1) /\ w[Pick(s)] \in Nat
               /\ s \ {Pick(s)} \in Sized(S, k) /\ f[s \ {Pick(s)}] \in Nat
    <2>1. s \ {Pick(s)} \in Sized(S, k - 1) /\ Pick(s) \in S
      BY <1>3, <1>5, Smaller
    <2>2. s \ {Pick(s)} \in Sized(S, k)
      <3>1. \A r \in Sized(S, k - 1) : Cardinality(r) \in Nat
        BY FS_CardinalityType DEF Sized
      <3> QED BY <1>3, <2>1, <3>1 DEF Sized
    <2> QED BY <1>4, <2>1, <2>2 DEF Sums
  <1>6. g \in [Sized(S, k) -> Nat]
    BY <1>5
  <1>7. ASSUME NEW s \in Sized(S, k), s \in Sized(S, k - 1) PROVE g[s] = f[s]
    BY <1>4, <1>7 DEF Sums
  <1>8. ASSUME NEW s \in Sized(S, k)
        PROVE  g[s] = IF s = {} THEN 0 ELSE w[Pick(s)] + g[s \ {Pick(s)}]
    BY <1>5, <1>7
  <1>9. g \in Sums(S, w, k)
    BY <1>6, <1>8 DEF Sums
  <1> QED BY <1>1, <1>9

IsSum(S, w, f) == f = [s \in SUBSET S |-> IF s = {} THEN 0 ELSE w[Pick(s)] + f[s \ {Pick(s)}]]

\* Any fold that adds up weights is the sum; here, of the sizes of disjoint sets.
LEMMA FoldExists ==
  ASSUME NEW S, IsFiniteSet(S), NEW w \in [S -> Nat]
  PROVE  \E f : IsSum(S, w, f)
  <1>1. Cardinality(S) \in Nat
    BY FS_CardinalityType
  <1>2. Sized(S, Cardinality(S)) = SUBSET S
    <2>1. \A s \in SUBSET S : IsFiniteSet(s) /\ Cardinality(s) <= Cardinality(S)
      BY FS_Subset
    <2> QED BY <2>1 DEF Sized
  <1>3. PICK f : f \in Sums(S, w, Cardinality(S))
    BY <1>1, SumsAreThere
  <1>4. /\ f = [s \in SUBSET S |-> f[s]]
        /\ \A s \in SUBSET S : f[s] = IF s = {} THEN 0 ELSE w[Pick(s)] + f[s \ {Pick(s)}]
    BY <1>2, <1>3 DEF Sums
  <1> QED BY <1>4 DEF IsSum

\* The members of the sets of a family.
Members(K, s) == UNION {K[x] : x \in s}

LEMMA FoldCounts ==
  ASSUME NEW S, IsFiniteSet(S), NEW w \in [S -> Nat], NEW K,
         \A x \in S : IsFiniteSet(K[x]) /\ w[x] = Cardinality(K[x]),
         \A x, y \in S : x # y => K[x] \cap K[y] = {},
         NEW f, IsSum(S, w, f)
  PROVE  f[S] = Cardinality(Members(K, S)) /\ IsFiniteSet(Members(K, S))
  <1> DEFINE Wrong(s) == ~(f[s] = Cardinality(Members(K, s)) /\ IsFiniteSet(Members(K, s)))
             T == {n \in Nat : \E s \in Sized(S, n) : Wrong(s)}
  <1>1. S \in Sized(S, Cardinality(S)) /\ Cardinality(S) \in Nat
    BY FS_CardinalityType DEF Sized
  <1> SUFFICES ASSUME T # {} PROVE FALSE
    BY <1>1
  <1>2. PICK k \in T : \A y \in T : k <= y
    BY Least
  <1>3. PICK s \in Sized(S, k) : Wrong(s)
    BY <1>2
  <1>4. s # {}
    <2>1. Members(K, {}) = {}
      BY DEF Members
    <2>2. f[{}] = 0
      BY DEF IsSum
    <2> QED BY <1>3, <2>1, <2>2, FS_EmptySet
  <1> DEFINE x == Pick(s)
             r == s \ {x}
  <1>5. k > 0 /\ k \in Nat /\ r \in Sized(S, k - 1) /\ x \in S /\ x \in s /\ s \in SUBSET S
    BY <1>2, <1>3, <1>4, Smaller, PickIs DEF Sized
  <1>6. k - 1 \in Nat /\ ~(k <= k - 1)
    BY <1>5
  <1>7. ~Wrong(r)
    BY <1>2, <1>5, <1>6
  <1>8. f[s] = w[x] + f[r]
    BY <1>4, <1>5 DEF IsSum
  <1> HIDE DEF x
  <1>9. Members(K, s) = K[x] \cup Members(K, r) /\ K[x] \cap Members(K, r) = {}
    BY <1>5 DEF Members
  <1>10. /\ Cardinality(K[x] \cup Members(K, r)) = Cardinality(K[x]) + Cardinality(Members(K, r))
         /\ IsFiniteSet(K[x] \cup Members(K, r))
    <2>1. IsFiniteSet(K[x]) /\ IsFiniteSet(Members(K, r))
      BY <1>5, <1>7
    <2>2. Cardinality(K[x] \cap Members(K, r)) = 0
      BY <1>9, FS_EmptySet
    <2>3. Cardinality(K[x]) \in Nat /\ Cardinality(Members(K, r)) \in Nat
      BY <2>1, FS_CardinalityType
    <2> HIDE DEF r
    <2> DEFINE M == Members(K, r)
               L == K[x]
    <2> HIDE DEF M, L
    <2>4. IsFiniteSet(L) /\ IsFiniteSet(M) /\ Cardinality(L \cap M) = 0
          /\ Cardinality(L) \in Nat /\ Cardinality(M) \in Nat
      BY <2>1, <2>2, <2>3 DEF L, M
    <2>5. /\ Cardinality(L \cup M) = Cardinality(L) + Cardinality(M)
          /\ IsFiniteSet(L \cup M)
      <3>1. /\ Cardinality(L \cup M) = Cardinality(L) + Cardinality(M) - Cardinality(L \cap M)
            /\ IsFiniteSet(L \cup M)
        BY <2>4, FS_Union
      <3> QED BY <2>4, <3>1
    <2> QED BY <2>5 DEF L, M
  <1> QED BY <1>3, <1>5, <1>7, <1>8, <1>9, <1>10

\* IntervalRecorder::write adds up a field of its rows.
LEMMA RowSumIs ==
  ASSUME NEW iv, NEW field, NEW n \in Nat, NEW K,
         DOMAIN iv.rows = 1 .. n,
         \A k \in 1 .. n : IsFiniteSet(K[k]) /\ iv.rows[k].counts[field] = Cardinality(K[k]),
         \A k, l \in 1 .. n : k # l => K[k] \cap K[l] = {}
  PROVE  Sink!RowSum(iv, field) = Cardinality(Members(K, 1 .. n))
  <1> DEFINE S == 1 .. n
             w == [k \in S |-> iv.rows[k].counts[field]]
             P(f) == f = [s \in SUBSET S |-> IF s = {} THEN 0 ELSE
                            LET x == CHOOSE x \in s : TRUE
                            IN iv.rows[x].counts[field] + f[s \ {x}]]
  <1>1. Sink!RowSum(iv, field) = (CHOOSE f : P(f))[S]
    BY DEF Sink!RowSum, Sink!FoldSeq, Sink!FoldFunction, Sink!FoldFunctionOnSet, Sink!MapThenFoldSet
  <1>2. IsFiniteSet(S) /\ w \in [S -> Nat]
    <2>1. IsFiniteSet(S)
      BY FS_Interval
    <2>2. \A k \in S : iv.rows[k].counts[field] \in Nat
      BY FS_CardinalityType
    <2> QED BY <2>1, <2>2
  <1>3. \A k \in S : w[k] = Cardinality(K[k]) /\ IsFiniteSet(K[k])
    OBVIOUS
  <1>4. ASSUME NEW f PROVE P(f) <=> IsSum(S, w, f)
    <2>1. \A s \in SUBSET S : s # {} => Pick(s) \in S /\ w[Pick(s)] = iv.rows[Pick(s)].counts[field]
      BY PickIs
    <2>2. [s \in SUBSET S |-> IF s = {} THEN 0 ELSE w[Pick(s)] + f[s \ {Pick(s)}]]
          = [s \in SUBSET S |-> IF s = {} THEN 0 ELSE
                            LET x == CHOOSE x \in s : TRUE
                            IN iv.rows[x].counts[field] + f[s \ {x}]]
      BY <2>1 DEF Pick
    <2> QED BY <2>2 DEF IsSum
  <1>5. \E f : IsSum(S, w, f)
    <2> HIDE DEF w, S
    <2> QED BY <1>2, FoldExists
  <1>6. P(CHOOSE f : P(f))
    <2> HIDE DEF P, w, S
    <2>1. PICK g : P(g)
      BY <1>4, <1>5, Zenon
    <2> QED BY <2>1
  <1>7. IsSum(S, w, CHOOSE f : P(f))
    BY <1>4, <1>6
  <1>8. (CHOOSE f : P(f))[S] = Cardinality(Members(K, S))
    <2> DEFINE f == CHOOSE f : P(f)
    <2>1. IsSum(S, w, f)
      BY <1>7
    <2>2. \A k, l \in S : k # l => K[k] \cap K[l] = {}
      OBVIOUS
    <2> HIDE DEF f, w, S, P
    <2>3. f[S] = Cardinality(Members(K, S))
      BY <1>2, <1>3, <2>1, <2>2, FoldCounts
    <2> QED BY <2>3 DEF f
  <1> QED BY <1>1, <1>8

LEMMA SinkCounts ==
  \A S : (Sink!IsFiniteSet(S) <=> IsFiniteSet(S)) /\ Sink!Cardinality(S) = Cardinality(S)
  BY DEF Sink!IsFiniteSet, IsFiniteSet, Sink!Cardinality, Cardinality

\* fine_event_buckets adds up the sizes of the buckets.
LEMMA FineTotalIs ==
  ASSUME NEW samples, NEW event, NEW width, NEW n \in Nat,
         (2 * FineHalf) \div width = n,
         \A k \in 0 .. n - 1 : IsFiniteSet(Sink!FineBucket(samples, event, width, k)),
         \A k, l \in 0 .. n - 1 : k # l =>
            Sink!FineBucket(samples, event, width, k) \cap Sink!FineBucket(samples, event, width, l) = {}
  PROVE  Sink!FineTotal(samples, event, width)
           = Cardinality(UNION {Sink!FineBucket(samples, event, width, k) : k \in 0 .. n - 1})
  <1> DEFINE S == 0 .. (2 * FineHalf) \div width - 1
             B(k) == Sink!FineBucket(samples, event, width, k)
             K == [k \in S |-> B(k)]
             w == [k \in S |-> Cardinality(B(k))]
             P(f) == f = [s \in SUBSET S |-> IF s = {} THEN 0 ELSE
                            LET x == CHOOSE x \in s : TRUE
                            IN Sink!Cardinality(B(x)) + f[s \ {x}]]
  <1>1. Sink!FineTotal(samples, event, width) = (CHOOSE f : P(f))[S]
    BY DEF Sink!FineTotal, Sink!FoldSet, Sink!MapThenFoldSet
  <1>2. S = 0 .. n - 1
    OBVIOUS
  <1> HIDE DEF S
  <1>3. /\ IsFiniteSet(S)
        /\ \A k \in S : IsFiniteSet(B(k)) /\ Cardinality(B(k)) \in Nat
        /\ \A k, l \in S : k # l => B(k) \cap B(l) = {}
    <2>1. IsFiniteSet(S)
      BY <1>2, FS_Interval
    <2>2. \A k \in S : IsFiniteSet(B(k))
      BY <1>2
    <2>3. \A k \in S : Cardinality(B(k)) \in Nat
      BY <2>2, FS_CardinalityType
    <2> QED BY <1>2, <2>1, <2>2, <2>3
  <1> HIDE DEF B
  <1>4. /\ w \in [S -> Nat]
        /\ \A k \in S : IsFiniteSet(K[k]) /\ w[k] = Cardinality(K[k])
        /\ \A k, l \in S : k # l => K[k] \cap K[l] = {}
    BY <1>3
  <1>5. ASSUME NEW f PROVE P(f) <=> IsSum(S, w, f)
    <2>1. \A s \in SUBSET S : s # {} =>
             Pick(s) \in S /\ w[Pick(s)] = Sink!Cardinality(B(Pick(s)))
      BY PickIs, SinkCounts
    <2> HIDE DEF w
    <2>2. [s \in SUBSET S |-> IF s = {} THEN 0 ELSE w[Pick(s)] + f[s \ {Pick(s)}]]
          = [s \in SUBSET S |-> IF s = {} THEN 0 ELSE
                            LET x == CHOOSE x \in s : TRUE
                            IN Sink!Cardinality(B(x)) + f[s \ {x}]]
      BY <2>1 DEF Pick
    <2> QED BY <2>2 DEF IsSum
  <1> HIDE DEF w
  <1>6. \E f : IsSum(S, w, f)
    BY <1>3, <1>4, FoldExists
  <1>7. IsSum(S, w, CHOOSE f : P(f))
    <2> HIDE DEF P
    <2>1. PICK g : P(g)
      BY <1>5, <1>6, Zenon
    <2> QED BY <1>5, <2>1
  <1>8. (CHOOSE f : P(f))[S] = Cardinality(Members(K, S))
    <2> DEFINE f == CHOOSE f : P(f)
    <2> HIDE DEF f, K
    <2>1. IsSum(S, w, f)
      BY <1>7 DEF f
    <2>2. f[S] = Cardinality(Members(K, S))
      BY <1>3, <1>4, <2>1, FoldCounts
    <2> QED BY <2>2 DEF f
  <1>9. Members(K, S) = UNION {B(k) : k \in 0 .. n - 1}
    BY <1>2 DEF Members
  <1> QED BY <1>1, <1>8, <1>9 DEF B

-----------------------------------------------------------------------------
\* Induction, for a set of numbers.
LEMMA Everywhere ==
  ASSUME NEW G, 0 \in G, \A n \in Nat : n \in G => n + 1 \in G
  PROVE  Nat \subseteq G
  <1> DEFINE T == Nat \ G
  <1> SUFFICES ASSUME T # {} PROVE FALSE
    OBVIOUS
  <1>1. PICK k \in T : \A y \in T : k <= y
    BY Least
  <1>2. k # 0
    BY <1>1
  <1>3. k - 1 \in Nat /\ ~(k <= k - 1)
    BY <1>1, <1>2
  <1>4. k - 1 \in G
    BY <1>1, <1>3
  <1> QED BY <1>1, <1>3, <1>4

\* A sequence of values, each made of the one before by a step.
Runs(f, n, a, step) == f[0] = a /\ \A k \in 1 .. n : f[k] = step[k, f[k - 1]]

LEMMA RunIsThere ==
  ASSUME NEW V, NEW a \in V, NEW step \in [Nat \X V -> V], NEW n \in Nat
  PROVE  \E f \in [0 .. n -> V] : Runs(f, n, a, step)
  <1> DEFINE G == {m \in Nat : \E f \in [0 .. m -> V] : Runs(f, m, a, step)}
  <1>1. 0 \in G
    <2>1. [i \in 0 .. 0 |-> a] \in [0 .. 0 -> V] /\ Runs([i \in 0 .. 0 |-> a], 0, a, step)
      BY DEF Runs
    <2> QED BY <2>1
  <1>2. ASSUME NEW m \in Nat, m \in G PROVE m + 1 \in G
    <2>1. PICK f \in [0 .. m -> V] : Runs(f, m, a, step)
      BY <1>2
    <2> DEFINE v == step[m + 1, f[m]]
               g == [i \in 0 .. m + 1 |-> IF i = m + 1 THEN v ELSE f[i]]
    <2> HIDE DEF G
    <2>2. v \in V
      <3>1. f[m] \in V /\ m + 1 \in Nat
        BY <2>1
      <3>2. <<m + 1, f[m]>> \in Nat \X V
        BY <3>1
      <3> QED BY <3>2
    <2>3. g \in [0 .. m + 1 -> V] /\ g[0] = a
      <3> HIDE DEF v
      <3>1. \A i \in 0 .. m + 1 : i # m + 1 => i \in 0 .. m
        OBVIOUS
      <3>2. \A i \in 0 .. m + 1 : (IF i = m + 1 THEN v ELSE f[i]) \in V
        BY <2>1, <2>2, <3>1
      <3>3. 0 \in 0 .. m + 1 /\ 0 # m + 1
        OBVIOUS
      <3>4. f[0] = a
        BY <2>1, Zenon DEF Runs
      <3>5. g \in [0 .. m + 1 -> V]
        BY <3>2
      <3>6. g[0] = a
        BY <3>3, <3>4
      <3> QED BY <3>5, <3>6
    <2>4. ASSUME NEW k \in 1 .. m + 1 PROVE g[k] = step[k, g[k - 1]]
      <3>1. CASE k = m + 1
        <4>0. k \in 0 .. m + 1 /\ k - 1 = m /\ k - 1 \in 0 .. m + 1 /\ k - 1 # m + 1
          BY <3>1
        <4> HIDE DEF v
        <4>1. g[k] = v /\ k - 1 = m /\ k - 1 \in 0 .. m + 1 /\ k - 1 # m + 1
          BY <3>1, <4>0
        <4>2. g[k - 1] = f[m]
          BY <4>1
        <4> QED BY <3>1, <4>1, <4>2 DEF v
      <3>2. CASE k # m + 1
        <4>0. /\ k \in 1 .. m /\ k \in 0 .. m + 1 /\ k - 1 \in 0 .. m + 1
              /\ k - 1 # m + 1
          BY <3>2
        <4> HIDE DEF v
        <4>1. k \in 1 .. m /\ g[k] = f[k] /\ g[k - 1] = f[k - 1]
          BY <3>2, <4>0
        <4> QED BY <2>1, <4>1 DEF Runs
      <3> QED BY <3>1, <3>2
    <2> HIDE DEF g, v
    <2>5. Runs(g, m + 1, a, step)
      BY <2>3, <2>4 DEF Runs
    <2> QED BY <2>3, <2>5 DEF G
  <1> HIDE DEF G
  <1>3. Nat \subseteq G
    BY <1>1, <1>2, Everywhere
  <1> QED BY <1>3 DEF G

\* Two runs by the same step are one as far as both go.
LEMMA RunIsOne ==
  ASSUME NEW V, NEW a \in V, NEW step \in [Nat \X V -> V]
  PROVE  \A f, g : \A m, n \in Nat : Runs(f, m, a, step) /\ Runs(g, n, a, step) =>
            \A k \in Nat : k <= m /\ k <= n => f[k] = g[k] /\ f[k] \in V
  <1> SUFFICES ASSUME NEW m \in Nat, NEW n \in Nat, NEW f, NEW g,
                      Runs(f, m, a, step), Runs(g, n, a, step)
               PROVE  \A k \in Nat : k <= m /\ k <= n => f[k] = g[k] /\ f[k] \in V
    OBVIOUS
  <1> DEFINE G == {i \in Nat : i <= m /\ i <= n => f[i] = g[i] /\ f[i] \in V}
  <1>1. 0 \in G
    BY DEF Runs
  <1>2. ASSUME NEW i \in Nat, i \in G PROVE i + 1 \in G
    <2> SUFFICES ASSUME i + 1 <= m, i + 1 <= n
                 PROVE  f[i + 1] = g[i + 1] /\ f[i + 1] \in V
      OBVIOUS
    <2>1. i + 1 \in 1 .. m /\ i + 1 \in 1 .. n /\ (i + 1) - 1 = i /\ f[i] = g[i] /\ f[i] \in V
      BY <1>2
    <2>2. f[i + 1] = step[i + 1, f[i]] /\ g[i + 1] = step[i + 1, f[i]]
      BY <2>1 DEF Runs
    <2>3. <<i + 1, f[i]>> \in Nat \X V
      BY <2>1
    <2>4. step[i + 1, f[i]] \in V
      BY <2>3
    <2> QED BY <2>2, <2>4
  <1> HIDE DEF G
  <1>3. Nat \subseteq G
    BY <1>1, <1>2, Everywhere
  <1> QED BY <1>3 DEF G

-----------------------------------------------------------------------------
\* The one burst origin a source stamps.
BurstOrigin == IF HasBurst THEN Sink!MeasurementStart(0) ELSE None

Second(m) == m.elapsed \div Sec
Offset(m) == m.at - m.origin

\* Of the arrivals a: those of an interval, those with a latency, those of a
\* second of a grid that starts at s, those of a burst, and changes of version.
InSecond(a, k) == {i \in DOMAIN a : Second(a[i]) = k}
LatentIn(a, k) == {i \in InSecond(a, k) : a[i].stamped}
ArrivedIn(a, s, k) == {i \in DOMAIN a : (a[i].at - s) \div Sec = k}
FromBurst(a) == {i \in DOMAIN a : a[i].origin # None}
FromBurstIn(a, zone) == {i \in FromBurst(a) : Offset(a[i]) \in zone}
FromBurstAt(a, times) == {i \in FromBurst(a) : a[i].at \in times}
WithStamps(a) == {i \in DOMAIN a : a[i].stamped}
Turns(a) == {i \in 2 .. Len(a) : a[i].version # a[i - 1].version}

Names == Versions \cup {"none"}
Arrival == [at : Nat, stamped : BOOLEAN, origin : Nat \cup {None}, seq : Nat \cup {None},
            elapsed : Nat, version : Names]
Tally == [events : Nat, unique : Nat, duplicates : Nat, latencies : Nat]
Row == [start : Nat, end : Nat, counts : Tally]
Bucketed == [bucket : Nat, duplicate : BOOLEAN]
Sample == [at : Nat, duplicate : BOOLEAN]
Intervals == [maximum : {MeasurementSecs + 2}, origin : Nat \cup {None}, current : Nat,
              open : Tally, rows : Seq(Row), overflowed : BOOLEAN, finalized : BOOLEAN]
Burst == [origin : Nat \cup {None}, mismatches : Nat, primary : Seq(Bucketed),
          drain : Seq(Bucketed), after : Seq(Bucketed), fine : Seq(Sample),
          fineOverflow : BOOLEAN]
Swaps == [current : Names, last : Nat \cup {None}, first_v2 : Nat \cup {None},
          pauses : Seq([from : Names, to : Names, pause : Int])]

SinkTypes ==
    /\ now \in 0 .. MaxTime /\ start \in Nat \cup {None} /\ anchored \in BOOLEAN
    /\ latencies \in Nat
    /\ measured \in Seq(Arrival)
    /\ tracker \in Tracker
    /\ grid \in [samples : Seq(Nat), count : Nat]
    /\ intervals \in Intervals /\ burst \in Burst /\ swaps \in Swaps
    /\ Len(intervals.rows) <= intervals.maximum

\* The arrivals: in the order of the clock, those of a burst after its origin.
InOrder(a, s, at) ==
    /\ a = <<>> <=> s = None
    /\ a # <<>> => s = a[1].at
    /\ \A i \in DOMAIN a :
         LET m == a[i] IN
         /\ s <= m.at /\ m.at <= at
         /\ m.stamped => m.seq \in Nat
         /\ m.origin \in {None, BurstOrigin}
         /\ m.origin # None => m.stamped /\ m.origin <= m.at
         /\ (Versions = {} <=> m.version = "none")
    /\ \A i, j \in DOMAIN a : i < j => a[i].at <= a[j].at

\* The tracker fits the numbers that were recorded.
TrackerTold(t, told, a) ==
    /\ t.max_examples = 0
    /\ ~told => t = Sink!Unanchored(0) /\ WithStamps(a) = {}
    /\ told => t.start = Warmup /\ t.end = Total /\ TrackerFits(t, Sink!LogOf(a))

\* The grid's rows, and its open second, are the arrivals of their seconds.
GridTold(g, a, s) ==
    /\ \A k \in 1 .. Len(g.samples) : g.samples[k] = Cardinality(ArrivedIn(a, s, k - 1))
    /\ g.count = Cardinality(ArrivedIn(a, s, Len(g.samples)))
    /\ \A i \in DOMAIN a : (a[i].at - s) \div Sec <= Len(g.samples)

\* What a tally is of second k.
TallyOf(c, a, k) ==
    /\ c.events = Cardinality(InSecond(a, k))
    /\ c.latencies = Cardinality(LatentIn(a, k))
    /\ c.unique + c.duplicates = c.events

\* The closed rows, and all of them.
RowTold(row, a, k) == row.start = (k - 1) * Sec /\ TallyOf(row.counts, a, k - 1)
RowsTold(iv, a) == \A k \in 1 .. Len(iv.rows) : RowTold(iv.rows[k], a, k)

\* The reasons an interval recorder has to overflow.
Disorder(iv, a) ==
    \/ \E i, j \in DOMAIN a : i < j /\ Second(a[j]) < Second(a[i])
    \/ \E i \in DOMAIN a : Second(a[i]) >= iv.maximum

\* The intervals, as far as they have come.
IntervalsTold(iv, a) ==
    /\ iv.current = Len(iv.rows)
    /\ \A k \in 1 .. Len(iv.rows) : iv.rows[k].end = k * Sec
    /\ ~iv.overflowed => /\ RowsTold(iv, a)
                         /\ TallyOf(iv.open, a, iv.current)
                         /\ \A i \in DOMAIN a : Second(a[i]) <= iv.current
    /\ iv.overflowed => Disorder(iv, a)

\* The open intervals.
IntervalsOpen(iv, a) ==
    /\ ~iv.finalized /\ IntervalsTold(iv, a)
    /\ iv.current > 0 => \E i \in DOMAIN a : Second(a[i]) >= iv.current
    /\ ~iv.overflowed => \A i \in DOMAIN a : Second(a[i]) < iv.maximum

\* The burst's buckets and the samples around the swap.
SampledAt(samples, times) == {j \in DOMAIN samples : samples[j].at \in times}

BucketsTold(b, a) ==
    /\ b.mismatches = 0
    /\ Len(b.primary) = Cardinality(FromBurstIn(a, 0 .. PrimaryEnd - 1))
    /\ Len(b.drain) = Cardinality(FromBurstIn(a, PrimaryEnd .. DrainEnd - 1))
    /\ Len(b.after) = Cardinality(FromBurst(a)) - Len(b.primary) - Len(b.drain)

SamplesTold(b, a) ==
    /\ Len(b.fine) <= FineCapacity
    /\ ~b.fineOverflow => \A times \in SUBSET Sink!CaptureWindow(BurstOrigin) :
          Cardinality(SampledAt(b.fine, times)) = Cardinality(FromBurstAt(a, times))

BurstTold(b, a) ==
    /\ b.origin = IF FromBurst(a) = {} THEN None ELSE BurstOrigin
    /\ BucketsTold(b, a) /\ SamplesTold(b, a)

\* The recorder of versions has the last version and the last turn.
SwapsTold(w, a) ==
    /\ a = <<>> \/ Versions = {} => w = Sink!NewSwaps
    /\ a # <<>> /\ Versions # {} =>
         /\ w.current = a[Len(a)].version /\ w.last = a[Len(a)].at
         /\ Len(w.pauses) = Cardinality(Turns(a))
         /\ w.pauses # <<>> =>
              \E i \in Turns(a) :
                 /\ \A j \in Turns(a) : j <= i
                 /\ w.pauses[Len(w.pauses)].pause = a[i].at - a[i - 1].at
                 /\ w.first_v2 = a[i].at

SinkInv ==
    /\ SinkTypes /\ InOrder(measured, start, now)
    /\ TrackerTold(tracker, anchored, measured)
    /\ BurstTold(burst, measured) /\ SwapsTold(swaps, measured)
    /\ latencies = Cardinality(WithStamps(measured))
    /\ artifacts = <<>> =>
         /\ GridTold(grid, measured, start)
         /\ Len(grid.samples) > 0 => ArrivedIn(measured, start, Len(grid.samples)) # {}
         /\ IntervalsOpen(intervals, measured)
    /\ artifacts # <<>> => /\ Sink!GridExact /\ Sink!IntervalsComplete
                           /\ Sink!IntervalsRefusedForCause /\ Sink!FineWindowComplete

-----------------------------------------------------------------------------
\* The sink's tracker is the subscriber's.
LEMMA SameTracker ==
  /\ \A t, n : Sink!InRange(t, n) <=> InRange(t, n)
  /\ \A t, n : Sink!RecordSeq(t, n) = RecordSeq(t, n)
  /\ \A t, n : Sink!IsDuplicate(t, n) \in BOOLEAN
  /\ \A t : Sink!Expected(t) = Expected(t)
  /\ \A t, log : Sink!Population(t, log) = Population(t, log)
  /\ \A t, log : Sink!TrackerExact(t, log) <=> TrackerExact(t, log)
  <1>1. \A t, n : /\ Sink!InRange(t, n) <=> InRange(t, n)
                  /\ Sink!IsSeen(t, n) <=> IsSeen(t, n)
                  /\ Sink!AnchorStart(t, n) = AnchorStart(t, n)
                  /\ Sink!OutOfRange(t) = OutOfRange(t)
                  /\ Sink!Duplicate(t, n) = Duplicate(t, n)
                  /\ Sink!Unique(t, n) = Unique(t, n)
    BY DEF Sink!InRange, InRange, Sink!IsSeen, IsSeen, Sink!AnchorStart, AnchorStart,
       Sink!OutOfRange, OutOfRange, Sink!Duplicate, Duplicate, Sink!Unique, Unique,
       Sink!None, None
  <1>2. \A t, n : Sink!RecordSeq(t, n) = RecordSeq(t, n)
    BY <1>1 DEF Sink!RecordSeq, RecordSeq
  <1>3. \A t, n : Sink!IsDuplicate(t, n) \in BOOLEAN
    BY DEF Sink!IsDuplicate, Sink!InRange, Sink!IsSeen
  <1>4. \A t : Sink!Expected(t) = Expected(t) /\ Sink!Missing(t) = Missing(t)
    BY DEF Sink!Expected, Expected, Sink!Missing, Missing, Sink!None, None
  <1>5. \A s : Sink!ToSet(s) = ToSet(s)
    BY DEF Sink!ToSet, ToSet
  <1>6. \A t, log : Sink!Population(t, log) = Population(t, log)
    BY <1>1, <1>5 DEF Sink!Population, Population, Sink!None, None
  <1>7. ASSUME NEW t, NEW log PROVE Sink!TrackerExact(t, log) <=> TrackerExact(t, log)
    BY <1>1, <1>4, <1>5, <1>6, SinkCounts
       DEF Sink!TrackerExact, TrackerExact, Sink!CountWhere, CountWhere
  <1> QED BY <1>1, <1>2, <1>3, <1>4, <1>6, <1>7

-----------------------------------------------------------------------------
\* The numbers of the stamped arrivals among the first n.
IsLog(m, f) ==
    /\ f[0] = <<>>
    /\ \A k \in 1 .. Len(m) :
         f[k] = IF m[k].stamped THEN Append(f[k - 1], m[k].seq) ELSE f[k - 1]

Numbered(m) == m \in Seq(Arrival) /\ \A i \in 1 .. Len(m) : m[i].stamped => m[i].seq \in Nat

LogStep(m) == [x \in Nat \X Seq(Nat) |->
                 IF x[1] \in 1 .. Len(m) /\ m[x[1]].stamped THEN Append(x[2], m[x[1]].seq)
                 ELSE x[2]]

LEMMA LogStepIs ==
  ASSUME NEW m, Numbered(m)
  PROVE  /\ LogStep(m) \in [Nat \X Seq(Nat) -> Seq(Nat)]
         /\ \A k \in 1 .. Len(m), s \in Seq(Nat) :
              LogStep(m)[k, s] = IF m[k].stamped THEN Append(s, m[k].seq) ELSE s
  <1>1. ASSUME NEW x \in Nat \X Seq(Nat)
        PROVE  (IF x[1] \in 1 .. Len(m) /\ m[x[1]].stamped THEN Append(x[2], m[x[1]].seq)
                ELSE x[2]) \in Seq(Nat)
    BY DEF Numbered
  <1>2. ASSUME NEW k \in 1 .. Len(m), NEW s \in Seq(Nat)
        PROVE  LogStep(m)[k, s] = IF m[k].stamped THEN Append(s, m[k].seq) ELSE s
    <2>1. Len(m) \in Nat
      BY DEF Numbered
    <2>2. <<k, s>> \in Nat \X Seq(Nat) /\ <<k, s>>[1] = k /\ <<k, s>>[2] = s
      BY <2>1
    <2> QED BY <2>2 DEF LogStep
  <1> QED BY <1>1, <1>2 DEF LogStep

LEMMA LogIs ==
  ASSUME NEW m, Numbered(m)
  PROVE  \E f \in [0 .. Len(m) -> Seq(Nat)] : IsLog(m, f) /\ Sink!LogOf(m) = f[Len(m)]
  <1> DEFINE P(f) == f = [n \in 0 .. Len(m) |->
                           IF n = 0 THEN <<>>
                           ELSE IF m[n].stamped THEN Append(f[n - 1], m[n].seq) ELSE f[n - 1]]
             empty == <<>>
  <1>0. Len(m) \in Nat /\ empty \in Seq(Nat)
    BY DEF Numbered
  <1>1. Sink!LogOf(m) = (CHOOSE f : P(f))[Len(m)]
    BY DEF Sink!LogOf
  <1> HIDE DEF empty
  <1>2. PICK g \in [0 .. Len(m) -> Seq(Nat)] : Runs(g, Len(m), empty, LogStep(m))
    BY <1>0, LogStepIs, RunIsThere
  <1>3. ASSUME NEW k \in 1 .. Len(m)
        PROVE  g[k] = IF m[k].stamped THEN Append(g[k - 1], m[k].seq) ELSE g[k - 1]
    <2>0. k - 1 \in 0 .. Len(m)
      BY <1>0
    <2>1. g[k - 1] \in Seq(Nat)
      BY <1>2, <2>0
    <2>2. g[k] = LogStep(m)[k, g[k - 1]]
      BY <1>2, Zenon DEF Runs
    <2> QED BY <2>1, <2>2, LogStepIs
  <1>4. P(g)
    <2>1. g[0] = <<>>
      BY <1>2, Zenon DEF Runs, empty
    <2>2. \A n \in 0 .. Len(m) : n # 0 => n \in 1 .. Len(m)
      BY <1>0
    <2>3. \A n \in 0 .. Len(m) :
            g[n] = IF n = 0 THEN <<>>
                   ELSE IF m[n].stamped THEN Append(g[n - 1], m[n].seq) ELSE g[n - 1]
      BY <1>3, <2>1, <2>2
    <2> QED BY <2>3
  <1> DEFINE h == CHOOSE f : P(f)
  <1>5. P(h)
    <2> HIDE DEF P
    <2> QED BY <1>4
  <1> HIDE DEF h
  <1>6. h = [n \in 0 .. Len(m) |-> h[n]] /\ IsLog(m, h)
    <2>1. h = [n \in 0 .. Len(m) |-> h[n]]
      BY <1>5
    <2>2. 0 \in 0 .. Len(m)
      BY <1>0
    <2>3. h[0] = <<>>
      BY <1>5, <2>2
    <2>4. \A k \in 1 .. Len(m) : k \in 0 .. Len(m) /\ k # 0
      BY <1>0
    <2>5. \A k \in 1 .. Len(m) :
            h[k] = IF m[k].stamped THEN Append(h[k - 1], m[k].seq) ELSE h[k - 1]
      BY <1>5, <2>4
    <2> QED BY <2>1, <2>3, <2>5 DEF IsLog
  <1>7. ASSUME NEW n \in Nat PROVE n <= Len(m) => h[n] \in Seq(Nat)
    <2> DEFINE G == {i \in Nat : i <= Len(m) => h[i] \in Seq(Nat)}
    <2>1. 0 \in G
      BY <1>0, <1>6 DEF IsLog, empty
    <2>2. ASSUME NEW i \in Nat, i \in G PROVE i + 1 \in G
      <3> SUFFICES ASSUME i + 1 <= Len(m) PROVE h[i + 1] \in Seq(Nat)
        OBVIOUS
      <3>1. i + 1 \in 1 .. Len(m) /\ (i + 1) - 1 = i /\ h[i] \in Seq(Nat)
        BY <1>0, <2>2
      <3>2. h[i + 1] = IF m[i + 1].stamped THEN Append(h[i], m[i + 1].seq) ELSE h[i]
        BY <1>6, <3>1 DEF IsLog
      <3> QED BY <3>1, <3>2 DEF Numbered
    <2> HIDE DEF G
    <2>3. Nat \subseteq G
      BY <2>1, <2>2, Everywhere
    <2> QED BY <2>3 DEF G
  <1>8. h \in [0 .. Len(m) -> Seq(Nat)]
    BY <1>0, <1>6, <1>7
  <1> QED BY <1>1, <1>6, <1>8 DEF h

\* The log of no arrival, and of one more.
LEMMA LogAppend ==
  /\ Sink!LogOf(<<>>) = <<>>
  /\ \A m, e : Numbered(m) /\ e \in Arrival /\ (e.stamped => e.seq \in Nat) =>
       /\ Numbered(Append(m, e))
       /\ Sink!LogOf(m) \in Seq(Nat) /\ Len(Sink!LogOf(m)) <= Len(m)
       /\ Sink!LogOf(Append(m, e))
            = IF e.stamped THEN Append(Sink!LogOf(m), e.seq) ELSE Sink!LogOf(m)
  <1>1. Sink!LogOf(<<>>) = <<>>
    <2> DEFINE empty == <<>>
    <2>1. empty \in Seq(Arrival) /\ Len(empty) = 0 /\ 1 .. Len(empty) = {}
      OBVIOUS
    <2> HIDE DEF empty
    <2>2. Numbered(empty)
      BY <2>1 DEF Numbered
    <2>3. PICK f \in [0 .. Len(empty) -> Seq(Nat)] :
             IsLog(empty, f) /\ Sink!LogOf(empty) = f[Len(empty)]
      BY <2>2, LogIs
    <2>4. Sink!LogOf(empty) = f[0]
      BY <2>1, <2>3
    <2>5. f[0] = <<>>
      BY <2>3 DEF IsLog
    <2> QED BY <2>4, <2>5 DEF empty
  <1>2. ASSUME NEW m, NEW e, Numbered(m), e \in Arrival, e.stamped => e.seq \in Nat
        PROVE  /\ Numbered(Append(m, e))
               /\ Sink!LogOf(m) \in Seq(Nat) /\ Len(Sink!LogOf(m)) <= Len(m)
               /\ Sink!LogOf(Append(m, e))
                    = IF e.stamped THEN Append(Sink!LogOf(m), e.seq) ELSE Sink!LogOf(m)
    <2> DEFINE more == Append(m, e)
               n == Len(m)
    <2>1. /\ n \in Nat /\ Len(more) = n + 1 /\ more[n + 1] = e /\ more \in Seq(Arrival)
          /\ \A i \in 1 .. n : more[i] = m[i]
      BY <1>2 DEF Numbered
    <2>2. Numbered(more)
      <3>1. ASSUME NEW i \in 1 .. n + 1, more[i].stamped PROVE more[i].seq \in Nat
        BY <1>2, <2>1, <3>1 DEF Numbered
      <3> QED BY <2>1, <3>1 DEF Numbered
    <2> HIDE DEF more
    <2>3. PICK f \in [0 .. n -> Seq(Nat)] : IsLog(m, f) /\ Sink!LogOf(m) = f[n]
      BY <1>2, LogIs
    <2>4. PICK g \in [0 .. n + 1 -> Seq(Nat)] : IsLog(more, g) /\ Sink!LogOf(more) = g[n + 1]
      BY <2>1, <2>2, LogIs
    <2> DEFINE G == {i \in Nat : i <= n => g[i] = f[i] /\ Len(f[i]) <= i}
    <2>5. 0 \in G
      <3>1. f[0] = <<>> /\ g[0] = <<>>
        BY <2>3, <2>4 DEF IsLog
      <3> QED BY <3>1
    <2>6. ASSUME NEW i \in Nat, i \in G PROVE i + 1 \in G
      <3> SUFFICES ASSUME i + 1 <= n PROVE g[i + 1] = f[i + 1] /\ Len(f[i + 1]) <= i + 1
        OBVIOUS
      <3>1. /\ i + 1 \in 1 .. n /\ i + 1 \in 1 .. n + 1 /\ (i + 1) - 1 = i /\ i \in 0 .. n
            /\ g[i] = f[i] /\ Len(f[i]) <= i
        BY <2>1, <2>6
      <3>2. f[i] \in Seq(Nat) /\ more[i + 1] = m[i + 1]
        BY <2>1, <2>3, <3>1
      <3>3. f[i + 1] = IF m[i + 1].stamped THEN Append(f[i], m[i + 1].seq) ELSE f[i]
        BY <2>3, <3>1 DEF IsLog
      <3>4. g[i + 1] = IF more[i + 1].stamped THEN Append(g[i], more[i + 1].seq) ELSE g[i]
        BY <2>1, <2>4, <3>1 DEF IsLog
      <3>5. m[i + 1].stamped => m[i + 1].seq \in Nat
        BY <1>2, <3>1 DEF Numbered
      <3>6. Len(f[i + 1]) <= i + 1
        BY <3>1, <3>2, <3>3, <3>5
      <3> QED BY <3>1, <3>2, <3>3, <3>4, <3>6
    <2> HIDE DEF G
    <2>7. Nat \subseteq G
      BY <2>5, <2>6, Everywhere
    <2>8. g[n] = f[n] /\ Len(f[n]) <= n /\ f[n] \in Seq(Nat)
      BY <2>1, <2>3, <2>7 DEF G
    <2>9. g[n + 1] = IF e.stamped THEN Append(g[n], e.seq) ELSE g[n]
      <3>1. n + 1 \in 1 .. n + 1 /\ (n + 1) - 1 = n
        BY <2>1
      <3> QED BY <2>1, <2>4, <3>1 DEF IsLog
    <2> QED BY <2>2, <2>3, <2>4, <2>8, <2>9 DEF more
  <1> QED BY <1>1, <1>2

-----------------------------------------------------------------------------
\* The scan for gaps, when no examples are kept.
Scan == [ranges : {<<>>}, total : Nat, run : Nat \cup {None}]

LEMMA ScanIs ==
  ASSUME NEW t \in Tracker, t.max_examples = 0, NEW m \in Scan, NEW i \in Nat
  PROVE  LET u == Sink!ScanIndex(t, m, i)
         IN  /\ u \in Scan
             /\ u.run = IF i \in t.seen THEN None ELSE IF m.run = None THEN i ELSE m.run
             /\ u.total = IF i \in t.seen /\ m.run # None THEN m.total + 1 ELSE m.total
  <1> DEFINE empty == <<>>
             Made(n, r) == [ranges |-> empty, total |-> n, run |-> r]
  <1>1. /\ m = Made(m.total, m.run) /\ m.total \in Nat /\ m.run \in Nat \cup {None}
        /\ m.ranges = empty
    BY DEF Scan
  <1>2. Len(empty) = 0
    OBVIOUS
  <1>3. \A n \in Nat, r \in Nat \cup {None} : Made(n, r) \in Scan
    BY DEF Scan
  <1>4. Sink!None = None /\ None \notin Nat
    BY DEF Sink!None, None
  <1> HIDE DEF empty
  <1>5. CASE i \notin t.seen /\ m.run = None
    <2>1. Sink!ScanIndex(t, m, i) = Made(m.total, i)
      BY <1>1, <1>4, <1>5 DEF Sink!ScanIndex
    <2> QED BY <1>1, <1>3, <1>4, <1>5, <2>1
  <1>6. CASE i \in t.seen /\ m.run # None
    <2>1. Sink!ScanIndex(t, m, i)
            = [Sink!PushRange(m, t.start, m.run, i - 1, t.max_examples) EXCEPT !.run = None]
      BY <1>4, <1>6 DEF Sink!ScanIndex
    <2>2. ~(Len(m.ranges) < t.max_examples)
      BY <1>1, <1>2
    <2>3. Sink!PushRange(m, t.start, m.run, i - 1, t.max_examples) = Made(m.total + 1, m.run)
      <3> DEFINE v == [m EXCEPT !.total = @ + 1]
      <3>1. v = Made(m.total + 1, m.run)
        BY <1>1
      <3>2. Sink!PushRange(m, t.start, m.run, i - 1, t.max_examples) = [v EXCEPT !.ranges = empty]
        <4>1. v.ranges = empty
          BY <3>1
        <4>2. ~(Len(v.ranges) < t.max_examples)
          BY <1>2, <4>1
        <4>3. Sink!PushRange(m, t.start, m.run, i - 1, t.max_examples)
                = [v EXCEPT !.ranges = IF Len(@) < t.max_examples
                             THEN Append(@, <<t.start + m.run, t.start + (i - 1)>>) ELSE @]
          BY DEF Sink!PushRange
        <4> HIDE DEF v
        <4> QED BY <4>1, <4>2, <4>3
      <3> HIDE DEF v
      <3>3. [v EXCEPT !.ranges = empty] = Made(m.total + 1, m.run)
        BY <3>1
      <3> QED BY <3>2, <3>3
    <2>5. Sink!ScanIndex(t, m, i) = Made(m.total + 1, None)
      BY <2>1, <2>3
    <2> QED BY <1>1, <1>3, <1>6, <2>5
  <1>7. CASE ~(i \notin t.seen /\ m.run = None) /\ ~(i \in t.seen /\ m.run # None)
    <2>1. Sink!ScanIndex(t, m, i) = m
      BY <1>4, <1>7 DEF Sink!ScanIndex
    <2> QED BY <1>1, <1>7, <2>1
  <1> QED BY <1>5, <1>6, <1>7

\* The scan over the bitset, up to the population's end.
ScanStep(t) == [x \in Nat \X Scan |->
                  IF x[1] > 0 THEN Sink!ScanIndex(t, x[2], x[1] - 1) ELSE x[2]]
NoGap == [ranges |-> <<>>, total |-> 0, run |-> None]
ScanRuns(t, f, n) == f[0] = NoGap /\ \A k \in 1 .. n : f[k] = Sink!ScanIndex(t, f[k - 1], k - 1)

LEMMA GapsIs ==
  ASSUME NEW t \in Tracker, t.max_examples = 0, NEW n \in Nat, Expected(t) = n
  PROVE  \E f : /\ ScanRuns(t, f, n)
                /\ Sink!MissingRanges(t)
                     = IF f[n].run = None THEN f[n]
                       ELSE Sink!PushRange(f[n], t.start, f[n].run, n - 1, t.max_examples)
  <1> DEFINE P(f) == f = [i \in 0 .. Sink!Expected(t) |->
                           IF i = 0 THEN [ranges |-> <<>>, total |-> 0, run |-> Sink!None]
                           ELSE Sink!ScanIndex(t, f[i - 1], i - 1)]
             h == CHOOSE f : P(f)
  <1>0. /\ Sink!Expected(t) = n /\ Sink!None = None /\ NoGap \in Scan
        /\ [ranges |-> <<>>, total |-> 0, run |-> Sink!None] = NoGap
    <2>1. Sink!None = None
      BY DEF Sink!None, None
    <2> QED BY <2>1, SameTracker DEF NoGap, Scan
  <1>1. Sink!MissingRanges(t)
          = IF h[Sink!Expected(t)].run = Sink!None THEN h[Sink!Expected(t)]
            ELSE Sink!PushRange(h[Sink!Expected(t)], t.start, h[Sink!Expected(t)].run,
                                Sink!Expected(t) - 1, t.max_examples)
    BY DEF Sink!MissingRanges
  <1>2. ScanStep(t) \in [Nat \X Scan -> Scan]
    <2>1. ASSUME NEW x \in Nat \X Scan
          PROVE  (IF x[1] > 0 THEN Sink!ScanIndex(t, x[2], x[1] - 1) ELSE x[2]) \in Scan
      <3>1. x[1] \in Nat /\ x[2] \in Scan /\ (x[1] > 0 => x[1] - 1 \in Nat)
        OBVIOUS
      <3>2. x[1] > 0 => Sink!ScanIndex(t, x[2], x[1] - 1) \in Scan
        BY <3>1, ScanIs
      <3> QED BY <3>1, <3>2
    <2> QED BY <2>1 DEF ScanStep
  <1>3. PICK g \in [0 .. n -> Scan] : Runs(g, n, NoGap, ScanStep(t))
    BY <1>0, <1>2, RunIsThere
  <1>4. ASSUME NEW k \in 1 .. n PROVE g[k] = Sink!ScanIndex(t, g[k - 1], k - 1)
    <2>1. k - 1 \in 0 .. n /\ k \in Nat /\ k > 0
      OBVIOUS
    <2>2. g[k - 1] \in Scan
      BY <1>3, <2>1
    <2>3. <<k, g[k - 1]>> \in Nat \X Scan
      BY <2>1, <2>2
    <2>4. g[k] = ScanStep(t)[k, g[k - 1]]
      BY <1>3, Zenon DEF Runs
    <2> QED BY <2>1, <2>3, <2>4 DEF ScanStep
  <1>5. P(g)
    <2>1. g[0] = NoGap
      BY <1>3, Zenon DEF Runs
    <2>2. \A i \in 0 .. n : i # 0 => i \in 1 .. n
      OBVIOUS
    <2>3. \A i \in 0 .. n : g[i] = IF i = 0 THEN NoGap ELSE Sink!ScanIndex(t, g[i - 1], i - 1)
      BY <1>4, <2>1, <2>2
    <2> QED BY <1>0, <2>3
  <1>6. P(h)
    <2> HIDE DEF P
    <2> QED BY <1>5
  <1>7. ScanRuns(t, h, n)
    <2> HIDE DEF h
    <2>1. 0 \in 0 .. n /\ \A k \in 1 .. n : k \in 0 .. n /\ k # 0
      OBVIOUS
    <2>2. h[0] = NoGap
      BY <1>0, <1>6, <2>1
    <2>3. \A k \in 1 .. n : h[k] = Sink!ScanIndex(t, h[k - 1], k - 1)
      BY <1>0, <1>6, <2>1
    <2> QED BY <2>2, <2>3 DEF ScanRuns
  <1> HIDE DEF h, P
  <1> QED BY <1>0, <1>1, <1>7

\* What a tracker with a population names as missing is what did not arrive.
LEMMA GapsCounted ==
  ASSUME TrackerAssumption, NEW t \in Tracker, NEW log \in Seq(Nat), TrackerFits(t, log),
         t.end # None, t.max_examples = 0
  PROVE  Sink!RangesExact(t, log)
  <1> DEFINE n == Expected(t)
             s == t.start
             missing == Population(t, log) \ ToSet(log)
             heads == {x \in missing : x - 1 \notin missing}
  <1>1. /\ s \in Nat /\ n \in Nat /\ t.end \in Nat
        /\ \A x : x \in Population(t, log) <=> x \in Int /\ s <= x /\ x < s + n
    <2>1. s \in Nat /\ t.end \in Nat /\ MaxTracked \in Nat \ {0}
      BY DEF Tracker, TrackerFits, TrackerAssumption
    <2>2. Population(t, log) = {x \in s .. t.end - 1 : x - s < MaxTracked}
      BY DEF Population
    <2>3. n = IF t.end <= s THEN 0 ELSE IF t.end - s < MaxTracked THEN t.end - s ELSE MaxTracked
      BY <2>1 DEF Expected, None
    <2> HIDE DEF n, s
    <2>4. n \in Nat
      BY <2>1, <2>3
    <2>5. \A x : x \in {y \in s .. t.end - 1 : y - s < MaxTracked}
                 <=> x \in Int /\ s <= x /\ x < s + n
      BY <2>1, <2>3
    <2> QED BY <2>1, <2>2, <2>4, <2>5
  <1>2. \A k \in Nat : k < n => (s + k \in missing <=> k \notin t.seen)
    <2> TAKE k \in Nat
    <2> SUFFICES ASSUME k < n PROVE s + k \in missing <=> k \notin t.seen
      OBVIOUS
    <2>1. s + k \in Population(t, log)
      BY <1>1
    <2>2. InRange(t, s + k)
      BY <1>1, <2>1 DEF Population, InRange
    <2>3. k \in t.seen <=> s + k \in ToSet(log)
      BY <2>2 DEF TrackerFits, Arrived
    <2> QED BY <2>1, <2>3
  <1>3. \A x \in missing : x \in Nat /\ s <= x /\ x < s + n
    BY <1>1
  <1>4. PICK f : /\ ScanRuns(t, f, n)
                 /\ Sink!MissingRanges(t)
                     = IF f[n].run = None THEN f[n]
                       ELSE Sink!PushRange(f[n], t.start, f[n].run, n - 1, t.max_examples)
    BY <1>1, GapsIs
  <1> HIDE DEF missing, n, s
  <1> DEFINE H(i) == {x \in heads : x < s + i}
             Good(i) == /\ f[i] \in Scan
                        /\ (f[i].run = None <=> s + i - 1 \notin missing)
                        /\ IsFiniteSet(H(i))
                        /\ Cardinality(H(i)) = f[i].total + (IF f[i].run = None THEN 0 ELSE 1)
             G == {i \in Nat : i <= n => Good(i)}
  <1>5. 0 \in G
    <2>1. f[0] = NoGap
      BY <1>4 DEF ScanRuns
    <2>2. H(0) = {}
      BY <1>1, <1>3
    <2>3. IsFiniteSet(H(0)) /\ Cardinality(H(0)) = 0
      BY <2>2, FS_EmptySet
    <2>4. s + 0 - 1 \notin missing
      BY <1>1, <1>3
    <2> QED BY <2>1, <2>3, <2>4 DEF NoGap, Scan
  <1>6. ASSUME NEW i \in Nat, i \in G PROVE i + 1 \in G
    <2> SUFFICES ASSUME i + 1 <= n PROVE Good(i + 1)
      OBVIOUS
    <2>1. Good(i) /\ i < n /\ i + 1 \in 1 .. n /\ (i + 1) - 1 = i /\ s + (i + 1) - 1 = s + i
      BY <1>1, <1>6
    <2>0. f[i] \in Scan /\ (f[i].run = None <=> s + i - 1 \notin missing)
      BY <2>1
    <2> HIDE DEF Good, G
    <2>2. f[i + 1] = Sink!ScanIndex(t, f[i], i)
      BY <1>4, <2>1 DEF ScanRuns
    <2> DEFINE u == f[i + 1]
               m == f[i]
    <2>3. /\ u \in Scan
          /\ u.run = IF i \in t.seen THEN None ELSE IF m.run = None THEN i ELSE m.run
          /\ u.total = IF i \in t.seen /\ m.run # None THEN m.total + 1 ELSE m.total
      <3> DEFINE v == Sink!ScanIndex(t, f[i], i)
      <3>1. /\ v \in Scan
            /\ v.run = IF i \in t.seen THEN None ELSE IF f[i].run = None THEN i ELSE f[i].run
            /\ v.total = IF i \in t.seen /\ f[i].run # None THEN f[i].total + 1 ELSE f[i].total
        BY <2>0, ScanIs
      <3> HIDE DEF v
      <3>2. f[i + 1] = v
        BY <2>2 DEF v
      <3> QED BY <3>1, <3>2
    <2>4. m \in Scan /\ m.total \in Nat /\ None \notin Nat
      BY <2>0 DEF Scan, None
    <2>5. s + i \in missing <=> i \notin t.seen
      BY <1>2, <2>1
    <2>6. H(i + 1) = IF s + i \in heads THEN H(i) \cup {s + i} ELSE H(i)
      BY <1>1, <1>3
    <2>7. s + i \notin H(i)
      BY <1>1
    <2>8. s + i \in heads <=> s + i \in missing /\ m.run = None
      <3>1. \A x : x \in heads <=> x \in missing /\ x - 1 \notin missing
        OBVIOUS
      <3> HIDE DEF heads
      <3> DEFINE y == s + i
      <3>2. f[i].run = None <=> y - 1 \notin missing
        BY <1>1, <2>0
      <3> HIDE DEF y
      <3>3. y \in heads <=> y \in missing /\ f[i].run = None
        BY <3>1, <3>2
      <3> QED BY <3>3 DEF y
    <2> DEFINE A == H(i)
               B == H(i + 1)
    <2>9. /\ IsFiniteSet(A) /\ Cardinality(A) = m.total + (IF m.run = None THEN 0 ELSE 1)
      BY <2>1 DEF Good
    <2> HIDE DEF heads, H, m, u
    <2>10. Good(i + 1) <=> /\ u \in Scan
                           /\ (u.run = None <=> s + i \notin missing)
                           /\ IsFiniteSet(B)
                           /\ Cardinality(B) = u.total + (IF u.run = None THEN 0 ELSE 1)
      BY <2>1 DEF u, Good
    <2> HIDE DEF A, B
    <2>11. IsFiniteSet(A \cup {s + i}) /\ (s + i \notin A => Cardinality(A \cup {s + i}) = Cardinality(A) + 1)
      BY <2>9, FS_AddElement
    <2>12. IsFiniteSet(B) /\ Cardinality(B) = Cardinality(A) + (IF s + i \in heads THEN 1 ELSE 0)
      <3>1. Cardinality(A) \in Nat
        BY <2>9, FS_CardinalityType
      <3>2. B = IF s + i \in heads THEN A \cup {s + i} ELSE A
        BY <2>6 DEF A, B
      <3>3. s + i \notin A
        BY <2>7 DEF A
      <3> QED BY <2>9, <2>11, <3>1, <3>2, <3>3
    <2> QED BY <2>0, <2>3, <2>4, <2>5, <2>8, <2>9, <2>10, <2>12 DEF m
  <1> HIDE DEF G
  <1>7. Nat \subseteq G
    BY <1>5, <1>6, Everywhere
  <1>8. f[n] \in Scan /\ IsFiniteSet(H(n))
        /\ Cardinality(H(n)) = f[n].total + (IF f[n].run = None THEN 0 ELSE 1)
    <2>1. n \in G /\ n <= n
      BY <1>1, <1>7
    <2> HIDE DEF Good
    <2>2. Good(n)
      BY <2>1 DEF G
    <2> QED BY <2>2 DEF Good
  <1>9. H(n) = heads
    BY <1>1, <1>3
  <1> DEFINE r == Sink!MissingRanges(t)
             empty == <<>>
  <1> HIDE DEF heads, H
  <1>10. IsFiniteSet(heads) /\ r.total = Cardinality(heads) /\ r.ranges = empty
    <2>1. CASE f[n].run = None
      <3>1. r = f[n]
        BY <1>4, <2>1
      <3>2. f[n].ranges = empty
        BY <1>8 DEF Scan
      <3> HIDE DEF r
      <3> QED BY <1>8, <1>9, <2>1, <3>1, <3>2 DEF Scan
    <2>2. CASE f[n].run # None
      <3>1. r = Sink!PushRange(f[n], t.start, f[n].run, n - 1, t.max_examples)
        BY <1>4, <2>2
      <3>2. f[n] \in Scan /\ f[n].ranges = empty /\ Len(empty) = 0
        BY <1>8 DEF Scan
      <3> HIDE DEF empty
      <3>3. r = [f[n] EXCEPT !.total = @ + 1, !.ranges = f[n].ranges]
        BY <3>1, <3>2 DEF Sink!PushRange
      <3>4. r.total = f[n].total + 1 /\ r.ranges = empty
        BY <3>2, <3>3 DEF Scan
      <3> QED BY <1>8, <1>9, <2>2, <3>4
    <2> QED BY <2>1, <2>2
  <1>11. Cardinality(heads) \in Nat /\ (Cardinality(heads) = 0 => heads = {})
    BY <1>10, FS_CardinalityType, FS_EmptySet
  <1>12. missing # {} => heads # {}
    <2> SUFFICES ASSUME missing # {} PROVE heads # {}
      OBVIOUS
    <2>1. missing \in SUBSET Nat
      BY <1>3
    <2>2. PICK x \in missing : \A y \in missing : x <= y
      BY <2>1, Least
    <2>3. x \in Nat /\ ~(x <= x - 1)
      BY <2>1, <2>2
    <2> QED BY <2>2, <2>3 DEF heads
  <1>13. missing = Sink!Population(t, log) \ Sink!ToSet(log)
    <2>1. Sink!ToSet(log) = ToSet(log)
      BY DEF Sink!ToSet, ToSet
    <2> QED BY <2>1, SameTracker DEF missing
  <1>14. Sink!Cardinality(heads) = Cardinality(heads)
    BY SinkCounts
  <1> DEFINE covered == UNION {q[1] .. q[2] : q \in Sink!ToSet(r.ranges)}
  <1>15. Len(r.ranges) = 0 /\ Sink!ToSet(r.ranges) = {} /\ covered = {}
    <2>1. Len(empty) = 0 /\ Sink!ToSet(empty) = {}
      BY DEF Sink!ToSet
    <2> QED BY <1>10, <2>1
  <1> HIDE DEF r, H, Good
  <1>16. heads = {x \in missing : x - 1 \notin missing}
    BY DEF heads
  <1> HIDE DEF heads, covered
  <1>17. /\ r.total = Sink!Cardinality(heads)
         /\ Len(r.ranges) = IF r.total < t.max_examples THEN r.total ELSE t.max_examples
         /\ covered \subseteq missing
         /\ r.total <= t.max_examples => covered = missing
    BY <1>10, <1>11, <1>12, <1>14, <1>15
  <1> QED BY <1>13, <1>15, <1>16, <1>17 DEF Sink!RangesExact, r, covered

-----------------------------------------------------------------------------
\* The schedule as the sink sees it: no message of a burst is due before it.
LEMMA DueAfterOrigin ==
  ASSUME Sink!ScheduleAssumption, NEW n \in Nat
  PROVE  /\ Sink!ScheduleOffset(n) \in Nat
         /\ HasBurst /\ n >= Warmup => Sink!ScheduleOffset(Warmup) <= Sink!ScheduleOffset(n)
  <1>1. \A rate : Sink!IntervalNs(rate) = Bench!IntervalNs(rate)
    BY DEF Sink!IntervalNs, Bench!IntervalNs
  <1>2. Sink!Before = Bench!Before /\ Sink!During = Bench!During
    BY DEF Sink!Before, Bench!Before, Sink!During, Bench!During, Sink!MessagesFor, Bench!MessagesFor
  <1>3. Bench!ScheduleAssumption
    BY <1>1, <1>2 DEF Sink!ScheduleAssumption, Bench!ScheduleAssumption
  <1>4. \A k : Sink!BurstPhase(k) = Bench!BurstPhase(k)
    BY <1>2 DEF Sink!BurstPhase, Bench!BurstPhase
  <1>5. \A k : Sink!MeasurementOffset(k) = Bench!MeasurementOffset(k)
    BY <1>1, <1>2, <1>4 DEF Sink!MeasurementOffset, Bench!MeasurementOffset
  <1>6. \A k : Sink!ScheduleOffset(k) = Bench!ScheduleOffset(k)
    BY <1>1, <1>4, <1>5 DEF Sink!ScheduleOffset, Bench!ScheduleOffset
  <1>7. Bench!ScheduleOffset(n) \in Nat
    BY <1>3, OffsetsRise, n \in 0 .. n
  <1>8. Warmup \in Nat
    BY <1>3 DEF Bench!ScheduleAssumption
  <1>9. ASSUME n >= Warmup PROVE Bench!ScheduleOffset(Warmup) <= Bench!ScheduleOffset(n)
    BY <1>3, <1>8, <1>9, OffsetsRise, Warmup \in 0 .. n
  <1> QED BY <1>6, <1>7, <1>9

LEMMA SinkFacts ==
  ASSUME SinkAssumptions
  PROVE  /\ Sec \in Nat \ {0} /\ Total \in Nat \ {0} /\ Warmup \in Nat /\ HasBurst \in BOOLEAN
         /\ MeasurementSecs \in Nat \ {0} /\ BucketWidth \in Nat \ {0}
         /\ FineWidth \in Nat \ {0} /\ ParentWidth \in Nat \ {0}
         /\ WarmupTicks \in Nat /\ PrimaryEnd \in Nat /\ DrainEnd \in Nat /\ SwapOffset \in Nat
         /\ FineHalf \in Nat /\ Tolerance \in Nat /\ FineCapacity \in Nat /\ MaxTime \in Nat
         /\ (2 * FineHalf) % ParentWidth = 0 /\ (2 * FineHalf) % FineWidth = 0
         /\ "none" \notin Versions /\ TrackerAssumption
         /\ Sink!None = None /\ None \notin Nat /\ None \in Int
         /\ BurstOrigin \in Nat \cup {None} /\ (HasBurst => BurstOrigin \in Nat)
  <1>1. Sink!ScheduleAssumption /\ Sink!SinkAssumption /\ TrackerAssumption
    BY DEF SinkAssumptions
  <1>2. Sec \in Nat \ {0} /\ Total \in Nat \ {0} /\ Warmup \in Nat /\ HasBurst \in BOOLEAN
    BY <1>1 DEF Sink!ScheduleAssumption
  <1>3. Sink!ScheduleOffset(Warmup) \in Nat
    BY <1>1, <1>2, DueAfterOrigin
  <1>4. BurstOrigin \in Nat \cup {None} /\ (HasBurst => BurstOrigin \in Nat)
    BY <1>2, <1>3 DEF BurstOrigin, Sink!MeasurementStart
  <1>5. Sink!None = None /\ None \notin Nat /\ None \in Int
    BY DEF Sink!None, None
  <1> QED BY <1>1, <1>2, <1>4, <1>5 DEF Sink!SinkAssumption

\* What one measured message does.
Taken(e) ==
    /\ e \in Arrival /\ e.at = now
    /\ e.stamped => e.seq \in Nat
    /\ e.origin = IF e.stamped THEN BurstOrigin ELSE None
    /\ e.origin # None => e.origin <= now
    /\ Versions = {} <=> e.version = "none"
    /\ measured' = Append(measured, e)
    /\ start' = IF start = None THEN now ELSE start
    /\ tracker' = IF e.stamped
                  THEN Sink!RecordSeq(IF anchored THEN tracker
                          ELSE Sink!AnchorEnd(Sink!AnchorStart(tracker, Warmup), Total), e.seq)
                  ELSE tracker
    /\ anchored' = (anchored \/ e.stamped)
    /\ grid' = Sink!RecordThroughput(grid, now - start')
    /\ latencies' = latencies + (IF e.stamped THEN 1 ELSE 0)
    /\ \E duplicate \in BOOLEAN :
         /\ burst' = IF e.origin = None THEN burst
                     ELSE Sink!RecordBurst(IF burst.origin = None THEN Sink!NewBurst(e.origin)
                                           ELSE burst, e.origin, now, duplicate)
         /\ intervals' = Sink!RecordInterval(IF start = None THEN Sink!NewIntervals(e.origin)
                                             ELSE intervals, e.elapsed, e.stamped, duplicate)
    /\ swaps' = IF e.version = "none" THEN swaps ELSE Sink!RecordVersion(swaps, e.version, now)
    /\ UNCHANGED <<now, artifacts>>

AllButWarmup == <<now, tracker, anchored, start, grid, intervals, burst, latencies, swaps,
                  measured, artifacts>>

LEMMA MeasureTakes ==
  ASSUME SinkAssumptions, SinkInv, NEW stamps, NEW version \in Sink!VersionSet,
         Sink!Measure(stamps, version), UNCHANGED <<now, artifacts>>,
         stamps # <<>> =>
            /\ stamps[1].sequence \in Nat /\ stamps[1].intended \in Nat
            /\ stamps[1].first = Warmup /\ stamps[1].end = Total
            /\ stamps[1].origin = BurstOrigin
            /\ BurstOrigin # None => BurstOrigin <= stamps[1].intended /\ stamps[1].intended <= now
  PROVE  \E e : Taken(e)
  <1> DEFINE m == stamps[1]
             stamped == stamps # <<>>
             anchor == IF stamped THEN m.origin ELSE None
             begin == IF start = None THEN now ELSE start
             elapsed == IF anchor # None /\ m.intended >= anchor THEN m.intended - anchor
                        ELSE now - begin
             e == [at |-> now, stamped |-> stamped, origin |-> anchor,
                   seq |-> IF stamped THEN m.sequence ELSE None,
                   elapsed |-> elapsed, version |-> version]
             duplicate == stamped /\ Sink!IsDuplicate(Sink!Anchor(m), m.sequence)
  <1>0. /\ Sink!None = None /\ None \notin Nat /\ BurstOrigin \in Nat \cup {None} /\ now \in Nat
        /\ MaxTime \in Nat /\ "none" \notin Versions
    BY SinkFacts DEF SinkInv, SinkTypes
  <1>1. begin \in Nat /\ begin <= now
    <2>1. CASE start = None
      BY <1>0, <2>1
    <2>2. CASE start # None
      <3>1. measured # <<>> /\ measured \in Seq(Arrival) /\ start \in Nat
        BY <2>2 DEF SinkInv, InOrder, SinkTypes
      <3>2. 1 \in DOMAIN measured
        BY <3>1
      <3> QED BY <2>2, <3>1, <3>2 DEF SinkInv, InOrder
    <2> QED BY <2>1, <2>2
  <1>2. anchor = (IF stamped THEN BurstOrigin ELSE None) /\ anchor \in Nat \cup {None}
    BY <1>0
  <1>3. elapsed \in Nat
    BY <1>0, <1>1, <1>2
  <1>4. anchor # None => anchor <= now
    BY <1>0, <1>2
  <1>5. version \in Names /\ (Versions = {} <=> version = "none")
    BY <1>0 DEF Sink!VersionSet, Names
  <1>6. duplicate \in BOOLEAN
    BY SameTracker
  <1>7. e \in Arrival
    BY <1>0, <1>2, <1>3, <1>5 DEF Arrival
  <1>8. /\ e.at = now /\ e.stamped = stamped /\ e.origin = anchor /\ e.version = version
        /\ e.elapsed = elapsed /\ (stamped => e.seq = m.sequence)
    OBVIOUS
  <1>9. /\ start' = begin
        /\ tracker' = IF stamped THEN Sink!RecordSeq(Sink!Anchor(m), m.sequence) ELSE tracker
        /\ anchored' = (anchored \/ stamped)
        /\ burst' = IF anchor = None THEN burst
                    ELSE Sink!RecordBurst(IF burst.origin = None THEN Sink!NewBurst(anchor) ELSE burst,
                                     anchor, now, duplicate)
        /\ grid' = Sink!RecordThroughput(grid, now - begin)
        /\ latencies' = latencies + (IF stamped THEN 1 ELSE 0)
        /\ intervals' = Sink!RecordInterval(IF start = None THEN Sink!NewIntervals(anchor)
                                            ELSE intervals, elapsed, stamped, duplicate)
        /\ swaps' = IF version = "none" THEN swaps ELSE Sink!RecordVersion(swaps, version, now)
        /\ measured' = Append(measured, e)
    BY <1>0, Zenon DEF Sink!Measure
  <1>10. stamped => Sink!Anchor(m) = IF anchored THEN tracker
                          ELSE Sink!AnchorEnd(Sink!AnchorStart(tracker, Warmup), Total)
    BY DEF Sink!Anchor
  <1>11. stamped => m.sequence \in Nat
    OBVIOUS
  <1>12. begin = IF start = None THEN now ELSE start
    OBVIOUS
  <1> HIDE DEF e, duplicate, elapsed, begin, anchor, stamped, m
  <1>13. /\ e \in Arrival /\ e.at = now
         /\ e.stamped => e.seq \in Nat
         /\ e.origin = IF e.stamped THEN BurstOrigin ELSE None
         /\ e.origin # None => e.origin <= now
         /\ Versions = {} <=> e.version = "none"
    BY <1>2, <1>4, <1>5, <1>7, <1>8, <1>11
  <1>14. /\ tracker' = IF e.stamped
                       THEN Sink!RecordSeq(IF anchored THEN tracker
                               ELSE Sink!AnchorEnd(Sink!AnchorStart(tracker, Warmup), Total), e.seq)
                       ELSE tracker
         /\ anchored' = (anchored \/ e.stamped)
    BY <1>8, <1>9, <1>10
  <1>15. /\ grid' = Sink!RecordThroughput(grid, now - start')
         /\ start' = IF start = None THEN now ELSE start
         /\ latencies' = latencies + (IF e.stamped THEN 1 ELSE 0)
         /\ swaps' = IF e.version = "none" THEN swaps ELSE Sink!RecordVersion(swaps, e.version, now)
    BY <1>8, <1>9, <1>12
  <1>16. /\ burst' = IF e.origin = None THEN burst
                     ELSE Sink!RecordBurst(IF burst.origin = None THEN Sink!NewBurst(e.origin)
                                           ELSE burst, e.origin, now, duplicate)
         /\ intervals' = Sink!RecordInterval(IF start = None THEN Sink!NewIntervals(e.origin)
                                             ELSE intervals, e.elapsed, e.stamped, duplicate)
    BY <1>8, <1>9
  <1>17. Taken(e)
    BY <1>6, <1>9, <1>13, <1>14, <1>15, <1>16 DEF Taken
  <1> QED BY <1>17

LEMMA CollectTakes ==
  ASSUME SinkAssumptions, SinkInv, Sink!CollectPlain \/ \E n \in 0 .. Total - 1 : Sink!CollectStamped(n)
  PROVE  artifacts = <<>> /\ (UNCHANGED AllButWarmup \/ \E e : Taken(e))
  <1>1. CASE Sink!CollectPlain
    <2>1. \/ UNCHANGED AllButWarmup
          \/ \E version \in Sink!VersionSet : Sink!Measure(<<>>, version) /\ UNCHANGED <<now, artifacts>>
      BY <1>1 DEF Sink!CollectPlain, AllButWarmup
    <2>2. artifacts = <<>>
      BY <1>1 DEF Sink!CollectPlain
    <2> QED BY <2>1, <2>2, MeasureTakes
  <1>2. ASSUME NEW n \in 0 .. Total - 1, Sink!CollectStamped(n)
        PROVE  artifacts = <<>> /\ (UNCHANGED AllButWarmup \/ \E e : Taken(e))
    <2> DEFINE m == Sink!StampsOf(n, 0, now)
               stamps == <<m>>
    <2>1. artifacts = <<>> /\ m.intended <= now
      BY <1>2 DEF Sink!CollectStamped
    <2>2. CASE UNCHANGED AllButWarmup
      BY <2>1, <2>2
    <2>3. CASE ~UNCHANGED AllButWarmup
      <3>1. /\ ~m.warmup /\ UNCHANGED <<now, artifacts>>
            /\ \E version \in Sink!VersionSet : Sink!Measure(<<m>>, version)
        BY <1>2, <2>3 DEF Sink!CollectStamped, AllButWarmup
      <3>2. PICK version \in Sink!VersionSet : Sink!Measure(stamps, version)
        BY <3>1
      <3>3. /\ n \in Nat /\ Total \in Nat /\ Warmup \in Nat /\ HasBurst \in BOOLEAN
            /\ Sink!ScheduleAssumption
        BY SinkFacts DEF SinkAssumptions
      <3>4. n >= Warmup
        <4>1. m.warmup = (n < Warmup)
          BY DEF Sink!StampsOf
        <4> HIDE DEF m
        <4>2. ~(n < Warmup)
          BY <3>1, <4>1, Zenon
        <4> QED BY <3>3, <4>2
      <3>5. /\ Sink!ScheduleOffset(n) \in Nat
            /\ HasBurst => Sink!ScheduleOffset(Warmup) <= Sink!ScheduleOffset(n)
        BY <3>3, <3>4, DueAfterOrigin
      <3>6. /\ m.sequence = n /\ m.intended = 0 + Sink!ScheduleOffset(n)
            /\ m.first = Warmup /\ m.end = Total
            /\ m.origin = IF HasBurst THEN Sink!MeasurementStart(0) ELSE -1
        BY <3>4 DEF Sink!StampsOf
      <3>7. m.origin = BurstOrigin
        BY <3>6 DEF BurstOrigin, None
      <3>8. BurstOrigin # None => BurstOrigin <= m.intended
        <4>1. Sink!ScheduleOffset(Warmup) \in Nat
          BY <3>3, DueAfterOrigin
        <4> QED BY <3>5, <3>6, <4>1 DEF BurstOrigin, Sink!MeasurementStart
      <3>9. m.intended \in Nat
        BY <3>5, <3>6
      <3> HIDE DEF m
      <3>10. stamps # <<>> /\ stamps[1] = m
        OBVIOUS
      <3> HIDE DEF stamps
      <3> QED BY <2>1, <3>1, <3>2, <3>3, <3>6, <3>7, <3>8, <3>9, <3>10, MeasureTakes
    <2> QED BY <2>2, <2>3
  <1> QED BY <1>1, <1>2

-----------------------------------------------------------------------------
\* A set of positions, before and after one more arrival.
LEMMA Grown ==
  ASSUME NEW n \in Nat, NEW X, X \subseteq 1 .. n, NEW Y, Y \subseteq 1 .. n + 1,
         \A i \in 1 .. n : i \in X <=> i \in Y
  PROVE  /\ IsFiniteSet(X) /\ IsFiniteSet(Y) /\ Cardinality(X) \in Nat
         /\ Cardinality(Y) = Cardinality(X) + (IF n + 1 \in Y THEN 1 ELSE 0)
  <1>1. IsFiniteSet(1 .. n) /\ IsFiniteSet(1 .. n + 1)
    BY FS_Interval
  <1>2. IsFiniteSet(X) /\ IsFiniteSet(Y) /\ Cardinality(X) \in Nat
    BY <1>1, FS_Subset, FS_CardinalityType
  <1>3. n + 1 \notin X /\ \A i \in Y : i \in 1 .. n \/ i = n + 1
    OBVIOUS
  <1>4. CASE n + 1 \in Y
    <2>1. Y = X \cup {n + 1}
      BY <1>3, <1>4
    <2>2. Cardinality(X \cup {n + 1}) = Cardinality(X) + 1
      BY <1>2, <1>3, FS_AddElement
    <2> QED BY <1>2, <1>4, <2>1, <2>2
  <1>5. CASE n + 1 \notin Y
    <2>1. Y = X
      BY <1>3, <1>5
    <2> QED BY <1>2, <1>5, <2>1
  <1> QED BY <1>4, <1>5

LEMMA OneMore ==
  ASSUME NEW a \in Seq(Arrival), NEW e \in Arrival, NEW n, n = Len(a), NEW b, b = Append(a, e)
  PROVE  /\ n \in Nat /\ DOMAIN a = 1 .. n /\ DOMAIN b = 1 .. n + 1
         /\ b \in Seq(Arrival) /\ Len(b) = n + 1 /\ b # <<>>
         /\ \A i \in 1 .. n : a[i] \in Arrival /\ b[i] = a[i]
         /\ b[n + 1] = e /\ (n = 0 <=> a = <<>>)
         /\ \A i \in 1 .. n + 1 : i \in 1 .. n \/ i = n + 1
  OBVIOUS

\* How the sets of positions grow.
OneMoreIn(X, Y, more) ==
    Cardinality(X) \in Nat /\ Cardinality(Y) = Cardinality(X) + (IF more THEN 1 ELSE 0)

AllGrow(a, e, b) ==
    /\ \A k : OneMoreIn(InSecond(a, k), InSecond(b, k), Second(e) = k)
    /\ \A k : OneMoreIn(LatentIn(a, k), LatentIn(b, k), Second(e) = k /\ e.stamped)
    /\ \A s, k : OneMoreIn(ArrivedIn(a, s, k), ArrivedIn(b, s, k), (e.at - s) \div Sec = k)
    /\ OneMoreIn(FromBurst(a), FromBurst(b), e.origin # None)
    /\ \A zone : OneMoreIn(FromBurstIn(a, zone), FromBurstIn(b, zone),
                           e.origin # None /\ Offset(e) \in zone)
    /\ \A times : OneMoreIn(FromBurstAt(a, times), FromBurstAt(b, times),
                            e.origin # None /\ e.at \in times)
    /\ OneMoreIn(WithStamps(a), WithStamps(b), e.stamped)
    /\ OneMoreIn(Turns(a), Turns(b), Len(a) > 0 /\ e.version # a[Len(a)].version)

LEMMA SetsGrow ==
  ASSUME NEW a \in Seq(Arrival), NEW e \in Arrival, NEW b, b = Append(a, e)
  PROVE  AllGrow(a, e, b)
  <1> DEFINE n == Len(a)
             Same(X, Y) == X \subseteq 1 .. n /\ Y \subseteq 1 .. n + 1
                           /\ \A i \in 1 .. n : i \in X <=> i \in Y
  <1>0. /\ n \in Nat /\ DOMAIN a = 1 .. n /\ DOMAIN b = 1 .. n + 1
        /\ \A i \in 1 .. n : b[i] = a[i]
        /\ b[n + 1] = e /\ n + 1 \in 1 .. n + 1
        /\ \A i \in 1 .. n + 1 : i \in 1 .. n \/ i = n + 1
        /\ \A i \in 1 .. n : i \in 1 .. n + 1
        /\ Len(b) = n + 1
    BY OneMore
  <1> HIDE DEF n
  <1>1. ASSUME NEW X, NEW Y, Same(X, Y)
        PROVE  OneMoreIn(X, Y, n + 1 \in Y)
    BY <1>0, <1>1, Grown DEF OneMoreIn
  <1>2. \A k : /\ Same(InSecond(a, k), InSecond(b, k))
               /\ n + 1 \in InSecond(b, k) <=> Second(e) = k
    BY <1>0 DEF InSecond
  <1>3. \A k : /\ Same(LatentIn(a, k), LatentIn(b, k))
               /\ n + 1 \in LatentIn(b, k) <=> Second(e) = k /\ e.stamped
    BY <1>0 DEF LatentIn, InSecond
  <1>4. \A s, k : /\ Same(ArrivedIn(a, s, k), ArrivedIn(b, s, k))
                  /\ n + 1 \in ArrivedIn(b, s, k) <=> (e.at - s) \div Sec = k
    BY <1>0 DEF ArrivedIn
  <1>5. /\ Same(FromBurst(a), FromBurst(b))
        /\ n + 1 \in FromBurst(b) <=> e.origin # None
    BY <1>0 DEF FromBurst
  <1>6. \A zone : /\ Same(FromBurstIn(a, zone), FromBurstIn(b, zone))
                  /\ n + 1 \in FromBurstIn(b, zone) <=> e.origin # None /\ Offset(e) \in zone
    BY <1>0 DEF FromBurstIn, FromBurst
  <1>7. \A times : /\ Same(FromBurstAt(a, times), FromBurstAt(b, times))
                   /\ n + 1 \in FromBurstAt(b, times) <=> e.origin # None /\ e.at \in times
    BY <1>0 DEF FromBurstAt, FromBurst
  <1>8. /\ Same(WithStamps(a), WithStamps(b))
        /\ n + 1 \in WithStamps(b) <=> e.stamped
    BY <1>0 DEF WithStamps
  <1>9. /\ Same(Turns(a), Turns(b))
        /\ n + 1 \in Turns(b) <=> n > 0 /\ e.version # a[n].version
    <2>1. \A i \in 2 .. n + 1 : i - 1 \in 1 .. n /\ (i \in 2 .. n \/ i = n + 1)
      BY <1>0
    <2>2. 2 .. n \subseteq 1 .. n /\ 2 .. n + 1 \subseteq 1 .. n + 1 /\ (n + 1) - 1 = n
      BY <1>0
    <2>3. \A i \in 2 .. n : i \in 2 .. n + 1 /\ b[i] = a[i] /\ b[i - 1] = a[i - 1]
      BY <1>0, <2>1
    <2>4. n > 0 => b[(n + 1) - 1] = a[n] /\ n + 1 \in 2 .. n + 1
      BY <1>0, <2>2
    <2>5. n + 1 \in 2 .. n + 1 => n > 0
      BY <1>0
    <2>6. Turns(a) = {i \in 2 .. n : a[i].version # a[i - 1].version}
      BY DEF Turns, n
    <2>7. Turns(b) = {i \in 2 .. n + 1 : b[i].version # b[i - 1].version}
      BY <1>0 DEF Turns
    <2>8. \A i \in 1 .. n : i \in 2 .. n + 1 => i \in 2 .. n
      BY <1>0
    <2> QED BY <1>0, <2>1, <2>2, <2>3, <2>4, <2>5, <2>6, <2>7, <2>8
  <1> HIDE DEF Same
  <1>10. \A k : OneMoreIn(InSecond(a, k), InSecond(b, k), Second(e) = k)
    BY <1>1, <1>2 DEF OneMoreIn
  <1>11. \A k : OneMoreIn(LatentIn(a, k), LatentIn(b, k), Second(e) = k /\ e.stamped)
    BY <1>1, <1>3 DEF OneMoreIn
  <1>12. \A s, k : OneMoreIn(ArrivedIn(a, s, k), ArrivedIn(b, s, k), (e.at - s) \div Sec = k)
    BY <1>1, <1>4 DEF OneMoreIn
  <1>13. OneMoreIn(FromBurst(a), FromBurst(b), e.origin # None)
    BY <1>1, <1>5 DEF OneMoreIn
  <1>14. \A zone : OneMoreIn(FromBurstIn(a, zone), FromBurstIn(b, zone),
                             e.origin # None /\ Offset(e) \in zone)
    BY <1>1, <1>6 DEF OneMoreIn
  <1>15. \A times : OneMoreIn(FromBurstAt(a, times), FromBurstAt(b, times),
                              e.origin # None /\ e.at \in times)
    BY <1>1, <1>7 DEF OneMoreIn
  <1>16. OneMoreIn(WithStamps(a), WithStamps(b), e.stamped)
    BY <1>1, <1>8 DEF OneMoreIn
  <1>17. OneMoreIn(Turns(a), Turns(b), Len(a) > 0 /\ e.version # a[Len(a)].version)
    BY <1>1, <1>9 DEF OneMoreIn, n
  <1> QED BY <1>10, <1>11, <1>12, <1>13, <1>14, <1>15, <1>16, <1>17, Zenon DEF AllGrow

LEMMA OrderKept ==
  ASSUME SinkAssumptions, SinkInv, NEW e, Taken(e)
  PROVE  /\ InOrder(measured', start', now') /\ start' \in Nat /\ start' <= now /\ now \in Nat
         /\ measured # <<>> => start' = start
         /\ measured = <<>> => start' = now /\ start = None
         /\ \A i \in DOMAIN measured : measured[i].at <= now
         /\ measured' \in Seq(Arrival) /\ now' = now
  <1> DEFINE n == Len(measured)
             b == measured'
  <1>1. /\ measured' = Append(measured, e) /\ e \in Arrival
        /\ e.at = now /\ now' = now /\ start' = IF start = None THEN now ELSE start
        /\ e.stamped => e.seq \in Nat
        /\ e.origin = IF e.stamped THEN BurstOrigin ELSE None
        /\ e.origin # None => e.origin <= now
        /\ (Versions = {} <=> e.version = "none")
    BY DEF Taken
  <1>0. /\ n \in Nat /\ DOMAIN measured = 1 .. n /\ DOMAIN b = 1 .. n + 1
        /\ b \in Seq(Arrival) /\ Len(b) = n + 1 /\ b # <<>>
        /\ \A i \in 1 .. n : measured[i] \in Arrival /\ b[i] = measured[i]
        /\ b[n + 1] = e /\ (n = 0 <=> measured = <<>>)
        /\ \A i \in 1 .. n + 1 : i \in 1 .. n \/ i = n + 1
    BY <1>1, OneMore DEF SinkInv, SinkTypes
  <1>2. now \in Nat /\ start \in Nat \cup {None} /\ None \notin Nat
    BY SinkFacts DEF SinkInv, SinkTypes
  <1>3. /\ (measured = <<>> <=> start = None) /\ (measured # <<>> => start = measured[1].at)
        /\ \A i \in 1 .. n :
             /\ start <= measured[i].at /\ measured[i].at <= now
             /\ measured[i].stamped => measured[i].seq \in Nat
             /\ measured[i].origin \in {None, BurstOrigin}
             /\ measured[i].origin # None =>
                  measured[i].stamped /\ measured[i].origin <= measured[i].at
             /\ (Versions = {} <=> measured[i].version = "none")
        /\ \A i, j \in 1 .. n : i < j => measured[i].at <= measured[j].at
    BY <1>0 DEF SinkInv, InOrder
  <1> HIDE DEF n, b
  <1>4. /\ start' \in Nat /\ start' <= now
        /\ measured # <<>> => start' = start
        /\ measured = <<>> => start' = now /\ start = None
    <2>1. measured # <<>> => 1 \in 1 .. n
      BY <1>0
    <2> QED BY <1>1, <1>2, <1>3, <2>1
  <1>5. start' = b[1].at
    <2>1. CASE measured = <<>>
      <3>1. n + 1 = 1
        BY <1>0, <2>1
      <3>2. b[1] = e
        BY <1>0, <3>1
      <3> QED BY <1>1, <1>4, <2>1, <3>2
    <2>2. CASE measured # <<>>
      <3>1. 1 \in 1 .. n
        BY <1>0, <2>2
      <3> QED BY <1>0, <1>3, <1>4, <2>2, <3>1
    <2> QED BY <2>1, <2>2
  <1>6. ASSUME NEW i \in 1 .. n + 1
        PROVE  LET m == b[i] IN
               /\ start' <= m.at /\ m.at <= now
               /\ m.stamped => m.seq \in Nat
               /\ m.origin \in {None, BurstOrigin}
               /\ m.origin # None => m.stamped /\ m.origin <= m.at
               /\ (Versions = {} <=> m.version = "none")
    <2>1. CASE i \in 1 .. n
      <3>1. measured # <<>> /\ b[i] = measured[i]
        BY <1>0, <2>1
      <3> QED BY <1>3, <1>4, <2>1, <3>1
    <2>2. CASE i = n + 1
      <3>1. b[i] = e
        BY <1>0, <2>2
      <3> QED BY <1>1, <1>2, <1>4, <3>1
    <2> QED BY <1>0, <2>1, <2>2
  <1>7. ASSUME NEW i \in 1 .. n + 1, NEW j \in 1 .. n + 1, i < j
        PROVE  b[i].at <= b[j].at
    <2>1. i \in 1 .. n
      BY <1>0, <1>7
    <2>2. CASE j \in 1 .. n
      BY <1>0, <1>3, <1>7, <2>1, <2>2
    <2>3. CASE j = n + 1
      BY <1>0, <1>1, <1>3, <2>1, <2>3
    <2> QED BY <1>0, <2>2, <2>3
  <1>8. InOrder(b, start', now)
    <2>1. start' # None
      BY <1>2, <1>4
    <2> QED BY <1>0, <1>5, <1>6, <1>7, <2>1 DEF InOrder
  <1>9. \A i \in DOMAIN measured : measured[i].at <= now
    BY <1>0, <1>3
  <1> QED BY <1>0, <1>1, <1>2, <1>4, <1>8, <1>9 DEF b

\* The log of arrivals without stamps is empty.
LEMMA NoStampsNoLog ==
  ASSUME NEW m, Numbered(m), WithStamps(m) = {}
  PROVE  Sink!LogOf(m) = <<>>
  <1>1. Len(m) \in Nat /\ \A i \in 1 .. Len(m) : ~m[i].stamped
    BY DEF Numbered, WithStamps
  <1>2. PICK f \in [0 .. Len(m) -> Seq(Nat)] : IsLog(m, f) /\ Sink!LogOf(m) = f[Len(m)]
    BY LogIs
  <1> DEFINE empty == <<>>
             G == {i \in Nat : i <= Len(m) => f[i] = empty}
  <1>3. 0 \in G
    BY <1>2 DEF IsLog
  <1> HIDE DEF empty
  <1>4. ASSUME NEW i \in Nat, i \in G PROVE i + 1 \in G
    <2> SUFFICES ASSUME i + 1 <= Len(m) PROVE f[i + 1] = empty
      OBVIOUS
    <2>1. i + 1 \in 1 .. Len(m) /\ (i + 1) - 1 = i /\ f[i] = empty
      BY <1>1, <1>4
    <2> QED BY <1>1, <1>2, <2>1 DEF IsLog
  <1> HIDE DEF G
  <1>5. Nat \subseteq G
    BY <1>3, <1>4, Everywhere
  <1> QED BY <1>1, <1>2, <1>5 DEF G, empty

LEMMA AnchoredFits ==
  ASSUME NEW t, NEW from \in Nat, NEW to \in Nat,
         t = Sink!AnchorEnd(Sink!AnchorStart(Sink!Unanchored(0), from), to)
  PROVE  /\ t \in Tracker /\ t.start = from /\ t.end = to /\ t.max_examples = 0
         /\ TrackerFits(t, <<>>)
  <1> DEFINE empty == <<>>
  <1>1. empty \in Seq(Nat) /\ Len(empty) = 0 /\ DOMAIN empty = {} /\ 1 .. Len(empty) = {}
    OBVIOUS
  <1>2. t = [start |-> from, end |-> to, seen |-> {}, highest |-> None, received |-> 0,
             unique |-> 0, duplicates |-> 0, out_of_order |-> 0, out_of_range |-> 0,
             examples |-> empty, max_examples |-> 0, truncated |-> FALSE]
    BY DEF Sink!Unanchored, Sink!NewTracker, Sink!AnchorStart, Sink!AnchorEnd, Sink!None, None
  <1> HIDE DEF empty
  <1>3. t \in Tracker
    <2>1. \A r \in Seq(Nat), h \in Nat \cup {None} :
            [start |-> from, end |-> to, seen |-> {}, highest |-> h, received |-> 0,
             unique |-> 0, duplicates |-> 0, out_of_order |-> 0, out_of_range |-> 0,
             examples |-> r, max_examples |-> 0, truncated |-> FALSE] \in Tracker
      BY DEF Tracker
    <2> QED BY <1>1, <1>2, <2>1
  <1>4. /\ t.start = from /\ t.end = to /\ t.seen = {} /\ t.highest = None /\ t.received = 0
        /\ t.unique = 0 /\ t.duplicates = 0 /\ t.out_of_order = 0 /\ t.out_of_range = 0
        /\ t.max_examples = 0
    BY <1>2
  <1>5. Arrived(t, empty) = {} /\ Outside(t, empty) = {} /\ Late(t, empty) = {}
    BY <1>1 DEF Arrived, Outside, Late, ToSet
  <1>6. Cardinality({}) = 0
    BY FS_EmptySet
  <1>7. TrackerFits(t, empty)
    <2>1. t.start # None /\ t.received = Len(empty)
          /\ t.duplicates = Len(empty) - t.unique - t.out_of_range
      BY <1>1, <1>4 DEF None
    <2> QED BY <1>4, <1>5, <1>6, <2>1 DEF TrackerFits
  <1> QED BY <1>3, <1>4, <1>7 DEF empty

\* SequenceTracker: the tracker goes on fitting.
LEMMA TrackerKept ==
  ASSUME SinkAssumptions, SinkInv, NEW e, Taken(e)
  PROVE  TrackerTold(tracker', anchored', measured') /\ tracker' \in Tracker /\ anchored' \in BOOLEAN
  <1> DEFINE log == Sink!LogOf(measured)
             more == Sink!LogOf(measured')
             told == IF anchored THEN tracker
                     ELSE Sink!AnchorEnd(Sink!AnchorStart(tracker, Warmup), Total)
  <1>1. /\ measured' = Append(measured, e) /\ (e.stamped => e.seq \in Nat)
        /\ tracker' = IF e.stamped THEN Sink!RecordSeq(told, e.seq) ELSE tracker
        /\ anchored' = (anchored \/ e.stamped) /\ e.stamped \in BOOLEAN /\ e \in Arrival
    BY DEF Taken, Arrival
  <1>2. Numbered(measured)
    BY DEF SinkInv, SinkTypes, InOrder, Numbered
  <1>3. /\ log \in Seq(Nat)
        /\ more = IF e.stamped THEN Append(log, e.seq) ELSE log
    <2> HIDE DEF log, more
    <2>1. more = Sink!LogOf(Append(measured, e)) /\ log = Sink!LogOf(measured)
      BY <1>1 DEF more, log
    <2> QED BY <1>1, <1>2, <2>1, LogAppend
  <1>4. /\ tracker \in Tracker /\ anchored \in BOOLEAN /\ TrackerTold(tracker, anchored, measured)
        /\ measured \in Seq(Arrival)
    BY DEF SinkInv, SinkTypes
  <1>5. WithStamps(measured') = {} <=> WithStamps(measured) = {} /\ ~e.stamped
    <2> DEFINE b == measured'
               n == Len(measured)
    <2>1. /\ n \in Nat /\ DOMAIN measured = 1 .. n /\ DOMAIN b = 1 .. n + 1
          /\ \A i \in 1 .. n : b[i] = measured[i]
          /\ b[n + 1] = e /\ n + 1 \in 1 .. n + 1
          /\ \A i \in 1 .. n + 1 : i \in 1 .. n \/ i = n + 1
          /\ \A i \in 1 .. n : i \in 1 .. n + 1
      BY <1>1, <1>4, OneMore
    <2> HIDE DEF b, n
    <2>2. WithStamps(b) = {} <=> WithStamps(measured) = {} /\ ~e.stamped
      BY <2>1 DEF WithStamps
    <2> QED BY <2>2 DEF b
  <1>6. CASE ~e.stamped
    <2>1. tracker' = tracker /\ anchored' = anchored
      <3>1. e.stamped = FALSE /\ anchored \in {TRUE, FALSE}
        BY <1>1, <1>4, <1>6
      <3>2. anchored' = (anchored \/ FALSE) /\ tracker' = tracker
        BY <1>1, <3>1
      <3> QED BY <3>1, <3>2
    <2>2. more = log
      BY <1>3, <1>6
    <2> QED BY <1>4, <1>5, <1>6, <2>1, <2>2 DEF TrackerTold
  <1>7. CASE e.stamped
    <2>1. /\ told \in Tracker /\ told.start = Warmup /\ told.end = Total
          /\ told.max_examples = 0 /\ TrackerFits(told, log)
      <3>1. CASE anchored
        BY <1>4, <3>1 DEF TrackerTold
      <3>2. CASE ~anchored
        <4>1. log = <<>>
          BY <1>2, <1>4, <3>2, NoStampsNoLog DEF TrackerTold
        <4>2. Warmup \in Nat /\ Total \in Nat
          BY SinkFacts
        <4>3. told = Sink!AnchorEnd(Sink!AnchorStart(Sink!Unanchored(0), Warmup), Total)
          BY <1>4, <3>2 DEF TrackerTold
        <4> HIDE DEF told, log
        <4> QED BY <4>1, <4>2, <4>3, AnchoredFits
      <3> QED BY <1>4, <3>1, <3>2
    <2> DEFINE t == RecordSeq(told, e.seq)
    <2> HIDE DEF told, log, more
    <2>2. tracker' = t /\ anchored' = TRUE /\ more = Append(log, e.seq) /\ e.seq \in Nat
      BY <1>1, <1>3, <1>7, SameTracker
    <2>3. told.start # None
      BY <2>1 DEF TrackerFits
    <2>4. t \in Tracker /\ t.start = Warmup /\ t.end = Total
      BY <2>1, <2>2, <2>3, RecordTyped
    <2>5. TrackerFits(t, more)
      BY <1>3, <2>1, <2>2, RecordFits
    <2>6. t.max_examples = 0
      <3>1. t \in {OutOfRange(told), Duplicate(told, e.seq), Unique(told, e.seq)}
        BY <2>1, <2>2, <2>3, RecordByOutcome
      <3>2. /\ OutOfRange(told).max_examples = told.max_examples
            /\ Duplicate(told, e.seq).max_examples = told.max_examples
            /\ Unique(told, e.seq).max_examples = told.max_examples
        BY <2>1 DEF OutOfRange, Duplicate, Unique, Tracker
      <3> HIDE DEF t
      <3> QED BY <2>1, <3>1, <3>2
    <2> HIDE DEF t
    <2> QED BY <2>2, <2>4, <2>5, <2>6 DEF TrackerTold, more
  <1> QED BY <1>1, <1>6, <1>7

-----------------------------------------------------------------------------
\* Seconds.
LEMMA DivUp ==
  ASSUME NEW d \in Nat \ {0}, NEW x \in Nat, NEW y \in Nat, x <= y
  PROVE  x \div d \in Nat /\ y \div d \in Nat /\ x \div d <= y \div d /\ 0 \div d = 0
  <1>1. /\ x \div d \in Int /\ y \div d \in Int
        /\ x = d * (x \div d) + (x % d) /\ y = d * (y \div d) + (y % d)
        /\ 0 <= x % d /\ x % d < d /\ 0 <= y % d /\ y % d < d
        /\ x % d \in Int /\ y % d \in Int
    OBVIOUS
  <1> DEFINE p == x \div d
             q == y \div d
  <1>2. p \in Int /\ q \in Int /\ d * p <= x /\ x < d * p + d /\ d * q <= y /\ y < d * q + d
    BY <1>1
  <1> HIDE DEF p, q
  <1>3. p >= 0
    <2> SUFFICES ASSUME p <= 0 - 1 PROVE FALSE
      BY <1>2
    <2>1. 0 - p - 1 \in Nat
      BY <1>2
    <2>2. d * (0 - p - 1) >= 0 /\ d * (0 - p - 1) = 0 - d * p - d
      BY <1>2, <2>1
    <2> QED BY <1>2, <2>2
  <1>4. p <= q
    <2> SUFFICES ASSUME q + 1 <= p PROVE FALSE
      BY <1>2
    <2>1. p - q - 1 \in Nat
      BY <1>2
    <2>2. d * (p - q - 1) >= 0 /\ d * (p - q - 1) = d * p - d * q - d
      BY <1>2, <2>1
    <2> QED BY <1>2, <2>2
  <1>5. 0 \div d = 0
    OBVIOUS
  <1> QED BY <1>2, <1>3, <1>4, <1>5 DEF p, q

\* A loop, for as long as one likes.
LEMMA LoopIsThere ==
  ASSUME NEW V, NEW a \in V, NEW step \in [V -> V]
  PROVE  \E f \in [Nat -> V] : f[0] = a /\ \A k \in Nat \ {0} : f[k] = step[f[k - 1]]
  <1> DEFINE st == [x \in Nat \X V |-> step[x[2]]]
             Is(n, f) == f \in [0 .. n -> V] /\ Runs(f, n, a, st)
             run(n) == CHOOSE f : Is(n, f)
             F == [n \in Nat |-> run(n)[n]]
  <1>1. st \in [Nat \X V -> V]
    <2>1. \A x \in Nat \X V : step[x[2]] \in V
      OBVIOUS
    <2> QED BY <2>1
  <1>2. \A k \in Nat, v \in V : st[k, v] = step[v]
    <2> TAKE k \in Nat, v \in V
    <2>1. <<k, v>> \in Nat \X V /\ <<k, v>>[2] = v
      OBVIOUS
    <2> QED BY <2>1
  <1> HIDE DEF st
  <1>3. ASSUME NEW n \in Nat PROVE Is(n, run(n))
    <2>1. \E f : Is(n, f)
      BY <1>1, RunIsThere
    <2> HIDE DEF Is
    <2> QED BY <2>1
  <1> HIDE DEF run
  <1>4. F \in [Nat -> V]
    <2>1. ASSUME NEW n \in Nat PROVE run(n)[n] \in V
      <3>1. n \in 0 .. n /\ run(n) \in [0 .. n -> V]
        BY <1>3
      <3> QED BY <3>1
    <2> QED BY <2>1
  <1>5. F[0] = a
    <2>1. Runs(run(0), 0, a, st)
      BY <1>3
    <2> QED BY <2>1 DEF Runs
  <1>6. ASSUME NEW k \in Nat \ {0} PROVE F[k] = step[F[k - 1]]
    <2>1. k - 1 \in Nat /\ k \in 1 .. k /\ k - 1 <= k /\ k - 1 <= k - 1 /\ k \in Nat
      OBVIOUS
    <2>2. Runs(run(k), k, a, st) /\ Runs(run(k - 1), k - 1, a, st)
      BY <1>3, <2>1
    <2>3. run(k)[k - 1] = run(k - 1)[k - 1] /\ run(k)[k - 1] \in V
      <3> DEFINE p == k - 1
                 u == run(k)
                 v == run(p)
      <3>1. p \in Nat /\ k \in Nat /\ p <= k /\ p <= p /\ Runs(u, k, a, st) /\ Runs(v, p, a, st)
        BY <2>1, <2>2
      <3> HIDE DEF p, u, v
      <3>2. u[p] = v[p] /\ u[p] \in V
        <4>0. \A h, g : \A m, n \in Nat : Runs(h, m, a, st) /\ Runs(g, n, a, st) =>
                 \A i \in Nat : i <= m /\ i <= n => h[i] = g[i] /\ h[i] \in V
          BY <1>1, RunIsOne
        <4>1. \A i \in Nat : i <= k /\ i <= p => u[i] = v[i] /\ u[i] \in V
          BY <3>1, <4>0
        <4> QED BY <3>1, <4>1
      <3> QED BY <3>2 DEF p, u, v
    <2>4. run(k)[k] = st[k, run(k)[k - 1]]
      BY <2>1, <2>2, Zenon DEF Runs
    <2>5. run(k)[k] = step[run(k)[k - 1]]
      BY <1>2, <2>1, <2>3, <2>4
    <2>6. F[k] = run(k)[k] /\ F[k - 1] = run(k - 1)[k - 1]
      BY <2>1
    <2> QED BY <2>3, <2>5, <2>6
  <1> HIDE DEF F
  <1> QED BY <1>4, <1>5, <1>6

\* ThroughputGrid closes rows up to the second of the arrival.
Grid == [samples : Seq(Nat), count : Nat]
Closes(f, g) == f[0] = g /\ \A k \in Nat \ {0} : f[k] = Sink!CloseBucket(f[k - 1])

LEMMA CloseBucketIs ==
  ASSUME NEW g \in Grid
  PROVE  LET u == Sink!CloseBucket(g) IN
         /\ u \in Grid /\ Len(u.samples) = Len(g.samples) + 1 /\ u.count = 0
         /\ \A k \in 1 .. Len(g.samples) : u.samples[k] = g.samples[k]
         /\ u.samples[Len(g.samples) + 1] = g.count
  BY DEF Grid, Sink!CloseBucket

LEMMA RecordThroughputIs ==
  ASSUME NEW g \in Grid, NEW gone
  PROVE  \E f \in [Nat -> Grid] :
            /\ Closes(f, g)
            /\ Sink!RecordThroughput(g, gone)
                 = [f[gone \div Sec - Len(g.samples)] EXCEPT !.count = @ + 1]
  <1> DEFINE P(f) == f = [k \in Nat |-> IF k = 0 THEN g ELSE Sink!CloseBucket(f[k - 1])]
             h == CHOOSE f : P(f)
             step == [v \in Grid |-> Sink!CloseBucket(v)]
  <1>1. Sink!RecordThroughput(g, gone) = [h[gone \div Sec - Len(g.samples)] EXCEPT !.count = @ + 1]
    BY DEF Sink!RecordThroughput
  <1>2. step \in [Grid -> Grid]
    BY CloseBucketIs
  <1>3. PICK f \in [Nat -> Grid] : f[0] = g /\ \A k \in Nat \ {0} : f[k] = step[f[k - 1]]
    <2> HIDE DEF step
    <2> QED BY <1>2, LoopIsThere
  <1>4. P(f)
    <2>1. ASSUME NEW k \in Nat, k # 0 PROVE f[k] = Sink!CloseBucket(f[k - 1])
      <3>1. k - 1 \in Nat
        BY <2>1
      <3>2. f[k - 1] \in Grid
        BY <1>3, <3>1
      <3> QED BY <1>3, <2>1, <3>2
    <2>2. f = [k \in Nat |-> f[k]]
      BY <1>3
    <2>3. \A k \in Nat : f[k] = IF k = 0 THEN g ELSE Sink!CloseBucket(f[k - 1])
      BY <1>3, <2>1
    <2> QED BY <2>2, <2>3
  <1>5. P(h)
    <2> HIDE DEF P
    <2> QED BY <1>4
  <1> HIDE DEF h, step
  <1>6. /\ h = [k \in Nat |-> h[k]] /\ h[0] = g
        /\ \A k \in Nat \ {0} : h[k] = Sink!CloseBucket(h[k - 1])
    BY <1>5
  <1> HIDE DEF P
  <1> DEFINE G == {k \in Nat : h[k] \in Grid}
  <1>7. 0 \in G
    BY <1>6
  <1>8. ASSUME NEW i \in Nat, i \in G PROVE i + 1 \in G
    <2>1. h[i] \in Grid /\ i + 1 \in Nat \ {0} /\ (i + 1) - 1 = i
      BY <1>8
    <2>2. h[i + 1] = Sink!CloseBucket(h[i])
      BY <1>6, <2>1
    <2> QED BY <2>1, <2>2, CloseBucketIs
  <1> HIDE DEF G
  <1>9. Nat \subseteq G
    BY <1>7, <1>8, Everywhere
  <1>10. \A k \in Nat : h[k] \in Grid
    BY <1>9 DEF G
  <1> QED BY <1>1, <1>6, <1>10 DEF Closes

\* A row that is closed early is the row of a silent second.
LEMMA GridCloses ==
  ASSUME Sec \in Nat \ {0}, NEW g \in Grid, NEW a \in Seq(Arrival), NEW s \in Int,
         GridTold(g, a, s), NEW f \in [Nat -> Grid], Closes(f, g), NEW n \in Nat
  PROVE  GridTold(f[n], a, s) /\ Len(f[n].samples) = Len(g.samples) + n
         /\ (n > 0 => f[n].count = 0)
  <1> DEFINE Good(i) == /\ GridTold(f[i], a, s) /\ Len(f[i].samples) = Len(g.samples) + i
                        /\ (i > 0 => f[i].count = 0)
             G == {i \in Nat : Good(i)}
  <1>0. Len(g.samples) \in Nat
    BY DEF Grid
  <1>1. 0 \in G
    BY <1>0 DEF Closes
  <1>2. ASSUME NEW i \in Nat, i \in G PROVE i + 1 \in G
    <2> DEFINE v == f[i]
               u == f[i + 1]
               n0 == Len(v.samples)
    <2>1. u = Sink!CloseBucket(v) /\ v \in Grid /\ Good(i)
      <3>1. i + 1 \in Nat \ {0} /\ (i + 1) - 1 = i
        OBVIOUS
      <3> QED BY <1>2, <3>1 DEF Closes
    <2>2. GridTold(v, a, s) /\ n0 = Len(g.samples) + i
      BY <2>1
    <2> HIDE DEF u, v, G, Good
    <2>3. /\ u \in Grid /\ Len(u.samples) = n0 + 1 /\ u.count = 0
          /\ \A k \in 1 .. n0 : u.samples[k] = v.samples[k]
          /\ u.samples[n0 + 1] = v.count
      BY <2>1, CloseBucketIs
    <2>4. n0 \in Nat
      BY <2>1 DEF Grid
    <2> HIDE DEF n0
    <2>5. \A k \in 1 .. n0 + 1 : u.samples[k] = Cardinality(ArrivedIn(a, s, k - 1))
      <3> TAKE k \in 1 .. n0 + 1
      <3>1. CASE k \in 1 .. n0
        BY <2>2, <2>3, <3>1 DEF GridTold, n0
      <3>2. CASE k = n0 + 1
        <4>1. k - 1 = n0
          BY <2>4, <3>2
        <4> QED BY <2>2, <2>3, <3>2, <4>1 DEF GridTold, n0
      <3> QED BY <2>4, <3>1, <3>2
    <2>6. \A j \in DOMAIN a : (a[j].at - s) \div Sec <= n0
      BY <2>2 DEF GridTold, n0
    <2>7. ArrivedIn(a, s, n0 + 1) = {}
      <3>1. ~(n0 + 1 <= n0)
        BY <2>4
      <3> QED BY <2>6, <3>1 DEF ArrivedIn
    <2>8. Cardinality({}) = 0
      BY FS_EmptySet
    <2>9. \A j \in DOMAIN a : (a[j].at - s) \div Sec <= n0 + 1
      <3> TAKE j \in DOMAIN a
      <3>0. a[j] \in Arrival
        OBVIOUS
      <3>1. a[j].at \in Nat
        BY <3>0 DEF Arrival
      <3>2. (a[j].at - s) \div Sec \in Int
        BY <3>1
      <3> QED BY <2>4, <2>6, <3>2
    <2>10. GridTold(u, a, s)
      BY <2>3, <2>5, <2>7, <2>8, <2>9 DEF GridTold
    <2>11. Len(u.samples) = Len(g.samples) + (i + 1)
      <3> DEFINE x == Len(u.samples)
                 y == Len(g.samples)
      <3>1. x = n0 + 1 /\ n0 = y + i /\ y \in Nat /\ i \in Nat
        BY <1>0, <2>2, <2>3
      <3> HIDE DEF x, y, n0
      <3>2. x = y + (i + 1)
        BY <3>1
      <3> QED BY <3>2 DEF x, y
    <2>12. Good(i + 1)
      BY <2>3, <2>10, <2>11 DEF Good, u
    <2> QED BY <2>12 DEF G
  <1> HIDE DEF G
  <1>3. Nat \subseteq G
    BY <1>1, <1>2, Everywhere
  <1> QED BY <1>3 DEF G

LEMMA CountUp ==
  ASSUME NEW g \in Grid
  PROVE  LET u == [g EXCEPT !.count = @ + 1] IN
         u \in Grid /\ u.samples = g.samples /\ u.count = g.count + 1
  BY DEF Grid

GridTakes(u, g, b, a, s, e) ==
    /\ b = Append(a, e) /\ s <= e.at /\ \A i \in DOMAIN a : s <= a[i].at /\ a[i].at <= e.at
    /\ GridTold(g, a, s) /\ (Len(g.samples) > 0 => ArrivedIn(a, s, Len(g.samples)) # {})
    /\ u = Sink!RecordThroughput(g, e.at - s)

LEMMA GridKept ==
  ASSUME Sec \in Nat \ {0}, NEW g \in Grid, NEW a \in Seq(Arrival), NEW s \in Nat,
         NEW e \in Arrival, NEW b, NEW u, GridTakes(u, g, b, a, s, e)
  PROVE  /\ u \in Grid /\ GridTold(u, b, s)
         /\ ArrivedIn(b, s, Len(u.samples)) # {}
  <1> DEFINE second(x) == (x.at - s) \div Sec
             now2 == (e.at - s) \div Sec
             behind == now2 - Len(g.samples)
  <1>a. /\ b = Append(a, e) /\ s <= e.at /\ \A i \in DOMAIN a : s <= a[i].at /\ a[i].at <= e.at
        /\ GridTold(g, a, s) /\ (Len(g.samples) > 0 => ArrivedIn(a, s, Len(g.samples)) # {})
        /\ u = Sink!RecordThroughput(g, e.at - s)
    BY DEF GridTakes
  <1>0. e.at \in Nat /\ e.at - s \in Nat /\ Len(g.samples) \in Nat
    BY <1>a DEF Arrival, Grid
  <1>1. now2 \in Nat
    <2> DEFINE x == e.at - s
    <2>1. x \in Nat /\ x <= x
      BY <1>0
    <2> HIDE DEF x
    <2>2. x \div Sec \in Nat
      BY <2>1, DivUp
    <2> QED BY <2>2 DEF x
  <1>2. ASSUME NEW i \in DOMAIN a PROVE second(a[i]) \in Nat /\ second(a[i]) <= now2
    <2>1. a[i] \in Arrival
      OBVIOUS
    <2>2. a[i].at \in Nat /\ s <= a[i].at /\ a[i].at <= e.at
      BY <1>a, <2>1 DEF Arrival
    <2>3. a[i].at - s \in Nat /\ a[i].at - s <= e.at - s
      BY <1>0, <2>2
    <2>4. (a[i].at - s) \div Sec \in Nat /\ (a[i].at - s) \div Sec <= (e.at - s) \div Sec
      BY <1>0, <2>3, DivUp
    <2> QED BY <2>4
  <1>3. behind \in Nat
    <2>1. Len(g.samples) <= now2
      <3>1. CASE Len(g.samples) = 0
        BY <1>1, <3>1
      <3>2. CASE Len(g.samples) > 0
        <4>1. PICK i \in DOMAIN a : second(a[i]) = Len(g.samples)
          BY <1>a, <3>2 DEF ArrivedIn
        <4>2. second(a[i]) <= now2
          BY <1>2
        <4> HIDE DEF second, now2
        <4> QED BY <4>1, <4>2
      <3> QED BY <1>0, <3>1, <3>2
    <2> HIDE DEF now2
    <2> QED BY <1>0, <1>1, <2>1
  <1>4. PICK f \in [Nat -> Grid] :
           Closes(f, g) /\ u = [f[behind] EXCEPT !.count = @ + 1]
    BY <1>a, RecordThroughputIs
  <1>5. GridTold(f[behind], a, s) /\ Len(f[behind].samples) = now2
    <2>1. GridTold(f[behind], a, s) /\ Len(f[behind].samples) = Len(g.samples) + behind
      <3>1. s \in Int
        OBVIOUS
      <3> HIDE DEF behind
      <3> QED BY <1>a, <1>3, <1>4, <3>1, GridCloses
    <2> HIDE DEF now2
    <2> QED BY <1>0, <1>1, <2>1
  <1> DEFINE v == f[behind]
  <1>6. v \in Grid
    BY <1>3, <1>4
  <1>7. u = [v EXCEPT !.count = @ + 1]
    BY <1>4
  <1>8. GridTold(v, a, s) /\ Len(v.samples) = now2
    BY <1>5
  <1> HIDE DEF v, behind
  <1>9. u \in Grid /\ u.samples = v.samples /\ u.count = v.count + 1
    BY <1>6, <1>7, CountUp
  <1>10. \A k : Cardinality(ArrivedIn(b, s, k))
                  = Cardinality(ArrivedIn(a, s, k)) + (IF now2 = k THEN 1 ELSE 0)
              /\ Cardinality(ArrivedIn(a, s, k)) \in Nat
    <2>1. b = Append(a, e)
      BY <1>a
    <2> HIDE DEF second
    <2>2. \A k : /\ Cardinality(ArrivedIn(a, s, k)) \in Nat
                /\ Cardinality(ArrivedIn(b, s, k))
                     = Cardinality(ArrivedIn(a, s, k)) + (IF now2 = k THEN 1 ELSE 0)
      <3>1. AllGrow(a, e, b)
        BY <2>1, SetsGrow
      <3> HIDE DEF now2
      <3>2. \A t, k : OneMoreIn(ArrivedIn(a, t, k), ArrivedIn(b, t, k), (e.at - t) \div Sec = k)
        BY <3>1, Zenon DEF AllGrow
      <3> QED BY <3>2 DEF now2, OneMoreIn
    <2> QED BY <2>2
  <1>11. \A i \in DOMAIN b : second(b[i]) \in Nat /\ second(b[i]) <= now2
    <2> DEFINE n == Len(a)
    <2>1. /\ n \in Nat /\ DOMAIN a = 1 .. n /\ DOMAIN b = 1 .. n + 1
          /\ \A i \in 1 .. n : b[i] = a[i]
          /\ b[n + 1] = e
          /\ \A i \in 1 .. n + 1 : i \in 1 .. n \/ i = n + 1
      BY <1>a, OneMore
    <2> HIDE DEF n, second, now2
    <2>2. second(e) = now2
      BY DEF second, now2
    <2> QED BY <1>1, <1>2, <2>1, <2>2
  <1>12. ArrivedIn(b, s, now2) # {}
    <2> DEFINE n == Len(a)
    <2>1. n + 1 \in DOMAIN b /\ b[n + 1] = e
      BY <1>a, OneMore
    <2> QED BY <2>1 DEF ArrivedIn
  <1> HIDE DEF now2
  <1>13. /\ \A i \in DOMAIN b : second(b[i]) <= Len(u.samples)
         /\ u.count = Cardinality(ArrivedIn(b, s, Len(u.samples)))
    <2>1. v.count = Cardinality(ArrivedIn(a, s, now2))
      BY <1>8 DEF GridTold
    <2> HIDE DEF second
    <2> QED BY <1>8, <1>9, <1>10, <1>11, <2>1
  <1>14. ASSUME NEW k \in 1 .. Len(u.samples)
         PROVE  u.samples[k] = Cardinality(ArrivedIn(b, s, k - 1))
    <2>1. u.samples[k] = Cardinality(ArrivedIn(a, s, k - 1)) /\ k - 1 # now2
      BY <1>1, <1>8, <1>9 DEF GridTold
    <2> QED BY <1>10, <2>1
  <1> QED BY <1>8, <1>9, <1>12, <1>13, <1>14 DEF GridTold

\* The sets of positions of no arrivals are empty.
LEMMA NoArrivals ==
  ASSUME NEW a, a = <<>>
  PROVE  /\ DOMAIN a = {} /\ Len(a) = 0 /\ Cardinality({}) = 0 /\ IsFiniteSet({})
         /\ \A k : InSecond(a, k) = {} /\ LatentIn(a, k) = {}
         /\ \A s, k : ArrivedIn(a, s, k) = {}
         /\ FromBurst(a) = {} /\ WithStamps(a) = {} /\ Turns(a) = {}
         /\ \A zone : FromBurstIn(a, zone) = {} /\ FromBurstAt(a, zone) = {}
  <1>1. DOMAIN a = {} /\ Len(a) = 0
    OBVIOUS
  <1>2. 2 .. Len(a) = {}
    BY <1>1
  <1> QED BY <1>1, <1>2, FS_EmptySet DEF InSecond, LatentIn, ArrivedIn, FromBurst, WithStamps,
        Turns, FromBurstIn, FromBurstAt

LEMMA GridStep ==
  ASSUME SinkAssumptions, SinkInv, artifacts = <<>>, NEW e, Taken(e)
  PROVE  /\ grid' \in Grid /\ GridTold(grid', measured', start')
         /\ ArrivedIn(measured', start', Len(grid'.samples)) # {}
  <1>1. /\ start' \in Nat /\ start' <= now /\ now \in Nat
        /\ measured # <<>> => start' = start
        /\ measured = <<>> => start' = now /\ start = None
        /\ \A i \in DOMAIN measured : measured[i].at <= now
    BY OrderKept
  <1>2. /\ e \in Arrival /\ e.at = now /\ measured' = Append(measured, e)
        /\ grid' = Sink!RecordThroughput(grid, now - start')
    BY DEF Taken
  <1>3. /\ grid \in Grid /\ measured \in Seq(Arrival) /\ GridTold(grid, measured, start)
        /\ Len(grid.samples) > 0 => ArrivedIn(measured, start, Len(grid.samples)) # {}
        /\ Sec \in Nat \ {0}
    BY SinkFacts DEF SinkInv, SinkTypes, Grid
  <1>4. \A i \in DOMAIN measured : start' <= measured[i].at
    <2>1. CASE measured = <<>>
      BY <2>1
    <2>2. CASE measured # <<>>
      BY <1>1, <2>2 DEF SinkInv, InOrder
    <2> QED BY <2>1, <2>2
  <1>5. /\ GridTold(grid, measured, start')
        /\ Len(grid.samples) > 0 => ArrivedIn(measured, start', Len(grid.samples)) # {}
    <2>1. CASE measured = <<>>
      BY <1>3, <2>1, NoArrivals DEF GridTold
    <2>2. CASE measured # <<>>
      BY <1>1, <1>3, <2>2
    <2> QED BY <2>1, <2>2
  <1> DEFINE b == measured'
             s == start'
             u == grid'
  <1>6. /\ s \in Nat /\ s <= e.at /\ b = Append(measured, e)
        /\ \A i \in DOMAIN measured : s <= measured[i].at /\ measured[i].at <= e.at
        /\ GridTold(grid, measured, s)
        /\ Len(grid.samples) > 0 => ArrivedIn(measured, s, Len(grid.samples)) # {}
        /\ u = Sink!RecordThroughput(grid, e.at - s)
    BY <1>1, <1>2, <1>4, <1>5
  <1> HIDE DEF b, s, u
  <1>8. GridTakes(u, grid, b, measured, s, e)
    BY <1>6 DEF GridTakes
  <1>7. u \in Grid /\ GridTold(u, b, s) /\ ArrivedIn(b, s, Len(u.samples)) # {}
    BY <1>2, <1>3, <1>6, <1>8, GridKept
  <1> QED BY <1>7 DEF b, s, u

\* ThroughputGrid::finish leaves no arrival without a row.
LEMMA GridEnds ==
  ASSUME SinkAssumptions, NEW g \in Grid, NEW a \in Seq(Arrival), NEW s \in Int, GridTold(g, a, s),
         NEW u, u = Sink!FinishGrid(g)
  PROVE  /\ u \in Grid
         /\ \A k \in 1 .. Len(u.samples) : u.samples[k] = Cardinality(ArrivedIn(a, s, k - 1))
         /\ \A i \in DOMAIN a : (a[i].at - s) \div Sec < Len(u.samples)
  <1> DEFINE n == Len(g.samples)
  <1>0. n \in Nat /\ g.count \in Nat /\ Sec \in Nat \ {0}
    BY SinkFacts DEF Grid
  <1>1. ASSUME NEW i \in DOMAIN a PROVE (a[i].at - s) \div Sec \in Int /\ (a[i].at - s) \div Sec <= n
    <2>1. a[i] \in Arrival
      OBVIOUS
    <2>2. a[i].at \in Nat
      BY <2>1 DEF Arrival
    <2> QED BY <1>0, <2>2 DEF GridTold
  <1>2. /\ \A k \in 1 .. n : g.samples[k] = Cardinality(ArrivedIn(a, s, k - 1))
        /\ g.count = Cardinality(ArrivedIn(a, s, n))
    BY DEF GridTold
  <1> HIDE DEF n
  <1>3. CASE g.count > 0
    <2>1. u = Sink!CloseBucket(g)
      BY <1>3 DEF Sink!FinishGrid
    <2>2. /\ u \in Grid /\ Len(u.samples) = n + 1
          /\ \A k \in 1 .. n : u.samples[k] = g.samples[k]
          /\ u.samples[n + 1] = g.count
      BY <2>1, CloseBucketIs DEF n
    <2>3. ASSUME NEW k \in 1 .. n + 1 PROVE u.samples[k] = Cardinality(ArrivedIn(a, s, k - 1))
      <3>1. CASE k \in 1 .. n
        BY <1>2, <2>2, <3>1
      <3>2. CASE k = n + 1
        <4>1. k - 1 = n
          BY <1>0, <3>2
        <4> QED BY <1>2, <2>2, <3>2, <4>1
      <3> QED BY <1>0, <3>1, <3>2
    <2> QED BY <1>0, <1>1, <2>2, <2>3
  <1>4. CASE ~(g.count > 0)
    <2>1. u = g
      BY <1>4 DEF Sink!FinishGrid
    <2>2. ArrivedIn(a, s, n) = {}
      <3>1. IsFiniteSet(DOMAIN a)
        BY FS_Interval
      <3>2. IsFiniteSet(ArrivedIn(a, s, n))
        BY <3>1, FS_Subset DEF ArrivedIn
      <3>3. Cardinality(ArrivedIn(a, s, n)) = 0
        BY <1>0, <1>2, <1>4
      <3> QED BY <3>2, <3>3, FS_EmptySet
    <2>3. \A i \in DOMAIN a : (a[i].at - s) \div Sec # n
      BY <2>2 DEF ArrivedIn
    <2> QED BY <1>0, <1>1, <1>2, <2>1, <2>3 DEF n
  <1> QED BY <1>3, <1>4

-----------------------------------------------------------------------------
\* The loop of IntervalRecorder, and what it closes.
LEMMA MinIs ==
  ASSUME NEW x \in Int, NEW y \in Int
  PROVE  Sink!Min({x, y}) = IF x <= y THEN x ELSE y
  <1> DEFINE P(v) == v \in {x, y} /\ \A w \in {x, y} : v <= w
             m == CHOOSE v \in {x, y} : \A w \in {x, y} : v <= w
  <1>1. \E v \in {x, y} : \A w \in {x, y} : v <= w
    OBVIOUS
  <1>2. m \in {x, y} /\ \A w \in {x, y} : m <= w
    BY <1>1, Zenon
  <1>3. Sink!Min({x, y}) = m
    BY DEF Sink!Min
  <1> HIDE DEF m
  <1> QED BY <1>2, <1>3

Finished(u, iv, width) ==
    /\ u \in Intervals /\ Len(u.rows) = Len(iv.rows) + 1
    /\ \A k \in 1 .. Len(iv.rows) : u.rows[k] = iv.rows[k]
    /\ u.rows[Len(iv.rows) + 1] = [start |-> iv.current * Sec,
                                   end |-> iv.current * Sec + width, counts |-> iv.open]
    /\ u.open = Sink!EmptyInterval /\ u.current = iv.current + 1
    /\ u.overflowed = iv.overflowed /\ u.finalized = iv.finalized
    /\ u.maximum = iv.maximum /\ u.origin = iv.origin

LEMMA FinishIs ==
  ASSUME Sec \in Nat \ {0}, NEW iv \in Intervals, NEW width \in Nat
  PROVE  Finished(Sink!FinishCurrent(iv, width), iv, width)
  <1> DEFINE row == [start |-> iv.current * Sec, end |-> iv.current * Sec + width,
                     counts |-> iv.open]
             u == [iv EXCEPT !.rows = Append(iv.rows, row), !.open = Sink!EmptyInterval,
                             !.current = iv.current + 1]
  <1>1. Sink!FinishCurrent(iv, width) = u
    BY DEF Sink!FinishCurrent
  <1>2. iv.current \in Nat /\ iv.rows \in Seq(Row) /\ iv.open \in Tally
    BY DEF Intervals
  <1>3. row \in Row
    <2>1. iv.current * Sec \in Nat
      BY <1>2
    <2> QED BY <1>2, <2>1 DEF Row
  <1>4. Sink!EmptyInterval \in Tally
    BY DEF Sink!EmptyInterval, Tally
  <1> HIDE DEF row
  <1>5. /\ Append(iv.rows, row) \in Seq(Row) /\ Len(Append(iv.rows, row)) = Len(iv.rows) + 1
        /\ \A k \in 1 .. Len(iv.rows) : Append(iv.rows, row)[k] = iv.rows[k]
        /\ Append(iv.rows, row)[Len(iv.rows) + 1] = row
    BY <1>2, <1>3
  <1> DEFINE rows == Append(iv.rows, row)
             none == Sink!EmptyInterval
  <1>6. rows \in Seq(Row) /\ none \in Tally /\ iv.current + 1 \in Nat
    BY <1>2, <1>4, <1>5
  <1>7. u = [iv EXCEPT !.rows = rows, !.open = none, !.current = iv.current + 1]
    OBVIOUS
  <1> HIDE DEF rows, none, u
  <1>8. /\ u \in Intervals /\ u.rows = rows /\ u.open = none /\ u.current = iv.current + 1
        /\ u.overflowed = iv.overflowed /\ u.finalized = iv.finalized
        /\ u.maximum = iv.maximum /\ u.origin = iv.origin
    BY <1>6, <1>7 DEF Intervals
  <1> QED BY <1>1, <1>5, <1>8 DEF rows, none, row, Finished

Finishes(f, iv) == f[0] = iv /\ \A k \in Nat \ {0} : f[k] = Sink!FinishCurrent(f[k - 1], Sec)

Advancing(iv, bucket) ==
    LET some == bucket - iv.current
        room == iv.maximum - Len(iv.rows)
    IN IF some <= 0 \/ room <= 0 THEN 0 ELSE IF some <= room THEN some ELSE room

LEMMA AdvanceToIs ==
  ASSUME Sec \in Nat \ {0}, MeasurementSecs \in Nat, NEW iv \in Intervals, NEW bucket \in Int
  PROVE  \E f \in [Nat -> Intervals] :
            Finishes(f, iv) /\ Sink!AdvanceTo(iv, bucket) = f[Advancing(iv, bucket)]
  <1> DEFINE P(f) == f = [k \in Nat |-> IF k = 0 THEN iv ELSE Sink!FinishCurrent(f[k - 1], Sec)]
             h == CHOOSE f : P(f)
             step == [v \in Intervals |-> Sink!FinishCurrent(v, Sec)]
             least == Sink!Min({bucket - iv.current, iv.maximum - Len(iv.rows)})
  <1>1. Sink!AdvanceTo(iv, bucket) = IF least > 0 THEN h[least] ELSE iv
    BY DEF Sink!AdvanceTo
  <1>2. step \in [Intervals -> Intervals]
    <2>1. \A v \in Intervals : Sink!FinishCurrent(v, Sec) \in Intervals
      BY FinishIs DEF Finished
    <2> QED BY <2>1
  <1>3. PICK f \in [Nat -> Intervals] : f[0] = iv /\ \A k \in Nat \ {0} : f[k] = step[f[k - 1]]
    <2> HIDE DEF step
    <2> QED BY <1>2, LoopIsThere
  <1>4. P(f)
    <2>1. ASSUME NEW k \in Nat, k # 0 PROVE f[k] = Sink!FinishCurrent(f[k - 1], Sec)
      <3>1. k - 1 \in Nat
        BY <2>1
      <3>2. f[k - 1] \in Intervals
        BY <1>3, <3>1
      <3> QED BY <1>3, <2>1, <3>2
    <2>2. f = [k \in Nat |-> f[k]]
      BY <1>3
    <2>3. \A k \in Nat : f[k] = IF k = 0 THEN iv ELSE Sink!FinishCurrent(f[k - 1], Sec)
      BY <1>3, <2>1
    <2> QED BY <2>2, <2>3
  <1>5. P(h)
    <2> HIDE DEF P
    <2> QED BY <1>4
  <1> HIDE DEF h, step
  <1>6. /\ h = [k \in Nat |-> h[k]] /\ h[0] = iv
        /\ \A k \in Nat \ {0} : h[k] = Sink!FinishCurrent(h[k - 1], Sec)
    BY <1>5
  <1> HIDE DEF P
  <1> DEFINE G == {k \in Nat : h[k] \in Intervals}
  <1>7. 0 \in G
    BY <1>6
  <1>8. ASSUME NEW i \in Nat, i \in G PROVE i + 1 \in G
    <2>1. h[i] \in Intervals /\ i + 1 \in Nat \ {0} /\ (i + 1) - 1 = i
      BY <1>8
    <2>2. h[i + 1] = Sink!FinishCurrent(h[i], Sec)
      BY <1>6, <2>1
    <2> QED BY <2>1, <2>2, FinishIs DEF Finished
  <1> HIDE DEF G
  <1>9. Nat \subseteq G
    BY <1>7, <1>8, Everywhere
  <1>10. h \in [Nat -> Intervals] /\ Finishes(h, iv)
    <2>1. \A k \in Nat : h[k] \in Intervals
      BY <1>9 DEF G
    <2> QED BY <1>6, <2>1 DEF Finishes
  <1>11. Sink!AdvanceTo(iv, bucket) = h[Advancing(iv, bucket)]
    <2> DEFINE x == bucket - iv.current
               y == iv.maximum - Len(iv.rows)
    <2>1. x \in Int /\ y \in Int
      <3>1. iv.maximum = MeasurementSecs + 2 /\ iv.current \in Nat /\ iv.rows \in Seq(Row)
        BY DEF Intervals
      <3>2. Len(iv.rows) \in Nat
        BY <3>1
      <3> QED BY <3>1, <3>2
    <2>2. least = IF x <= y THEN x ELSE y
      <3> HIDE DEF x, y
      <3>1. Sink!Min({x, y}) = IF x <= y THEN x ELSE y
        BY <2>1, MinIs
      <3> QED BY <3>1 DEF x, y
    <2>3. Advancing(iv, bucket) = IF x <= 0 \/ y <= 0 THEN 0 ELSE IF x <= y THEN x ELSE y
      BY DEF Advancing
    <2> HIDE DEF x, y, least
    <2>4. CASE least > 0
      BY <1>1, <2>1, <2>2, <2>3, <2>4
    <2>5. CASE ~(least > 0)
      BY <1>1, <1>6, <2>1, <2>2, <2>3, <2>5
    <2> QED BY <2>4, <2>5
  <1> QED BY <1>10, <1>11

\* A row closed early is the row of a silent second.
LEMMA FinishTold ==
  ASSUME Sec \in Nat \ {0}, NEW iv \in Intervals, NEW a \in Seq(Arrival), IntervalsTold(iv, a),
         NEW u, u = Sink!FinishCurrent(iv, Sec)
  PROVE  IntervalsTold(u, a)
  <1> DEFINE n == Len(iv.rows)
  <1>1. /\ n \in Nat /\ iv.current = n /\ iv.open \in Tally
        /\ \A k \in 1 .. n : iv.rows[k].end = k * Sec
    BY DEF IntervalsTold, Intervals
  <1>2. /\ Len(u.rows) = n + 1 /\ u.current = n + 1
        /\ \A k \in 1 .. n : u.rows[k] = iv.rows[k]
        /\ u.rows[n + 1] = [start |-> n * Sec, end |-> n * Sec + Sec, counts |-> iv.open]
        /\ u.open = Sink!EmptyInterval
        /\ u.overflowed = iv.overflowed /\ u.maximum = iv.maximum
    <2>1. Finished(u, iv, Sec)
      BY FinishIs
    <2> QED BY <1>1, <2>1 DEF Finished
  <1> HIDE DEF n
  <1>3. \A k \in 1 .. n + 1 : k \in 1 .. n \/ k = n + 1
    BY <1>1
  <1>4. \A k \in 1 .. n + 1 : u.rows[k].end = k * Sec
    <2>1. u.rows[n + 1].end = (n + 1) * Sec
      BY <1>1, <1>2
    <2> QED BY <1>1, <1>2, <1>3, <2>1
  <1>5. CASE ~iv.overflowed
    <2>1. /\ \A k \in 1 .. n : RowTold(iv.rows[k], a, k)
          /\ TallyOf(iv.open, a, n)
          /\ \A i \in DOMAIN a : Second(a[i]) <= n
      BY <1>1, <1>5 DEF IntervalsTold, RowsTold, n
    <2>2. RowTold(u.rows[n + 1], a, n + 1)
      <3>1. (n + 1) - 1 = n
        BY <1>1
      <3>2. u.rows[n + 1].start = n * Sec /\ u.rows[n + 1].counts = iv.open
        BY <1>2
      <3> QED BY <2>1, <3>1, <3>2 DEF RowTold
    <2>3. \A k \in 1 .. n + 1 : RowTold(u.rows[k], a, k)
      BY <1>2, <1>3, <2>1, <2>2
    <2>4. \A i \in DOMAIN a : Second(a[i]) <= n + 1 /\ Second(a[i]) # n + 1
      <3> TAKE i \in DOMAIN a
      <3>0. a[i] \in Arrival
        OBVIOUS
      <3>1. a[i].elapsed \in Nat
        BY <3>0 DEF Arrival
      <3>2. Second(a[i]) \in Int
        BY <3>1 DEF Second
      <3> QED BY <1>1, <2>1, <3>2
    <2>5. InSecond(a, n + 1) = {} /\ LatentIn(a, n + 1) = {}
      BY <2>4 DEF InSecond, LatentIn
    <2>6. TallyOf(u.open, a, n + 1)
      <3>1. Cardinality({}) = 0
        BY FS_EmptySet
      <3>2. /\ u.open.events = 0 /\ u.open.latencies = 0
            /\ u.open.unique = 0 /\ u.open.duplicates = 0
        BY <1>2 DEF Sink!EmptyInterval
      <3>3. Cardinality(InSecond(a, n + 1)) = 0 /\ Cardinality(LatentIn(a, n + 1)) = 0
        BY <2>5, <3>1
      <3>4. /\ u.open.events = Cardinality(InSecond(a, n + 1))
            /\ u.open.latencies = Cardinality(LatentIn(a, n + 1))
        BY <3>2, <3>3
      <3>5. u.open.unique + u.open.duplicates = u.open.events
        BY <3>2
      <3> QED BY <3>4, <3>5 DEF TallyOf
    <2> QED BY <1>2, <1>4, <1>5, <2>3, <2>4, <2>6 DEF IntervalsTold, RowsTold
  <1>6. CASE iv.overflowed
    <2>1. Disorder(u, a)
      BY <1>2, <1>6 DEF IntervalsTold, Disorder
    <2> QED BY <1>2, <1>4, <1>6, <2>1 DEF IntervalsTold
  <1> QED BY <1>5, <1>6

\* What the loop leaves.
Advanced(u, iv, a, bucket) ==
    /\ u \in Intervals /\ IntervalsTold(u, a)
    /\ u.current = iv.current + Advancing(iv, bucket)
    /\ u.overflowed = iv.overflowed /\ u.finalized = iv.finalized
    /\ u.maximum = iv.maximum /\ u.origin = iv.origin

LEMMA AdvanceTold ==
  ASSUME Sec \in Nat \ {0}, MeasurementSecs \in Nat, NEW iv \in Intervals,
         NEW a \in Seq(Arrival), IntervalsTold(iv, a), NEW bucket \in Int
  PROVE  Advanced(Sink!AdvanceTo(iv, bucket), iv, a, bucket)
  <1>1. PICK f \in [Nat -> Intervals] :
           Finishes(f, iv) /\ Sink!AdvanceTo(iv, bucket) = f[Advancing(iv, bucket)]
    BY AdvanceToIs
  <1> DEFINE Good(i) == /\ IntervalsTold(f[i], a) /\ f[i].current = iv.current + i
                        /\ f[i].overflowed = iv.overflowed /\ f[i].finalized = iv.finalized
                        /\ f[i].maximum = iv.maximum /\ f[i].origin = iv.origin
             G == {i \in Nat : Good(i)}
  <1>2. iv.current \in Nat /\ iv.maximum = MeasurementSecs + 2 /\ iv.rows \in Seq(Row)
    BY DEF Intervals
  <1>3. 0 \in G
    BY <1>1, <1>2 DEF Finishes
  <1>4. ASSUME NEW i \in Nat, i \in G PROVE i + 1 \in G
    <2> DEFINE v == f[i]
               u == f[i + 1]
    <2>1. u = Sink!FinishCurrent(v, Sec) /\ v \in Intervals /\ Good(i)
      <3>1. i + 1 \in Nat \ {0} /\ (i + 1) - 1 = i
        OBVIOUS
      <3> QED BY <1>1, <1>4, <3>1 DEF Finishes
    <2>2. IntervalsTold(v, a)
      BY <2>1
    <2> HIDE DEF v, u, G, Good
    <2>3. /\ u.current = v.current + 1
          /\ u.overflowed = v.overflowed /\ u.finalized = v.finalized
          /\ u.maximum = v.maximum /\ u.origin = v.origin
      <3>1. Sec \in Nat
        OBVIOUS
      <3>2. Finished(u, v, Sec)
        BY <2>1, <3>1, FinishIs
      <3> QED BY <3>2 DEF Finished
    <2>4. IntervalsTold(u, a)
      BY <2>1, <2>2, FinishTold
    <2>5. Good(i + 1)
      <3>1. /\ v.current = iv.current + i
            /\ v.overflowed = iv.overflowed /\ v.finalized = iv.finalized
            /\ v.maximum = iv.maximum /\ v.origin = iv.origin
        BY <2>1 DEF Good, v
      <3>2. u.current = iv.current + (i + 1)
        <4>1. u.current = (iv.current + i) + 1
          BY <2>3, <3>1
        <4>2. iv.current \in Int /\ i \in Int
          BY <1>2, <1>4
        <4>3. \A x, y \in Int : (x + y) + 1 = x + (y + 1)
          OBVIOUS
        <4> QED BY <4>1, <4>2, <4>3
      <3> QED BY <2>3, <2>4, <3>1, <3>2 DEF Good, u
    <2> QED BY <2>5 DEF G
  <1> HIDE DEF G
  <1>5. Nat \subseteq G
    BY <1>3, <1>4, Everywhere
  <1>6. Advancing(iv, bucket) \in Nat
    <2>1. Len(iv.rows) \in Nat
      BY <1>2
    <2> DEFINE x == bucket - iv.current
               y == iv.maximum - Len(iv.rows)
    <2>2. x \in Int /\ y \in Int
      BY <1>2, <2>1
    <2>3. Advancing(iv, bucket) = IF x <= 0 \/ y <= 0 THEN 0 ELSE IF x <= y THEN x ELSE y
      BY DEF Advancing
    <2> HIDE DEF x, y
    <2> QED BY <2>2, <2>3
  <1>7. Good(Advancing(iv, bucket))
    BY <1>5, <1>6 DEF G
  <1> QED BY <1>1, <1>6, <1>7 DEF Advanced

\* How far the loop gets.
LEMMA StepsReach ==
  ASSUME MeasurementSecs \in Nat, NEW iv \in Intervals, iv.current = Len(iv.rows),
         Len(iv.rows) <= iv.maximum, NEW bucket \in Int
  PROVE  LET c == iv.current + Advancing(iv, bucket) IN
         /\ c \in Nat /\ iv.current <= c /\ c <= iv.maximum
         /\ c # bucket => bucket < iv.current \/ bucket > iv.maximum
         /\ c > iv.current => c <= bucket
  <1> DEFINE x == iv.current
             y == iv.maximum
  <1>1. x \in Nat /\ y \in Nat /\ x <= y
    BY DEF Intervals
  <1>2. Advancing(iv, bucket) = IF bucket - x <= 0 \/ y - x <= 0 THEN 0
                            ELSE IF bucket - x <= y - x THEN bucket - x ELSE y - x
    BY DEF Advancing
  <1> HIDE DEF x, y
  <1>3. LET c == x + Advancing(iv, bucket) IN
         /\ c \in Nat /\ x <= c /\ c <= y
         /\ c # bucket => bucket < x \/ bucket > y
         /\ c > x => c <= bucket
    BY <1>1, <1>2
  <1> QED BY <1>3 DEF x, y

LEMMA CountEventIs ==
  ASSUME NEW c \in Tally, NEW stamped \in BOOLEAN, NEW duplicate \in BOOLEAN
  PROVE  LET u == Sink!CountEvent(c, stamped, duplicate) IN
         /\ u \in Tally /\ u.events = c.events + 1
         /\ u.latencies = c.latencies + (IF stamped THEN 1 ELSE 0)
         /\ c.unique + c.duplicates = c.events => u.unique + u.duplicates = u.events
  BY DEF Tally, Sink!CountEvent

\* One arrival in the open second.
LEMMA IntervalCounts ==
  ASSUME Sec \in Nat \ {0}, NEW v \in Intervals, NEW a \in Seq(Arrival), IntervalsTold(v, a),
         NEW e \in Arrival, NEW b, b = Append(a, e), ~v.overflowed, Second(e) = v.current,
         NEW duplicate \in BOOLEAN,
         NEW u, u = [v EXCEPT !.open = Sink!CountEvent(@, e.stamped, duplicate)]
  PROVE  u \in Intervals /\ IntervalsTold(u, b)
  <1> DEFINE n == v.current
             c == Sink!CountEvent(v.open, e.stamped, duplicate)
  <1>1. /\ n = Len(v.rows) /\ n \in Nat /\ v.open \in Tally
        /\ \A k \in 1 .. n : v.rows[k].end = k * Sec
        /\ \A k \in 1 .. n : RowTold(v.rows[k], a, k)
        /\ TallyOf(v.open, a, n)
        /\ \A i \in DOMAIN a : Second(a[i]) <= n
    BY DEF IntervalsTold, RowsTold, Intervals
  <1>2. e.stamped \in BOOLEAN
    BY DEF Arrival
  <1>3. /\ c \in Tally /\ c.events = v.open.events + 1
        /\ c.latencies = v.open.latencies + (IF e.stamped THEN 1 ELSE 0)
        /\ v.open.unique + v.open.duplicates = v.open.events => c.unique + c.duplicates = c.events
    <2> DEFINE o == v.open
    <2>1. o \in Tally
      BY <1>1
    <2> HIDE DEF o
    <2>2. LET w == Sink!CountEvent(o, e.stamped, duplicate) IN
          /\ w \in Tally /\ w.events = o.events + 1
          /\ w.latencies = o.latencies + (IF e.stamped THEN 1 ELSE 0)
          /\ o.unique + o.duplicates = o.events => w.unique + w.duplicates = w.events
      BY <1>2, <2>1, CountEventIs
    <2> QED BY <2>2 DEF o
  <1>4. u = [v EXCEPT !.open = c]
    OBVIOUS
  <1> HIDE DEF c
  <1>5. /\ u \in Intervals /\ u.open = c /\ u.rows = v.rows /\ u.current = n
        /\ u.overflowed = v.overflowed /\ u.maximum = v.maximum
    BY <1>3, <1>4 DEF Intervals
  <1> HIDE DEF n
  <1>6. AllGrow(a, e, b)
    BY SetsGrow
  <1>7. \A k : /\ OneMoreIn(InSecond(a, k), InSecond(b, k), n = k)
               /\ OneMoreIn(LatentIn(a, k), LatentIn(b, k), n = k /\ e.stamped)
    <2>1. \A k : /\ OneMoreIn(InSecond(a, k), InSecond(b, k), Second(e) = k)
                 /\ OneMoreIn(LatentIn(a, k), LatentIn(b, k), Second(e) = k /\ e.stamped)
      BY <1>6, Zenon DEF AllGrow
    <2> QED BY <2>1 DEF n
  <1>8. TallyOf(c, b, n)
    <2>1. /\ v.open.events = Cardinality(InSecond(a, n))
          /\ v.open.latencies = Cardinality(LatentIn(a, n))
          /\ v.open.unique + v.open.duplicates = v.open.events
      BY <1>1 DEF TallyOf
    <2>2. /\ OneMoreIn(InSecond(a, n), InSecond(b, n), TRUE)
          /\ OneMoreIn(LatentIn(a, n), LatentIn(b, n), e.stamped)
      <3>1. (n = n) = TRUE /\ (n = n /\ e.stamped) = e.stamped
        BY <1>2
      <3> QED BY <1>2, <1>7, <3>1 DEF OneMoreIn
    <2> QED BY <1>3, <2>1, <2>2 DEF TallyOf, OneMoreIn
  <1>9. ASSUME NEW k \in 1 .. n PROVE RowTold(v.rows[k], b, k)
    <2>1. RowTold(v.rows[k], a, k) /\ k - 1 # n
      BY <1>1
    <2>2. /\ OneMoreIn(InSecond(a, k - 1), InSecond(b, k - 1), n = k - 1)
          /\ OneMoreIn(LatentIn(a, k - 1), LatentIn(b, k - 1), n = k - 1 /\ e.stamped)
      BY <1>7
    <2>3. /\ Cardinality(InSecond(b, k - 1)) = Cardinality(InSecond(a, k - 1))
          /\ Cardinality(LatentIn(b, k - 1)) = Cardinality(LatentIn(a, k - 1))
      BY <2>1, <2>2 DEF OneMoreIn
    <2> HIDE DEF n
    <2> QED BY <2>1, <2>3 DEF RowTold, TallyOf
  <1>10. \A i \in DOMAIN b : Second(b[i]) <= n
    <2>1. \A i \in DOMAIN b : (i \in DOMAIN a /\ b[i] = a[i]) \/ b[i] = e
      BY OneMore
    <2>2. Second(e) <= n
      BY <1>1 DEF n
    <2> QED BY <1>1, <2>1, <2>2
  <1>11. u.current = Len(u.rows) /\ (\A k \in 1 .. Len(u.rows) : u.rows[k].end = k * Sec)
    BY <1>1, <1>5
  <1>12. RowsTold(u, b)
    BY <1>1, <1>5, <1>9 DEF RowsTold
  <1> QED BY <1>5, <1>8, <1>10, <1>11, <1>12 DEF IntervalsTold

IntervalTakes(u, iv, b, a, e, duplicate) ==
    /\ b = Append(a, e) /\ iv \in Intervals /\ Len(iv.rows) <= iv.maximum
    /\ IntervalsOpen(iv, a)
    /\ u = Sink!RecordInterval(iv, e.elapsed, e.stamped, duplicate)

IntervalsFit(iv, a) ==
    iv \in Intervals /\ Len(iv.rows) <= iv.maximum /\ IntervalsOpen(iv, a)

LEMMA IntervalsKept ==
  ASSUME Sec \in Nat \ {0}, MeasurementSecs \in Nat, NEW a \in Seq(Arrival), NEW e \in Arrival,
         NEW iv, NEW b, NEW duplicate \in BOOLEAN, NEW u, IntervalTakes(u, iv, b, a, e, duplicate)
  PROVE  IntervalsFit(u, b) /\ u.origin = iv.origin
  <1> DEFINE bucket == e.elapsed \div Sec
             v == Sink!AdvanceTo(iv, bucket)
             after == bucket # v.current \/ Len(v.rows) = v.maximum
  <1>1. /\ b = Append(a, e) /\ iv \in Intervals /\ Len(iv.rows) <= iv.maximum
        /\ ~iv.finalized /\ IntervalsTold(iv, a)
        /\ iv.current > 0 => \E i \in DOMAIN a : Second(a[i]) >= iv.current
        /\ ~iv.overflowed => \A i \in DOMAIN a : Second(a[i]) < iv.maximum
        /\ iv.current = Len(iv.rows)
    BY DEF IntervalTakes, IntervalsOpen, IntervalsTold
  <1>2. u = IF after THEN [v EXCEPT !.overflowed = TRUE]
            ELSE [v EXCEPT !.open = Sink!CountEvent(@, e.stamped, duplicate)]
    BY DEF IntervalTakes, Sink!RecordInterval
  <1>3. bucket \in Nat /\ Second(e) = bucket
    <2>1. e.elapsed \in Nat /\ e.elapsed <= e.elapsed
      BY DEF Arrival
    <2>2. e.elapsed \div Sec \in Nat
      BY <2>1, DivUp
    <2> QED BY <2>2 DEF Second
  <1> HIDE DEF bucket
  <1>4. Advanced(v, iv, a, bucket)
    <2>1. bucket \in Int
      BY <1>3
    <2> QED BY <1>1, <2>1, AdvanceTold
  <1>5. /\ v.current \in Nat /\ iv.current <= v.current /\ v.current <= v.maximum
        /\ v.current # bucket => bucket < iv.current \/ bucket > v.maximum
        /\ v.current > iv.current => v.current <= bucket
    <2>1. bucket \in Int
      BY <1>3
    <2>2. v.current = iv.current + Advancing(iv, bucket) /\ v.maximum = iv.maximum
      BY <1>4 DEF Advanced
    <2> HIDE DEF v
    <2> QED BY <1>1, <2>1, <2>2, StepsReach
  <1>6. /\ v \in Intervals /\ IntervalsTold(v, a) /\ v.overflowed = iv.overflowed
        /\ ~v.finalized /\ v.maximum = iv.maximum /\ v.origin = iv.origin
        /\ v.current = Len(v.rows) /\ v.maximum \in Nat /\ iv.current \in Nat
    <2>1. v.maximum \in Nat
      BY <1>4 DEF Advanced, Intervals
    <2>2. iv.current \in Nat
      BY <1>1 DEF Intervals
    <2> QED BY <1>1, <1>4, <2>1, <2>2 DEF Advanced, IntervalsTold
  <1> HIDE DEF v
  <1>7. /\ \A i \in DOMAIN a : i \in DOMAIN b /\ b[i] = a[i]
        /\ \A i \in DOMAIN b : (i \in DOMAIN a /\ b[i] = a[i]) \/ b[i] = e
        /\ Len(a) + 1 \in DOMAIN b /\ b[Len(a) + 1] = e
        /\ \A i \in DOMAIN a : i \in Nat /\ i < Len(a) + 1
    BY <1>1, OneMore
  <1>8. v.current > 0 => \E i \in DOMAIN b : Second(b[i]) >= v.current
    <2>1. CASE v.current > iv.current
      BY <1>3, <1>5, <1>7, <2>1
    <2>2. CASE v.current = iv.current
      BY <1>1, <1>7, <2>2
    <2> QED BY <1>5, <1>6, <2>1, <2>2
  <1>9. Disorder(v, a) => Disorder(v, b)
    <2>1. ASSUME NEW i \in DOMAIN a, NEW j \in DOMAIN a, i < j, Second(a[j]) < Second(a[i])
          PROVE  Disorder(v, b)
      BY <1>7, <2>1 DEF Disorder
    <2>2. ASSUME NEW i \in DOMAIN a, Second(a[i]) >= v.maximum PROVE Disorder(v, b)
      BY <1>7, <2>2 DEF Disorder
    <2> QED BY <2>1, <2>2 DEF Disorder
  <1>10. CASE after
    <2>1. u = [v EXCEPT !.overflowed = TRUE]
      BY <1>2, <1>10
    <2>2. /\ u \in Intervals /\ u.overflowed = TRUE /\ u.rows = v.rows /\ u.current = v.current
          /\ u.maximum = v.maximum /\ u.origin = v.origin /\ u.finalized = v.finalized
      BY <1>6, <2>1 DEF Intervals
    <2>3. Disorder(v, b)
      <3>1. CASE bucket >= v.maximum
        BY <1>3, <1>7, <3>1 DEF Disorder
      <3>2. CASE bucket < v.maximum
        <4>1. bucket < iv.current
          BY <1>3, <1>5, <1>6, <1>10, <3>2
        <4>2. PICK i \in DOMAIN a : Second(a[i]) >= iv.current
          BY <1>1, <1>3, <1>6, <4>1
        <4>3. Second(e) < Second(a[i])
          <5>0. a[i] \in Arrival
            OBVIOUS
          <5>1. a[i].elapsed \in Nat
            BY <5>0 DEF Arrival
          <5>2. Second(a[i]) \in Int
            BY <5>1 DEF Second
          <5> QED BY <1>3, <1>6, <4>1, <4>2, <5>2
        <4> QED BY <1>7, <4>3 DEF Disorder
      <3> QED BY <1>3, <1>6, <3>1, <3>2
    <2>4. Disorder(u, b)
      BY <2>2, <2>3 DEF Disorder
    <2>5. \A k \in 1 .. Len(u.rows) : u.rows[k].end = k * Sec
      BY <1>6, <2>2 DEF IntervalsTold
    <2>6. IntervalsTold(u, b)
      BY <1>6, <2>2, <2>4, <2>5 DEF IntervalsTold
    <2> QED BY <1>5, <1>6, <1>8, <2>2, <2>6 DEF IntervalsFit, IntervalsOpen
  <1>11. CASE ~after
    <2>0. bucket = v.current /\ v.current < v.maximum
      BY <1>5, <1>6, <1>11
    <2>1. u = [v EXCEPT !.open = Sink!CountEvent(@, e.stamped, duplicate)]
      BY <1>2, <1>11
    <2> HIDE DEF after
    <2>2. /\ u \in Intervals /\ u.overflowed = v.overflowed /\ u.rows = v.rows
          /\ u.current = v.current
          /\ u.maximum = v.maximum /\ u.origin = v.origin /\ u.finalized = v.finalized
      <3> DEFINE o == v.open
                 c == Sink!CountEvent(o, e.stamped, duplicate)
      <3>1. o \in Tally /\ e.stamped \in BOOLEAN
        BY <1>6 DEF Intervals, Arrival
      <3> HIDE DEF o
      <3>2. c \in Tally
        BY <3>1, CountEventIs
      <3>3. u = [v EXCEPT !.open = c]
        BY <2>1 DEF o
      <3> HIDE DEF c
      <3> QED BY <1>6, <3>2, <3>3 DEF Intervals
    <2>3. CASE v.overflowed
      <3>1. Disorder(u, b)
        <4>1. Disorder(v, b)
          BY <1>6, <1>9, <2>3 DEF IntervalsTold
        <4> QED BY <2>2, <4>1 DEF Disorder
      <3>2. \A k \in 1 .. Len(u.rows) : u.rows[k].end = k * Sec
        BY <1>6, <2>2 DEF IntervalsTold
      <3>3. IntervalsTold(u, b)
        BY <1>6, <2>2, <2>3, <3>1, <3>2 DEF IntervalsTold
      <3> QED BY <1>5, <1>6, <1>8, <2>2, <2>3, <3>3 DEF IntervalsFit, IntervalsOpen
    <2>4. CASE ~v.overflowed
      <3>1. IntervalsTold(u, b)
        BY <1>1, <1>3, <1>6, <2>0, <2>1, <2>4, IntervalCounts
      <3>2. \A i \in DOMAIN b : Second(b[i]) < u.maximum
        BY <1>1, <1>3, <1>6, <1>7, <2>0, <2>2, <2>4
      <3> QED BY <1>5, <1>6, <1>8, <2>2, <3>1, <3>2 DEF IntervalsFit, IntervalsOpen
    <2> QED BY <2>3, <2>4
  <1> QED BY <1>10, <1>11

\* The intervals of no arrivals.
LEMMA NewIntervalsFit ==
  ASSUME MeasurementSecs \in Nat, NEW anchor \in Nat \cup {None}
  PROVE  IntervalsFit(Sink!NewIntervals(anchor), <<>>)
  <1> DEFINE iv == Sink!NewIntervals(anchor)
             none == Sink!EmptyInterval
  <1>1. iv = [maximum |-> MeasurementSecs + 2, origin |-> anchor, current |-> 0, open |-> none,
              rows |-> <<>>, overflowed |-> FALSE, finalized |-> FALSE]
    BY DEF Sink!NewIntervals
  <1>2. /\ none \in Tally /\ none.events = 0 /\ none.latencies = 0
        /\ none.unique + none.duplicates = 0
    BY DEF Sink!EmptyInterval, Tally
  <1> HIDE DEF iv, none
  <1>3. /\ iv \in Intervals /\ iv.rows = <<>> /\ iv.open = none /\ iv.current = 0
        /\ iv.overflowed = FALSE /\ iv.finalized = FALSE /\ iv.maximum \in Nat
    BY <1>1, <1>2 DEF Intervals
  <1> DEFINE a == <<>>
  <1>4. DOMAIN a = {} /\ Len(iv.rows) = 0 /\ 1 .. 0 = {}
    BY <1>3
  <1>5. TallyOf(none, a, 0)
    <2>1. a = <<>>
      OBVIOUS
    <2> HIDE DEF a
    <2>2. InSecond(a, 0) = {} /\ LatentIn(a, 0) = {} /\ Cardinality({}) = 0
      BY <2>1, NoArrivals
    <2> QED BY <1>2, <2>2 DEF TallyOf
  <1> HIDE DEF a
  <1>6. IntervalsTold(iv, a)
    BY <1>3, <1>4, <1>5 DEF IntervalsTold, RowsTold
  <1>7. IntervalsFit(iv, a)
    BY <1>3, <1>4, <1>6 DEF IntervalsFit, IntervalsOpen
  <1> QED BY <1>7 DEF iv, a

LEMMA IntervalsStep ==
  ASSUME SinkAssumptions, SinkInv, artifacts = <<>>, NEW e, Taken(e)
  PROVE  /\ IntervalsFit(intervals', measured')
         /\ intervals'.origin = IF start = None THEN e.origin ELSE intervals.origin
  <1>1. /\ e \in Arrival /\ measured' = Append(measured, e) /\ measured \in Seq(Arrival)
        /\ e.origin \in Nat \cup {None}
        /\ start = None => measured = <<>>
        /\ IntervalsFit(intervals, measured)
        /\ Sec \in Nat \ {0} /\ MeasurementSecs \in Nat
    BY SinkFacts DEF Taken, SinkInv, SinkTypes, InOrder, IntervalsFit, Arrival
  <1> DEFINE iv == IF start = None THEN Sink!NewIntervals(e.origin) ELSE intervals
             b == measured'
             u == intervals'
  <1>2. PICK duplicate \in BOOLEAN : u = Sink!RecordInterval(iv, e.elapsed, e.stamped, duplicate)
    BY DEF Taken
  <1>3. IntervalsFit(iv, measured) /\ iv.origin = IF start = None THEN e.origin ELSE intervals.origin
    <2>1. CASE start = None
      <3>1. IntervalsFit(Sink!NewIntervals(e.origin), <<>>)
        BY <1>1, NewIntervalsFit
      <3>2. Sink!NewIntervals(e.origin).origin = e.origin
        BY DEF Sink!NewIntervals
      <3> QED BY <1>1, <2>1, <3>1, <3>2
    <2>2. CASE start # None
      BY <1>1, <2>2
    <2> QED BY <2>1, <2>2
  <1> HIDE DEF iv, b, u
  <1>4. IntervalTakes(u, iv, b, measured, e, duplicate)
    BY <1>1, <1>2, <1>3 DEF IntervalTakes, IntervalsFit, b
  <1>5. IntervalsFit(u, b) /\ u.origin = iv.origin
    BY <1>1, <1>4, IntervalsKept
  <1> QED BY <1>3, <1>5 DEF u, b

\* Rows that are told, one for each second with an arrival, add up.
LEMMA RowsAddUp ==
  ASSUME Sec \in Nat \ {0}, NEW a \in Seq(Arrival), NEW u, NEW n \in Nat, DOMAIN u.rows = 1 .. n,
         \A k \in 1 .. n : RowTold(u.rows[k], a, k),
         \A i \in DOMAIN a : Second(a[i]) < n
  PROVE  /\ Sink!RowSum(u, "events") = Len(a)
         /\ Sink!RowSum(u, "latencies") = Cardinality(WithStamps(a))
  <1> DEFINE K == [k \in 1 .. n |-> InSecond(a, k - 1)]
             L == [k \in 1 .. n |-> LatentIn(a, k - 1)]
             m == Len(a)
  <1>1. m \in Nat /\ DOMAIN a = 1 .. m /\ IsFiniteSet(1 .. m) /\ Cardinality(1 .. m) = m
    <2>1. m \in Nat /\ DOMAIN a = 1 .. m
      OBVIOUS
    <2> HIDE DEF m
    <2>2. IsFiniteSet(1 .. m) /\ Cardinality(1 .. m) = m
      BY <2>1, FS_Interval
    <2> QED BY <2>1, <2>2
  <1> HIDE DEF m
  <1>2. ASSUME NEW i \in DOMAIN a PROVE Second(a[i]) + 1 \in 1 .. n /\ (Second(a[i]) + 1) - 1 = Second(a[i])
    <2>1. a[i] \in Arrival
      OBVIOUS
    <2>2. a[i].elapsed \in Nat /\ a[i].elapsed <= a[i].elapsed
      BY <2>1 DEF Arrival
    <2>3. Second(a[i]) \in Nat
      BY <2>2, DivUp DEF Second
    <2>4. Second(a[i]) < n
      OBVIOUS
    <2> QED BY <2>3, <2>4
  <1>3. \A k \in 1 .. n : /\ K[k] \subseteq 1 .. m /\ L[k] \subseteq K[k]
                          /\ K[k] = InSecond(a, k - 1) /\ L[k] = LatentIn(a, k - 1)
    BY <1>1 DEF InSecond, LatentIn
  <1>4. \A k \in 1 .. n : IsFiniteSet(K[k]) /\ IsFiniteSet(L[k])
    BY <1>1, <1>3, FS_Subset
  <1>5. \A k, l \in 1 .. n : k # l => K[k] \cap K[l] = {} /\ L[k] \cap L[l] = {}
    <2>1. \A k, l \in 1 .. n : k # l => k - 1 # l - 1
      OBVIOUS
    <2>2. \A k, l : k # l => InSecond(a, k) \cap InSecond(a, l) = {}
      BY DEF InSecond
    <2>3. \A k, l \in 1 .. n : k # l => K[k] \cap K[l] = {}
      BY <1>3, <2>1, <2>2
    <2> HIDE DEF K, L
    <2> QED BY <1>3, <2>3
  <1>6. Members(K, 1 .. n) = DOMAIN a
    <2>1. ASSUME NEW i \in DOMAIN a PROVE i \in Members(K, 1 .. n)
      <3>1. i \in K[Second(a[i]) + 1]
        BY <1>2 DEF InSecond
      <3> HIDE DEF K
      <3> QED BY <1>2, <3>1 DEF Members
    <2>2. Members(K, 1 .. n) \subseteq DOMAIN a
      BY <1>1, <1>3 DEF Members
    <2> HIDE DEF K
    <2> QED BY <2>1, <2>2
  <1>7. Members(L, 1 .. n) = WithStamps(a)
    <2>1. ASSUME NEW i \in WithStamps(a) PROVE i \in Members(L, 1 .. n)
      <3>0. i \in DOMAIN a /\ a[i].stamped
        BY DEF WithStamps
      <3>1. i \in L[Second(a[i]) + 1]
        BY <1>2, <3>0 DEF InSecond, LatentIn
      <3> HIDE DEF L
      <3> QED BY <1>2, <3>0, <3>1 DEF Members
    <2>2. \A k \in 1 .. n : L[k] \subseteq WithStamps(a)
      BY DEF LatentIn, InSecond, WithStamps
    <2> HIDE DEF L
    <2>3. Members(L, 1 .. n) \subseteq WithStamps(a)
      BY <2>2 DEF Members
    <2> QED BY <2>1, <2>3
  <1> HIDE DEF K, L
  <1>8. \A k \in 1 .. n : /\ u.rows[k].counts["events"] = Cardinality(K[k])
                          /\ u.rows[k].counts["latencies"] = Cardinality(L[k])
    BY <1>3 DEF RowTold, TallyOf
  <1>9. Sink!RowSum(u, "events") = Cardinality(Members(K, 1 .. n))
    BY <1>4, <1>5, <1>8, RowSumIs
  <1>10. Sink!RowSum(u, "latencies") = Cardinality(Members(L, 1 .. n))
    BY <1>4, <1>5, <1>8, RowSumIs
  <1> QED BY <1>1, <1>6, <1>7, <1>9, <1>10 DEF m

\* What finalizing leaves: rows that add up, or a reason why not.
Ended(u, iv, a, elapsed) ==
    /\ u \in Intervals /\ Len(u.rows) <= u.maximum
    /\ u.maximum = iv.maximum /\ u.origin = iv.origin
    /\ u.overflowed => Disorder(u, a) \/ elapsed > u.maximum * Sec
    /\ ~u.overflowed /\ elapsed > 0 =>
         /\ Sink!RowSum(u, "events") = Len(a)
         /\ Sink!RowSum(u, "latencies") = Cardinality(WithStamps(a))
         /\ \A k \in 1 .. Len(u.rows) :
              /\ RowTold(u.rows[k], a, k)
              /\ k > 1 => u.rows[k - 1].end = u.rows[k].start

LEMMA IntervalsEnd ==
  ASSUME Sec \in Nat \ {0}, MeasurementSecs \in Nat, NEW a \in Seq(Arrival), NEW iv0,
         IntervalsFit(iv0, a), NEW elapsed \in Nat
  PROVE  Ended(Sink!FinalizeIntervals(iv0, elapsed), iv0, a, elapsed)
  <1> DEFINE u == Sink!FinalizeIntervals(iv0, elapsed)
             iv == [iv0 EXCEPT !.finalized = TRUE]
             final == (elapsed - 1) \div Sec
             v == Sink!AdvanceTo(iv, final)
             rest == elapsed % Sec
             width == IF rest = 0 THEN Sec ELSE rest
  <1> SUFFICES Ended(u, iv0, a, elapsed)
    OBVIOUS
  <1>1. /\ iv0 \in Intervals /\ Len(iv0.rows) <= iv0.maximum /\ ~iv0.finalized
        /\ IntervalsTold(iv0, a)
        /\ ~iv0.overflowed => \A i \in DOMAIN a : Second(a[i]) < iv0.maximum
    BY DEF IntervalsFit, IntervalsOpen
  <1>2. u = IF elapsed = 0 THEN iv
            ELSE IF final >= iv.maximum THEN [iv EXCEPT !.overflowed = TRUE]
            ELSE IF Len(v.rows) < v.maximum THEN Sink!FinishCurrent(v, width) ELSE v
    <2> DEFINE f == Sink!FinishCurrent(v, width)
               o == [iv EXCEPT !.overflowed = TRUE]
    <2>1. u = CASE iv0.finalized -> iv0
                [] ~iv0.finalized /\ elapsed = 0 -> iv
                [] ~iv0.finalized /\ elapsed > 0 /\ final >= iv.maximum -> o
                [] OTHER -> IF Len(v.rows) < v.maximum THEN f ELSE v
      BY DEF Sink!FinalizeIntervals
    <2> HIDE DEF f, o, v, iv, u, final, width
    <2>2. elapsed = 0 => u = iv
      BY <1>1, <2>1
    <2>3. elapsed > 0 /\ final >= iv.maximum => u = o
      BY <1>1, <2>1
    <2>4. elapsed > 0 /\ ~(final >= iv.maximum) => u = IF Len(v.rows) < v.maximum THEN f ELSE v
      BY <1>1, <2>1
    <2>5. elapsed = 0 \/ elapsed > 0
      OBVIOUS
    <2>6. u = IF elapsed = 0 THEN iv ELSE IF final >= iv.maximum THEN o
              ELSE IF Len(v.rows) < v.maximum THEN f ELSE v
      BY <2>2, <2>3, <2>4, <2>5
    <2> QED BY <2>6 DEF f, o
  <1>3. /\ iv \in Intervals /\ iv.maximum = iv0.maximum /\ iv.origin = iv0.origin
        /\ iv.overflowed = iv0.overflowed /\ iv.rows = iv0.rows /\ iv.current = iv0.current
        /\ iv.open = iv0.open
    BY <1>1 DEF Intervals
  <1> HIDE DEF iv, u, v, final, width
  <1>4. IntervalsTold(iv, a) /\ Len(iv.rows) <= iv.maximum /\ iv.current = Len(iv.rows)
    <2>1. Disorder(iv0, a) => Disorder(iv, a)
      BY <1>3 DEF Disorder
    <2>2. RowsTold(iv0, a) => RowsTold(iv, a)
      BY <1>3 DEF RowsTold
    <2> QED BY <1>1, <1>3, <2>1, <2>2 DEF IntervalsTold
  <1>5. iv.maximum \in Nat /\ iv0.maximum \in Nat /\ Len(iv.rows) \in Nat
    BY <1>1, <1>3 DEF Intervals
  <1>6. CASE elapsed = 0
    <2>1. u = iv
      BY <1>2, <1>6
    <2>2. u.overflowed => Disorder(u, a)
      BY <1>4, <2>1 DEF IntervalsTold
    <2> QED BY <1>3, <1>4, <1>6, <2>1, <2>2 DEF Ended
  <1>7. CASE elapsed > 0
    <2>1. /\ final \in Nat /\ Sec * final <= elapsed - 1
          /\ rest \in Nat /\ width \in Nat
      <3> DEFINE x == elapsed - 1
      <3>1. x \in Nat /\ x <= x
        BY <1>7
      <3> HIDE DEF x
      <3>2. x \div Sec \in Nat
        BY <3>1, DivUp
      <3>3. x = Sec * (x \div Sec) + (x % Sec) /\ x % Sec \in Nat
        BY <3>1
      <3>4. Sec * (x \div Sec) <= x
        BY <3>1, <3>2, <3>3
      <3>5. elapsed % Sec \in Nat
        OBVIOUS
      <3> QED BY <3>2, <3>4, <3>5 DEF x, final, width
    <2>2. CASE final >= iv.maximum
      <3>1. u = [iv EXCEPT !.overflowed = TRUE]
        BY <1>2, <1>7, <2>2
      <3>2. /\ u \in Intervals /\ u.maximum = iv.maximum /\ u.origin = iv.origin
            /\ u.rows = iv.rows /\ u.overflowed = TRUE
        BY <1>3, <3>1 DEF Intervals
      <3>3. elapsed > iv.maximum * Sec
        <4> DEFINE y == iv.maximum
                   d == final - y
        <4>1. y \in Nat /\ d \in Nat /\ final = y + d
          BY <1>5, <2>1, <2>2
        <4> HIDE DEF y, d
        <4>2. Sec * d >= 0 /\ Sec * final = y * Sec + Sec * d
          BY <4>1
        <4>3. Sec * d \in Nat /\ y * Sec \in Nat
          BY <4>1
        <4> QED BY <2>1, <4>2, <4>3 DEF y
      <3> QED BY <1>3, <1>4, <3>2, <3>3 DEF Ended
    <2>3. CASE ~(final >= iv.maximum)
      <3> DEFINE n == Len(v.rows)
      <3>1. Advanced(v, iv, a, final)
        <4>1. final \in Int
          BY <2>1
        <4> QED BY <1>3, <1>4, <4>1, AdvanceTold DEF v
      <3>2. /\ v \in Intervals /\ IntervalsTold(v, a) /\ v.current = n /\ n \in Nat
            /\ v.overflowed = iv.overflowed /\ v.maximum = iv.maximum /\ v.origin = iv.origin
            /\ \A k \in 1 .. n : v.rows[k].end = k * Sec
            /\ v.overflowed => Disorder(v, a)
        BY <3>1 DEF Advanced, IntervalsTold, Intervals
      <3>3. n <= v.maximum
        <4>1. final \in Int /\ v.current = iv.current + Advancing(iv, final)
          BY <2>1, <3>1 DEF Advanced
        <4>2. v.current <= iv.maximum
          <5> HIDE DEF n
          <5> QED BY <1>3, <1>4, <4>1, StepsReach
        <4> QED BY <3>2, <4>2
      <3>4. ~v.overflowed => /\ \A k \in 1 .. n : RowTold(v.rows[k], a, k)
                             /\ TallyOf(v.open, a, n)
                             /\ \A i \in DOMAIN a : Second(a[i]) <= n /\ Second(a[i]) < v.maximum
        BY <1>1, <1>3, <3>2 DEF IntervalsTold, RowsTold
      <3> HIDE DEF n
      <3>5. CASE n < v.maximum
        <4>1. u = Sink!FinishCurrent(v, width)
          BY <1>2, <1>7, <2>3, <3>5 DEF n
        <4>2. Finished(u, v, width)
          BY <2>1, <3>2, <4>1, FinishIs
        <4>3. /\ u \in Intervals /\ Len(u.rows) = n + 1
              /\ \A k \in 1 .. n : u.rows[k] = v.rows[k]
              /\ u.rows[n + 1].start = n * Sec /\ u.rows[n + 1].counts = v.open
              /\ u.overflowed = v.overflowed /\ u.maximum = iv0.maximum /\ u.origin = iv0.origin
          BY <1>3, <3>2, <4>2 DEF Finished, n
        <4>4. u.overflowed => Disorder(u, a)
          BY <1>3, <3>2, <4>3 DEF Disorder
        <4>5. \A k \in 1 .. n + 1 : k \in 1 .. n \/ k = n + 1
          BY <3>2
        <4>8. Len(u.rows) <= u.maximum
          BY <1>3, <1>5, <3>2, <3>5, <4>3
        <4>6. CASE ~u.overflowed
          <5>1. RowTold(u.rows[n + 1], a, n + 1)
            <6>1. (n + 1) - 1 = n
              BY <3>2
            <6> QED BY <3>4, <4>3, <4>6, <6>1 DEF RowTold
          <5>2. \A k \in 1 .. n + 1 : RowTold(u.rows[k], a, k)
            BY <3>4, <4>3, <4>5, <4>6, <5>1
          <5>3. \A i \in DOMAIN a : Second(a[i]) < n + 1
            <6> TAKE i \in DOMAIN a
            <6>0. a[i] \in Arrival
              OBVIOUS
            <6>1. a[i].elapsed \in Nat
              BY <6>0 DEF Arrival
            <6>2. Second(a[i]) \in Int
              BY <6>1 DEF Second
            <6> QED BY <3>2, <3>4, <4>3, <4>6, <6>2
          <5>4. n + 1 \in Nat /\ DOMAIN u.rows = 1 .. n + 1
            BY <3>2, <4>3 DEF Intervals
          <5>5. /\ Sink!RowSum(u, "events") = Len(a)
                /\ Sink!RowSum(u, "latencies") = Cardinality(WithStamps(a))
            BY <5>2, <5>3, <5>4, RowsAddUp
          <5>6. ASSUME NEW k \in 1 .. n + 1, k > 1 PROVE u.rows[k - 1].end = u.rows[k].start
            <6>1. k - 1 \in 1 .. n
              BY <3>2, <5>6
            <6>2. u.rows[k - 1].end = (k - 1) * Sec
              BY <3>2, <4>3, <6>1
            <6>3. u.rows[k].start = (k - 1) * Sec
              BY <5>2 DEF RowTold
            <6> QED BY <6>2, <6>3
          <5> QED BY <4>3, <4>6, <4>8, <5>2, <5>5, <5>6 DEF Ended
        <4>7. CASE u.overflowed
          BY <4>3, <4>4, <4>7, <4>8 DEF Ended
        <4> QED BY <4>6, <4>7
      <3>6. CASE ~(n < v.maximum)
        <4>1. u = v /\ n = v.maximum
          BY <1>2, <1>5, <1>7, <2>3, <3>2, <3>3, <3>6 DEF n
        <4>2. CASE ~u.overflowed
          <5>1. DOMAIN u.rows = 1 .. n
            BY <3>2, <4>1 DEF Intervals, n
          <5>2. /\ Sink!RowSum(u, "events") = Len(a)
                /\ Sink!RowSum(u, "latencies") = Cardinality(WithStamps(a))
            BY <3>2, <3>4, <4>1, <4>2, <5>1, RowsAddUp
          <5>3. ASSUME NEW k \in 1 .. n, k > 1 PROVE u.rows[k - 1].end = u.rows[k].start
            <6>1. k - 1 \in 1 .. n
              BY <3>2, <5>3
            <6>2. u.rows[k - 1].end = (k - 1) * Sec
              BY <3>2, <4>1, <6>1
            <6>3. u.rows[k].start = (k - 1) * Sec
              BY <3>4, <4>1, <4>2 DEF RowTold
            <6> QED BY <6>2, <6>3
          <5>4. Len(u.rows) = n
            BY <4>1 DEF n
          <5> QED BY <1>3, <3>2, <3>3, <3>4, <4>1, <4>2, <5>2, <5>3, <5>4 DEF Ended
        <4>3. CASE u.overflowed
          <5>4. Len(u.rows) = n
            BY <4>1 DEF n
          <5> QED BY <1>3, <3>2, <3>3, <4>1, <4>3, <5>4 DEF Ended
        <4> QED BY <4>2, <4>3
      <3> QED BY <3>5, <3>6
    <2> QED BY <2>2, <2>3
  <1> QED BY <1>6, <1>7

-----------------------------------------------------------------------------
\* What BurstObservation::record changes, by the zone of the arrival.
LEMMA SamplesGrow ==
  ASSUME NEW s \in Seq(Sample), NEW x \in Sample, NEW times
  PROVE  OneMoreIn(SampledAt(s, times), SampledAt(Append(s, x), times), x.at \in times)
  <1> DEFINE n == Len(s)
             t == Append(s, x)
             X == SampledAt(s, times)
             Y == SampledAt(t, times)
  <1>1. /\ n \in Nat /\ DOMAIN s = 1 .. n /\ DOMAIN t = 1 .. n + 1
        /\ \A i \in 1 .. n : t[i] = s[i]
        /\ t[n + 1] = x /\ n + 1 \in 1 .. n + 1
        /\ \A i \in 1 .. n : i \in 1 .. n + 1
    OBVIOUS
  <1> HIDE DEF n, t
  <1>2. /\ X \subseteq 1 .. n /\ Y \subseteq 1 .. n + 1 /\ \A i \in 1 .. n : i \in X <=> i \in Y
        /\ n + 1 \in Y <=> x.at \in times
    BY <1>1 DEF SampledAt
  <1> HIDE DEF X, Y
  <1>3. Cardinality(X) \in Nat /\ Cardinality(Y) = Cardinality(X) + (IF n + 1 \in Y THEN 1 ELSE 0)
    BY <1>1, <1>2, Grown
  <1> QED BY <1>2, <1>3 DEF OneMoreIn, X, Y, t

\* The arrival that is recorded in b, which has the origin already.
BurstTakes(u, b, c, a, e, duplicate) ==
    /\ c = Append(a, e) /\ b \in Burst /\ b.origin = BurstOrigin /\ BurstOrigin \in Nat
    /\ BucketsTold(b, a) /\ SamplesTold(b, a)
    /\ e.origin = BurstOrigin /\ BurstOrigin <= e.at
    /\ u = Sink!RecordBurst(b, e.origin, e.at, duplicate)

BurstFits(b, a) ==
    b \in Burst /\ b.origin = BurstOrigin /\ BucketsTold(b, a) /\ SamplesTold(b, a)

BurstIs(u, b, p, d, r, f, l) ==
    /\ u \in Burst /\ u.mismatches = 0 /\ u.fine = f /\ u.fineOverflow = l
    /\ u.origin = b.origin /\ u.primary = p /\ u.drain = d /\ u.after = r

LEMMA BurstWith ==
  ASSUME NEW b \in Burst, NEW p \in Seq(Bucketed), NEW f \in Seq(Sample), NEW l \in BOOLEAN
  PROVE  /\ BurstIs([b EXCEPT !.mismatches = 0, !.primary = p, !.fine = f, !.fineOverflow = l],
                    b, p, b.drain, b.after, f, l)
         /\ BurstIs([b EXCEPT !.mismatches = 0, !.drain = p, !.fine = f, !.fineOverflow = l],
                    b, b.primary, p, b.after, f, l)
         /\ BurstIs([b EXCEPT !.mismatches = 0, !.after = p, !.fine = f, !.fineOverflow = l],
                    b, b.primary, b.drain, p, f, l)
  <1>1. BurstIs([b EXCEPT !.mismatches = 0, !.primary = p, !.fine = f, !.fineOverflow = l],
                b, p, b.drain, b.after, f, l)
    BY DEF Burst, BurstIs
  <1>2. BurstIs([b EXCEPT !.mismatches = 0, !.drain = p, !.fine = f, !.fineOverflow = l],
                b, b.primary, p, b.after, f, l)
    BY DEF Burst, BurstIs
  <1>3. BurstIs([b EXCEPT !.mismatches = 0, !.after = p, !.fine = f, !.fineOverflow = l],
                b, b.primary, b.drain, p, f, l)
    BY DEF Burst, BurstIs
  <1> QED BY <1>1, <1>2, <1>3

LEMMA BurstKept ==
  ASSUME SinkAssumptions, NEW a \in Seq(Arrival), NEW e \in Arrival, NEW b, NEW c,
         NEW duplicate \in BOOLEAN, NEW u, BurstTakes(u, b, c, a, e, duplicate)
  PROVE  BurstFits(u, c)
  <1> DEFINE past == Offset(e)
             zone == Sink!Zone(past)
             base == IF zone = "drain" THEN PrimaryEnd ELSE 0
             entry == [bucket |-> (past - base) \div BucketWidth, duplicate |-> duplicate]
             sample == [at |-> e.at, duplicate |-> duplicate]
             captured == Sink!Captured(b, e.at)
             room == Sink!HasRoom(b)
             fine == IF captured /\ room THEN Append(b.fine, sample) ELSE b.fine
             lost == b.fineOverflow \/ (captured /\ ~room)
  <1>1. /\ c = Append(a, e) /\ b \in Burst /\ b.origin = BurstOrigin /\ BurstOrigin \in Nat
        /\ BucketsTold(b, a) /\ SamplesTold(b, a)
        /\ e.origin = BurstOrigin /\ BurstOrigin <= e.at
        /\ u = Sink!RecordBurst(b, e.origin, e.at, duplicate)
    BY DEF BurstTakes
  <1>2. /\ PrimaryEnd \in Nat /\ DrainEnd \in Nat /\ BucketWidth \in Nat \ {0}
        /\ FineCapacity \in Nat /\ None \notin Nat
    BY SinkFacts
  <1>3. e.at \in Nat /\ past \in Nat /\ past = e.at - b.origin
    BY <1>1 DEF Offset, Arrival
  <1>4. u = [b EXCEPT !.mismatches = @ + (IF e.origin # b.origin \/ e.at < e.origin THEN 1 ELSE 0),
                      ![zone] = Append(@, entry), !.fine = fine, !.fineOverflow = lost]
    <2>1. (IF e.at >= b.origin THEN e.at - b.origin ELSE 0) = past
      BY <1>1, <1>3
    <2> QED BY <1>1, <2>1 DEF Sink!RecordBurst
  <1>5. b.mismatches + (IF e.origin # b.origin \/ e.at < e.origin THEN 1 ELSE 0) = 0
    <2>1. b.mismatches = 0
      BY <1>1 DEF BucketsTold
    <2>2. ~(e.origin # b.origin \/ e.at < e.origin)
      BY <1>1, <1>3
    <2> QED BY <2>1, <2>2
  <1>6. zone = IF past < PrimaryEnd THEN "primary" ELSE IF past < DrainEnd THEN "drain" ELSE "after"
    BY DEF Sink!Zone
  <1>7. entry \in Bucketed /\ sample \in Sample
    <2> DEFINE x == past - base
    <2>1. x \in Nat /\ x <= x
      <3> HIDE DEF past, zone
      <3>1. zone = "drain" => PrimaryEnd <= past
        BY <1>2, <1>3, <1>6
      <3> QED BY <1>2, <1>3, <3>1
    <2> HIDE DEF x
    <2>2. x \div BucketWidth \in Nat
      BY <1>2, <2>1, DivUp
    <2> QED BY <1>3, <2>2 DEF x, Bucketed, Sample
  <1>8. /\ captured \in BOOLEAN /\ room \in BOOLEAN /\ lost \in BOOLEAN
        /\ room = (Len(b.fine) < FineCapacity)
        /\ b.fine \in Seq(Sample)
    BY <1>1 DEF Sink!Captured, Sink!HasRoom, Burst
  <1> HIDE DEF entry, sample, captured, room, lost
  <1>9. fine \in Seq(Sample) /\ Len(fine) <= FineCapacity
    <2>1. Len(b.fine) <= FineCapacity
      BY <1>1 DEF SamplesTold
    <2>2. CASE captured /\ room
      <3>1. fine = Append(b.fine, sample)
        BY <2>2
      <3>2. Len(b.fine) < FineCapacity /\ Len(b.fine) \in Nat
        <4>1. room = TRUE
          BY <1>8, <2>2
        <4>2. Len(b.fine) \in Nat
          BY <1>8
        <4> QED BY <1>8, <4>1, <4>2
      <3> HIDE DEF fine
      <3>3. fine \in Seq(Sample) /\ Len(fine) = Len(b.fine) + 1
        BY <1>7, <1>8, <3>1
      <3> QED BY <1>2, <3>2, <3>3
    <2>3. CASE ~(captured /\ room)
      BY <1>8, <2>1, <2>3
    <2> QED BY <2>2, <2>3
  <1> HIDE DEF fine, zone, past
  <1>10. u = [b EXCEPT !.mismatches = 0, ![zone] = Append(@, entry), !.fine = fine,
                       !.fineOverflow = lost]
    BY <1>4, <1>5
  <1> DEFINE Form(primary, drain, after) ==
               /\ u \in Burst /\ u.origin = BurstOrigin /\ u.mismatches = 0
               /\ u.fine = fine /\ u.fineOverflow = lost
               /\ u.primary = primary /\ u.drain = drain /\ u.after = after
  <1>11. zone = "primary" => Form(Append(b.primary, entry), b.drain, b.after)
    <2> SUFFICES ASSUME zone = "primary" PROVE Form(Append(b.primary, entry), b.drain, b.after)
      OBVIOUS
    <2> DEFINE p == Append(b.primary, entry)
    <2>1. p \in Seq(Bucketed)
      BY <1>1, <1>7 DEF Burst
    <2>2. u = [b EXCEPT !.mismatches = 0, !.primary = p, !.fine = fine, !.fineOverflow = lost]
      BY <1>10
    <2> HIDE DEF p
    <2>3. BurstIs(u, b, p, b.drain, b.after, fine, lost)
      <3>1. b \in Burst /\ fine \in Seq(Sample) /\ lost \in BOOLEAN
        BY <1>1, <1>8, <1>9
      <3>2. BurstIs([b EXCEPT !.mismatches = 0, !.primary = p, !.fine = fine, !.fineOverflow = lost],
                    b, p, b.drain, b.after, fine, lost)
        BY <2>1, <3>1, BurstWith
      <3> QED BY <2>2, <3>2
    <2> QED BY <1>1, <2>3 DEF p, BurstIs
  <1>12. zone = "drain" => Form(b.primary, Append(b.drain, entry), b.after)
    <2> SUFFICES ASSUME zone = "drain" PROVE Form(b.primary, Append(b.drain, entry), b.after)
      OBVIOUS
    <2> DEFINE p == Append(b.drain, entry)
    <2>1. p \in Seq(Bucketed)
      BY <1>1, <1>7 DEF Burst
    <2>2. u = [b EXCEPT !.mismatches = 0, !.drain = p, !.fine = fine, !.fineOverflow = lost]
      BY <1>10
    <2> HIDE DEF p
    <2>3. BurstIs(u, b, b.primary, p, b.after, fine, lost)
      <3>1. b \in Burst /\ fine \in Seq(Sample) /\ lost \in BOOLEAN
        BY <1>1, <1>8, <1>9
      <3>2. BurstIs([b EXCEPT !.mismatches = 0, !.drain = p, !.fine = fine, !.fineOverflow = lost],
                    b, b.primary, p, b.after, fine, lost)
        BY <2>1, <3>1, BurstWith
      <3> QED BY <2>2, <3>2
    <2> QED BY <1>1, <2>3 DEF p, BurstIs
  <1>13. zone = "after" => Form(b.primary, b.drain, Append(b.after, entry))
    <2> SUFFICES ASSUME zone = "after" PROVE Form(b.primary, b.drain, Append(b.after, entry))
      OBVIOUS
    <2> DEFINE p == Append(b.after, entry)
    <2>1. p \in Seq(Bucketed)
      BY <1>1, <1>7 DEF Burst
    <2>2. u = [b EXCEPT !.mismatches = 0, !.after = p, !.fine = fine, !.fineOverflow = lost]
      BY <1>10
    <2> HIDE DEF p
    <2>3. BurstIs(u, b, b.primary, b.drain, p, fine, lost)
      <3>1. b \in Burst /\ fine \in Seq(Sample) /\ lost \in BOOLEAN
        BY <1>1, <1>8, <1>9
      <3>2. BurstIs([b EXCEPT !.mismatches = 0, !.after = p, !.fine = fine, !.fineOverflow = lost],
                    b, b.primary, b.drain, p, fine, lost)
        BY <2>1, <3>1, BurstWith
      <3> QED BY <2>2, <3>2
    <2> QED BY <1>1, <2>3 DEF p, BurstIs
  <1>14. /\ OneMoreIn(FromBurst(a), FromBurst(c), TRUE)
         /\ \A place : OneMoreIn(FromBurstIn(a, place), FromBurstIn(c, place), past \in place)
         /\ \A times : OneMoreIn(FromBurstAt(a, times), FromBurstAt(c, times), e.at \in times)
    <2>1. AllGrow(a, e, c)
      BY <1>1, SetsGrow
    <2>2. /\ OneMoreIn(FromBurst(a), FromBurst(c), e.origin # None)
          /\ \A place : OneMoreIn(FromBurstIn(a, place), FromBurstIn(c, place),
                                  e.origin # None /\ Offset(e) \in place)
          /\ \A times : OneMoreIn(FromBurstAt(a, times), FromBurstAt(c, times),
                                  e.origin # None /\ e.at \in times)
      BY <2>1, Zenon DEF AllGrow
    <2>3. e.origin # None
      BY <1>1, <1>2
    <2> QED BY <2>2, <2>3 DEF OneMoreIn, past
  <1>15. BucketsTold(u, c)
    <2> DEFINE first == 0 .. PrimaryEnd - 1
               second == PrimaryEnd .. DrainEnd - 1
    <2>1. /\ Len(b.primary) = Cardinality(FromBurstIn(a, first))
          /\ Len(b.drain) = Cardinality(FromBurstIn(a, second))
          /\ Len(b.after) = Cardinality(FromBurst(a)) - Len(b.primary) - Len(b.drain)
      BY <1>1 DEF BucketsTold
    <2>2. /\ Cardinality(FromBurst(a)) \in Nat
          /\ Cardinality(FromBurst(c)) = Cardinality(FromBurst(a)) + 1
          /\ Cardinality(FromBurstIn(a, first)) \in Nat
          /\ Cardinality(FromBurstIn(c, first))
               = Cardinality(FromBurstIn(a, first)) + (IF past \in first THEN 1 ELSE 0)
          /\ Cardinality(FromBurstIn(a, second)) \in Nat
          /\ Cardinality(FromBurstIn(c, second))
               = Cardinality(FromBurstIn(a, second)) + (IF past \in second THEN 1 ELSE 0)
      BY <1>14 DEF OneMoreIn
    <2>3. /\ past \in first <=> zone = "primary"
          /\ past \in second <=> zone = "drain"
          /\ zone \in {"primary", "drain", "after"}
      BY <1>2, <1>3, <1>6
    <2> HIDE DEF first, second
    <2>4. /\ b.primary \in Seq(Bucketed) /\ b.drain \in Seq(Bucketed) /\ b.after \in Seq(Bucketed)
      BY <1>1 DEF Burst
    <2>5. /\ Len(Append(b.primary, entry)) = Len(b.primary) + 1
          /\ Len(Append(b.drain, entry)) = Len(b.drain) + 1
          /\ Len(Append(b.after, entry)) = Len(b.after) + 1
      BY <1>7, <2>4
    <2>9. Len(b.primary) \in Nat /\ Len(b.drain) \in Nat /\ Len(b.after) \in Int
      BY <2>4
    <2> DEFINE x == Len(b.primary)
               y == Len(b.drain)
               z == Len(b.after)
               x2 == Len(u.primary)
               y2 == Len(u.drain)
               z2 == Len(u.after)
               all == Cardinality(FromBurst(a))
               all2 == Cardinality(FromBurst(c))
               near == Cardinality(FromBurstIn(a, first))
               near2 == Cardinality(FromBurstIn(c, first))
               far == Cardinality(FromBurstIn(a, second))
               far2 == Cardinality(FromBurstIn(c, second))
    <2>10. /\ x = near /\ y = far /\ z = all - x - y /\ all2 = all + 1
           /\ x \in Nat /\ y \in Nat /\ z \in Int /\ all \in Nat
           /\ near2 = near + (IF past \in first THEN 1 ELSE 0)
           /\ far2 = far + (IF past \in second THEN 1 ELSE 0)
      BY <2>1, <2>2, <2>9
    <2>6. CASE zone = "primary"
      <3>1. x2 = x + 1 /\ y2 = y /\ z2 = z /\ u.mismatches = 0
        BY <1>11, <2>5, <2>6
      <3>2. past \in first /\ past \notin second
        BY <2>3, <2>6
      <3> HIDE DEF x, y, z, x2, y2, z2, all, all2, near, near2, far, far2
      <3>3. x2 = near2 /\ y2 = far2 /\ z2 = all2 - x2 - y2
        BY <2>10, <3>1, <3>2
      <3> QED BY <3>1, <3>3 DEF BucketsTold, first, second, x2, y2, z2, all2, near2, far2
    <2>7. CASE zone = "drain"
      <3>1. x2 = x /\ y2 = y + 1 /\ z2 = z /\ u.mismatches = 0
        BY <1>12, <2>5, <2>7
      <3>2. past \notin first /\ past \in second
        BY <2>3, <2>7
      <3> HIDE DEF x, y, z, x2, y2, z2, all, all2, near, near2, far, far2
      <3>3. x2 = near2 /\ y2 = far2 /\ z2 = all2 - x2 - y2
        BY <2>10, <3>1, <3>2
      <3> QED BY <3>1, <3>3 DEF BucketsTold, first, second, x2, y2, z2, all2, near2, far2
    <2>8. CASE zone = "after"
      <3>1. x2 = x /\ y2 = y /\ z2 = z + 1 /\ u.mismatches = 0
        BY <1>13, <2>5, <2>8
      <3>2. past \notin first /\ past \notin second
        BY <2>3, <2>8
      <3> HIDE DEF x, y, z, x2, y2, z2, all, all2, near, near2, far, far2
      <3>3. x2 = near2 /\ y2 = far2 /\ z2 = all2 - x2 - y2
        BY <2>10, <3>1, <3>2
      <3> QED BY <3>1, <3>3 DEF BucketsTold, first, second, x2, y2, z2, all2, near2, far2
    <2> QED BY <2>3, <2>6, <2>7, <2>8
  <1>16. u \in Burst /\ u.origin = BurstOrigin /\ u.fine = fine /\ u.fineOverflow = lost
    <2>1. zone \in {"primary", "drain", "after"}
      BY <1>6
    <2> QED BY <1>11, <1>12, <1>13, <2>1
  <1>17. ASSUME ~lost, NEW times \in SUBSET Sink!CaptureWindow(BurstOrigin)
         PROVE  Cardinality(SampledAt(fine, times)) = Cardinality(FromBurstAt(c, times))
    <2>1. ~b.fineOverflow /\ (captured => room)
      BY <1>17 DEF lost
    <2>2. captured <=> e.at \in Sink!CaptureWindow(BurstOrigin)
      BY <1>1 DEF captured, Sink!Captured
    <2>3. Cardinality(SampledAt(b.fine, times)) = Cardinality(FromBurstAt(a, times))
      BY <1>1, <2>1 DEF SamplesTold
    <2>4. OneMoreIn(FromBurstAt(a, times), FromBurstAt(c, times), e.at \in times)
      BY <1>14
    <2>5. CASE captured
      <3>1. fine = Append(b.fine, sample)
        BY <2>1, <2>5 DEF fine
      <3>2. OneMoreIn(SampledAt(b.fine, times), SampledAt(Append(b.fine, sample), times), sample.at \in times)
        BY <1>7, <1>8, SamplesGrow
      <3>3. sample.at = e.at
        BY DEF sample
      <3> QED BY <2>3, <2>4, <3>1, <3>2, <3>3 DEF OneMoreIn
    <2>6. CASE ~captured
      <3>1. fine = b.fine /\ e.at \notin times
        BY <2>2, <2>6 DEF fine
      <3> QED BY <2>3, <2>4, <3>1 DEF OneMoreIn
    <2> QED BY <2>5, <2>6
  <1>18. SamplesTold(u, c)
    BY <1>9, <1>16, <1>17 DEF SamplesTold
  <1> QED BY <1>15, <1>16, <1>18 DEF BurstFits

\* A burst that nothing has come of.
LEMMA NewBurstFits ==
  ASSUME SinkAssumptions, BurstOrigin \in Nat, NEW a, FromBurst(a) = {}
  PROVE  BurstFits(Sink!NewBurst(BurstOrigin), a)
  <1> DEFINE b == Sink!NewBurst(BurstOrigin)
  <1>1. b = [origin |-> BurstOrigin, mismatches |-> 0, primary |-> <<>>, drain |-> <<>>,
             after |-> <<>>, fine |-> <<>>, fineOverflow |-> FALSE]
    BY DEF Sink!NewBurst
  <1> HIDE DEF b
  <1>2. b \in Burst /\ b.origin = BurstOrigin
    BY <1>1 DEF Burst
  <1>3. \A place : FromBurstIn(a, place) = {} /\ FromBurstAt(a, place) = {}
    BY DEF FromBurstIn, FromBurstAt
  <1>4. Cardinality({}) = 0
    BY FS_EmptySet
  <1>5. BucketsTold(b, a)
    <2>1. /\ b.mismatches = 0 /\ Len(b.primary) = 0 /\ Len(b.drain) = 0 /\ Len(b.after) = 0
      BY <1>1
    <2>2. /\ \A place : Cardinality(FromBurstIn(a, place)) = 0
          /\ Cardinality(FromBurst(a)) = 0
      BY <1>3, <1>4
    <2> QED BY <2>1, <2>2 DEF BucketsTold
  <1>6. SamplesTold(b, a)
    <2>1. \A times : SampledAt(b.fine, times) = {}
      BY <1>1 DEF SampledAt
    <2>2. Len(b.fine) = 0 /\ 0 <= FineCapacity
      BY <1>1, SinkFacts
    <2> QED BY <1>3, <2>1, <2>2 DEF SamplesTold
  <1> QED BY <1>2, <1>5, <1>6 DEF BurstFits, b

LEMMA BurstStep ==
  ASSUME SinkAssumptions, SinkInv, NEW e, Taken(e)
  PROVE  burst' \in Burst /\ BurstTold(burst', measured')
  <1> DEFINE a == measured
             c == measured'
  <1>1. /\ e \in Arrival /\ c = Append(a, e) /\ a \in Seq(Arrival)
        /\ e.origin \in {None, BurstOrigin} /\ e.at = now
        /\ e.origin # None => e.origin <= now
        /\ burst \in Burst /\ BurstTold(burst, a)
    BY DEF Taken, SinkInv, SinkTypes
  <1>2. None \notin Nat /\ BurstOrigin \in Nat \cup {None}
    BY SinkFacts
  <1> HIDE DEF a, c
  <1>3. FromBurst(c) = {} <=> FromBurst(a) = {} /\ e.origin = None
    <2> DEFINE n == Len(a)
    <2>1. /\ n \in Nat /\ DOMAIN a = 1 .. n /\ DOMAIN c = 1 .. n + 1
          /\ \A i \in 1 .. n : c[i] = a[i]
          /\ c[n + 1] = e /\ n + 1 \in 1 .. n + 1
          /\ \A i \in 1 .. n + 1 : i \in 1 .. n \/ i = n + 1
          /\ \A i \in 1 .. n : i \in 1 .. n + 1
      BY <1>1, OneMore
    <2> HIDE DEF n
    <2> QED BY <2>1 DEF FromBurst
  <1>4. CASE e.origin = None
    <2>1. burst' = burst
      BY <1>4 DEF Taken
    <2>2. AllGrow(a, e, c)
      BY <1>1, SetsGrow
    <2>3. /\ OneMoreIn(FromBurst(a), FromBurst(c), e.origin # None)
          /\ \A place : OneMoreIn(FromBurstIn(a, place), FromBurstIn(c, place),
                                  e.origin # None /\ Offset(e) \in place)
          /\ \A times : OneMoreIn(FromBurstAt(a, times), FromBurstAt(c, times),
                                  e.origin # None /\ e.at \in times)
      BY <2>2, Zenon DEF AllGrow
    <2>4. /\ Cardinality(FromBurst(c)) = Cardinality(FromBurst(a))
          /\ \A place : /\ Cardinality(FromBurstIn(c, place)) = Cardinality(FromBurstIn(a, place))
                        /\ Cardinality(FromBurstAt(c, place)) = Cardinality(FromBurstAt(a, place))
      BY <1>4, <2>3 DEF OneMoreIn
    <2>5. BucketsTold(burst, c)
      BY <1>1, <2>4 DEF BurstTold, BucketsTold
    <2>6. SamplesTold(burst, c)
      BY <1>1, <2>4 DEF BurstTold, SamplesTold
    <2> QED BY <1>1, <1>3, <1>4, <2>1, <2>5, <2>6 DEF BurstTold, c
  <1>5. CASE e.origin # None
    <2> DEFINE b == IF burst.origin = None THEN Sink!NewBurst(e.origin) ELSE burst
               u == burst'
    <2>1. PICK duplicate \in BOOLEAN : u = Sink!RecordBurst(b, e.origin, e.at, duplicate)
      BY <1>1, <1>5 DEF Taken
    <2>2. e.origin = BurstOrigin /\ BurstOrigin \in Nat /\ BurstOrigin <= e.at
      BY <1>1, <1>2, <1>5
    <2>3. BurstFits(b, a)
      <3>1. CASE burst.origin = None
        <4>1. FromBurst(a) = {}
          BY <1>1, <1>2, <2>2, <3>1 DEF BurstTold
        <4> QED BY <2>2, <3>1, <4>1, NewBurstFits
      <3>2. CASE burst.origin # None
        BY <1>1, <3>2 DEF BurstTold, BurstFits
      <3> QED BY <3>1, <3>2
    <2> HIDE DEF b, u
    <2>4. BurstTakes(u, b, c, a, e, duplicate)
      BY <1>1, <2>1, <2>2, <2>3 DEF BurstTakes, BurstFits
    <2>5. BurstFits(u, c)
      BY <1>1, <2>4, BurstKept
    <2> QED BY <1>3, <1>5, <2>5 DEF BurstFits, BurstTold, u, c
  <1> QED BY <1>4, <1>5

\* The buckets of fine_event_buckets are the samples of the window, dealt out.
LEMMA FineBucketsOfWindow ==
  ASSUME SinkAssumptions, NEW samples \in Seq(Sample), NEW event \in Int
  PROVE  Sink!FineTotal(samples, event, FineWidth)
           = Cardinality(SampledAt(samples, event - FineHalf .. event + FineHalf - 1))
  <1> DEFINE n == (2 * FineHalf) \div FineWidth
             B(k) == Sink!FineBucket(samples, event, FineWidth, k)
             times == event - FineHalf .. event + FineHalf - 1
             place(j) == ((samples[j].at - event) + FineHalf) \div FineWidth
  <1>1. FineHalf \in Nat /\ FineWidth \in Nat \ {0} /\ (2 * FineHalf) % FineWidth = 0
    BY SinkFacts
  <1>2. n \in Nat /\ FineWidth * n = 2 * FineHalf
    <2> DEFINE x == 2 * FineHalf
    <2>1. x \in Nat /\ x <= x /\ x % FineWidth = 0
      BY <1>1
    <2> HIDE DEF x
    <2>2. x \div FineWidth \in Nat
      BY <1>1, <2>1, DivUp
    <2>3. x = FineWidth * (x \div FineWidth) + (x % FineWidth)
      BY <1>1, <2>1
    <2>4. FineWidth * (x \div FineWidth) \in Nat
      BY <1>1, <2>2
    <2> QED BY <2>1, <2>2, <2>3, <2>4 DEF x
  <1>3. ASSUME NEW j \in DOMAIN samples
        PROVE  /\ samples[j].at \in Nat
               /\ samples[j].at \in times <=> /\ samples[j].at - event >= 0 - FineHalf
                                              /\ samples[j].at - event < FineHalf
    <2>1. samples[j] \in Sample
      OBVIOUS
    <2>2. samples[j].at \in Nat
      BY <2>1 DEF Sample
    <2> QED BY <1>1, <2>2
  <1>4. ASSUME NEW j \in DOMAIN samples, samples[j].at \in times PROVE place(j) \in 0 .. n - 1
    <2> DEFINE y == (samples[j].at - event) + FineHalf
    <2>0. /\ samples[j].at - event >= 0 - FineHalf /\ samples[j].at - event < FineHalf
          /\ samples[j].at - event \in Int
      BY <1>3, <1>4
    <2>1. y \in Nat /\ y < 2 * FineHalf /\ y <= y
      <3> DEFINE d == samples[j].at - event
      <3>1. d \in Int /\ d >= 0 - FineHalf /\ d < FineHalf /\ y = d + FineHalf
        BY <2>0
      <3> HIDE DEF d, y
      <3> QED BY <1>1, <3>1
    <2> HIDE DEF y, n
    <2>2. y \div FineWidth \in Nat
      BY <1>1, <2>1, DivUp
    <2> DEFINE q == y \div FineWidth
    <2>3. y = FineWidth * q + (y % FineWidth) /\ y % FineWidth \in Nat
      BY <1>1, <2>1
    <2>4. q \in Nat
      BY <2>2
    <2> HIDE DEF q
    <2>5. FineWidth * q < FineWidth * n
      <3>1. FineWidth * q \in Nat
        BY <1>1, <2>4
      <3> QED BY <1>1, <1>2, <2>1, <2>3, <3>1
    <2>6. q < n
      <3> SUFFICES ASSUME n <= q PROVE FALSE
        BY <1>2, <2>4
      <3>1. q - n \in Nat
        BY <1>2, <2>4
      <3>2. FineWidth * (q - n) >= 0 /\ FineWidth * (q - n) = FineWidth * q - FineWidth * n
        BY <1>1, <1>2, <2>4, <3>1
      <3>3. FineWidth * q \in Nat /\ FineWidth * n \in Nat
        BY <1>1, <1>2, <2>4
      <3> QED BY <2>5, <3>2, <3>3
    <2>7. q \in 0 .. n - 1
      BY <1>2, <2>4, <2>6
    <2> QED BY <2>7 DEF q, y
  <1>5. \A k : B(k) = {j \in DOMAIN samples : samples[j].at \in times /\ place(j) = k}
    <2>1. DOMAIN samples = 1 .. Len(samples)
      OBVIOUS
    <2> TAKE k
    <2>2. B(k) = {j \in 1 .. Len(samples) :
                    LET past == samples[j].at - event
                    IN past >= 0 - FineHalf /\ past < FineHalf
                       /\ (past + FineHalf) \div FineWidth = k}
      <3>1. -FineHalf = 0 - FineHalf
        BY <1>1
      <3> QED BY <3>1 DEF Sink!FineBucket
    <2> HIDE DEF B, times
    <2> QED BY <1>3, <2>1, <2>2
  <1>6. IsFiniteSet(DOMAIN samples)
    <2>1. DOMAIN samples = 1 .. Len(samples) /\ Len(samples) \in Nat
      OBVIOUS
    <2> QED BY <2>1, FS_Interval
  <1> HIDE DEF B, times, place
  <1>7. \A k \in 0 .. n - 1 : IsFiniteSet(B(k))
    BY <1>5, <1>6, FS_Subset
  <1>8. \A k, l \in 0 .. n - 1 : k # l => B(k) \cap B(l) = {}
    BY <1>5
  <1>9. Sink!FineTotal(samples, event, FineWidth) = Cardinality(UNION {B(k) : k \in 0 .. n - 1})
    BY <1>2, <1>7, <1>8, FineTotalIs DEF B
  <1>10. UNION {B(k) : k \in 0 .. n - 1} = SampledAt(samples, times)
    <2> HIDE DEF n
    <2>1. ASSUME NEW j \in SampledAt(samples, times) PROVE j \in UNION {B(k) : k \in 0 .. n - 1}
      <3>1. j \in DOMAIN samples /\ samples[j].at \in times
        BY DEF SampledAt
      <3>2. j \in B(place(j))
        BY <1>5, <3>1
      <3> QED BY <1>4, <3>1, <3>2
    <2>2. \A k : B(k) \subseteq SampledAt(samples, times)
      BY <1>5 DEF SampledAt
    <2> QED BY <2>1, <2>2
  <1> QED BY <1>9, <1>10 DEF times

LEMMA FineWindow ==
  ASSUME SinkAssumptions, NEW b \in Burst, b.origin = BurstOrigin, BurstOrigin \in Nat, NEW a,
         SamplesTold(b, a), NEW event \in Nat, Sink!FineValid(b, event)
  PROVE  Sink!FineTotal(b.fine, event, FineWidth)
           = Cardinality(FromBurstAt(a, event - FineHalf .. event + FineHalf - 1))
  <1> DEFINE times == event - FineHalf .. event + FineHalf - 1
             sent == BurstOrigin + SwapOffset
  <1>1. /\ FineHalf \in Nat /\ Tolerance \in Nat /\ SwapOffset \in Nat /\ sent \in Nat
    BY SinkFacts
  <1>2. ~b.fineOverflow /\ event - sent \in -Tolerance .. Tolerance
    BY DEF Sink!FineValid
  <1>3. times \subseteq Sink!CaptureWindow(BurstOrigin)
    <2>1. \A t \in Int : sent - FineHalf - Tolerance <= t /\ t < sent + FineHalf + Tolerance =>
             t \in Sink!CaptureWindow(BurstOrigin)
      BY <1>1, SinkFacts DEF Sink!CaptureWindow
    <2> HIDE DEF sent
    <2>2. sent - Tolerance <= event /\ event <= sent + Tolerance
      BY <1>1, <1>2
    <2> QED BY <1>1, <2>1, <2>2
  <1>4. Cardinality(SampledAt(b.fine, times)) = Cardinality(FromBurstAt(a, times))
    BY <1>2, <1>3 DEF SamplesTold
  <1>5. b.fine \in Seq(Sample) /\ event \in Int
    BY DEF Burst
  <1> HIDE DEF times
  <1> QED BY <1>4, <1>5, FineBucketsOfWindow DEF times

-----------------------------------------------------------------------------
\* What HotSwapRecorder::record changes.
LEMMA RecordVersionIs ==
  ASSUME NEW w \in Swaps, NEW version \in Names, NEW at \in Nat, w.last \in Nat \/ w.current = "none",
         NEW u, u = Sink!RecordVersion(w, version, at)
  PROVE  /\ u \in Swaps /\ u.current = version /\ u.last = at
         /\ w.current \in {"none", version} => u.pauses = w.pauses /\ u.first_v2 = w.first_v2
         /\ w.current \notin {"none", version} =>
              /\ Len(u.pauses) = Len(w.pauses) + 1 /\ u.pauses # <<>> /\ u.first_v2 = at
              /\ u.pauses[Len(u.pauses)].pause = at - w.last
  <1>1. CASE w.current \in {"none", version}
    <2>1. u = [w EXCEPT !.current = version, !.last = at]
      BY <1>1 DEF Sink!RecordVersion
    <2> QED BY <1>1, <2>1 DEF Swaps
  <1>2. CASE w.current \notin {"none", version}
    <2> DEFINE pause == [from |-> w.current, to |-> version, pause |-> at - w.last]
               Pause == [from : Names, to : Names, pause : Int]
               pauses == Append(w.pauses, pause)
    <2>1. u = [current |-> version, last |-> at, first_v2 |-> at, pauses |-> pauses]
      BY <1>2 DEF Sink!RecordVersion
    <2>2. w.pauses \in Seq(Pause) /\ pause \in Pause /\ pause.pause = at - w.last
      <3>1. w.last \in Nat
        BY <1>2
      <3>2. w.pauses \in Seq(Pause) /\ w.current \in Names
        BY DEF Swaps
      <3>3. at - w.last \in Int
        BY <3>1
      <3> QED BY <3>2, <3>3
    <2> HIDE DEF pause
    <2>3. /\ pauses \in Seq(Pause) /\ Len(pauses) = Len(w.pauses) + 1 /\ pauses # <<>>
          /\ pauses[Len(pauses)] = pause
      <3> HIDE DEF Pause
      <3> QED BY <2>2
    <2> HIDE DEF pauses
    <2> QED BY <1>2, <2>1, <2>2, <2>3 DEF Swaps
  <1> QED BY <1>1, <1>2

LEMMA SwapsStep ==
  ASSUME SinkAssumptions, SinkInv, NEW e, Taken(e)
  PROVE  swaps' \in Swaps /\ SwapsTold(swaps', measured')
  <1> DEFINE a == measured
             c == measured'
             n == Len(a)
             u == swaps'
  <1>1. /\ e \in Arrival /\ c = Append(a, e) /\ a \in Seq(Arrival) /\ e.at = now
        /\ Versions = {} <=> e.version = "none"
        /\ swaps \in Swaps /\ SwapsTold(swaps, a)
        /\ \A i \in DOMAIN a : Versions = {} <=> a[i].version = "none"
    BY DEF Taken, SinkInv, SinkTypes, InOrder
  <1>0. u = IF e.version = "none" THEN swaps ELSE Sink!RecordVersion(swaps, e.version, e.at)
    BY <1>1 DEF Taken
  <1> HIDE DEF a, c, u
  <1>2. /\ n \in Nat /\ DOMAIN a = 1 .. n /\ DOMAIN c = 1 .. n + 1 /\ Len(c) = n + 1 /\ c # <<>>
        /\ \A i \in 1 .. n : c[i] = a[i] /\ a[i] \in Arrival
        /\ c[n + 1] = e /\ (n = 0 <=> a = <<>>)
    BY <1>1, OneMore
  <1> HIDE DEF n
  <1>3. CASE Versions = {}
    <2>1. u = swaps
      BY <1>0, <1>1, <1>3
    <2> QED BY <1>1, <1>3, <2>1 DEF SwapsTold, u
  <1>4. CASE Versions # {}
    <2>1. u = Sink!RecordVersion(swaps, e.version, e.at) /\ e.version # "none"
      BY <1>0, <1>1, <1>4
    <2>2. e.version \in Names /\ e.at \in Nat
      BY <1>1 DEF Arrival
    <2>3. a = <<>> => swaps.current = "none" /\ swaps.pauses = <<>>
      BY <1>1 DEF SwapsTold, Sink!NewSwaps
    <2>4. a # <<>> => /\ n \in 1 .. n /\ swaps.current = a[n].version /\ swaps.last = a[n].at
                      /\ a[n].version # "none" /\ a[n].at \in Nat
      <3> SUFFICES ASSUME a # <<>> PROVE /\ n \in 1 .. n /\ swaps.current = a[n].version /\ swaps.last = a[n].at
                      /\ a[n].version # "none" /\ a[n].at \in Nat
        OBVIOUS
      <3>1. n \in 1 .. n
        BY <1>2
      <3>2. a[n] \in Arrival
        BY <1>2, <3>1
      <3>3. swaps.current = a[n].version /\ swaps.last = a[n].at
        BY <1>1, <1>4 DEF SwapsTold, n
      <3> QED BY <1>1, <1>2, <1>4, <3>1, <3>2, <3>3 DEF Arrival
    <2>5. /\ u \in Swaps /\ u.current = e.version /\ u.last = e.at
          /\ swaps.current \in {"none", e.version} => u.pauses = swaps.pauses /\ u.first_v2 = swaps.first_v2
          /\ swaps.current \notin {"none", e.version} =>
               /\ Len(u.pauses) = Len(swaps.pauses) + 1 /\ u.pauses # <<>> /\ u.first_v2 = e.at
               /\ u.pauses[Len(u.pauses)].pause = e.at - swaps.last
      <3>1. swaps.last \in Nat \/ swaps.current = "none"
        BY <2>3, <2>4
      <3> QED BY <1>1, <2>1, <2>2, <3>1, RecordVersionIs
    <2>6. OneMoreIn(Turns(a), Turns(c), n > 0 /\ e.version # a[n].version)
      <3>1. AllGrow(a, e, c)
        BY <1>1, SetsGrow
      <3> QED BY <3>1 DEF AllGrow, n
    <2>7. \A i \in 2 .. n : i \in 2 .. n + 1 /\ c[i] = a[i] /\ c[i - 1] = a[i - 1] /\ i <= n + 1
      <3> TAKE i \in 2 .. n
      <3>1. i \in 1 .. n /\ i - 1 \in 1 .. n /\ i \in 2 .. n + 1 /\ i <= n + 1
        BY <1>2
      <3> QED BY <1>2, <3>1
    <2>8. \A i \in 2 .. n + 1 : i \in 2 .. n \/ i = n + 1
      BY <1>2
    <2>9. /\ Turns(a) = {i \in 2 .. n : a[i].version # a[i - 1].version}
          /\ Turns(c) = {i \in 2 .. n + 1 : c[i].version # c[i - 1].version}
      BY <1>2 DEF Turns, n
    <2> DEFINE Right == /\ Len(u.pauses) = Cardinality(Turns(c))
                        /\ u.pauses # <<>> =>
                             \E i \in Turns(c) :
                               /\ \A j \in Turns(c) : j <= i
                               /\ u.pauses[Len(u.pauses)].pause = c[i].at - c[i - 1].at
                               /\ u.first_v2 = c[i].at
    <2>10. CASE a = <<>>
      <3>1. n = 0 /\ u.pauses = <<>> /\ Turns(a) = {}
        BY <1>1, <1>2, <2>3, <2>5, <2>10, NoArrivals
      <3>2. Cardinality(Turns(c)) = 0
        BY <2>6, <3>1, FS_EmptySet DEF OneMoreIn
      <3>3. Right
        BY <3>1, <3>2
      <3> QED BY <1>2, <1>4, <2>5, <3>1, <3>3 DEF SwapsTold, c, u
    <2>11. CASE a # <<>>
      <3>0. /\ Len(swaps.pauses) = Cardinality(Turns(a))
            /\ swaps.pauses # <<>> =>
                 \E i \in Turns(a) :
                   /\ \A j \in Turns(a) : j <= i
                   /\ swaps.pauses[Len(swaps.pauses)].pause = a[i].at - a[i - 1].at
                   /\ swaps.first_v2 = a[i].at
        BY <1>1, <1>4, <2>11 DEF SwapsTold
      <3>1. CASE e.version = a[n].version
        <4>1. u.pauses = swaps.pauses /\ u.first_v2 = swaps.first_v2
          BY <2>4, <2>5, <2>11, <3>1
        <4>2. Cardinality(Turns(c)) = Cardinality(Turns(a))
          BY <2>6, <3>1 DEF OneMoreIn
        <4>3. Turns(c) = Turns(a)
          <5>1. n > 0 => (n + 1) - 1 = n /\ c[n] = a[n]
            BY <1>2, <2>4, <2>11
          <5>2. n + 1 \in 2 .. n + 1 => n > 0
            BY <1>2
          <5>3. n + 1 \notin Turns(c)
            BY <1>2, <2>9, <3>1, <5>1, <5>2
          <5> QED BY <2>7, <2>8, <2>9, <5>3
        <4>4. \A i \in Turns(a) : c[i] = a[i] /\ c[i - 1] = a[i - 1]
          BY <2>7, <2>9
        <4>5. Right
          BY <3>0, <4>1, <4>2, <4>3, <4>4
        <4> QED BY <1>2, <1>4, <2>5, <4>5 DEF SwapsTold, c, u
      <3>2. CASE e.version # a[n].version
        <4>1. /\ Len(u.pauses) = Len(swaps.pauses) + 1 /\ u.pauses # <<>> /\ u.first_v2 = e.at
              /\ u.pauses[Len(u.pauses)].pause = e.at - a[n].at
          BY <2>4, <2>5, <2>11, <3>2
        <4>2. Cardinality(Turns(c)) = Cardinality(Turns(a)) + 1
          <5>1. n > 0
            BY <1>2, <2>11
          <5> QED BY <2>6, <3>2, <5>1 DEF OneMoreIn
        <4>3. n + 1 \in Turns(c) /\ c[n + 1] = e /\ c[(n + 1) - 1] = a[n]
          <5>1. (n + 1) - 1 = n /\ c[n] = a[n] /\ n + 1 \in 2 .. n + 1
            BY <1>2, <2>4, <2>11
          <5> QED BY <1>2, <2>9, <3>2, <5>1
        <4>4. \A j \in Turns(c) : j <= n + 1
          BY <1>2, <2>9
        <4>5. Right
          <5>1. Len(u.pauses) = Cardinality(Turns(c))
            BY <3>0, <4>1, <4>2
          <5> QED BY <4>1, <4>3, <4>4, <5>1
        <4> QED BY <1>2, <1>4, <2>5, <4>5 DEF SwapsTold, c, u
      <3> QED BY <3>1, <3>2
    <2> QED BY <2>10, <2>11
  <1> QED BY <1>3, <1>4

LEMMA MaxIs ==
  ASSUME NEW T \in SUBSET Int, NEW i \in T, \A j \in T : j <= i
  PROVE  Sink!Max(T) = i
  <1> DEFINE m == CHOOSE x \in T : \A y \in T : x >= y
  <1>1. \E x \in T : \A y \in T : x >= y
    OBVIOUS
  <1>2. m \in T /\ \A y \in T : m >= y
    BY <1>1, Zenon
  <1>3. Sink!Max(T) = m
    BY DEF Sink!Max
  <1> HIDE DEF m
  <1>4. m \in Int /\ m >= i /\ m <= i
    BY <1>2
  <1> QED BY <1>3, <1>4

LEMMA PausesExact == ASSUME SinkAssumptions, SinkInv PROVE Sink!PauseExact
  <1> DEFINE a == measured
             n == Len(swaps.pauses)
             turns == {i \in 2 .. Len(a) : a[i].version # a[i - 1].version}
  <1>1. a \in Seq(Arrival) /\ swaps \in Swaps /\ SwapsTold(swaps, a)
    BY DEF SinkInv, SinkTypes
  <1>2. turns = Turns(a) /\ turns \in SUBSET Int
    BY DEF Turns
  <1> HIDE DEF a, turns
  <1>3. ASSUME n # 0
        PROVE  LET i == Sink!Max(turns) IN
               /\ Sink!Cardinality(turns) = n
               /\ swaps.pauses[n].pause = a[i].at - a[i - 1].at
               /\ Sink!LastV1(swaps) = a[i - 1].at
               /\ swaps.first_v2 = a[i].at
    <2>1. swaps.pauses # <<>>
      BY <1>3
    <2>2. a # <<>> /\ Versions # {}
      <3>1. Sink!NewSwaps.pauses = <<>>
        BY DEF Sink!NewSwaps
      <3> QED BY <1>1, <2>1, <3>1 DEF SwapsTold
    <2>3. /\ n = Cardinality(Turns(a))
          /\ \E i \in Turns(a) :
               /\ \A j \in Turns(a) : j <= i
               /\ swaps.pauses[n].pause = a[i].at - a[i - 1].at
               /\ swaps.first_v2 = a[i].at
      BY <1>1, <2>1, <2>2 DEF SwapsTold
    <2>4. PICK i \in turns :
               /\ \A j \in turns : j <= i
               /\ swaps.pauses[n].pause = a[i].at - a[i - 1].at
               /\ swaps.first_v2 = a[i].at
      BY <1>2, <2>3
    <2>5. Sink!Max(turns) = i
      BY <1>2, <2>4, MaxIs
    <2>6. a[i].at \in Nat /\ a[i - 1].at \in Nat
      <3>1. i \in DOMAIN a /\ i - 1 \in DOMAIN a
        BY <1>1 DEF turns
      <3>2. a[i] \in Arrival /\ a[i - 1] \in Arrival
        BY <1>1, <3>1
      <3> QED BY <3>2 DEF Arrival
    <2>7. Sink!LastV1(swaps) = swaps.first_v2 - swaps.pauses[n].pause
      BY <2>1 DEF Sink!LastV1, Sink!Last
    <2>8. Sink!LastV1(swaps) = a[i - 1].at
      BY <2>4, <2>6, <2>7
    <2>9. Sink!Cardinality(turns) = n
      BY <1>2, <2>3, SinkCounts
    <2> QED BY <2>4, <2>5, <2>8, <2>9
  <1> HIDE DEF n
  <1>4. \A k \in {n} \ {0} :
           LET i == Sink!Max(turns) IN
               /\ Sink!Cardinality(turns) = k
               /\ swaps.pauses[k].pause = a[i].at - a[i - 1].at
               /\ Sink!LastV1(swaps) = a[i - 1].at
               /\ swaps.first_v2 = a[i].at
    BY <1>3
  <1> QED BY <1>4 DEF Sink!PauseExact, a, n, turns

LEMMA BurstCounted == ASSUME SinkAssumptions, SinkInv PROVE Sink!BurstAccounted
  <1> DEFINE a == measured
  <1>1. a \in Seq(Arrival) /\ burst \in Burst /\ BucketsTold(burst, a)
    BY DEF SinkInv, SinkTypes, BurstTold
  <1>2. /\ Len(burst.primary) = Cardinality(FromBurstIn(a, 0 .. PrimaryEnd - 1))
        /\ Len(burst.drain) = Cardinality(FromBurstIn(a, PrimaryEnd .. DrainEnd - 1))
        /\ Len(burst.after) = Cardinality(FromBurst(a)) - Len(burst.primary) - Len(burst.drain)
        /\ burst.mismatches = 0
    BY <1>1 DEF BucketsTold
  <1> DEFINE stamped == {i \in 1 .. Len(measured) : measured[i].origin # Sink!None}
             first == {i \in stamped : measured[i].at - measured[i].origin \in 0 .. PrimaryEnd - 1}
             second == {i \in stamped : measured[i].at - measured[i].origin \in PrimaryEnd .. DrainEnd - 1}
  <1>3. Sink!None = None /\ DOMAIN measured = 1 .. Len(measured)
    BY <1>1, SinkFacts
  <1>4. stamped = FromBurst(a)
    BY <1>3 DEF FromBurst
  <1>5. /\ first = FromBurstIn(a, 0 .. PrimaryEnd - 1)
        /\ second = FromBurstIn(a, PrimaryEnd .. DrainEnd - 1)
    <2> HIDE DEF stamped
    <2> QED BY <1>4 DEF FromBurstIn, Offset
  <1>6. /\ Len(burst.primary) = Sink!Cardinality(first)
        /\ Len(burst.drain) = Sink!Cardinality(second)
        /\ Len(burst.after) = Sink!Cardinality(stamped) - Len(burst.primary) - Len(burst.drain)
        /\ burst.mismatches = 0
    <2> HIDE DEF first, second, stamped, a
    <2> QED BY <1>2, <1>4, <1>5, SinkCounts
  <1> QED BY <1>6, Zenon DEF Sink!BurstAccounted, Sink!Indices

LEMMA LogShort ==
  ASSUME NEW m, Numbered(m)
  PROVE  Sink!LogOf(m) \in Seq(Nat) /\ Len(Sink!LogOf(m)) <= Len(m)
  <1>1. Len(m) \in Nat
    BY DEF Numbered
  <1>2. PICK f \in [0 .. Len(m) -> Seq(Nat)] : IsLog(m, f) /\ Sink!LogOf(m) = f[Len(m)]
    BY LogIs
  <1> DEFINE G == {i \in Nat : i <= Len(m) => Len(f[i]) <= i}
  <1>3. 0 \in G
    BY <1>2 DEF IsLog
  <1>4. ASSUME NEW i \in Nat, i \in G PROVE i + 1 \in G
    <2> SUFFICES ASSUME i + 1 <= Len(m) PROVE Len(f[i + 1]) <= i + 1
      OBVIOUS
    <2>1. i + 1 \in 1 .. Len(m) /\ (i + 1) - 1 = i /\ i \in 0 .. Len(m) /\ Len(f[i]) <= i
      BY <1>1, <1>4
    <2>2. f[i] \in Seq(Nat) /\ Len(f[i]) \in Nat
      BY <1>2, <2>1
    <2>3. f[i + 1] = IF m[i + 1].stamped THEN Append(f[i], m[i + 1].seq) ELSE f[i]
      BY <1>2, <2>1 DEF IsLog
    <2>4. Len(Append(f[i], m[i + 1].seq)) = Len(f[i]) + 1
      <3>1. m[i + 1].stamped => m[i + 1].seq \in Nat
        BY <2>1 DEF Numbered
      <3> QED BY <2>2
    <2> QED BY <2>1, <2>2, <2>3, <2>4
  <1> HIDE DEF G
  <1>5. Nat \subseteq G
    BY <1>3, <1>4, Everywhere
  <1>6. Len(m) \in G /\ Len(m) \in 0 .. Len(m)
    BY <1>1, <1>5
  <1>7. Len(f[Len(m)]) <= Len(m)
    BY <1>6 DEF G
  <1> QED BY <1>2, <1>6, <1>7

LEMMA SinkNumbers == SinkInv => Numbered(measured)
  BY DEF SinkInv, SinkTypes, InOrder, Numbered

LEMMA NumbersExact == ASSUME SinkAssumptions, SinkInv PROVE Sink!SequenceExact
  <1> DEFINE log == Sink!LogOf(measured)
  <1>1. log \in Seq(Nat)
    BY SinkNumbers, LogShort
  <1>2. SUFFICES ASSUME anchored PROVE Sink!TrackerExact(tracker, log) /\ Sink!RangesExact(tracker, log)
    BY DEF Sink!SequenceExact, Sink!SeqLog
  <1>3. /\ tracker \in Tracker /\ tracker.max_examples = 0 /\ tracker.end = Total
        /\ TrackerFits(tracker, log)
    BY <1>2 DEF SinkInv, SinkTypes, TrackerTold
  <1>4. TrackerAssumption /\ Total # None
    BY SinkFacts
  <1> HIDE DEF log
  <1>5. TrackerExact(tracker, log) /\ Sink!RangesExact(tracker, log)
    BY <1>1, <1>3, <1>4, FitsIsExact, GapsCounted
  <1> QED BY <1>5, SameTracker

LEMMA SinkBounds == ASSUME SinkAssumptions, SinkInv PROVE Sink!SinkTypeOK
  <1>1. tracker.received <= Len(measured)
    <2>0. Len(measured) \in Nat
      BY DEF SinkInv, SinkTypes
    <2>1. CASE anchored
      <3>1. tracker.received = Len(Sink!LogOf(measured))
        BY <2>1 DEF SinkInv, TrackerTold, TrackerFits
      <3> QED BY <3>1, SinkNumbers, LogShort
    <2>2. CASE ~anchored
      <3>1. tracker = Sink!Unanchored(0)
        BY <2>2 DEF SinkInv, TrackerTold
      <3>2. Sink!Unanchored(0).received = 0
        BY DEF Sink!Unanchored, Sink!NewTracker
      <3> QED BY <2>0, <3>1, <3>2
    <2> QED BY <2>1, <2>2
  <1>2. now \in 0 .. MaxTime /\ Len(intervals.rows) <= intervals.maximum
    BY DEF SinkInv, SinkTypes
  <1>3. Len(burst.fine) <= FineCapacity
    BY DEF SinkInv, BurstTold, SamplesTold
  <1> QED BY <1>1, <1>2, <1>3 DEF Sink!SinkTypeOK

-----------------------------------------------------------------------------
\* close().
LEMMA CloseWrites ==
  ASSUME SinkInv, Sink!Close
  PROVE  /\ artifacts = <<>> /\ artifacts' # <<>>
         /\ UNCHANGED <<now, tracker, anchored, start, burst, latencies, swaps, measured>>
         /\ grid' = Sink!FinishGrid(grid)
         /\ intervals' = Sink!FinalizeIntervals(intervals,
                IF intervals.origin # Sink!None \/ start = Sink!None
                THEN MeasurementSecs * Sec ELSE now - start)
         /\ artifacts'[2] \in Sink!ReceiptTimes
         /\ artifacts'[1]["interval-latency.json"] = "written"
               => Sink!IntervalsValid(intervals', latencies)
         /\ artifacts'[1]["throughput-buckets-10ms.json"] = "written"
               => burst.origin # Sink!None /\ Sink!FineValid(burst, artifacts'[2])
  <1> DEFINE final == Sink!FinalizeIntervals(intervals,
                IF intervals.origin # Sink!None \/ start = Sink!None
                THEN MeasurementSecs * Sec ELSE now - start)
             grain == "throughput-buckets-10ms.json"
             rows == "interval-latency.json"
             present(x) == CASE x = "swap_timeline.json" -> swaps.pauses # <<>>
                             [] x = grain -> burst.origin # Sink!None
                             [] OTHER -> TRUE
             valid(x, ev) == CASE x = rows -> Sink!IntervalsValid(final, latencies)
                               [] x = grain -> Sink!FineValid(burst, ev)
                               [] OTHER -> TRUE
  <1>1. PICK broken \in {{}} \cup {{x} : x \in Sink!Artifact}, event \in Sink!ReceiptTimes :
           artifacts' = <<[x \in Sink!Artifact |->
                             Sink!Outcome(present(x), valid(x, event), x \notin broken)], event>>
    BY DEF Sink!Close
  <1>2. rows \in Sink!Artifact /\ grain \in Sink!Artifact
    BY DEF Sink!Artifact
  <1> HIDE DEF present, valid
  <1>3. /\ artifacts'[1][rows] = Sink!Outcome(present(rows), valid(rows, event), rows \notin broken)
        /\ artifacts'[1][grain] = Sink!Outcome(present(grain), valid(grain, event), grain \notin broken)
        /\ artifacts'[2] = event /\ artifacts' # <<>>
    BY <1>1, <1>2
  <1>4. \A p, v, d : Sink!Outcome(p, v, d) = "written" => p /\ v
    BY DEF Sink!Outcome
  <1>5. /\ valid(rows, event) = Sink!IntervalsValid(final, latencies)
        /\ valid(grain, event) = Sink!FineValid(burst, event)
        /\ present(grain) = (burst.origin # Sink!None)
    BY DEF valid, present
  <1>6. /\ artifacts = <<>>
        /\ UNCHANGED <<now, tracker, anchored, start, burst, latencies, swaps, measured>>
        /\ grid' = Sink!FinishGrid(grid)
        /\ intervals' = Sink!FinalizeIntervals(intervals,
                IF intervals.origin # Sink!None \/ start = Sink!None
                THEN MeasurementSecs * Sec ELSE now - start)
    BY DEF Sink!Close
  <1>7. artifacts'[1][rows] = "written" => Sink!IntervalsValid(intervals', latencies)
    <2>1. Sink!Outcome(present(rows), valid(rows, event), rows \notin broken) = "written"
             => valid(rows, event)
      BY <1>4
    <2>2. intervals' = final
      BY <1>6
    <2> HIDE DEF final
    <2> QED BY <1>3, <1>5, <2>1, <2>2
  <1>8. artifacts'[1][grain] = "written"
               => burst.origin # Sink!None /\ Sink!FineValid(burst, artifacts'[2])
    <2>1. Sink!Outcome(present(grain), valid(grain, event), grain \notin broken) = "written"
             => present(grain) /\ valid(grain, event)
      BY <1>4
    <2> QED BY <1>3, <1>5, <2>1
  <1> QED BY <1>1, <1>3, <1>6, <1>7, <1>8

LEMMA CloseGrid ==
  ASSUME SinkAssumptions, SinkInv, Sink!Close
  PROVE  grid' \in Grid /\ Sink!GridExact'
  <1>1. /\ artifacts = <<>> /\ grid' = Sink!FinishGrid(grid) /\ measured' = measured /\ start' = start
    BY CloseWrites
  <1>2. /\ grid \in Grid /\ measured \in Seq(Arrival) /\ GridTold(grid, measured, start)
        /\ start \in Int
    BY <1>1, SinkFacts DEF SinkInv, SinkTypes, Grid
  <1> DEFINE u == grid'
             a == measured
             s == start
  <1>3. /\ u \in Grid
        /\ \A k \in 1 .. Len(u.samples) : u.samples[k] = Cardinality(ArrivedIn(a, s, k - 1))
        /\ \A i \in DOMAIN a : (a[i].at - s) \div Sec < Len(u.samples)
    BY <1>1, <1>2, GridEnds
  <1>4. DOMAIN a = 1 .. Len(a)
    BY <1>2
  <1>5. \A k \in 1 .. Len(u.samples) :
           u.samples[k] = Sink!Cardinality({i \in 1 .. Len(a) : (a[i].at - s) \div Sec = k - 1})
    <2> HIDE DEF u, a, s
    <2> QED BY <1>3, <1>4, SinkCounts DEF ArrivedIn
  <1>6. \A i \in 1 .. Len(a) : (a[i].at - s) \div Sec < Len(u.samples)
    BY <1>3, <1>4
  <1> QED BY <1>1, <1>3, <1>5, <1>6 DEF Sink!GridExact, Sink!Indices

LEMMA CloseIntervals ==
  ASSUME SinkAssumptions, SinkInv, Sink!Close
  PROVE  /\ intervals' \in Intervals /\ Len(intervals'.rows) <= intervals'.maximum
         /\ Sink!IntervalsComplete' /\ Sink!IntervalsRefusedForCause'
  <1> DEFINE u == intervals'
             a == measured
             declared == intervals.origin # None \/ start = None
             elapsed == IF declared THEN MeasurementSecs * Sec ELSE now - start
  <1>1. /\ Sec \in Nat \ {0} /\ MeasurementSecs \in Nat \ {0} /\ Sink!None = None
    BY SinkFacts
  <1>2. /\ artifacts = <<>>
        /\ now' = now /\ start' = start /\ measured' = measured /\ latencies' = latencies
        /\ u = Sink!FinalizeIntervals(intervals, elapsed)
        /\ artifacts'[1]["interval-latency.json"] = "written" => Sink!IntervalsValid(u, latencies)
    BY <1>1, CloseWrites
  <1>3. /\ a \in Seq(Arrival) /\ IntervalsFit(intervals, a)
        /\ latencies = Cardinality(WithStamps(a)) /\ InOrder(a, start, now)
        /\ now \in Nat /\ start \in Nat \cup {None}
    BY <1>2, SinkFacts DEF SinkInv, SinkTypes, IntervalsFit
  <1>4. MeasurementSecs * Sec \in Nat \ {0}
    BY <1>1
  <1>5. elapsed \in Nat /\ (elapsed = 0 => ~declared /\ now = start)
    <2>1. CASE declared
      BY <1>4, <2>1
    <2>2. CASE ~declared
      <3>1. start \in Nat /\ a # <<>>
        BY <1>3, <2>2 DEF InOrder
      <3>2. start <= now
        <4>1. 1 \in DOMAIN a /\ a[1] \in Arrival
          BY <1>3, <3>1
        <4>2. a[1].at <= now /\ start = a[1].at
          BY <1>3, <3>1, <4>1 DEF InOrder
        <4> QED BY <4>2
      <3> HIDE DEF declared
      <3> QED BY <1>3, <2>2, <3>1, <3>2
    <2> QED BY <2>1, <2>2
  <1> HIDE DEF u, declared, elapsed
  <1>6. Ended(u, intervals, a, elapsed)
    BY <1>1, <1>2, <1>3, <1>5, IntervalsEnd
  <1>7. /\ u \in Intervals /\ Len(u.rows) <= u.maximum
        /\ u.origin = intervals.origin /\ u.maximum = MeasurementSecs + 2
        /\ u.overflowed => Disorder(u, a) \/ elapsed > u.maximum * Sec
        /\ ~u.overflowed /\ elapsed > 0 =>
             /\ Sink!RowSum(u, "events") = Len(a)
             /\ Sink!RowSum(u, "latencies") = Cardinality(WithStamps(a))
             /\ \A k \in 1 .. Len(u.rows) :
                  /\ RowTold(u.rows[k], a, k)
                  /\ k > 1 => u.rows[k - 1].end = u.rows[k].start
    BY <1>6 DEF Ended, Intervals
  <1>8. DOMAIN a = 1 .. Len(a)
    BY <1>3
  <1>9. Sink!IntervalsComplete'
    <2>1. SUFFICES ASSUME artifacts'[1]["interval-latency.json"] = "written",
                          u.origin = None => now # start
                   PROVE  /\ Sink!RowSum(u, "events") = Len(a)
                          /\ \A k \in 1 .. Len(u.rows) :
                               LET row == u.rows[k]
                                   mine == {i \in 1 .. Len(a) : a[i].elapsed \div Sec = k - 1}
                               IN /\ row.start = (k - 1) * Sec
                                  /\ k > 1 => u.rows[k - 1].end = row.start
                                  /\ row.counts.events = Sink!Cardinality(mine)
                                  /\ row.counts.unique + row.counts.duplicates = row.counts.events
      <3> HIDE DEF a
      <3> QED BY <1>1, <1>2, Zenon DEF Sink!IntervalsComplete, Sink!Indices, Sink!Wrote, a, u
    <2>2. ~u.overflowed
      BY <1>2, <2>1 DEF Sink!IntervalsValid
    <2>3. elapsed > 0
      BY <1>5, <1>7, <2>1 DEF declared
    <2>4. ASSUME NEW k \in 1 .. Len(u.rows)
          PROVE  LET row == u.rows[k]
                     mine == {i \in 1 .. Len(a) : a[i].elapsed \div Sec = k - 1}
                 IN /\ row.start = (k - 1) * Sec
                    /\ k > 1 => u.rows[k - 1].end = row.start
                    /\ row.counts.events = Sink!Cardinality(mine)
                    /\ row.counts.unique + row.counts.duplicates = row.counts.events
      <3>1. RowTold(u.rows[k], a, k) /\ (k > 1 => u.rows[k - 1].end = u.rows[k].start)
        BY <1>7, <2>2, <2>3
      <3>2. {i \in 1 .. Len(a) : a[i].elapsed \div Sec = k - 1} = InSecond(a, k - 1)
        BY <1>8 DEF InSecond, Second
      <3> HIDE DEF a
      <3> QED BY <3>1, <3>2, SinkCounts DEF RowTold, TallyOf
    <2> QED BY <1>7, <2>2, <2>3, <2>4
  <1>10. Sink!IntervalsRefusedForCause'
    <2> DEFINE Cause ==
                 \/ Sink!IntervalsValid(u, latencies)
                 \/ \E i, j \in 1 .. Len(a) :
                       i < j /\ a[j].elapsed \div Sec < a[i].elapsed \div Sec
                 \/ \E i \in 1 .. Len(a) : a[i].elapsed \div Sec >= u.maximum
                 \/ u.origin = None /\ (now - start) \notin 1 .. u.maximum * Sec
    <2>1. SUFFICES Cause
      <3> HIDE DEF a
      <3> QED BY <1>1, <1>2, Zenon DEF Sink!IntervalsRefusedForCause, a, u
    <2>2. CASE u.overflowed /\ Disorder(u, a)
      BY <1>8, <2>2 DEF Disorder, Second
    <2>3. CASE elapsed > u.maximum * Sec
      <3>1. ~declared
        <4> DEFINE w == MeasurementSecs * Sec
                   x == (MeasurementSecs + 2) * Sec
        <4>1. w \in Nat /\ x = w + 2 * Sec
          BY <1>1
        <4>2. declared => elapsed = w
          BY DEF elapsed
        <4>3. elapsed > x
          BY <1>7, <2>3
        <4> HIDE DEF w, x
        <4> QED BY <1>1, <4>1, <4>2, <4>3
      <3>2. u.origin = None /\ elapsed = now - start
        BY <1>7, <3>1 DEF declared, elapsed
      <3>3. u.maximum * Sec \in Nat
        BY <1>1, <1>7
      <3>4. ~(elapsed <= u.maximum * Sec)
        BY <1>5, <2>3, <3>3
      <3>5. (now - start) \notin 1 .. u.maximum * Sec
        BY <3>2, <3>4
      <3> QED BY <3>2, <3>5
    <2>4. CASE elapsed = 0
      <3>1. u.origin = None /\ now - start = 0
        BY <1>3, <1>5, <1>7, <2>4 DEF declared
      <3>2. 0 \notin 1 .. u.maximum * Sec
        BY <1>1, <1>7
      <3> QED BY <3>1, <3>2
    <2>5. CASE ~u.overflowed /\ elapsed > 0
      BY <1>3, <1>7, <2>5 DEF Sink!IntervalsValid
    <2> HIDE DEF Cause
    <2> QED BY <1>5, <1>7, <2>2, <2>3, <2>4, <2>5
  <1> QED BY <1>7, <1>9, <1>10 DEF u

LEMMA CloseFine ==
  ASSUME SinkAssumptions, SinkInv, Sink!Close
  PROVE  Sink!FineWindowComplete'
  <1> DEFINE event == artifacts'[2]
             times == event - FineHalf .. event + FineHalf - 1
  <1>1. /\ now' = now /\ burst' = burst /\ measured' = measured /\ event \in Sink!ReceiptTimes
        /\ artifacts'[1]["throughput-buckets-10ms.json"] = "written"
               => burst.origin # Sink!None /\ Sink!FineValid(burst, event)
    BY CloseWrites
  <1>2. /\ Sink!None = None /\ FineHalf \in Nat /\ BurstOrigin \in Nat \cup {None}
    BY SinkFacts
  <1>3. /\ measured \in Seq(Arrival) /\ burst \in Burst /\ BurstTold(burst, measured) /\ now \in Nat
    BY SinkFacts DEF SinkInv, SinkTypes
  <1> HIDE DEF event
  <1>4. SUFFICES ASSUME burst.origin # None, Sink!FineValid(burst, event)
                 PROVE  Sink!FineTotal(burst.fine, event, FineWidth)
                          = Sink!Cardinality({i \in 1 .. Len(measured) :
                               measured[i].origin # None
                               /\ measured[i].at - event \in -FineHalf .. FineHalf - 1})
    BY <1>1, <1>2, Zenon DEF Sink!FineWindowComplete, Sink!Indices, Sink!Wrote, event
  <1>5. event \in Nat
    <2>1. Sink!ReceiptTimes = 0 .. now
      BY <1>2, <1>4 DEF Sink!ReceiptTimes
    <2> QED BY <1>1, <1>3, <2>1
  <1>6. burst.origin = BurstOrigin /\ BurstOrigin \in Nat /\ SamplesTold(burst, measured)
    BY <1>2, <1>3, <1>4 DEF BurstTold
  <1>7. Sink!FineTotal(burst.fine, event, FineWidth) = Cardinality(FromBurstAt(measured, times))
    BY <1>3, <1>4, <1>5, <1>6, FineWindow
  <1>8. {i \in 1 .. Len(measured) : measured[i].origin # None
                               /\ measured[i].at - event \in -FineHalf .. FineHalf - 1}
        = FromBurstAt(measured, times)
    <2>1. ASSUME NEW i \in 1 .. Len(measured)
          PROVE  measured[i].at - event \in -FineHalf .. FineHalf - 1 <=> measured[i].at \in times
      <3>1. measured[i] \in Arrival
        BY <1>3
      <3>2. measured[i].at \in Nat
        BY <3>1 DEF Arrival
      <3> QED BY <1>2, <1>5, <3>2
    <2>2. DOMAIN measured = 1 .. Len(measured)
      BY <1>3
    <2> HIDE DEF times
    <2> QED BY <2>1, <2>2 DEF FromBurstAt, FromBurst
  <1> HIDE DEF times
  <1> QED BY <1>7, <1>8, SinkCounts

-----------------------------------------------------------------------------
LEMMA SinkInitial == ASSUME SinkAssumptions, Sink!Init PROVE SinkInv
  <1> DEFINE a == measured
  <1>1. /\ now = 0 /\ start = None /\ anchored = FALSE /\ latencies = 0 /\ a = <<>>
        /\ tracker = Sink!Unanchored(0) /\ grid = Sink!NewGrid /\ intervals = Sink!NewIntervals(None)
        /\ burst = Sink!NewBurst(None) /\ swaps = Sink!NewSwaps /\ artifacts = <<>>
    BY SinkFacts DEF Sink!Init
  <1>2. /\ MaxTime \in Nat /\ MeasurementSecs \in Nat /\ FineCapacity \in Nat
    BY SinkFacts
  <1>3. /\ DOMAIN a = {} /\ Len(a) = 0 /\ Cardinality({}) = 0
        /\ \A s, k : ArrivedIn(a, s, k) = {}
        /\ FromBurst(a) = {} /\ WithStamps(a) = {} /\ Turns(a) = {}
        /\ \A zone : FromBurstIn(a, zone) = {} /\ FromBurstAt(a, zone) = {}
    BY <1>1, NoArrivals
  <1>4. a \in Seq(Arrival)
    <2>1. \A S : <<>> \in Seq(S)
      OBVIOUS
    <2> QED BY <1>1, <2>1
  <1> HIDE DEF a
  <1>5. InOrder(a, start, now)
    BY <1>1, <1>3 DEF InOrder
  <1>6. tracker \in Tracker /\ TrackerTold(tracker, anchored, a)
    <2>1. Sink!Unanchored(0) \in Tracker
      <3> DEFINE empty == <<>>
                 none == Sink!None
      <3>1. Sink!Unanchored(0)
              = [start |-> none, end |-> none, seen |-> {}, highest |-> none, received |-> 0,
                 unique |-> 0, duplicates |-> 0, out_of_order |-> 0, out_of_range |-> 0,
                 examples |-> empty, max_examples |-> 0, truncated |-> FALSE]
        <4> DEFINE new == Sink!NewTracker(0)
        <4>1. new = [start |-> 0, end |-> none, seen |-> {}, highest |-> none, received |-> 0,
                     unique |-> 0, duplicates |-> 0, out_of_order |-> 0, out_of_range |-> 0,
                     examples |-> empty, max_examples |-> 0, truncated |-> FALSE]
          BY DEF Sink!NewTracker
        <4>2. Sink!Unanchored(0) = [new EXCEPT !.start = none]
          BY DEF Sink!Unanchored
        <4> HIDE DEF new, none, empty
        <4> QED BY <4>1, <4>2
      <3>2. empty \in Seq(Nat) /\ none = None
        BY SinkFacts
      <3> HIDE DEF empty, none
      <3>3. \A r \in Seq(Nat), h \in Nat \cup {None} :
              [start |-> h, end |-> h, seen |-> {}, highest |-> h, received |-> 0,
               unique |-> 0, duplicates |-> 0, out_of_order |-> 0, out_of_range |-> 0,
               examples |-> r, max_examples |-> 0, truncated |-> FALSE] \in Tracker
        BY DEF Tracker
      <3> QED BY <3>1, <3>2, <3>3
    <2>2. Sink!Unanchored(0).max_examples = 0
      BY DEF Sink!Unanchored, Sink!NewTracker
    <2> QED BY <1>1, <1>3, <2>1, <2>2 DEF TrackerTold
  <1>7. grid \in [samples : Seq(Nat), count : Nat] /\ GridTold(grid, a, start) /\ Len(grid.samples) = 0
    <2>1. grid = [samples |-> <<>>, count |-> 0]
      BY <1>1 DEF Sink!NewGrid
    <2>2. grid \in [samples : Seq(Nat), count : Nat]
      <3> DEFINE empty == <<>>
      <3>1. empty \in Seq(Nat) /\ grid = [samples |-> empty, count |-> 0]
        BY <2>1
      <3> HIDE DEF empty
      <3> QED BY <3>1
    <2>3. Len(grid.samples) = 0 /\ grid.count = 0
      BY <2>1
    <2>4. \A k : ArrivedIn(a, start, k) = {}
      BY <1>3
    <2>5. GridTold(grid, a, start)
      <3> DEFINE n == Len(grid.samples)
      <3>1. n = 0 /\ Cardinality(ArrivedIn(a, start, n)) = 0
        BY <1>3, <2>3, <2>4
      <3>2. \A k \in 1 .. n : FALSE
        <4> HIDE DEF n
        <4> QED BY <3>1
      <3>3. \A k \in 1 .. n : grid.samples[k] = Cardinality(ArrivedIn(a, start, k - 1))
        BY <3>2
      <3> QED BY <1>3, <2>3, <3>1, <3>3 DEF GridTold
    <2> QED BY <2>2, <2>3, <2>5
  <1>8. IntervalsFit(intervals, a)
    BY <1>1, <1>2, NewIntervalsFit
  <1>9. burst \in Burst /\ BurstTold(burst, a)
    <2>1. burst = [origin |-> None, mismatches |-> 0, primary |-> <<>>, drain |-> <<>>,
                   after |-> <<>>, fine |-> <<>>, fineOverflow |-> FALSE]
      BY <1>1 DEF Sink!NewBurst
    <2>2. burst \in Burst
      BY <2>1 DEF Burst
    <2>3. BucketsTold(burst, a)
      <3>1. /\ burst.mismatches = 0 /\ Len(burst.primary) = 0 /\ Len(burst.drain) = 0
            /\ Len(burst.after) = 0
        BY <2>1
      <3>2. /\ \A place : Cardinality(FromBurstIn(a, place)) = 0
            /\ Cardinality(FromBurst(a)) = 0
        BY <1>3
      <3> QED BY <3>1, <3>2 DEF BucketsTold
    <2>4. SamplesTold(burst, a)
      <3>1. \A times : SampledAt(burst.fine, times) = {}
        BY <2>1 DEF SampledAt
      <3>2. Len(burst.fine) = 0 /\ 0 <= FineCapacity
        BY <1>2, <2>1
      <3> QED BY <1>3, <3>1, <3>2 DEF SamplesTold
    <2> QED BY <1>3, <2>1, <2>2, <2>3, <2>4 DEF BurstTold
  <1>10. swaps \in Swaps /\ SwapsTold(swaps, a)
    <2>1. Sink!NewSwaps \in Swaps
      <3> DEFINE empty == <<>>
                 none == Sink!None
      <3>1. Sink!NewSwaps
              = [current |-> "none", last |-> none, first_v2 |-> none, pauses |-> empty]
        BY DEF Sink!NewSwaps
      <3>2. none = None /\ "none" \in Names
        BY SinkFacts DEF Names
      <3>3. empty \in Seq([from : Names, to : Names, pause : Int])
        OBVIOUS
      <3> HIDE DEF empty, none
      <3>4. \A p \in Seq([from : Names, to : Names, pause : Int]), h \in Nat \cup {None},
                c \in Names :
              [current |-> c, last |-> h, first_v2 |-> h, pauses |-> p] \in Swaps
        BY DEF Swaps
      <3> QED BY <3>1, <3>2, <3>3, <3>4
    <2> QED BY <1>1, <2>1 DEF SwapsTold
  <1>11. SinkTypes
    <2>1. now \in 0 .. MaxTime /\ start \in Nat \cup {None} /\ anchored \in BOOLEAN /\ latencies \in Nat
      <3>1. now = 0 /\ start = None /\ latencies = 0 /\ anchored = FALSE
        BY <1>1
      <3>2. now \in 0 .. MaxTime
        BY <1>2, <3>1
      <3>3. anchored \in BOOLEAN
        BY <3>1, Zenon
      <3> QED BY <3>1, <3>2, <3>3
    <2>2. measured \in Seq(Arrival)
      BY <1>4 DEF a
    <2>3. intervals \in Intervals /\ Len(intervals.rows) <= intervals.maximum
      BY <1>8 DEF IntervalsFit
    <2> QED BY <1>6, <1>7, <1>9, <1>10, <2>1, <2>2, <2>3 DEF SinkTypes
  <1>12. ~(Len(grid.samples) > 0) /\ IntervalsOpen(intervals, a)
    BY <1>7, <1>8 DEF IntervalsFit
  <1>13. latencies = Cardinality(WithStamps(a))
    BY <1>1, <1>3
  <1>14. /\ InOrder(measured, start, now) /\ TrackerTold(tracker, anchored, measured)
         /\ BurstTold(burst, measured) /\ SwapsTold(swaps, measured)
         /\ latencies = Cardinality(WithStamps(measured)) /\ GridTold(grid, measured, start)
         /\ IntervalsOpen(intervals, measured)
    BY <1>5, <1>6, <1>7, <1>9, <1>10, <1>12, <1>13 DEF a
  <1> QED BY <1>1, <1>11, <1>12, <1>14 DEF SinkInv

LEMMA TakenKeeps ==
  ASSUME SinkAssumptions, SinkInv, artifacts = <<>>, NEW e, Taken(e)
  PROVE  SinkInv'
  <1>1. /\ InOrder(measured', start', now') /\ start' \in Nat
        /\ measured' \in Seq(Arrival) /\ now' = now
    BY OrderKept
  <1>2. TrackerTold(tracker', anchored', measured') /\ tracker' \in Tracker /\ anchored' \in BOOLEAN
    BY TrackerKept
  <1>3. /\ grid' \in Grid /\ GridTold(grid', measured', start')
        /\ ArrivedIn(measured', start', Len(grid'.samples)) # {}
    BY GridStep
  <1>4. IntervalsFit(intervals', measured')
    BY IntervalsStep
  <1>5. burst' \in Burst /\ BurstTold(burst', measured')
    BY BurstStep
  <1>6. swaps' \in Swaps /\ SwapsTold(swaps', measured')
    BY SwapsStep
  <1>7. latencies' = Cardinality(WithStamps(measured')) /\ latencies' \in Nat
    <2> DEFINE c == measured'
    <2>1. /\ e \in Arrival /\ c = Append(measured, e) /\ measured \in Seq(Arrival)
          /\ latencies' = latencies + (IF e.stamped THEN 1 ELSE 0)
          /\ latencies = Cardinality(WithStamps(measured))
      BY DEF Taken, SinkInv, SinkTypes
    <2> HIDE DEF c
    <2>2. OneMoreIn(WithStamps(measured), WithStamps(c), e.stamped)
      <3>1. AllGrow(measured, e, c)
        BY <2>1, SetsGrow
      <3> QED BY <3>1 DEF AllGrow
    <2> QED BY <2>1, <2>2 DEF OneMoreIn, c
  <1>8. artifacts' = <<>> /\ now \in 0 .. MaxTime
    BY DEF Taken, SinkInv, SinkTypes
  <1>9. SinkTypes'
    BY <1>1, <1>2, <1>3, <1>4, <1>5, <1>6, <1>7, <1>8 DEF SinkTypes, IntervalsFit, Grid
  <1> QED BY <1>1, <1>2, <1>3, <1>4, <1>5, <1>6, <1>7, <1>8, <1>9 DEF SinkInv, IntervalsFit

LEMMA SinkStep == ASSUME SinkAssumptions, SinkInv, [Sink!Next]_(Sink!vars) PROVE SinkInv'
  <1>1. CASE Sink!CollectPlain \/ \E n \in 0 .. Total - 1 : Sink!CollectStamped(n)
    <2>1. artifacts = <<>> /\ (UNCHANGED AllButWarmup \/ \E e : Taken(e))
      BY <1>1, CollectTakes
    <2>2. CASE \E e : Taken(e)
      BY <2>1, <2>2, TakenKeeps
    <2>3. CASE UNCHANGED AllButWarmup
      BY <2>1, <2>3 DEF AllButWarmup, SinkInv, SinkTypes
    <2> QED BY <2>1, <2>2, <2>3
  <1>2. CASE Sink!Close
    <2>1. /\ artifacts = <<>> /\ artifacts' # <<>>
          /\ UNCHANGED <<now, tracker, anchored, start, burst, latencies, swaps, measured>>
      BY <1>2, CloseWrites
    <2>2. grid' \in Grid /\ Sink!GridExact'
      BY <1>2, CloseGrid
    <2>3. /\ intervals' \in Intervals /\ Len(intervals'.rows) <= intervals'.maximum
          /\ Sink!IntervalsComplete' /\ Sink!IntervalsRefusedForCause'
      BY <1>2, CloseIntervals
    <2>4. Sink!FineWindowComplete'
      BY <1>2, CloseFine
    <2>5. SinkTypes'
      BY <2>1, <2>2, <2>3 DEF SinkInv, SinkTypes, Grid
    <2> QED BY <2>1, <2>2, <2>3, <2>4, <2>5 DEF SinkInv
  <1>3. CASE Sink!Tick
    <2>1. /\ artifacts = <<>>
          /\ UNCHANGED <<tracker, anchored, start, grid, intervals, burst, latencies, swaps,
                         measured, artifacts>>
      BY <1>3 DEF Sink!Tick
    <2>2. now \in 0 .. MaxTime /\ now' \in 0 .. MaxTime /\ now <= now'
      <3>1. PICK d \in 1 .. MaxStep : now + d <= MaxTime /\ now' = now + d
        BY <1>3 DEF Sink!Tick
      <3>2. now \in 0 .. MaxTime /\ MaxTime \in Nat
        BY SinkFacts DEF SinkInv, SinkTypes
      <3> QED BY <3>1, <3>2
    <2>3. InOrder(measured, start, now')
      <3>1. InOrder(measured, start, now) /\ measured \in Seq(Arrival)
        BY DEF SinkInv, SinkTypes
      <3>2. \A i \in DOMAIN measured : measured[i].at <= now'
        <4> TAKE i \in DOMAIN measured
        <4>1. measured[i] \in Arrival
          BY <3>1
        <4>2. measured[i].at \in Nat /\ measured[i].at <= now
          BY <3>1, <4>1 DEF Arrival, InOrder
        <4> QED BY <2>2, <4>2
      <3> QED BY <3>1, <3>2 DEF InOrder
    <2>4. SinkTypes'
      BY <2>1, <2>2 DEF SinkInv, SinkTypes
    <2> QED BY <2>1, <2>3, <2>4 DEF SinkInv
  <1>4. CASE UNCHANGED Sink!vars
    <2>1. /\ UNCHANGED AllButWarmup
      BY <1>4 DEF Sink!vars, AllButWarmup
    <2>2. CASE artifacts = <<>>
      BY <2>1, <2>2 DEF AllButWarmup, SinkInv, SinkTypes
    <2>3. CASE artifacts # <<>>
      <3>1. /\ Sink!GridExact /\ Sink!IntervalsComplete
            /\ Sink!IntervalsRefusedForCause /\ Sink!FineWindowComplete
        BY <2>3 DEF SinkInv
      <3>2. Sink!GridExact' /\ Sink!FineWindowComplete'
        BY <2>1, <3>1 DEF AllButWarmup, Sink!GridExact, Sink!FineWindowComplete, Sink!Indices,
           Sink!Closed, Sink!Wrote
      <3>3. Sink!IntervalsComplete' /\ Sink!IntervalsRefusedForCause'
        BY <2>1, <3>1 DEF AllButWarmup, Sink!IntervalsComplete, Sink!IntervalsRefusedForCause,
           Sink!Indices, Sink!Closed, Sink!Wrote
      <3> QED BY <2>1, <2>3, <3>2, <3>3 DEF AllButWarmup, SinkInv, SinkTypes
    <2> QED BY <2>2, <2>3
  <1> QED BY <1>1, <1>2, <1>3, <1>4 DEF Sink!Next

\* At all times: what the sink's recorders hold, and what close() makes of it,
\* follow from the arrivals.
LEMMA SinkAlways == ASSUME SinkAssumptions PROVE Sink!Spec => []SinkInv
  <1>1. Sink!Init => SinkInv
    BY SinkInitial
  <1>2. SinkInv /\ [Sink!Next]_(Sink!vars) => SinkInv'
    BY SinkStep
  <1> QED BY <1>1, <1>2, PTL DEF Sink!Spec

\* The recorders of BenchSink stay in their bounds: no more rows than the declared
\* duration allows, and no more fine samples than their buffer holds.
THEOREM SinkTypeCorrect == ASSUME SinkAssumptions PROVE Sink!Spec => []Sink!SinkTypeOK
  <1>1. SinkInv => Sink!SinkTypeOK
    BY SinkBounds
  <1> QED BY <1>1, SinkAlways, PTL

\* sequence.csv (SequenceTracker::record and missing_ranges, kept by
\* record_sequence): from the first stamp on its counters and ranges are those of
\* the numbers that were measured, whatever was lost, repeated or reordered.
THEOREM SinkSequenceExact == ASSUME SinkAssumptions PROVE Sink!Spec => []Sink!SequenceExact
  <1>1. SinkInv => Sink!SequenceExact
    BY NumbersExact
  <1> QED BY <1>1, SinkAlways, PTL

\* throughput.csv (ThroughputGrid::record and finish): after close() each row
\* counts the arrivals of its second and the last holds the last arrival; a stall
\* of any length shows as rows of zero.
THEOREM SinkGridExact == ASSUME SinkAssumptions PROVE Sink!Spec => []Sink!GridExact
  <1>1. SinkInv => Sink!GridExact
    BY DEF SinkInv, Sink!GridExact, Sink!Closed
  <1> QED BY <1>1, SinkAlways, PTL

\* interval-latency.json (IntervalRecorder::record, advance_to and finalize): a
\* file that is written has consecutive seconds, and each measured message is in
\* the row of its own second and in no other.
THEOREM SinkIntervalsComplete == ASSUME SinkAssumptions PROVE Sink!Spec => []Sink!IntervalsComplete
  <1>1. SinkInv => Sink!IntervalsComplete
    BY DEF SinkInv, Sink!IntervalsComplete, Sink!Wrote, Sink!Closed
  <1> QED BY <1>1, SinkAlways, PTL

\* An interval file is refused only for a disk error, for a message that came after
\* a later second had begun, or for a run longer than the declared one.
THEOREM SinkRefusesForCause ==
  ASSUME SinkAssumptions PROVE Sink!Spec => []Sink!IntervalsRefusedForCause
  <1>1. SinkInv => Sink!IntervalsRefusedForCause
    BY DEF SinkInv, Sink!IntervalsRefusedForCause, Sink!Closed
  <1> QED BY <1>1, SinkAlways, PTL

\* BurstRecorder::record: each arrival of a burst is in one of the primary, drain
\* and after-drain populations, by its time after the one origin of the run.
THEOREM SinkBurstAccounted == ASSUME SinkAssumptions PROVE Sink!Spec => []Sink!BurstAccounted
  <1>1. SinkInv => Sink!BurstAccounted
    BY BurstCounted
  <1> QED BY <1>1, SinkAlways, PTL

\* throughput-buckets-10ms.json (BurstRecorder::fine_buckets): a file that is
\* written counts every arrival around the swap that really happened, though the
\* samples were kept around the swap as scheduled.
THEOREM SinkFineComplete == ASSUME SinkAssumptions PROVE Sink!Spec => []Sink!FineWindowComplete
  <1>1. SinkInv => Sink!FineWindowComplete
    BY DEF SinkInv, Sink!FineWindowComplete, Sink!Wrote, Sink!Closed
  <1> QED BY <1>1, SinkAlways, PTL

\* SwapTimeline::record_version: the last pause runs from the last arrival of the
\* old version to the first of the new one, and last_v1_ns is that arrival.
THEOREM SinkPauseExact == ASSUME SinkAssumptions PROVE Sink!Spec => []Sink!PauseExact
  <1>1. SinkInv => Sink!PauseExact
    BY PausesExact
  <1> QED BY <1>1, SinkAlways, PTL

===============================================================================
