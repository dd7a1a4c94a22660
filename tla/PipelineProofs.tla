--------------------------- MODULE PipelineProofs ---------------------------
(***************************************************************************)
(* Proofs about Pipeline for every graph, policy, capacity and number of   *)
(* messages.                                                               *)
(***************************************************************************)
EXTENDS Pipeline, FiniteSetTheorems, TLAPS

\* A task has a message in hand at the places that work on one, and keeps it
\* for ever if it is stopped there.
Working == {"call", "send", "draining"}
HandsMatch ==
    \A n \in Node :
        /\ task[n] \in Working => hand[n] # "none"
        /\ hand[n] # "none" => task[n] \in Working \cup Exits

\* The error budget of a source is spent only when its loop has ended.
WithinBudget ==
    \A n \in Node :
        task[n] \notin {"close_failed"} \cup Exits => pollErrors[n] < MaxPollErrors

\* The types of what the tasks and the queues hold, and of the rest.
FlowTypes ==
    /\ task \in [Node -> Places]
    /\ hand \in [Node -> {"none", "fresh", "retry"}]
    /\ todo \in [Node -> SUBSET Edge]
    /\ parked \in [Node -> Nat]
    /\ pollErrors \in [Node -> 0 .. MaxPollErrors]
    /\ queue \in [Node -> Nat] /\ \A n \in Node : queue[n] <= Capacity[n]
    /\ queueStats \in [Node -> [QueueCounters -> Nat]]
    /\ nodeStats \in [Node -> [NodeCounters -> Nat]]

RestTypes ==
    /\ cancelled \in BOOLEAN
    /\ dlqQueue \in 0 .. DlqCapacity
    /\ dlqTask \in {"none", "running", "ok", "failed"}
    /\ written \in Nat
    /\ opc \in {"supervise", "stopping", "aborting", "dlq", "done"}
    /\ joined \subseteq Node
    /\ failures \subseteq Node \cup {"deadline", "dlq"}

\* The inductive invariant behind types and conservation.
FlowInv == FlowTypes /\ HandsMatch /\ WithinBudget /\ Conserved

USE DEF taskVars, statVars, dlqVars, runVars, vars

\* A counter's step settles one message at one node.
LEMMA CountSettles ==
    ASSUME NEW n \in Node, NEW c \in NodeCounters,
           nodeStats \in [Node -> [NodeCounters -> Nat]], Count(n, c)
    PROVE  /\ nodeStats' \in [Node -> [NodeCounters -> Nat]]
           /\ Settled(n) \in Nat
           /\ Settled(n)' = Settled(n) + 1
           /\ \A m \in Node : m # n => Settled(m)' = Settled(m)
  <1>1. nodeStats' = [nodeStats EXCEPT ![n][c] = @ + 1]
    BY DEF Count
  <1>2. nodeStats'[n] = [nodeStats[n] EXCEPT ![c] = @ + 1]
    BY <1>1
  <1>3. nodeStats[n] \in [NodeCounters -> Nat]
    OBVIOUS
  <1>4. \A m \in Node : m # n => nodeStats'[m] = nodeStats[m]
    BY <1>1
  <1>5. nodeStats'[n] \in [NodeCounters -> Nat]
    BY <1>2, <1>3
  <1>6. nodeStats' \in [Node -> [NodeCounters -> Nat]]
    BY <1>1, <1>2, <1>5
  <1>7. Settled(n)' = Settled(n) + 1 /\ Settled(n) \in Nat
    BY <1>2, <1>3 DEF Settled, NodeCounters
  <1>8. \A m \in Node : m # n => Settled(m)' = Settled(m)
    BY <1>4 DEF Settled
  <1> QED BY <1>6, <1>7, <1>8

\* A counter of one queue goes up by one, and no other.
LEMMA QueueCounted ==
    ASSUME NEW n \in Node, NEW c \in QueueCounters,
           queueStats \in [Node -> [QueueCounters -> Nat]],
           queueStats' = [queueStats EXCEPT ![n][c] = @ + 1]
    PROVE  /\ queueStats' \in [Node -> [QueueCounters -> Nat]]
           /\ queueStats'[n][c] = queueStats[n][c] + 1
           /\ \A d \in QueueCounters : d # c => queueStats'[n][d] = queueStats[n][d]
           /\ \A m \in Node : m # n => queueStats'[m] = queueStats[m]
  <1>1. queueStats'[n] = [queueStats[n] EXCEPT ![c] = @ + 1]
    OBVIOUS
  <1>2. queueStats[n] \in [QueueCounters -> Nat]
    OBVIOUS
  <1>3. queueStats'[n] \in [QueueCounters -> Nat]
    BY <1>1, <1>2
  <1>4. queueStats' \in [Node -> [QueueCounters -> Nat]]
    BY <1>3
  <1> QED BY <1>1, <1>2, <1>4

\* Nothing has moved when the pipeline is spawned.
LEMMA FlowInvInit == Init => FlowInv /\ RestTypes
  <1> SUFFICES ASSUME Init PROVE FlowInv /\ RestTypes
    OBVIOUS
  <1>1. task \in [Node -> Places] /\ todo \in [Node -> SUBSET Edge]
    BY DEF Init, Places
  <1>2. /\ hand \in [Node -> {"none", "fresh", "retry"}]
        /\ parked \in [Node -> Nat]
        /\ pollErrors \in [Node -> 0 .. MaxPollErrors]
        /\ queue \in [Node -> Nat] /\ \A n \in Node : queue[n] <= Capacity[n]
    BY PipelineAssumption DEF Init
  <1>3. /\ queueStats \in [Node -> [QueueCounters -> Nat]]
        /\ nodeStats \in [Node -> [NodeCounters -> Nat]]
    BY DEF Init
  <1>4. /\ dlqQueue \in 0 .. DlqCapacity
        /\ dlqTask \in {"none", "running", "ok", "failed"}
        /\ written \in Nat
        /\ opc \in {"supervise", "stopping", "aborting", "dlq", "done"}
        /\ joined \subseteq Node
        /\ failures \subseteq Node \cup {"deadline", "dlq"}
    BY PipelineAssumption DEF Init
  <1>5. cancelled \in BOOLEAN
    BY DEF Init
  <1>6. FlowTypes
    BY <1>1, <1>2, <1>3, Zenon DEF FlowTypes
  <1>7. RestTypes
    BY <1>4, <1>5, Zenon DEF RestTypes
  <1>8. HandsMatch /\ WithinBudget
    BY PipelineAssumption DEF Init, HandsMatch, WithinBudget, Working, Exits
  <1>9. Conserved
    BY DEF Init, Conserved, InHand, Settled, QueueCounters, NodeCounters
  <1> QED BY <1>6, <1>7, <1>8, <1>9 DEF FlowInv

-----------------------------------------------------------------------------
(***************************************************************************)
(* What the steps of a task do to the invariant, by shape.                 *)
(***************************************************************************)

\* Nothing moves.
LEMMA FlowIdle ==
    ASSUME FlowInv, UNCHANGED <<taskVars, statVars>>
    PROVE  FlowInv'
  BY DEF FlowInv, FlowTypes, HandsMatch, WithinBudget, Conserved, InHand, Settled

\* A task goes on without a message in hand, or ends.
LEMMA FlowMove ==
    ASSUME FlowInv, NEW n \in Node, NEW place \in Places \ Working,
           Goto(n, place), UNCHANGED <<hand, todo, parked, pollErrors, statVars>>,
           hand[n] = "none" \/ place \in Exits,
           place \notin {"close_failed"} \cup Exits
               => task[n] \notin {"close_failed"} \cup Exits
    PROVE  FlowInv'
  <1>1. FlowTypes'
    BY DEF FlowInv, FlowTypes, Goto
  <1>2. HandsMatch'
    BY DEF FlowInv, FlowTypes, Goto, HandsMatch, Working
  <1>3. WithinBudget'
    BY DEF FlowInv, FlowTypes, Goto, WithinBudget
  <1>4. Conserved'
    BY DEF FlowInv, Conserved, InHand, Settled
  <1> QED BY <1>1, <1>2, <1>3, <1>4 DEF FlowInv

\* The message in hand is settled by one counter.
LEMMA FlowSettle ==
    ASSUME FlowInv, NEW n \in Node, NEW place \in Places \ Working,
           NEW c \in NodeCounters, task[n] \in Working,
           Goto(n, place), Take(n, "none"), Count(n, c),
           UNCHANGED <<todo, parked, pollErrors, queue, queueStats>>
    PROVE  FlowInv'
  <1>0. /\ nodeStats' \in [Node -> [NodeCounters -> Nat]]
        /\ Settled(n) \in Nat
        /\ Settled(n)' = Settled(n) + 1
        /\ \A m \in Node : m # n => Settled(m)' = Settled(m)
    BY CountSettles DEF FlowInv, FlowTypes
  <1>1. FlowTypes'
    BY <1>0 DEF FlowInv, FlowTypes, Goto, Take
  <1>2. HandsMatch'
    BY DEF FlowInv, FlowTypes, Goto, Take, HandsMatch, Working
  <1>3. WithinBudget'
    BY DEF FlowInv, FlowTypes, Goto, WithinBudget, Working, Exits
  <1>4. hand[n] # "none"
    BY DEF FlowInv, HandsMatch
  <1>5. /\ InHand(n) = 1 /\ InHand(n)' = 0
        /\ \A m \in Node : m # n => InHand(m)' = InHand(m)
    BY <1>4 DEF FlowInv, FlowTypes, Take, InHand
  <1>6. Conserved'
    <2> SUFFICES ASSUME NEW m \in Node, Kind[m] # "source"
                 PROVE  /\ queueStats'[m].enqueued = queueStats'[m].dequeued + queue'[m]
                        /\ queueStats'[m].dequeued = InHand(m)' + parked'[m] + Settled(m)'
      BY DEF Conserved
    <2>1. /\ queueStats[m].enqueued = queueStats[m].dequeued + queue[m]
          /\ queueStats[m].dequeued = InHand(m) + parked[m] + Settled(m)
          /\ parked[m] \in Nat
      BY DEF FlowInv, FlowTypes, Conserved
    <2>2. CASE m = n
      BY <1>0, <1>5, <2>1, <2>2
    <2>3. CASE m # n
      BY <1>0, <1>5, <2>1, <2>3
    <2> QED BY <2>2, <2>3
  <1> QED BY <1>1, <1>2, <1>3, <1>6 DEF FlowInv

\* A message goes from a queue into a hand.
LEMMA FlowTake ==
    ASSUME FlowInv, NEW n \in Node, NEW place \in Working,
           task[n] \in {"first", "second", "drain"},
           Goto(n, place), Take(n, "fresh"), Dequeue(n),
           todo' \in [Node -> SUBSET Edge], UNCHANGED <<parked, pollErrors>>
    PROVE  FlowInv'
  <1>0. /\ queueStats' \in [Node -> [QueueCounters -> Nat]]
        /\ queueStats'[n].dequeued = queueStats[n].dequeued + 1
        /\ queueStats'[n].enqueued = queueStats[n].enqueued
        /\ \A m \in Node : m # n => queueStats'[m] = queueStats[m]
    <2>1. "dequeued" \in QueueCounters /\ "enqueued" \in QueueCounters
      BY DEF QueueCounters
    <2>2. queueStats \in [Node -> [QueueCounters -> Nat]]
      BY DEF FlowInv, FlowTypes
    <2>3. queueStats' = [queueStats EXCEPT ![n]["dequeued"] = @ + 1]
      BY DEF Dequeue
    <2> HIDE DEF QueueCounters
    <2> QED BY <2>1, <2>2, <2>3, QueueCounted
  <1>1. FlowTypes'
    BY <1>0, PipelineAssumption
       DEF FlowInv, FlowTypes, Goto, Take, Dequeue, Places, Working
  <1>2. HandsMatch'
    BY DEF FlowInv, FlowTypes, Goto, Take, HandsMatch, Working
  <1>3. WithinBudget'
    BY DEF FlowInv, FlowTypes, Goto, WithinBudget, Exits
  <1>4. hand[n] = "none"
    BY DEF FlowInv, FlowTypes, HandsMatch, Working, Exits
  <1>5. /\ InHand(n) = 0 /\ InHand(n)' = 1
        /\ \A m \in Node : m # n => InHand(m)' = InHand(m)
    BY <1>4 DEF FlowInv, FlowTypes, Take, InHand
  <1>6. \A m \in Node : Settled(m)' = Settled(m) /\ Settled(m) \in Nat
    BY DEF Dequeue, Settled, FlowInv, FlowTypes, NodeCounters
  <1>7. /\ queue'[n] = queue[n] - 1 /\ queue[n] \in Nat
        /\ \A m \in Node : m # n => queue'[m] = queue[m]
    BY DEF FlowInv, FlowTypes, Dequeue
  <1>8. \A m \in Node : /\ parked[m] \in Nat
                        /\ queueStats[m].dequeued \in Nat
                        /\ queueStats[m].enqueued \in Nat
    BY DEF FlowInv, FlowTypes, QueueCounters
  <1>9. Conserved'
    <2> SUFFICES ASSUME NEW m \in Node, Kind[m] # "source"
                 PROVE  /\ queueStats'[m].enqueued = queueStats'[m].dequeued + queue'[m]
                        /\ queueStats'[m].dequeued = InHand(m)' + parked'[m] + Settled(m)'
      BY DEF Conserved
    <2>1. /\ queueStats[m].enqueued = queueStats[m].dequeued + queue[m]
          /\ queueStats[m].dequeued = InHand(m) + parked[m] + Settled(m)
      BY DEF FlowInv, Conserved
    <2>2. CASE m = n
      BY <1>0, <1>5, <1>6, <1>7, <1>8, <2>1, <2>2
    <2>3. CASE m # n
      BY <1>0, <1>5, <1>6, <1>7, <1>8, <2>1, <2>3
    <2> QED BY <2>2, <2>3
  <1> QED BY <1>1, <1>2, <1>3, <1>9 DEF FlowInv

\* A retry goes from the buffer into the hand.
LEMMA FlowRetry ==
    ASSUME FlowInv, NEW n \in Node, RecvRetry(n)
    PROVE  FlowInv'
  <1>1. FlowTypes'
    BY DEF FlowInv, FlowTypes, RecvRetry, Goto, Take, Places
  <1>2. HandsMatch'
    BY DEF FlowInv, FlowTypes, RecvRetry, Goto, Take, HandsMatch, Working
  <1>3. WithinBudget'
    BY DEF FlowInv, FlowTypes, RecvRetry, Goto, WithinBudget, Exits
  <1>4. hand[n] = "none"
    BY DEF FlowInv, FlowTypes, HandsMatch, RecvRetry, Working, Exits
  <1>5. /\ InHand(n) = 0 /\ InHand(n)' = 1
        /\ \A m \in Node : m # n => InHand(m)' = InHand(m)
    BY <1>4 DEF FlowInv, FlowTypes, RecvRetry, Take, InHand
  <1>6. \A m \in Node : Settled(m)' = Settled(m) /\ Settled(m) \in Nat
    BY DEF RecvRetry, Settled, FlowInv, FlowTypes, NodeCounters
  <1>7. /\ parked[n] \in Nat /\ parked'[n] = parked[n] - 1
        /\ \A m \in Node : m # n => parked'[m] = parked[m]
    BY DEF FlowInv, FlowTypes, RecvRetry
  <1>8. Conserved'
    <2> SUFFICES ASSUME NEW m \in Node, Kind[m] # "source"
                 PROVE  /\ queueStats'[m].enqueued = queueStats'[m].dequeued + queue'[m]
                        /\ queueStats'[m].dequeued = InHand(m)' + parked'[m] + Settled(m)'
      BY DEF Conserved
    <2>1. /\ queueStats[m].enqueued = queueStats[m].dequeued + queue[m]
          /\ queueStats[m].dequeued = InHand(m) + parked[m] + Settled(m)
          /\ queueStats' = queueStats /\ queue' = queue
      BY DEF FlowInv, Conserved, RecvRetry
    <2>2. CASE m = n
      BY <1>5, <1>6, <1>7, <2>1, <2>2
    <2>3. CASE m # n
      BY <1>5, <1>6, <1>7, <2>1, <2>3
    <2> QED BY <2>2, <2>3
  <1> QED BY <1>1, <1>2, <1>3, <1>8 DEF FlowInv

\* The message in hand goes to the retry buffer.
LEMMA FlowPark ==
    ASSUME FlowInv, NEW n \in Node, CallRetries(n)
    PROVE  FlowInv'
  <1>1. FlowTypes'
    BY DEF FlowInv, FlowTypes, CallRetries, Goto, Take, Places
  <1>2. HandsMatch'
    BY DEF FlowInv, FlowTypes, CallRetries, Goto, Take, HandsMatch, Working
  <1>3. WithinBudget'
    BY DEF FlowInv, FlowTypes, CallRetries, Goto, WithinBudget, Exits
  <1>5. /\ InHand(n) = 1 /\ InHand(n)' = 0
        /\ \A m \in Node : m # n => InHand(m)' = InHand(m)
    BY DEF FlowInv, FlowTypes, CallRetries, Take, InHand
  <1>6. \A m \in Node : Settled(m)' = Settled(m) /\ Settled(m) \in Nat
    BY DEF CallRetries, Settled, FlowInv, FlowTypes, NodeCounters
  <1>7. /\ parked[n] \in Nat /\ parked'[n] = parked[n] + 1
        /\ \A m \in Node : m # n => parked'[m] = parked[m]
    BY DEF FlowInv, FlowTypes, CallRetries
  <1>8. Conserved'
    <2> SUFFICES ASSUME NEW m \in Node, Kind[m] # "source"
                 PROVE  /\ queueStats'[m].enqueued = queueStats'[m].dequeued + queue'[m]
                        /\ queueStats'[m].dequeued = InHand(m)' + parked'[m] + Settled(m)'
      BY DEF Conserved
    <2>1. /\ queueStats[m].enqueued = queueStats[m].dequeued + queue[m]
          /\ queueStats[m].dequeued = InHand(m) + parked[m] + Settled(m)
          /\ queueStats' = queueStats /\ queue' = queue
      BY DEF FlowInv, Conserved, CallRetries
    <2>2. CASE m = n
      BY <1>5, <1>6, <1>7, <2>1, <2>2
    <2>3. CASE m # n
      BY <1>5, <1>6, <1>7, <2>1, <2>3
    <2> QED BY <2>2, <2>3
  <1> QED BY <1>1, <1>2, <1>3, <1>8 DEF FlowInv

\* A retry is flushed: it leaves the buffer for a counter.
LEMMA FlowFlush ==
    ASSUME FlowInv, NEW n \in Node, FlushRetry(n)
    PROVE  FlowInv'
  <1> DEFINE c == IF DlqVerdict = "sent" THEN "dlq_sent" ELSE "dlq_lost"
  <1>a. c \in NodeCounters /\ Count(n, c)
    BY DEF FlushRetry, PolicyDlq, NodeCounters
  <1> HIDE DEF c
  <1>0. /\ nodeStats' \in [Node -> [NodeCounters -> Nat]]
        /\ Settled(n) \in Nat
        /\ Settled(n)' = Settled(n) + 1
        /\ \A m \in Node : m # n => Settled(m)' = Settled(m)
    BY <1>a, CountSettles DEF FlowInv, FlowTypes
  <1>1. FlowTypes'
    <2>1. parked' \in [Node -> Nat]
      BY DEF FlowInv, FlowTypes, FlushRetry
    <2> QED BY <1>0, <2>1 DEF FlowInv, FlowTypes, FlushRetry
  <1>2. HandsMatch' /\ WithinBudget'
    BY DEF FlowInv, HandsMatch, WithinBudget, FlushRetry
  <1>5. \A m \in Node : InHand(m)' = InHand(m) /\ InHand(m) \in Nat
    BY DEF FlushRetry, InHand
  <1>7. /\ parked[n] \in Nat /\ parked'[n] = parked[n] - 1
        /\ \A m \in Node : m # n => parked'[m] = parked[m]
    BY DEF FlowInv, FlowTypes, FlushRetry
  <1>8. Conserved'
    <2> SUFFICES ASSUME NEW m \in Node, Kind[m] # "source"
                 PROVE  /\ queueStats'[m].enqueued = queueStats'[m].dequeued + queue'[m]
                        /\ queueStats'[m].dequeued = InHand(m)' + parked'[m] + Settled(m)'
      BY DEF Conserved
    <2>1. /\ queueStats[m].enqueued = queueStats[m].dequeued + queue[m]
          /\ queueStats[m].dequeued = InHand(m) + parked[m] + Settled(m)
          /\ queueStats' = queueStats /\ queue' = queue
      BY DEF FlowInv, Conserved, FlushRetry
    <2>2. CASE m = n
      BY <1>0, <1>5, <1>7, <2>1, <2>2
    <2>3. CASE m # n
      BY <1>0, <1>5, <1>7, <2>1, <2>3
    <2> QED BY <2>2, <2>3
  <1> QED BY <1>1, <1>2, <1>8 DEF FlowInv

\* A message is offered on an edge: it enters one queue or one counter.
LEMMA FlowSend ==
    ASSUME FlowInv, NEW n \in Node, NEW e \in Edge, send_one(n, e)
    PROVE  FlowInv'
  <1> DEFINE d == e[2]
             o == Offer(e)
  <1>1. d \in Node
    BY PipelineAssumption
  <1>2. o \in QueueCounters \ {"dequeued"}
    <2>1. Overflow[e] \in {"slow", "drop", "dead-letter"}
      BY PipelineAssumption DEF Policies
    <2>2. DlqVerdict \in {"sent", "full", "closed"}
      BY DEF DlqVerdict
    <2>3. Offer(e) # "blocked"
      BY DEF send_one
    <2>4. Offer(e) \in {"downstream_closed", "enqueued", "blocked", "dropped",
                       "dead_lettered", "dlq_full", "dlq_closed"}
      <3> DEFINE full == queue[e[2]] >= Capacity[e[2]]
      <3>1. CASE Closed(e[2]) \/ ~full
        BY <3>1 DEF Offer
      <3>2. CASE ~Closed(e[2]) /\ full /\ Overflow[e] # "dead-letter"
        BY <2>1, <3>2 DEF Offer
      <3>3. CASE ~Closed(e[2]) /\ full /\ Overflow[e] = "dead-letter"
        BY <2>2, <3>3 DEF Offer
      <3> QED BY <3>1, <3>2, <3>3
    <2> QED BY <2>3, <2>4 DEF QueueCounters
  <1>3. /\ queue' = [queue EXCEPT ![d] = IF o = "enqueued" THEN @ + 1 ELSE @]
        /\ queueStats' = [queueStats EXCEPT ![d][o] = @ + 1]
        /\ todo' = [todo EXCEPT ![n] = @ \ {e}]
        /\ UNCHANGED <<task, hand, parked, pollErrors, nodeStats>>
    BY DEF send_one
  <1>4. o = "enqueued" => queue[d] < Capacity[d]
    <2>1. queue[d] \in Nat /\ Capacity[d] \in Nat
      BY <1>1, PipelineAssumption DEF FlowInv, FlowTypes
    <2>2. Closed(d) \/ queue[d] >= Capacity[d] => o # "enqueued"
      <3>1. CASE Closed(e[2])
        BY <3>1 DEF Offer
      <3>2. CASE ~Closed(e[2]) /\ queue[d] >= Capacity[d] /\ Overflow[e] # "dead-letter"
        <4>1. Overflow[e] \in {"slow", "drop"}
          BY <3>2, PipelineAssumption DEF Policies
        <4> QED BY <3>2, <4>1 DEF Offer
      <3>3. CASE ~Closed(e[2]) /\ queue[d] >= Capacity[d] /\ Overflow[e] = "dead-letter"
        <4>1. DlqVerdict \in {"sent", "full", "closed"}
          BY DEF DlqVerdict
        <4> QED BY <3>3, <4>1 DEF Offer
      <3> QED BY <3>1, <3>2, <3>3
    <2> QED BY <2>1, <2>2
  <1> HIDE DEF o, d
  <1>5. /\ queueStats' \in [Node -> [QueueCounters -> Nat]]
        /\ queueStats'[d][o] = queueStats[d][o] + 1
        /\ \A c \in QueueCounters : c # o => queueStats'[d][c] = queueStats[d][c]
        /\ \A m \in Node : m # d => queueStats'[m] = queueStats[m]
    <2>1. queueStats \in [Node -> [QueueCounters -> Nat]]
      BY DEF FlowInv, FlowTypes
    <2> QED BY <1>1, <1>2, <1>3, <2>1, QueueCounted
  <1>6. /\ queue'[d] = IF o = "enqueued" THEN queue[d] + 1 ELSE queue[d]
        /\ \A m \in Node : m # d => queue'[m] = queue[m]
        /\ queue' \in [Node -> Nat] /\ \A m \in Node : queue'[m] <= Capacity[m]
    <2>1. /\ queue \in [Node -> Nat] /\ \A m \in Node : queue[m] <= Capacity[m]
          /\ queue' = [queue EXCEPT ![d] = IF o = "enqueued" THEN queue[d] + 1 ELSE queue[d]]
      BY <1>3 DEF FlowInv, FlowTypes
    <2>2. \A m \in Node : Capacity[m] \in Nat
      BY PipelineAssumption
    <2>3. CASE o = "enqueued"
      BY <1>1, <1>4, <2>1, <2>2, <2>3
    <2>4. CASE o # "enqueued"
      BY <1>1, <2>1, <2>2, <2>4
    <2> QED BY <2>3, <2>4
  <1>7. FlowTypes'
    <2>1. todo' \in [Node -> SUBSET Edge]
      BY <1>3 DEF FlowInv, FlowTypes
    <2> QED BY <1>3, <1>5, <1>6, <2>1 DEF FlowInv, FlowTypes
  <1>8. HandsMatch' /\ WithinBudget'
    BY <1>3 DEF FlowInv, HandsMatch, WithinBudget
  <1>9. \A m \in Node : InHand(m)' = InHand(m) /\ Settled(m)' = Settled(m)
    BY <1>3 DEF InHand, Settled
  <1>10. /\ queueStats'[d].dequeued = queueStats[d].dequeued
         /\ queueStats'[d].enqueued =
              IF o = "enqueued" THEN queueStats[d].enqueued + 1 ELSE queueStats[d].enqueued
         /\ queueStats[d].dequeued \in Nat /\ queueStats[d].enqueued \in Nat
         /\ queue[d] \in Nat
    <2>1. "dequeued" \in QueueCounters /\ "enqueued" \in QueueCounters
      BY DEF QueueCounters
    <2> QED BY <1>1, <1>2, <1>5, <2>1 DEF FlowInv, FlowTypes
  <1>11. Conserved'
    <2> SUFFICES ASSUME NEW m \in Node, Kind[m] # "source"
                 PROVE  /\ queueStats'[m].enqueued = queueStats'[m].dequeued + queue'[m]
                        /\ queueStats'[m].dequeued = InHand(m)' + parked'[m] + Settled(m)'
      BY DEF Conserved
    <2>1. /\ queueStats[m].enqueued = queueStats[m].dequeued + queue[m]
          /\ queueStats[m].dequeued = InHand(m) + parked[m] + Settled(m)
      BY DEF FlowInv, Conserved
    <2>2. CASE m = d
      <3>1. queueStats'[m].enqueued = queueStats'[m].dequeued + queue'[m]
        BY <1>6, <1>10, <2>1, <2>2
      <3>2. queueStats'[m].dequeued = InHand(m)' + parked'[m] + Settled(m)'
        BY <1>3, <1>9, <1>10, <2>1, <2>2
      <3> QED BY <3>1, <3>2
    <2>3. CASE m # d
      BY <1>3, <1>5, <1>6, <1>9, <2>1, <2>3
    <2> QED BY <2>2, <2>3
  <1> QED BY <1>7, <1>8, <1>11 DEF FlowInv

\* A source's steps are exempt from conservation, for it has no input queue:
\* what is left to show is that they touch no other node.
LEMMA FlowSource ==
    ASSUME FlowInv, NEW n \in Node, Kind[n] = "source",
           FlowTypes', HandsMatch', WithinBudget',
           UNCHANGED <<parked, queue, queueStats>>,
           \A m \in Node : m # n => hand'[m] = hand[m] /\ nodeStats'[m] = nodeStats[m]
    PROVE  FlowInv'
  <1>1. Conserved'
    <2> SUFFICES ASSUME NEW m \in Node, Kind[m] # "source"
                 PROVE  /\ queueStats'[m].enqueued = queueStats'[m].dequeued + queue'[m]
                        /\ queueStats'[m].dequeued = InHand(m)' + parked'[m] + Settled(m)'
      BY DEF Conserved
    <2>1. m # n
      OBVIOUS
    <2>2. InHand(m)' = InHand(m) /\ Settled(m)' = Settled(m)
      BY <2>1 DEF InHand, Settled
    <2> QED BY <2>2 DEF FlowInv, Conserved
  <1> QED BY <1>1 DEF FlowInv

\* A source polls a message and counts it before it sends it.
LEMMA FlowPollMessage ==
    ASSUME FlowInv, NEW n \in Node, PollMessage(n)
    PROVE  FlowInv'
  <1>1. "processed" \in NodeCounters
    BY DEF NodeCounters
  <1>2. nodeStats' \in [Node -> [NodeCounters -> Nat]]
    BY <1>1, CountSettles DEF PollMessage, FlowInv, FlowTypes
  <1>3. /\ task' \in [Node -> Places]
        /\ hand' \in [Node -> {"none", "fresh", "retry"}]
    BY DEF PollMessage, FlowInv, FlowTypes, Goto, Take, Places
  <1>4. todo' \in [Node -> SUBSET Edge]
    BY DEF PollMessage, FlowInv, FlowTypes, Out
  <1>5. pollErrors' \in [Node -> 0 .. MaxPollErrors]
    BY PipelineAssumption DEF PollMessage, FlowInv, FlowTypes
  <1>6. FlowTypes'
    BY <1>2, <1>3, <1>4, <1>5 DEF PollMessage, FlowInv, FlowTypes
  <1>7. HandsMatch'
    BY DEF PollMessage, FlowInv, FlowTypes, Goto, Take, HandsMatch, Working
  <1>8. WithinBudget'
    BY PipelineAssumption
       DEF PollMessage, FlowInv, FlowTypes, Goto, WithinBudget, Exits
  <1>9. \A m \in Node : m # n => hand'[m] = hand[m] /\ nodeStats'[m] = nodeStats[m]
    BY DEF PollMessage, FlowInv, FlowTypes, Take, Count
  <1> QED BY <1>6, <1>7, <1>8, <1>9, FlowSource DEF PollMessage

\* A poll error spends the budget; the last of it ends the loop.
LEMMA FlowPollError ==
    ASSUME FlowInv, NEW n \in Node, PollError(n)
    PROVE  FlowInv'
  <1>1. pollErrors[n] \in Nat /\ pollErrors[n] + 1 <= MaxPollErrors
    <2>1. task[n] = "second" /\ task[n] \notin {"close_failed"} \cup Exits
      BY DEF PollError, Exits
    <2>2. pollErrors[n] < MaxPollErrors
      BY <2>1 DEF FlowInv, WithinBudget
    <2>3. pollErrors[n] \in 0 .. MaxPollErrors /\ MaxPollErrors \in Nat
      BY PipelineAssumption DEF FlowInv, FlowTypes
    <2> QED BY <2>2, <2>3
  <1>2. pollErrors' \in [Node -> 0 .. MaxPollErrors]
    BY <1>1, PipelineAssumption DEF PollError, FlowInv, FlowTypes
  <1>3. task' \in [Node -> Places]
    BY DEF PollError, FlowInv, FlowTypes, Goto, Places
  <1>4. FlowTypes'
    BY <1>2, <1>3 DEF PollError, FlowInv, FlowTypes
  <1>5. HandsMatch'
    BY DEF PollError, FlowInv, FlowTypes, Goto, HandsMatch, Working, Exits
  <1>6. WithinBudget'
    <2> SUFFICES ASSUME NEW m \in Node, task'[m] \notin {"close_failed"} \cup Exits
                 PROVE  pollErrors'[m] < MaxPollErrors
      BY DEF WithinBudget
    <2>1. CASE m = n
      <3>1. ~(pollErrors[n] + 1 >= MaxPollErrors)
        BY <2>1 DEF PollError, FlowInv, FlowTypes, Goto
      <3> QED BY <1>1, <2>1, <3>1, PipelineAssumption DEF PollError, FlowInv, FlowTypes
    <2>2. CASE m # n
      BY <2>2 DEF PollError, FlowInv, FlowTypes, Goto, WithinBudget
    <2> QED BY <2>1, <2>2
  <1> QED BY <1>4, <1>5, <1>6, FlowSource DEF PollError

\* All edges are served.
LEMMA FlowSent ==
    ASSUME FlowInv, NEW n \in Node, Sent(n)
    PROVE  FlowInv'
  <1>1. CASE Kind[n] # "source"
    <2>1. "processed" \in NodeCounters /\ "first" \in Places \ Working /\ "send" \in Working
      BY DEF NodeCounters, Places, Working
    <2> QED BY <1>1, <2>1, FlowSettle DEF Sent
  <1>2. CASE Kind[n] = "source"
    <2>1. FlowTypes'
      BY <1>2 DEF Sent, FlowInv, FlowTypes, Goto, Take, Places
    <2>2. HandsMatch'
      BY DEF Sent, FlowInv, FlowTypes, Goto, Take, HandsMatch, Working
    <2>3. WithinBudget'
      BY DEF Sent, FlowInv, FlowTypes, Goto, WithinBudget, Exits
    <2>4. \A m \in Node : m # n => hand'[m] = hand[m] /\ nodeStats'[m] = nodeStats[m]
      BY <1>2 DEF Sent, FlowInv, FlowTypes, Take
    <2> QED BY <1>2, <2>1, <2>2, <2>3, <2>4, FlowSource DEF Sent
  <1> QED BY <1>1, <1>2

\* A guest returns and its message is on its way.
LEMMA FlowForward ==
    ASSUME FlowInv, NEW n \in Node, CallForwards(n)
    PROVE  FlowInv'
  <1>1. todo' \in [Node -> SUBSET Edge]
    <2>1. PICK ports \in IF Kind[n] = "router" THEN SUBSET Out(n) ELSE {Out(n)} :
              todo' = [todo EXCEPT ![n] = ports]
      BY DEF CallForwards
    <2>2. ports \subseteq Edge
      BY DEF Out
    <2> QED BY <2>1, <2>2 DEF FlowInv, FlowTypes
  <1>2. FlowTypes'
    BY <1>1 DEF CallForwards, FlowInv, FlowTypes, Goto, Places
  <1>3. HandsMatch'
    BY DEF CallForwards, FlowInv, FlowTypes, Goto, HandsMatch, Working
  <1>4. WithinBudget'
    BY DEF CallForwards, FlowInv, FlowTypes, Goto, WithinBudget, Exits
  <1>5. Conserved'
    BY DEF CallForwards, FlowInv, Conserved, InHand, Settled
  <1> QED BY <1>2, <1>3, <1>4, <1>5 DEF FlowInv

-----------------------------------------------------------------------------
(***************************************************************************)
(* Every step.                                                             *)
(***************************************************************************)

\* A task that ends keeps what it holds.
LEMMA FlowExit ==
    ASSUME FlowInv, NEW n \in Node, NEW how \in Exits, Exit(n, how)
    PROVE  FlowInv'
  <1>1. how \in Places \ Working
    BY DEF Exits, Places, Working
  <1> QED BY <1>1, FlowMove DEF Exit

\* The steps that leave the hand alone and lead elsewhere in a loop.
LEMMA FlowLoop ==
    ASSUME FlowInv, NEW n \in Node, NEW place \in Places \ Working,
           task[n] \notin Working \cup Exits \cup {"close_failed"},
           Goto(n, place), UNCHANGED <<hand, todo, parked, pollErrors, statVars>>
    PROVE  FlowInv'
  <1>1. hand[n] = "none"
    BY DEF FlowInv, HandsMatch
  <1> QED BY <1>1, FlowMove

\* A call ends the message in hand.
LEMMA FlowConsume ==
    ASSUME FlowInv, NEW n \in Node, CallConsumes(n) \/ CallTearsDown(n)
    PROVE  FlowInv'
  <1> DEFINE place == IF CallConsumes(n) THEN "first" ELSE "close_failed"
  <1>1. place \in Places \ Working /\ task[n] \in Working
    BY DEF Places, Working, CallConsumes, CallTearsDown
  <1>2. \E c \in NodeCounters : Count(n, c)
    BY DEF NodeCounters, CallConsumes, CallTearsDown, PolicyDlq
  <1>3. Goto(n, place) /\ Take(n, "none")
    BY DEF CallConsumes, CallTearsDown
  <1>4. UNCHANGED <<todo, parked, pollErrors, queue, queueStats>>
    BY DEF CallConsumes, CallTearsDown
  <1> HIDE DEF place
  <1> QED BY <1>1, <1>2, <1>3, <1>4, FlowSettle

\* Every step a task takes preserves the invariant.
LEMMA FlowTask ==
    ASSUME FlowInv, NEW n \in Node, TaskStep(n)
    PROVE  FlowInv'
  <1> USE DEF Places, Working, Exits
  <1>1. CASE LoopStep(n)
    <2>1. CASE Started(n)
      BY <2>1, FlowLoop DEF Started
    <2>2. CASE CancelFirst(n)
      BY <2>2, FlowLoop DEF CancelFirst
    <2>3. CASE CancelWakes(n)
      BY <2>3, FlowLoop DEF CancelWakes
    <2>4. CASE RecvMessage(n)
      <3>1. todo' \in [Node -> SUBSET Edge]
        BY <2>4 DEF RecvMessage, Out, FlowInv, FlowTypes
      <3> QED BY <2>4, <3>1, FlowTake DEF RecvMessage
    <2>5. CASE RecvEof(n)
      BY <2>5, FlowLoop DEF RecvEof
    <2>6. CASE RecvRetry(n)
      BY <2>6, FlowRetry
    <2>7. CASE FlushRetry(n)
      BY <2>7, FlowFlush
    <2>8. CASE ProcessingEnds(n)
      BY <2>8, FlowExit DEF ProcessingEnds
    <2>9. CASE SinkRecv(n)
      <3>1. todo' \in [Node -> SUBSET Edge]
        BY <2>9 DEF SinkRecv, FlowInv, FlowTypes
      <3> QED BY <2>9, <3>1, FlowTake DEF SinkRecv
    <2>10. CASE SinkNoInput(n)
      BY <2>10, FlowLoop DEF SinkNoInput
    <2>11. CASE SinkCancelSecond(n)
      BY <2>11, FlowLoop DEF SinkCancelSecond
    <2>12. CASE DrainRecv(n)
      <3>1. todo' \in [Node -> SUBSET Edge]
        BY <2>12 DEF DrainRecv, FlowInv, FlowTypes
      <3> QED BY <2>12, <3>1, FlowTake DEF DrainRecv
    <2>13. CASE DrainEmpty(n)
      BY <2>13, FlowLoop DEF DrainEmpty
    <2>14. CASE Sent(n)
      BY <2>14, FlowSent
    <2>15. CASE \E e \in Edge : send_one(n, e)
      BY <2>15, FlowSend
    <2> QED BY <1>1, <2>1, <2>2, <2>3, <2>4, <2>5, <2>6, <2>7, <2>8, <2>9, <2>10,
               <2>11, <2>12, <2>13, <2>14, <2>15 DEF LoopStep
  <1>2. CASE GuestStep(n)
    BY <1>2, FlowForward, FlowConsume, FlowPark DEF GuestStep
  <1>3. CASE AdapterStep(n)
    <2>1. CASE Started(n)
      BY <2>1, FlowLoop DEF Started
    <2>2. CASE fail_io_init(n)
      BY <2>2, FlowExit DEF fail_io_init
    <2>3. CASE PollMessage(n) \/ PollError(n)
      BY <2>3, FlowPollMessage, FlowPollError
    <2>4. CASE PollEof(n)
      BY <2>4, FlowLoop DEF PollEof
    <2>5. CASE SourceClosed(n)
      BY <2>5, FlowExit DEF SourceClosed
    <2>6. CASE Collect(n)
      BY <2>6, FlowSettle DEF Collect, NodeCounters
    <2>7. CASE DrainCollect(n)
      BY <2>7, FlowSettle DEF DrainCollect, NodeCounters
    <2>8. CASE SinkClosed(n)
      BY <2>8, FlowExit DEF SinkClosed
    <2> QED BY <1>3, <2>1, <2>2, <2>3, <2>4, <2>5, <2>6, <2>7, <2>8 DEF AdapterStep
  <1>4. CASE Panic(n)
    BY <1>4, FlowExit DEF Panic
  <1> QED BY <1>1, <1>2, <1>3, <1>4 DEF TaskStep

\* Every step preserves the invariant.
LEMMA FlowStep == FlowInv /\ [Next]_vars => FlowInv'
  <1> SUFFICES ASSUME FlowInv, [Next]_vars PROVE FlowInv'
    OBVIOUS
  <1>1. CASE \E n \in Node : TaskStep(n)
    BY <1>1, FlowTask
  <1>2. CASE \E n \in Node : AbortTask(n)
    <2>1. PICK n \in Node : AbortTask(n)
      BY <1>2
    <2>2. "aborted" \in Exits
      BY DEF Exits
    <2> QED BY <2>1, <2>2, FlowExit DEF AbortTask
  <1>3. CASE UNCHANGED <<taskVars, statVars>>
    BY <1>3, FlowIdle
  <1>4. CASE \/ DlqStep \/ Cancel \/ Finished \/ UNCHANGED vars
             \/ BeginStopping \/ AllJoined \/ Deadline \/ Aborted \/ DlqAwaited
             \/ \E n \in Node : Join(n)
    BY <1>4, <1>3 DEF DlqStep, DlqWrite, DlqEnd, Cancel, Finished, BeginStopping,
       AllJoined, Deadline, Aborted, DlqAwaited, Join
  <1> QED BY <1>1, <1>2, <1>4 DEF Next, Orchestrator

\* The exported counters reconcile in every state of every run of every
\* pipeline: whatever is dropped, dead-lettered, retried, cancelled, aborted or
\* panics, QueueMetrics and NodeMetrics account for each dequeued message.
THEOREM CountersReconcile == Spec => []Conserved
  <1>1. FlowInv => Conserved
    BY DEF FlowInv
  <1> QED BY <1>1, FlowInvInit, FlowStep, PTL DEF Spec

-----------------------------------------------------------------------------
(***************************************************************************)
(* The rest of the state: the DLQ and the supervision.                     *)
(***************************************************************************)

\* A sent record fits into the DLQ channel.
LEMMA DlqSendTypes ==
    ASSUME RestTypes, DlqSend \/ UNCHANGED dlqVars
    PROVE  /\ dlqQueue' \in 0 .. DlqCapacity
           /\ dlqTask' = dlqTask /\ written' = written
  <1>1. DlqVerdict = "sent" => dlqQueue < DlqCapacity
    BY DEF DlqVerdict
  <1> QED BY <1>1, PipelineAssumption DEF RestTypes, DlqSend

\* A task's step sends to the DLQ or leaves it alone, and touches the
\* cancellation token only by ending.
LEMMA TaskStepFrame ==
    ASSUME NEW n \in Node, TaskStep(n)
    PROVE  /\ DlqSend \/ UNCHANGED dlqVars
           /\ cancelled' = cancelled \/ \E how \in Exits : cancelled' = (cancelled \/ how # "ok")
           /\ UNCHANGED runVars
           /\ task[n] \notin Exits
           /\ task' = task \/ \E place : task' = [task EXCEPT ![n] = place]
  <1> USE DEF Exits, Exit, Goto
  <1>1. CASE LoopStep(n)
    <2>1. CASE \/ Started(n) \/ CancelFirst(n) \/ CancelWakes(n) \/ RecvMessage(n)
               \/ RecvEof(n) \/ RecvRetry(n) \/ SinkRecv(n) \/ SinkNoInput(n)
               \/ SinkCancelSecond(n) \/ DrainRecv(n) \/ DrainEmpty(n) \/ Sent(n)
      BY <2>1 DEF Started, CancelFirst, CancelWakes, RecvMessage, RecvEof, RecvRetry,
         SinkRecv, SinkNoInput, SinkCancelSecond, DrainRecv, DrainEmpty, Sent
    <2>2. CASE FlushRetry(n)
      BY <2>2 DEF FlushRetry, PolicyDlq
    <2>3. CASE ProcessingEnds(n)
      BY <2>3 DEF ProcessingEnds
    <2>4. CASE \E e \in Edge : send_one(n, e)
      <3>1. PICK e \in Edge : send_one(n, e)
        BY <2>4
      <3>2. DlqSend \/ UNCHANGED dlqVars
        BY <3>1 DEF send_one
      <3>3. UNCHANGED <<task, cancelled, runVars>> /\ task[n] = "send"
        BY <3>1 DEF send_one
      <3> QED BY <3>2, <3>3
    <2> QED BY <1>1, <2>1, <2>2, <2>3, <2>4 DEF LoopStep
  <1>2. CASE GuestStep(n)
    BY <1>2 DEF GuestStep, CallForwards, CallConsumes, CallRetries, CallTearsDown, PolicyDlq
  <1>3. CASE AdapterStep(n)
    BY <1>3 DEF AdapterStep, Started, fail_io_init, PollMessage, PollEof, PollError,
       SourceClosed, Collect, DrainCollect, SinkClosed
  <1>4. CASE Panic(n)
    BY <1>4 DEF Panic, Calling
  <1> QED BY <1>1, <1>2, <1>3, <1>4 DEF TaskStep

\* The types of the rest are preserved.
LEMMA RestStep == RestTypes /\ [Next]_vars => RestTypes'
  <1> SUFFICES ASSUME RestTypes, [Next]_vars PROVE RestTypes'
    OBVIOUS
  <1>0. CASE UNCHANGED <<cancelled, dlqVars, runVars>>
    BY <1>0 DEF RestTypes
  <1>1. CASE \E n \in Node : TaskStep(n)
    <2>1. PICK n \in Node : TaskStep(n)
      BY <1>1
    <2>2. /\ dlqQueue' \in 0 .. DlqCapacity
          /\ dlqTask' = dlqTask /\ written' = written
      BY <2>1, TaskStepFrame, DlqSendTypes
    <2>3. cancelled' \in BOOLEAN
      BY <2>1, TaskStepFrame, Zenon DEF RestTypes
    <2>4. UNCHANGED runVars
      BY <2>1, TaskStepFrame
    <2> QED BY <2>2, <2>3, <2>4 DEF RestTypes
  <1>2. CASE \E n \in Node : AbortTask(n)
    <2>1. PICK n \in Node : AbortTask(n)
      BY <1>2
    <2>2. cancelled' \in BOOLEAN
      BY <2>1, Zenon DEF AbortTask, Exit
    <2>3. UNCHANGED <<dlqVars, runVars>>
      BY <2>1 DEF AbortTask, Exit
    <2> QED BY <2>2, <2>3 DEF RestTypes
  <1>3. CASE DlqWrite
    BY <1>3, PipelineAssumption DEF DlqWrite, RestTypes
  <1>4. CASE DlqEnd
    BY <1>4 DEF DlqEnd, RestTypes
  <1>5. CASE Cancel
    BY <1>5 DEF Cancel, RestTypes
  <1>6. CASE \E n \in Node : Join(n)
    BY <1>6 DEF Join, record_task_exit, RestTypes
  <1>7. CASE BeginStopping \/ AllJoined \/ Deadline \/ Aborted \/ DlqAwaited
    BY <1>7 DEF BeginStopping, AllJoined, Deadline, Aborted, DlqAwaited, RestTypes
  <1>8. CASE Finished \/ UNCHANGED vars
    BY <1>0, <1>8 DEF Finished
  <1> QED BY <1>1, <1>2, <1>3, <1>4, <1>5, <1>6, <1>7, <1>8
          DEF Next, DlqStep, Orchestrator

\* No queue, no retry counter and no error budget of any pipeline leaves its
\* range: an input queue never exceeds its capacity, nor the DLQ channel its
\* own, nor consecutive_errors the limit at which a source fails.
THEOREM PipelineTypeCorrect == Spec => []PipelineTypeOK
  <1>1. FlowInv /\ RestTypes => PipelineTypeOK
    <2> SUFFICES ASSUME FlowInv, RestTypes PROVE PipelineTypeOK
      OBVIOUS
    <2>1. \A n \in Node : queue[n] \in 0 .. Capacity[n]
      BY PipelineAssumption DEF FlowInv, FlowTypes
    <2> QED BY <2>1, Zenon DEF FlowInv, FlowTypes, RestTypes, PipelineTypeOK
  <1> QED BY <1>1, FlowInvInit, FlowStep, RestStep, PTL DEF Spec

\* What run_until_complete knows at each stage: whoever it has joined has ended,
\* well or on record; it aborts only with the deadline on record; it turns to
\* the DLQ only with every node joined, and ends with the DLQ's end on record.
Supervised ==
    /\ \A n \in joined : task[n] \in Exits /\ (task[n] = "ok" \/ failures # {})
    /\ opc = "aborting" => failures # {}
    /\ opc \in {"dlq", "done"} => joined = Node
    /\ opc = "done" => dlqTask \in {"none", "ok"} \/ failures # {}

\* Every step preserves what the supervisor knows.
LEMMA SupervisedStep ==
    ASSUME FlowInv, RestTypes, Supervised, [Next]_vars
    PROVE  Supervised'
  <1>0. task \in [Node -> Places] /\ joined \subseteq Node
    BY DEF FlowInv, FlowTypes, RestTypes
  <1>1. CASE \E n \in Node : TaskStep(n)
    <2>1. PICK n \in Node : TaskStep(n)
      BY <1>1
    <2>2. UNCHANGED <<dlqTask, opc, joined, failures>>
      BY <2>1, TaskStepFrame, DlqSendTypes
    <2>3. \A m \in joined : task'[m] = task[m]
      BY <1>0, <2>1, TaskStepFrame DEF Supervised
    <2> QED BY <2>2, <2>3 DEF Supervised
  <1>2. CASE \E n \in Node : AbortTask(n)
    <2>1. PICK n \in Node : AbortTask(n)
      BY <1>2
    <2>2. UNCHANGED <<dlqTask, opc, joined, failures>>
      BY <2>1 DEF AbortTask, Exit
    <2>3. \A m \in joined : task'[m] = task[m]
      BY <1>0, <2>1 DEF AbortTask, Exit, Goto, Exited, Supervised
    <2> QED BY <2>2, <2>3 DEF Supervised
  <1>3. CASE DlqWrite \/ DlqEnd
    BY <1>3 DEF DlqWrite, DlqEnd, Supervised
  <1>4. CASE \E n \in Node : Join(n)
    BY <1>4 DEF Join, record_task_exit, Exited, Supervised
  <1>5. CASE BeginStopping \/ AllJoined
    BY <1>5 DEF BeginStopping, AllJoined, Supervised
  <1>6. CASE Deadline
    BY <1>6 DEF Deadline, Supervised
  <1>7. CASE Aborted
    BY <1>7 DEF Aborted, Exited, Supervised
  <1>8. CASE DlqAwaited
    BY <1>8 DEF DlqAwaited, Supervised
  <1>9. CASE Cancel \/ Finished \/ UNCHANGED vars
    BY <1>9 DEF Cancel, Finished, Supervised
  <1> QED BY <1>1, <1>2, <1>3, <1>4, <1>5, <1>6, <1>7, <1>8, <1>9
          DEF Next, DlqStep, Orchestrator

\* A pipeline of any shape reports success only if each of its node tasks
\* and its DLQ task ended well: no failure, panic or abort is lost to the race
\* of exits, cancellation and deadline in run_until_complete.
THEOREM NoFailureLost == Spec => []FailuresSurface
  <1>1. Init => Supervised
    BY DEF Init, Supervised
  <1>2. Supervised => FailuresSurface
    BY DEF Supervised, FailuresSurface
  <1> QED BY <1>1, <1>2, FlowInvInit, FlowStep, RestStep, SupervisedStep, PTL DEF Spec

-----------------------------------------------------------------------------
(***************************************************************************)
(* The dead letters.                                                       *)
(***************************************************************************)

\* One more record of one node is one more record.
LEMMA RecordAdded ==
    ASSUME NEW n \in Node, \A m \in Node : Recorded(m) \in Nat,
           Recorded(n)' = Recorded(n) + 1,
           \A m \in Node : m # n => Recorded(m)' = Recorded(m),
           IsFiniteSet(DlqRecords)
    PROVE  IsFiniteSet(DlqRecords)' /\ Cardinality(DlqRecords)' = Cardinality(DlqRecords) + 1
  <1> DEFINE x == <<n, Recorded(n) + 1>>
  <1>1. x \notin DlqRecords
    BY DEF DlqRecords
  <1>2. DlqRecords' = DlqRecords \cup {x}
    <2>1. \A m \in Node : {m} \X (1 .. Recorded(m))'
              = ({m} \X (1 .. Recorded(m))) \cup (IF m = n THEN {x} ELSE {})
      OBVIOUS
    <2> QED
      BY <2>1 DEF DlqRecords
  <1> QED
    BY <1>1, <1>2, FS_AddElement

\* No record is counted, or one is that has gone into the DLQ channel.
NoneRecorded ==
    /\ UNCHANGED <<dlqQueue, dlqTask, written>>
    /\ \A m \in Node : Recorded(m)' = Recorded(m)
OneRecorded ==
    /\ dlqTask = "running" /\ dlqQueue' = dlqQueue + 1 /\ UNCHANGED <<dlqTask, written>>
    /\ \E n \in Node : /\ Recorded(n)' = Recorded(n) + 1
                       /\ \A m \in Node : m # n => Recorded(m)' = Recorded(m)

\* A counter other than dlq_sent records no dead letter.
LEMMA OtherCount ==
    ASSUME FlowInv, NEW n \in Node, NEW c \in NodeCounters \ {"dlq_sent"}, Count(n, c),
           UNCHANGED <<queueStats, dlqVars>>
    PROVE  NoneRecorded
  <1>1. \A m \in Node : nodeStats'[m].dlq_sent = nodeStats[m].dlq_sent
    BY DEF Count, FlowInv, FlowTypes, NodeCounters
  <1> QED
    BY <1>1 DEF NoneRecorded, Recorded

\* send_to_dlq counts what it sends, and counts it as sent only then.
LEMMA PolicyRecords ==
    ASSUME FlowInv, NEW n \in Node, PolicyDlq(n), UNCHANGED queueStats
    PROVE  NoneRecorded \/ OneRecorded
  <1>0. nodeStats \in [Node -> [NodeCounters -> Nat]]
        /\ queueStats \in [Node -> [QueueCounters -> Nat]]
    BY DEF FlowInv, FlowTypes
  <1>1. CASE DlqVerdict = "sent"
    <2>1. Count(n, "dlq_sent") /\ dlqQueue' = dlqQueue + 1 /\ UNCHANGED <<dlqTask, written>>
      BY <1>1 DEF PolicyDlq, DlqSend
    <2>2. dlqTask = "running"
      BY <1>1 DEF DlqVerdict
    <2>3. /\ nodeStats'[n].dlq_sent = nodeStats[n].dlq_sent + 1
          /\ \A m \in Node : m # n => nodeStats'[m] = nodeStats[m]
      BY <1>0, <2>1 DEF Count, NodeCounters
    <2>4. nodeStats[n].dlq_sent \in Nat /\ queueStats[n].dead_lettered \in Nat
      BY <1>0 DEF NodeCounters, QueueCounters
    <2>5. Recorded(n)' = Recorded(n) + 1
      BY <2>3, <2>4 DEF Recorded
    <2>6. \A m \in Node : m # n => Recorded(m)' = Recorded(m)
      BY <2>3 DEF Recorded
    <2> QED
      BY <2>1, <2>2, <2>5, <2>6 DEF OneRecorded
  <1>2. CASE DlqVerdict # "sent"
    <2>1. Count(n, "dlq_lost") /\ UNCHANGED dlqVars
      BY <1>2 DEF PolicyDlq, DlqSend
    <2> QED
      BY <2>1, OtherCount DEF NodeCounters
  <1> QED
    BY <1>1, <1>2

\* An overflowing edge counts as dead-lettered what the DLQ channel took.
LEMMA SendRecords ==
    ASSUME FlowInv, NEW n \in Node, NEW e \in Edge, send_one(n, e)
    PROVE  NoneRecorded \/ OneRecorded
  <1> DEFINE d == e[2]
             out == Offer(e)
  <1>0. d \in Node /\ Overflow[e] \in Policies
    BY PipelineAssumption
  <1>1. out \in QueueCounters /\ (out = "dead_lettered" <=> out \in {"dead_lettered", "dlq_full", "dlq_closed"} /\ DlqVerdict = "sent")
    BY <1>0 DEF send_one, Offer, DlqVerdict, QueueCounters, Policies
  <1>2. queueStats \in [Node -> [QueueCounters -> Nat]]
        /\ nodeStats \in [Node -> [NodeCounters -> Nat]]
    BY DEF FlowInv, FlowTypes
  <1>3. queueStats' = [queueStats EXCEPT ![d][out] = @ + 1] /\ nodeStats' = nodeStats
        /\ IF out \in {"dead_lettered", "dlq_full", "dlq_closed"} THEN DlqSend ELSE UNCHANGED dlqVars
    BY DEF send_one
  <1>4. "dead_lettered" \in QueueCounters
    BY DEF QueueCounters
  <1> HIDE DEF d, out
  <1>5. /\ queueStats'[d][out] = queueStats[d][out] + 1
        /\ \A c \in QueueCounters : c # out => queueStats'[d][c] = queueStats[d][c]
        /\ \A m \in Node : m # d => queueStats'[m] = queueStats[m]
    BY <1>0, <1>1, <1>2, <1>3, QueueCounted
  <1>6. nodeStats[d].dlq_sent \in Nat /\ queueStats[d].dead_lettered \in Nat
    BY <1>0, <1>2 DEF NodeCounters, QueueCounters
  <1>7. CASE out = "dead_lettered"
    <2>1. DlqVerdict = "sent" /\ DlqSend
      BY <1>1, <1>3, <1>7
    <2>2. dlqTask = "running" /\ dlqQueue' = dlqQueue + 1 /\ UNCHANGED <<dlqTask, written>>
      BY <2>1 DEF DlqVerdict, DlqSend
    <2>3. Recorded(d)' = Recorded(d) + 1
      BY <1>3, <1>5, <1>6, <1>7 DEF Recorded
    <2>4. \A m \in Node : m # d => Recorded(m)' = Recorded(m)
      BY <1>3, <1>5 DEF Recorded
    <2> QED
      BY <1>0, <2>2, <2>3, <2>4 DEF OneRecorded
  <1>8. CASE out # "dead_lettered"
    <2>1. \A m \in Node : Recorded(m)' = Recorded(m)
      BY <1>3, <1>4, <1>5, <1>8 DEF Recorded
    <2>2. UNCHANGED dlqVars
      BY <1>1, <1>3, <1>8 DEF DlqSend
    <2> QED
      BY <2>1, <2>2 DEF NoneRecorded
  <1> QED
    BY <1>7, <1>8

\* No step of a task counts a dead letter that is not in the channel.
LEMMA TaskRecords ==
    ASSUME FlowInv, NEW n \in Node, TaskStep(n)
    PROVE  NoneRecorded \/ OneRecorded
  <1>1. CASE UNCHANGED <<queueStats, nodeStats, dlqVars>>
    BY <1>1 DEF NoneRecorded, Recorded
  <1>2. CASE \E e \in Edge : send_one(n, e)
    BY <1>2, SendRecords
  <1>3. CASE FlushRetry(n)
    BY <1>3, PolicyRecords DEF FlushRetry
  <1>4. CASE CallConsumes(n) \/ CallTearsDown(n)
    <2>1. CASE PolicyDlq(n)
      BY <1>4, <2>1, PolicyRecords DEF CallConsumes, CallTearsDown
    <2>2. CASE Count(n, "consumed") /\ UNCHANGED dlqVars
      BY <1>4, <2>2, OtherCount DEF CallConsumes, CallTearsDown, NodeCounters
    <2> QED
      BY <1>4, <2>1, <2>2 DEF CallConsumes, CallTearsDown
  <1>5. CASE PollMessage(n) \/ DrainCollect(n) \/ Collect(n)
    BY <1>5, OtherCount DEF PollMessage, DrainCollect, Collect, NodeCounters
  <1>6. CASE Sent(n)
    BY <1>1, <1>6, OtherCount DEF Sent, NodeCounters
  <1>7. CASE RecvMessage(n) \/ SinkRecv(n) \/ DrainRecv(n)
    <2>1. Dequeue(n) /\ UNCHANGED <<nodeStats, dlqVars>>
      BY <1>7 DEF RecvMessage, SinkRecv, DrainRecv, Dequeue
    <2>2. \A m \in Node : queueStats'[m].dead_lettered = queueStats[m].dead_lettered
      BY <2>1 DEF Dequeue, FlowInv, FlowTypes, QueueCounters
    <2> QED
      BY <2>1, <2>2 DEF NoneRecorded, Recorded
  <1>8. CASE \/ Started(n) \/ CancelFirst(n) \/ CancelWakes(n) \/ RecvEof(n) \/ RecvRetry(n)
             \/ SinkNoInput(n) \/ SinkCancelSecond(n) \/ DrainEmpty(n) \/ CallForwards(n)
             \/ CallRetries(n) \/ PollEof(n) \/ PollError(n)
    BY <1>1, <1>8 DEF Started, CancelFirst, CancelWakes, RecvEof, RecvRetry, SinkNoInput,
       SinkCancelSecond, DrainEmpty, CallForwards, CallRetries, PollEof, PollError
  <1>9. CASE \/ ProcessingEnds(n) \/ fail_io_init(n) \/ SourceClosed(n) \/ SinkClosed(n) \/ Panic(n)
    BY <1>1, <1>9 DEF ProcessingEnds, fail_io_init, SourceClosed, SinkClosed, Panic, Exit
  <1> QED
    BY <1>2, <1>3, <1>4, <1>5, <1>6, <1>7, <1>8, <1>9
       DEF TaskStep, LoopStep, GuestStep, AdapterStep

\* DlqComplete speaks of the end; until then what was counted has been written
\* or waits in the channel, unless the DLQ task has failed with a record.
DlqInv ==
    /\ IsFiniteSet(DlqRecords)
    /\ dlqTask # "failed" => written + dlqQueue = Cardinality(DlqRecords)
    /\ dlqTask = "ok" => dlqQueue = 0

\* Every step preserves it.
LEMMA DlqInvStep ==
    ASSUME FlowInv, RestTypes, DlqInv, [Next]_vars
    PROVE  DlqInv'
  <1>0. /\ dlqQueue \in Nat /\ written \in Nat
        /\ \A m \in Node : Recorded(m) \in Nat
    BY PipelineAssumption DEF RestTypes, FlowInv, FlowTypes, Recorded, NodeCounters, QueueCounters
  <1>1. CASE NoneRecorded
    <2>1. DlqRecords' = DlqRecords
      BY <1>1 DEF NoneRecorded, DlqRecords
    <2> QED
      BY <1>1, <2>1 DEF NoneRecorded, DlqInv
  <1>2. CASE OneRecorded
    <2>1. IsFiniteSet(DlqRecords)' /\ Cardinality(DlqRecords)' = Cardinality(DlqRecords) + 1
      BY <1>0, <1>2, RecordAdded DEF OneRecorded, DlqInv
    <2> QED
      BY <1>0, <1>2, <2>1 DEF OneRecorded, DlqInv
  <1>3. CASE \E n \in Node : TaskStep(n)
    BY <1>1, <1>2, <1>3, TaskRecords
  <1>4. CASE DlqStep
    <2>1. DlqRecords' = DlqRecords
      BY <1>4 DEF DlqStep, DlqWrite, DlqEnd, DlqRecords, Recorded
    <2> QED
      BY <1>0, <1>4, <2>1 DEF DlqStep, DlqWrite, DlqEnd, DlqInv
  <1>5. CASE UNCHANGED <<queueStats, nodeStats, dlqVars>>
    BY <1>1, <1>5 DEF NoneRecorded, Recorded
  <1>6. CASE Orchestrator \/ Cancel \/ Finished \/ UNCHANGED vars
    BY <1>5, <1>6 DEF Orchestrator, Cancel, Finished, BeginStopping, AllJoined, Deadline,
       Aborted, DlqAwaited, Join, AbortTask, Exit
  <1> QED
    BY <1>3, <1>4, <1>6 DEF Next

\* However many nodes overflow, apply their error policy or flush their retry
\* buffers into the DLQ channel, and whenever they are cancelled or aborted: a
\* run_dlq_sink that returns Ok has written each record any counter claims.
THEOREM NoDeadLetterLost == Spec => []DlqComplete
  <1>1. Init => DlqInv
    <2> SUFFICES ASSUME Init PROVE DlqInv
      OBVIOUS
    <2>1. DlqRecords = {}
      BY DEF Init, DlqRecords, Recorded, QueueCounters, NodeCounters
    <2> QED
      BY <2>1, FS_EmptySet DEF Init, DlqInv
  <1>2. FlowInv /\ RestTypes /\ DlqInv => DlqComplete
    BY PipelineAssumption DEF DlqInv, DlqComplete, RestTypes
  <1> QED
    BY <1>1, <1>2, FlowInvInit, FlowStep, RestStep, DlqInvStep, PTL DEF Spec

-----------------------------------------------------------------------------
(***************************************************************************)
(* A run that ends by itself.                                              *)
(***************************************************************************)

\* The places at which a task has left its loop without an error.
Leaving == {"drain", "draining", "close"} \cup Exits

\* A task leaves its loop only when nothing is left for it: as long as nobody
\* has cancelled, its senders have ended before it and it holds no message.
Orderly ==
    ~cancelled => \A n \in Node :
        /\ task[n] \in Exits => task[n] = "ok"
        /\ task[n] \in Leaving =>
             /\ queue[n] = 0 /\ parked[n] = 0 /\ hand[n] = "none"
             /\ \A e \in Edge : e[2] = n => Exited(e[1])
        /\ queueStats[n].downstream_closed = 0

\* Only guests park, only sinks drain, and nobody sends to a source.
ByKind ==
    \A n \in Node :
        /\ ~Guest(n) => parked[n] = 0
        /\ Kind[n] = "source" => queue[n] = 0
        /\ task[n] \in {"drain", "draining"} => Kind[n] = "sink"
        /\ task[n] \in {"call"} => Guest(n) \/ Kind[n] = "sink"
        /\ task[n] = "send" => Kind[n] # "sink"
        /\ todo[n] \subseteq Out(n)

\* The DLQ task outlives its senders unless it fails.
DlqOutlives ==
    /\ dlqTask = "none" <=> DlqCapacity = 0
    /\ dlqTask = "ok" => DlqSendersGone
    /\ DlqCapacity > 0 /\ dlqTask # "failed" => \A n \in Node : queueStats[n].dlq_closed = 0

\* The kinds of places and of what a task holds are kept by every step.
LEMMA ByKindStep ==
    ASSUME FlowInv, ByKind, [Next]_vars
    PROVE  ByKind'
  <1>0. /\ task \in [Node -> Places] /\ todo \in [Node -> SUBSET Edge]
        /\ parked \in [Node -> Nat] /\ queue \in [Node -> Nat]
    BY DEF FlowInv, FlowTypes
  \* A task goes elsewhere in its loop, or ends.
  <1>1. ASSUME NEW n \in Node, NEW place, Goto(n, place), UNCHANGED <<todo, parked, queue>>,
               place \in {"drain", "draining"} => Kind[n] = "sink",
               place = "call" => Guest(n) \/ Kind[n] = "sink",
               place = "send" => Kind[n] # "sink"
        PROVE  ByKind'
    BY <1>0, <1>1 DEF Goto, ByKind, Guest, Out
  <1>2. CASE UNCHANGED <<task, todo, parked, queue>>
    BY <1>2 DEF ByKind, Guest, Out
  <1>3. ASSUME NEW n \in Node, TaskStep(n)
        PROVE  ByKind'
    <2>1. CASE \/ Started(n) \/ CancelFirst(n) \/ CancelWakes(n) \/ RecvEof(n) \/ Sent(n)
               \/ CallConsumes(n) \/ CallTearsDown(n) \/ PollEof(n) \/ PollError(n)
               \/ SinkNoInput(n) \/ SinkCancelSecond(n) \/ DrainEmpty(n) \/ DrainCollect(n)
               \/ Collect(n)
      BY <1>1, <2>1 DEF Started, CancelFirst, CancelWakes, RecvEof, Sent, CallConsumes,
         CallTearsDown, PollEof, PollError, SinkNoInput, SinkCancelSecond, DrainEmpty,
         DrainCollect, Collect
    <2>2. CASE \/ ProcessingEnds(n) \/ fail_io_init(n) \/ SourceClosed(n) \/ SinkClosed(n)
               \/ Panic(n)
      <3>1. PICK how \in Exits : Exit(n, how)
        BY <2>2 DEF ProcessingEnds, fail_io_init, SourceClosed, SinkClosed, Panic, Exits
      <3> QED
        BY <1>1, <3>1 DEF Exit, Exits
    <2>3. CASE RecvMessage(n) \/ SinkRecv(n) \/ DrainRecv(n)
      BY <1>0, <2>3 DEF RecvMessage, SinkRecv, DrainRecv, Dequeue, Goto, ByKind, Guest,
         Processing, Out
    <2>4. CASE PollMessage(n)
      BY <1>0, <2>4 DEF PollMessage, Goto, ByKind, Guest, Out
    <2>5. CASE RecvRetry(n) \/ CallRetries(n) \/ FlushRetry(n)
      BY <1>0, <2>5 DEF RecvRetry, CallRetries, FlushRetry, Goto, ByKind, Guest, Out
    <2>6. CASE CallForwards(n)
      BY <1>0, <2>6 DEF CallForwards, Goto, ByKind, Guest, Out
    <2>7. CASE \E e \in Edge : send_one(n, e)
      <3>1. PICK e \in Edge : send_one(n, e)
        BY <2>7
      <3>2. Kind[e[2]] # "source"
        BY PipelineAssumption
      <3>3. \A m \in Node : Kind[m] = "source" => queue'[m] = queue[m]
        BY <1>0, <3>1, <3>2 DEF send_one
      <3>4. \A m \in Node : todo'[m] \subseteq todo[m]
        BY <1>0, <3>1 DEF send_one
      <3>5. UNCHANGED <<task, parked>>
        BY <3>1 DEF send_one
      <3> QED
        BY <3>3, <3>4, <3>5 DEF ByKind, Guest, Out
    <2> QED
      BY <1>3, <2>1, <2>2, <2>3, <2>4, <2>5, <2>6, <2>7
         DEF TaskStep, LoopStep, GuestStep, AdapterStep
  <1>4. ASSUME NEW n \in Node, AbortTask(n)
        PROVE  ByKind'
    BY <1>1, <1>4 DEF AbortTask, Exit
  <1>5. CASE \/ DlqStep \/ Cancel \/ Finished \/ UNCHANGED vars
             \/ BeginStopping \/ AllJoined \/ Deadline \/ Aborted \/ DlqAwaited
             \/ \E n \in Node : Join(n)
    BY <1>2, <1>5 DEF DlqStep, DlqWrite, DlqEnd, Cancel, Finished, BeginStopping,
       AllJoined, Deadline, Aborted, DlqAwaited, Join
  <1> QED
    BY <1>3, <1>4, <1>5 DEF Next, Orchestrator

\* A task that stays in its loop disturbs nobody who has left.
LEMMA OrderlyInLoop ==
    ASSUME FlowInv, Orderly, ~cancelled, NEW n \in Node, NEW place \in Places \ Leaving,
           Goto(n, place), task[n] \notin Exits,
           \A m \in Node : m # n =>
               queue'[m] = queue[m] /\ parked'[m] = parked[m] /\ hand'[m] = hand[m],
           \A m \in Node :
               queueStats'[m].downstream_closed = queueStats[m].downstream_closed
    PROVE  Orderly'
  <1> SUFFICES ASSUME NEW m \in Node
               PROVE  (/\ task[m] \in Exits => task[m] = "ok"
                       /\ task[m] \in Leaving =>
                            /\ queue[m] = 0 /\ parked[m] = 0 /\ hand[m] = "none"
                            /\ \A e \in Edge : e[2] = m => Exited(e[1])
                       /\ queueStats[m].downstream_closed = 0)'
    BY Zenon DEF Orderly
  <1>0. task \in [Node -> Places] /\ \A e \in Edge : e[1] \in Node
    BY PipelineAssumption DEF FlowInv, FlowTypes
  <1>1. \A k \in Node : Exited(k) => Exited(k)'
    BY <1>0 DEF Goto, Exited
  <1>2. CASE m = n
    BY <1>0, <1>2 DEF Goto, Orderly, Leaving
  <1>3. CASE m # n
    BY <1>0, <1>1, <1>3 DEF Goto, Orderly
  <1> QED
    BY <1>2, <1>3

\* A task leaves its loop, or goes on leaving, with nothing left.
LEMMA OrderlyLeaves ==
    ASSUME FlowInv, Orderly, ~cancelled, NEW n \in Node,
           NEW place \in {"drain", "close", "ok"},
           Goto(n, place), task[n] \notin Exits, UNCHANGED <<hand, parked, queue, queueStats>>,
           queue[n] = 0, parked[n] = 0, hand[n] = "none",
           \A e \in Edge : e[2] = n => Exited(e[1])
    PROVE  Orderly'
  <1> SUFFICES ASSUME NEW m \in Node
               PROVE  (/\ task[m] \in Exits => task[m] = "ok"
                       /\ task[m] \in Leaving =>
                            /\ queue[m] = 0 /\ parked[m] = 0 /\ hand[m] = "none"
                            /\ \A e \in Edge : e[2] = m => Exited(e[1])
                       /\ queueStats[m].downstream_closed = 0)'
    BY Zenon DEF Orderly
  <1>0. task \in [Node -> Places] /\ \A e \in Edge : e[1] \in Node
    BY PipelineAssumption DEF FlowInv, FlowTypes
  <1>1. \A k \in Node : Exited(k) => Exited(k)'
    BY <1>0 DEF Goto, Exited
  <1>2. CASE m = n
    BY <1>0, <1>1, <1>2 DEF Goto, Orderly, Leaving, Exits
  <1>3. CASE m # n
    BY <1>0, <1>1, <1>3 DEF Goto, Orderly
  <1> QED
    BY <1>2, <1>3

\* A message is never offered to a task that has left: its sender is alive.
LEMMA OrderlySend ==
    ASSUME FlowInv, ByKind, Orderly, ~cancelled, NEW n \in Node, NEW e \in Edge, send_one(n, e)
    PROVE  Orderly'
  <1> DEFINE d == e[2]
             out == Offer(e)
  <1>0. /\ e[1] = n /\ d \in Node /\ task[n] = "send" /\ ~Exited(n)
    BY PipelineAssumption DEF send_one, Servable, ByKind, Out, Exited, Exits
  <1>1. task[d] \notin Leaving
    BY <1>0 DEF Orderly
  <1>2. out # "downstream_closed" /\ out \in QueueCounters
    <2>1. Overflow[e] \in Policies
      BY PipelineAssumption
    <2> QED
      BY <1>1, <2>1 DEF Offer, Closed, Exited, Leaving, send_one, DlqVerdict, QueueCounters, Policies
  <1>3. queueStats' = [queueStats EXCEPT ![d][out] = @ + 1]
        /\ queue' = [queue EXCEPT ![d] = IF out = "enqueued" THEN @ + 1 ELSE @]
        /\ UNCHANGED <<task, hand, parked, cancelled>>
    BY DEF send_one
  <1>4. "downstream_closed" \in QueueCounters
    BY DEF QueueCounters
  <1> HIDE DEF d, out
  <1>5. /\ \A c \in QueueCounters : c # out => queueStats'[d][c] = queueStats[d][c]
        /\ \A m \in Node : m # d => queueStats'[m] = queueStats[m]
    <2>1. queueStats \in [Node -> [QueueCounters -> Nat]]
      BY DEF FlowInv, FlowTypes
    <2> QED
      BY <1>0, <1>2, <1>3, <2>1, QueueCounted
  <1>6. \A m \in Node : queueStats'[m].downstream_closed = queueStats[m].downstream_closed
    BY <1>2, <1>4, <1>5
  <1>7. \A m \in Node : m # d => queue'[m] = queue[m]
    BY <1>3 DEF FlowInv, FlowTypes
  <1> QED
    BY <1>1, <1>3, <1>6, <1>7 DEF Orderly, Exited

\* Every step keeps to the order of the ends.
LEMMA OrderlyStep ==
    ASSUME FlowInv, ByKind, Orderly, [Next]_vars
    PROVE  Orderly'
  <1>a. CASE cancelled'
    BY <1>a DEF Orderly
  <1>b. CASE ~cancelled' /\ cancelled
    <2>1. CASE \E n \in Node : TaskStep(n)
      <3>1. cancelled => cancelled'
        BY <2>1, TaskStepFrame, Zenon
      <3> QED
        BY <1>b, <3>1
    <2>2. CASE \E n \in Node : AbortTask(n)
      BY <1>b, <2>2 DEF AbortTask, Exit
    <2>3. CASE \/ DlqStep \/ Cancel \/ Finished \/ UNCHANGED vars
               \/ BeginStopping \/ AllJoined \/ Deadline \/ Aborted \/ DlqAwaited
               \/ \E n \in Node : Join(n)
      BY <1>b, <2>3 DEF DlqStep, DlqWrite, DlqEnd, Cancel, Finished, BeginStopping,
         AllJoined, Deadline, Aborted, DlqAwaited, Join
    <2> QED
      BY <2>1, <2>2, <2>3 DEF Next, Orchestrator
  <1>c. CASE ~cancelled' /\ ~cancelled
    <2> USE <1>c
    <2>0. /\ \A n \in Node : task[n] \in Leaving =>
               /\ queue[n] = 0 /\ parked[n] = 0 /\ hand[n] = "none"
               /\ \A e \in Edge : e[2] = n => Exited(e[1])
          /\ parked \in [Node -> Nat] /\ queue \in [Node -> Nat]
          /\ task \in [Node -> Places] /\ hand \in [Node -> {"none", "fresh", "retry"}]
          /\ queueStats \in [Node -> [QueueCounters -> Nat]]
      BY DEF Orderly, FlowInv, FlowTypes
    <2>1. ASSUME NEW n \in Node, TaskStep(n)
          PROVE  Orderly'
      <3>1. CASE \/ Started(n) \/ CancelFirst(n) \/ CancelWakes(n) \/ RecvRetry(n) \/ Sent(n)
                 \/ CallForwards(n) \/ CallConsumes(n) \/ CallRetries(n) \/ CallTearsDown(n)
                 \/ PollMessage(n) \/ PollError(n) \/ Collect(n) \/ SinkCancelSecond(n)
        <4>1. PICK place \in Places \ Leaving : Goto(n, place)
          BY <3>1 DEF Started, CancelFirst, CancelWakes, RecvRetry, Sent, CallForwards,
             CallConsumes, CallRetries, CallTearsDown, PollMessage, PollError, Collect,
             SinkCancelSecond, Places, Leaving, Exits
        <4>2. task[n] \notin Exits /\ UNCHANGED <<queue, queueStats>>
          BY <3>1 DEF Started, CancelFirst, CancelWakes, RecvRetry, Sent, CallForwards,
             CallConsumes, CallRetries, CallTearsDown, PollMessage, PollError, Collect,
             SinkCancelSecond, Exits
        <4>3. \A m \in Node : m # n => parked'[m] = parked[m] /\ hand'[m] = hand[m]
          BY <2>0, <3>1 DEF Started, CancelFirst, CancelWakes, RecvRetry, Sent, CallForwards,
             CallConsumes, CallRetries, CallTearsDown, PollMessage, PollError, Collect,
             SinkCancelSecond, Take
        <4> QED
          BY <4>1, <4>2, <4>3, OrderlyInLoop
      <3>2. CASE RecvMessage(n) \/ SinkRecv(n)
        <4>1. PICK place \in Places \ Leaving : Goto(n, place)
          BY <3>2 DEF RecvMessage, SinkRecv, Places, Leaving, Exits
        <4>2. task[n] \notin Exits /\ Dequeue(n) /\ Take(n, "fresh") /\ UNCHANGED parked
          BY <3>2 DEF RecvMessage, SinkRecv, Exits
        <4>3. \A m \in Node : m # n => queue'[m] = queue[m] /\ hand'[m] = hand[m]
          BY <2>0, <4>2 DEF Dequeue, Take
        <4>4. \A m \in Node :
                  queueStats'[m].downstream_closed = queueStats[m].downstream_closed
          BY <2>0, <4>2 DEF Dequeue, QueueCounters
        <4> QED
          BY <4>1, <4>2, <4>3, <4>4, OrderlyInLoop
      <3>3. CASE SinkNoInput(n)
        <4>1. CASE Eof(n)
          <5>1. parked[n] = 0 /\ hand[n] = "none"
            BY <3>3 DEF SinkNoInput, ByKind, Guest, FlowInv, HandsMatch, Working, Exits
          <5> QED
            BY <3>3, <4>1, <5>1, OrderlyLeaves DEF SinkNoInput, Eof, Exits
        <4>2. CASE ~Eof(n)
          BY <3>3, <4>2, OrderlyInLoop DEF SinkNoInput, Places, Leaving, Exits
        <4> QED
          BY <4>1, <4>2
      <3>4. CASE RecvEof(n)
        <4>1. hand[n] = "none"
          BY <3>4 DEF RecvEof, FlowInv, HandsMatch, Working, Exits
        <4> QED
          BY <3>4, <4>1, OrderlyLeaves DEF RecvEof, Eof, Exits
      <3>5. CASE PollEof(n)
        <4>1. parked[n] = 0 /\ hand[n] = "none" /\ queue[n] = 0
          BY <3>5 DEF PollEof, ByKind, Guest, FlowInv, HandsMatch, Working, Exits
        <4>2. \A e \in Edge : e[2] # n
          BY <3>5, PipelineAssumption DEF PollEof
        <4> QED
          BY <3>5, <4>1, <4>2, OrderlyLeaves DEF PollEof, Exits
      <3>6. CASE DrainEmpty(n)
        BY <2>0, <3>6, OrderlyLeaves DEF DrainEmpty, Leaving, Exits
      <3>7. CASE ProcessingEnds(n) \/ SourceClosed(n) \/ SinkClosed(n)
        <4>1. task[n] = "close" /\ Exit(n, "ok")
          BY <3>7 DEF ProcessingEnds, SourceClosed, SinkClosed, Exit
        <4> QED
          BY <2>0, <4>1, OrderlyLeaves DEF Exit, Leaving, Exits
      <3>8. CASE fail_io_init(n) \/ Panic(n)
        BY <3>8 DEF fail_io_init, Panic, Exit
      <3>9. CASE DrainRecv(n) \/ DrainCollect(n)
        <4>1. task[n] \in Leaving /\ (queue[n] > 0 \/ hand[n] # "none")
          BY <3>9 DEF DrainRecv, DrainCollect, Dequeue, FlowInv, HandsMatch, Working, Leaving
        <4> QED
          BY <2>0, <4>1
      <3>10. CASE FlushRetry(n)
        <4>1. task[n] \notin Leaving
          BY <2>0, <3>10 DEF FlushRetry
        <4>2. \A m \in Node : m # n => parked'[m] = parked[m]
          BY <2>0, <3>10 DEF FlushRetry
        <4>3. Goto(n, task[n]) /\ task[n] \in Places
          BY <2>0, <3>10 DEF FlushRetry, Goto
        <4> QED
          BY <3>10, <4>1, <4>2, <4>3, OrderlyInLoop DEF FlushRetry, Leaving
      <3>11. CASE \E e \in Edge : send_one(n, e)
        BY <3>11, OrderlySend
      <3> QED
        BY <2>1, <3>1, <3>2, <3>3, <3>4, <3>5, <3>6, <3>7, <3>8, <3>9, <3>10, <3>11
           DEF TaskStep, LoopStep, GuestStep, AdapterStep
    <2>2. ASSUME NEW n \in Node, AbortTask(n)
          PROVE  Orderly'
      BY <2>2 DEF AbortTask, Exit
    <2>3. CASE UNCHANGED <<task, hand, parked, queue, queueStats>>
      BY <2>3 DEF Orderly, Exited
    <2>4. CASE \/ DlqStep \/ Cancel \/ Finished \/ UNCHANGED vars
               \/ BeginStopping \/ AllJoined \/ Deadline \/ Aborted \/ DlqAwaited
               \/ \E n \in Node : Join(n)
      BY <2>3, <2>4 DEF DlqStep, DlqWrite, DlqEnd, Cancel, Finished, BeginStopping,
         AllJoined, Deadline, Aborted, DlqAwaited, Join
    <2> QED
      BY <2>1, <2>2, <2>4 DEF Next, Orchestrator
  <1> QED
    BY <1>a, <1>b, <1>c

\* The DLQ is refused to nobody while its task has not failed.
LEMMA DlqOutlivesStep ==
    ASSUME FlowInv, RestTypes, ByKind, DlqOutlives, [Next]_vars
    PROVE  DlqOutlives'
  <1>0. task \in [Node -> Places] /\ queueStats \in [Node -> [QueueCounters -> Nat]]
    BY DEF FlowInv, FlowTypes
  <1>1. ASSUME NEW n \in Node, TaskStep(n)
        PROVE  DlqOutlives'
    <2>1. UNCHANGED dlqTask
      BY <1>1, TaskStepFrame, DlqSendTypes
    <2>2. \A m \in Node : Exited(m) => Exited(m)'
      BY <1>0, <1>1, TaskStepFrame DEF Exited
    <2>3. DlqSendersGone => DlqSendersGone'
      BY <2>2 DEF DlqSendersGone
    <2>4. DlqCapacity > 0 /\ dlqTask # "failed"
              => \A m \in Node : queueStats'[m].dlq_closed = queueStats[m].dlq_closed
      <3>1. CASE \E e \in Edge : send_one(n, e)
        <4>1. PICK e \in Edge : send_one(n, e)
          BY <3>1
        <4> DEFINE d == e[2]
                   out == Offer(e)
        <4>2. d \in Node /\ Overflow[e] \in Policies
          BY PipelineAssumption
        <4>3. SUFFICES ASSUME DlqCapacity > 0, dlqTask # "failed"
                       PROVE  \A m \in Node : queueStats'[m].dlq_closed = queueStats[m].dlq_closed
          OBVIOUS
        <4>4. ~DlqSendersGone
          BY <4>1 DEF DlqSendersGone, send_one, ByKind, Exited, Exits
        <4>5. dlqTask = "running"
          BY <4>3, <4>4 DEF DlqOutlives, RestTypes
        <4>6. out \in QueueCounters \ {"dlq_closed"}
          BY <4>1, <4>2, <4>5 DEF send_one, Offer, DlqVerdict, QueueCounters, Policies
        <4>7. queueStats' = [queueStats EXCEPT ![d][out] = @ + 1]
          BY <4>1 DEF send_one
        <4>8. "dlq_closed" \in QueueCounters
          BY DEF QueueCounters
        <4> HIDE DEF d, out
        <4> QED
          BY <1>0, <4>2, <4>6, <4>7, <4>8, QueueCounted
      <3>2. CASE UNCHANGED queueStats
        BY <3>2
      <3>3. CASE RecvMessage(n) \/ SinkRecv(n) \/ DrainRecv(n)
        BY <1>0, <3>3 DEF RecvMessage, SinkRecv, DrainRecv, Dequeue, QueueCounters
      <3>4. CASE \/ Started(n) \/ CancelFirst(n) \/ CancelWakes(n) \/ RecvRetry(n) \/ Sent(n)
                 \/ CallForwards(n) \/ CallConsumes(n) \/ CallRetries(n) \/ CallTearsDown(n)
                 \/ PollMessage(n) \/ PollError(n) \/ Collect(n) \/ SinkCancelSecond(n)
                 \/ SinkNoInput(n) \/ RecvEof(n) \/ PollEof(n) \/ DrainEmpty(n)
                 \/ ProcessingEnds(n) \/ SourceClosed(n) \/ SinkClosed(n) \/ fail_io_init(n)
                 \/ Panic(n) \/ DrainCollect(n) \/ FlushRetry(n)
        BY <3>2, <3>4 DEF Started, CancelFirst, CancelWakes, RecvRetry, Sent, CallForwards,
           CallConsumes, CallRetries, CallTearsDown, PollMessage, PollError, Collect,
           SinkCancelSecond, SinkNoInput, RecvEof, PollEof, DrainEmpty, ProcessingEnds,
           SourceClosed, SinkClosed, fail_io_init, Panic, DrainCollect, FlushRetry, Exit
      <3> QED
        BY <1>1, <3>1, <3>3, <3>4 DEF TaskStep, LoopStep, GuestStep, AdapterStep
    <2> QED
      BY <2>1, <2>3, <2>4 DEF DlqOutlives
  <1>2. CASE \E n \in Node : AbortTask(n)
    <2>1. PICK n \in Node : AbortTask(n)
      BY <1>2
    <2>2. UNCHANGED <<dlqTask, queueStats>>
      BY <2>1 DEF AbortTask, Exit
    <2>3. DlqSendersGone => DlqSendersGone'
      BY <1>0, <2>1 DEF AbortTask, Exit, Goto, Exited, Exits, DlqSendersGone
    <2> QED
      BY <2>2, <2>3 DEF DlqOutlives
  <1>3. CASE DlqStep
    BY <1>3 DEF DlqStep, DlqWrite, DlqEnd, DlqOutlives, DlqSendersGone, Exited
  <1>4. CASE UNCHANGED <<task, dlqTask, queueStats>>
    BY <1>4 DEF DlqOutlives, DlqSendersGone, Exited
  <1>5. CASE \/ Cancel \/ Finished \/ UNCHANGED vars
             \/ BeginStopping \/ AllJoined \/ Deadline \/ Aborted \/ DlqAwaited
             \/ \E n \in Node : Join(n)
    BY <1>4, <1>5 DEF Cancel, Finished, BeginStopping, AllJoined, Deadline, Aborted, DlqAwaited,
       Join
  <1> QED
    BY <1>1, <1>2, <1>3, <1>5 DEF Next, Orchestrator

\* A pipeline of any shape that ends by itself and is reported as a success has
\* delivered: its tasks left their loops in the order of the graph, so that no
\* message was left in a queue or retry buffer or offered to a node or a DLQ
\* that had gone.
THEOREM SuccessDelivers == Spec => []CleanRunDelivers
  <1> DEFINE All == FlowInv /\ RestTypes /\ Supervised /\ ByKind /\ Orderly /\ DlqOutlives
  <1>1. Init => All
    <2> SUFFICES ASSUME Init PROVE All
      OBVIOUS
    <2>1. FlowInv /\ RestTypes
      BY FlowInvInit
    <2>2. Supervised /\ ByKind
      BY DEF Init, Supervised, ByKind
    <2>3. Orderly
      BY DEF Init, Orderly, Leaving, Exits, QueueCounters
    <2>4. DlqOutlives
      BY PipelineAssumption DEF Init, DlqOutlives, QueueCounters
    <2> QED
      BY <2>1, <2>2, <2>3, <2>4
  <1>2. All /\ [Next]_vars => All'
    BY FlowStep, RestStep, SupervisedStep, ByKindStep, OrderlyStep, DlqOutlivesStep
  <1>3. All => CleanRunDelivers
    <2> SUFFICES ASSUME All, opc = "done", failures = {}, ~cancelled, NEW n \in Node
                 PROVE  /\ queue[n] = 0 /\ parked[n] = 0 /\ hand[n] = "none"
                        /\ queueStats[n].downstream_closed = 0
                        /\ DlqCapacity > 0 => queueStats[n].dlq_closed = 0
      BY DEF CleanRunDelivers
    <2>1. task[n] \in Leaving
      BY DEF Supervised, Leaving
    <2>2. dlqTask # "failed"
      BY DEF Supervised
    <2> QED
      BY <2>1, <2>2, PipelineAssumption DEF Orderly, DlqOutlives
  <1> HIDE DEF All
  <1> QED
    BY <1>1, <1>2, <1>3, PTL DEF Spec
=============================================================================
