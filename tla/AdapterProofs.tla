--------------------------- MODULE AdapterProofs ---------------------------
(***************************************************************************)
(* Theorems about the source and sink adapters, for every value of their   *)
(* constants: each adapter keeps an invariant of its own, and side by side *)
(* they keep what Adapters asks of them.                                   *)
(***************************************************************************)
EXTENDS Adapters, SequencesExt, FiniteSetTheorems, SequenceTheorems, WellFoundedInduction, TLAPS

-----------------------------------------------------------------------------
(***************************************************************************)
(* Sequences as queues.                                                    *)
(***************************************************************************)

\* What is in a queue after an arrival at its end and before a departure.
LEMMA QueueSets ==
  ASSUME NEW S, NEW s \in Seq(S)
  PROVE  /\ ToSet(s) \subseteq S
         /\ ToSet(<<>>) = {}
         /\ \A e \in S : ToSet(Append(s, e)) = ToSet(s) \cup {e}
         /\ s # <<>> => ToSet(s) = {Head(s)} \cup ToSet(Tail(s))
  <1>1. ToSet(s) = {s[i] : i \in 1 .. Len(s)}
    BY DEF ToSet
  <1>2. ASSUME NEW e \in S PROVE ToSet(Append(s, e)) = ToSet(s) \cup {e}
    <2>1. ToSet(Append(s, e)) = {Append(s, e)[i] : i \in 1 .. Len(s) + 1}
      BY DEF ToSet
    <2>2. \A i \in 1 .. Len(s) : Append(s, e)[i] = s[i]
      OBVIOUS
    <2>3. Append(s, e)[Len(s) + 1] = e
      OBVIOUS
    <2> QED BY <1>1, <2>1, <2>2, <2>3
  <1>3. ASSUME s # <<>> PROVE ToSet(s) = {Head(s)} \cup ToSet(Tail(s))
    <2>1. Len(Tail(s)) = Len(s) - 1 /\ Len(s) > 0
      BY <1>3
    <2>2. Tail(s) \in Seq(S) /\ DOMAIN Tail(s) = 1 .. Len(s) - 1
      BY <1>3, <2>1
    <2>3. ToSet(Tail(s)) = {Tail(s)[i] : i \in 1 .. Len(s) - 1}
      BY <2>2 DEF ToSet
    <2>4. \A i \in 1 .. Len(s) - 1 : Tail(s)[i] = s[i + 1] /\ i + 1 \in 1 .. Len(s)
      BY <1>3
    <2>5. Head(s) = s[1] /\ 1 \in 1 .. Len(s)
      BY <1>3, <2>1
    <2>6. ASSUME NEW i \in 1 .. Len(s) PROVE s[i] \in {Head(s)} \cup ToSet(Tail(s))
      <3>1. CASE i = 1
        BY <2>5, <3>1
      <3>2. CASE i # 1
        <4>1. i - 1 \in 1 .. Len(s) - 1 /\ (i - 1) + 1 = i
          BY <3>2
        <4>2. Tail(s)[i - 1] = s[i]
          BY <2>4, <4>1
        <4> QED BY <2>3, <4>1, <4>2
      <3> QED BY <3>1, <3>2
    <2>7. {Head(s)} \cup ToSet(Tail(s)) \subseteq ToSet(s)
      BY <1>1, <2>3, <2>4, <2>5
    <2> QED BY <1>1, <2>6, <2>7
  <1>4. ToSet(<<>>) = {}
    BY DEF ToSet
  <1> QED BY <1>1, <1>2, <1>3, <1>4

\* The same for one arrival.
LEMMA ArrivalSet ==
  ASSUME NEW S, NEW s \in Seq(S), NEW e \in S PROVE ToSet(Append(s, e)) = ToSet(s) \cup {e}
  BY QueueSets

\* Sets of elements, and counting them, mean the same in every module.
LEMMA SameSets == ASSUME NEW s PROVE HttpS!ToSet(s) = ToSet(s)
  BY DEF HttpS!ToSet, ToSet

LEMMA SameCardinality ==
  ASSUME NEW S PROVE HttpS!Cardinality(S) = Cardinality(S) /\ LineS!Cardinality(S) = Cardinality(S)
  BY DEF HttpS!Cardinality, LineS!Cardinality, Cardinality

\* A queue holds at most as many elements as its length.
LEMMA QueueCount ==
  ASSUME NEW S, NEW s \in Seq(S), NEW T, T \subseteq ToSet(s)
  PROVE  IsFiniteSet(T) /\ Cardinality(T) <= Len(s)
  <1>1. IsFiniteSet(1 .. Len(s)) /\ Cardinality(1 .. Len(s)) = Len(s)
    <2>1. Len(s) \in Nat /\ 1 \in Int /\ Len(s) \in Int
      BY LenProperties
    <2> QED BY <2>1, FS_Interval
  <1>2. s \in Surjection(1 .. Len(s), ToSet(s))
    BY DEF Surjection, ToSet
  <1>3. /\ IsFiniteSet(ToSet(s)) /\ Cardinality(ToSet(s)) <= Len(s)
        /\ Cardinality(ToSet(s)) \in Nat
    BY <1>1, <1>2, FS_Surjection, FS_CardinalityType
  <1>4. IsFiniteSet(T) /\ Cardinality(T) <= Cardinality(ToSet(s)) /\ Cardinality(T) \in Nat
    BY <1>3, FS_Subset, FS_CardinalityType
  <1> QED BY <1>3, <1>4

-----------------------------------------------------------------------------
(***************************************************************************)
(* The HTTP source.                                                        *)
(***************************************************************************)
Statuses == {0, 200, 400, 404, 405, 503}
Busy(c) == conn[c] \in {"body", "send"}

HttpTypes ==
    /\ phase \in {"run", "send", "backoff", "close", "done"}
    /\ conn \in [Conn -> {"none", "idle", "body", "send", "gone"}]
    /\ request \in [Conn -> Nat]
    /\ arrived \in Nat
    /\ answer \in [1 .. arrived -> Statuses]
    /\ channel \in Seq(1 .. arrived) /\ emitted \in Seq(1 .. arrived)
    /\ Len(channel) <= BufferSize

\* The receiver goes with the source, and the channel with the receiver.
ReceiverIs ==
    /\ receiver \in BOOLEAN
    /\ receiver <=> phase # "done"
    /\ ~receiver => channel = <<>>

\* Each request that waits is one connection's, and has no answer yet.
Unanswered ==
    \A c \in Conn : Busy(c) =>
        /\ request[c] \in 1 .. arrived /\ answer[request[c]] = 0
        /\ \A d \in Conn : Busy(d) /\ request[d] = request[c] => d = c

HttpInv == HttpTypes /\ ReceiverIs /\ Unanswered /\ HttpS!AnswerIsTrue /\ HttpS!LossAtClose

LEMMA HttpInvInit == ASSUME HttpS!Init PROVE HttpInv
  <1>1. HttpTypes
    <2>1. answer = <<>> /\ arrived = 0
      BY DEF HttpS!Init
    <2>2. answer \in [1 .. arrived -> Statuses]
      BY <2>1
    <2>3. channel \in Seq(1 .. arrived) /\ emitted \in Seq(1 .. arrived) /\ Len(channel) <= BufferSize
      BY AdaptersFit DEF HttpS!HttpAssumption, HttpS!Init, HttpS!LoopInit
    <2> QED BY <2>2, <2>3 DEF HttpS!Init, HttpS!LoopInit, HttpTypes, HttpS!NoRequest
  <1>2. Unanswered /\ ReceiverIs
    BY DEF HttpS!Init, HttpS!LoopInit, Unanswered, ReceiverIs, Busy
  <1>3. HttpS!Acknowledged = {}
    BY DEF HttpS!Init, HttpS!Acknowledged
  <1>4. HttpS!AnswerIsTrue
    BY <1>3 DEF HttpS!Init, HttpS!LoopInit, HttpS!AnswerIsTrue, HttpS!ToSet
  <1>5. HttpS!LossAtClose
    <2>1. HttpS!Acknowledged \ HttpS!ToSet(emitted) = {}
      BY <1>3
    <2> QED BY <2>1, AdaptersFit, FS_EmptySet, SameCardinality
          DEF HttpS!HttpAssumption, HttpS!LossAtClose
  <1> QED BY <1>1, <1>2, <1>4, <1>5 DEF HttpInv

\* Who is acknowledged after a request arrives, and after one is answered.
LEMMA AcknowledgedIs ==
  ASSUME HttpTypes
  PROVE  /\ \A x \in Statuses \ {200} :
               arrived' = arrived + 1 /\ answer' = Append(answer, x)
                 => HttpS!Acknowledged' = HttpS!Acknowledged
         /\ \A r \in 1 .. arrived, x \in Statuses :
               arrived' = arrived /\ answer[r] = 0 /\ answer' = [answer EXCEPT ![r] = x]
                 => HttpS!Acknowledged'
                      = HttpS!Acknowledged \cup (IF x = 200 THEN {r} ELSE {})
         /\ UNCHANGED <<arrived, answer>> => HttpS!Acknowledged' = HttpS!Acknowledged
  <1>1. answer \in Seq(Statuses) /\ Len(answer) = arrived
    BY DEF HttpTypes
  <1>2. ASSUME NEW x \in Statuses \ {200}, arrived' = arrived + 1, answer' = Append(answer, x)
        PROVE  HttpS!Acknowledged' = HttpS!Acknowledged
    <2>1. \A r \in 1 .. arrived : answer'[r] = answer[r]
      BY <1>1, <1>2
    <2>2. answer'[arrived + 1] # 200
      BY <1>1, <1>2
    <2>3. 1 .. arrived' = 1 .. arrived \cup {arrived + 1}
      BY <1>2 DEF HttpTypes
    <2> QED BY <2>1, <2>2, <2>3 DEF HttpS!Acknowledged
  <1>3. ASSUME NEW r \in 1 .. arrived, NEW x \in Statuses, arrived' = arrived,
               answer[r] = 0, answer' = [answer EXCEPT ![r] = x]
        PROVE  HttpS!Acknowledged' = HttpS!Acknowledged \cup (IF x = 200 THEN {r} ELSE {})
    <2>1. \A q \in 1 .. arrived : answer'[q] = IF q = r THEN x ELSE answer[q]
      BY <1>3 DEF HttpTypes
    <2> QED BY <1>3, <2>1 DEF HttpS!Acknowledged
  <1>4. UNCHANGED <<arrived, answer>> => HttpS!Acknowledged' = HttpS!Acknowledged
    BY DEF HttpS!Acknowledged
  <1> QED BY <1>2, <1>3, <1>4

\* One connection's request is answered, the others wait as before.
LEMMA AnswerKeeps ==
  ASSUME HttpTypes, Unanswered, NEW c \in Conn, Busy(c), NEW x \in Statuses,
         HttpS!Answer(c, x), arrived' = arrived
  PROVE  /\ conn' \in [Conn -> {"none", "idle", "body", "send", "gone"}]
         /\ request' \in [Conn -> Nat]
         /\ answer' \in [1 .. arrived' -> Statuses]
         /\ Unanswered'
         /\ HttpS!Acknowledged'
              = HttpS!Acknowledged \cup (IF x = 200 THEN {request[c]} ELSE {})
  <1>1. request[c] \in 1 .. arrived /\ answer[request[c]] = 0
    BY DEF Unanswered
  <1>2. /\ conn' = [conn EXCEPT ![c] = "idle"] /\ request' = [request EXCEPT ![c] = 0]
        /\ answer' = [answer EXCEPT ![request[c]] = x]
    BY DEF HttpS!Answer, HttpS!NoRequest
  <1>3. /\ conn' \in [Conn -> {"none", "idle", "body", "send", "gone"}]
        /\ request' \in [Conn -> Nat] /\ answer' \in [1 .. arrived' -> Statuses]
    BY <1>1, <1>2 DEF HttpTypes
  <1>4. ASSUME NEW d \in Conn, Busy(d)' PROVE d # c /\ Busy(d) /\ request'[d] = request[d]
    BY <1>2, <1>4 DEF HttpTypes, Busy
  <1>5. Unanswered'
    <2> SUFFICES ASSUME NEW d \in Conn, Busy(d)'
                 PROVE  /\ request'[d] \in 1 .. arrived' /\ answer'[request'[d]] = 0
                        /\ \A e \in Conn : Busy(e)' /\ request'[e] = request'[d] => e = d
      BY DEF Unanswered
    <2>1. request[d] \in 1 .. arrived /\ answer[request[d]] = 0 /\ request[d] # request[c]
      BY <1>4 DEF Unanswered
    <2>2. answer'[request[d]] = 0
      BY <1>2, <2>1 DEF HttpTypes
    <2>3. \A e \in Conn : Busy(e)' /\ request'[e] = request'[d] => e = d
      BY <1>4 DEF Unanswered
    <2> QED BY <1>4, <2>1, <2>2, <2>3
  <1>6. HttpS!Acknowledged' = HttpS!Acknowledged \cup (IF x = 200 THEN {request[c]} ELSE {})
    <2> DEFINE r == request[c]
    <2>1. r \in 1 .. arrived /\ answer[r] = 0 /\ answer' = [answer EXCEPT ![r] = x]
      BY <1>1, <1>2
    <2> HIDE DEF r
    <2>2. HttpS!Acknowledged' = HttpS!Acknowledged \cup (IF x = 200 THEN {r} ELSE {})
      BY <2>1, AcknowledgedIs
    <2> QED BY <2>2 DEF r
  <1> QED BY <1>3, <1>5, <1>6

\* Nobody begins or ends to wait.
LEMMA NobodyAnswered ==
  ASSUME Unanswered, UNCHANGED <<request, arrived, answer>>,
         \A c \in Conn : Busy(c)' => Busy(c)
  PROVE  Unanswered'
  BY DEF Unanswered

\* What the answers, the channel and what went downstream have to do with
\* each other changes with the three of them and the receiver only.
LEMMA QuietKeeps ==
  ASSUME HttpS!AnswerIsTrue, HttpS!LossAtClose, HttpS!Acknowledged' = HttpS!Acknowledged,
         UNCHANGED <<channel, emitted, receiver>>
  PROVE  (HttpS!AnswerIsTrue /\ HttpS!LossAtClose)'
  BY DEF HttpS!AnswerIsTrue, HttpS!LossAtClose

\* While there is a receiver, what was acknowledged and is not downstream is
\* in the channel, which has its capacity.
LEMMA LossStays ==
  ASSUME HttpTypes', receiver', HttpS!AnswerIsTrue' PROVE HttpS!LossAtClose'
  <1>1. HttpS!ToSet(channel') = ToSet(channel') /\ HttpS!ToSet(emitted') = ToSet(emitted')
    BY SameSets
  <1>2. HttpS!Acknowledged' \ ToSet(emitted') \subseteq ToSet(channel')
    BY <1>1 DEF HttpS!AnswerIsTrue
  <1>3. Cardinality(HttpS!Acknowledged' \ ToSet(emitted')) <= Len(channel')
    BY <1>2, QueueCount DEF HttpTypes
  <1>4. Cardinality(HttpS!Acknowledged' \ ToSet(emitted')) \in Nat
    BY <1>2, QueueCount, FS_CardinalityType DEF HttpTypes
  <1>5. Len(channel') \in Nat /\ Len(channel') <= BufferSize /\ BufferSize \in Nat
    BY AdaptersFit DEF HttpTypes, HttpS!HttpAssumption
  <1> QED BY <1>1, <1>3, <1>4, <1>5, SameCardinality DEF HttpS!LossAtClose

\* The source's loop without its adapter: it does not get to its end.
LEMMA HttpLoopIs ==
  ASSUME HttpTypes, HttpS!LoopStep \/ HttpS!Cancel
  PROVE  /\ phase' \in {"run", "send", "backoff", "close", "done"}
         /\ phase' = "done" <=> phase = "done"
         /\ UNCHANGED emitted
  BY DEF HttpTypes, HttpS!LoopStep, HttpS!Sent, HttpS!Leave, HttpS!BackoffEnds, HttpS!Cancel

\* Only close() drops the receiver.
LEMMA ReceiverStep ==
  ASSUME HttpTypes, ReceiverIs, [HttpS!Next]_(HttpS!vars) PROVE ReceiverIs'
  <1> USE DEF ReceiverIs, HttpS!loopVars, HttpS!ioVars
  <1>1. CASE UNCHANGED <<phase, receiver, channel>>
    BY <1>1
  <1>2. CASE (HttpS!LoopStep \/ HttpS!Cancel) /\ UNCHANGED HttpS!ioVars
    BY <1>2, HttpLoopIs
  <1>3. ASSUME NEW c \in Conn, HttpS!SendMessage(c) PROVE ReceiverIs'
    BY <1>3 DEF HttpS!SendMessage
  <1>4. CASE HttpS!Poll
    BY <1>4 DEF HttpS!Poll, HttpS!PollSome, HttpS!Polls
  <1>5. CASE HttpS!Close
    BY <1>5 DEF HttpS!Close, HttpS!Closed
  <1>6. ASSUME NEW c \in Conn,
               \/ HttpS!Accept(c) \/ HttpS!HangUp(c) \/ HttpS!Body(c)
               \/ \E method \in {"POST", "GET"}, path \in BOOLEAN : HttpS!Request(c, method, path)
        PROVE  UNCHANGED <<phase, receiver, channel>>
    BY <1>6 DEF HttpS!Accept, HttpS!HangUp, HttpS!Body, HttpS!Request
  <1>7. UNCHANGED HttpS!vars => UNCHANGED <<phase, receiver, channel>>
    BY DEF HttpS!vars
  <1> QED BY <1>1, <1>2, <1>3, <1>4, <1>5, <1>6, <1>7 DEF HttpS!Next

\* Each step keeps the invariant.
LEMMA HttpInvStep ==
  ASSUME HttpInv, [HttpS!Next]_(HttpS!vars)
  PROVE  HttpInv'
  <1> USE DEF HttpS!loopVars, HttpS!ioVars
  <1>0. /\ HttpTypes /\ ReceiverIs /\ Unanswered /\ HttpS!AnswerIsTrue /\ HttpS!LossAtClose
        /\ BufferSize \in Nat \ {0}
    BY AdaptersFit DEF HttpInv, HttpS!HttpAssumption
  <1>r. ReceiverIs'
    BY <1>0, ReceiverStep
  <1>1. ASSUME NEW c \in Conn, HttpS!Accept(c) \/ HttpS!HangUp(c) PROVE HttpInv'
    <2>1. \A d \in Conn : Busy(d)' => Busy(d)
      BY <1>0, <1>1 DEF HttpS!Accept, HttpS!HangUp, Busy, HttpTypes
    <2>2. UNCHANGED <<phase, request, arrived, answer, channel, emitted, receiver>>
      BY <1>1 DEF HttpS!Accept, HttpS!HangUp
    <2>4. HttpTypes'
      BY <1>0, <1>1, <2>2 DEF HttpS!Accept, HttpS!HangUp, HttpTypes
    <2>3. Unanswered' /\ HttpS!Acknowledged' = HttpS!Acknowledged
      BY <1>0, <2>1, <2>2, NobodyAnswered, AcknowledgedIs
    <2> QED BY <1>r, <1>0, <2>2, <2>3, <2>4, QuietKeeps DEF HttpInv
  <1>2. ASSUME NEW c \in Conn, NEW method \in {"POST", "GET"}, NEW path \in BOOLEAN,
               HttpS!Request(c, method, path)
        PROVE  HttpInv'
    <2>1. PICK x \in Statuses \ {200} :
            /\ arrived' = arrived + 1 /\ answer' = Append(answer, x)
            /\ \/ UNCHANGED <<conn, request>>
               \/ /\ conn[c] = "idle" /\ x = 0 /\ conn' = [conn EXCEPT ![c] = "body"]
                  /\ request' = [request EXCEPT ![c] = arrived + 1]
      BY <1>2 DEF HttpS!Request, Statuses
    <2>2. UNCHANGED <<phase, channel, emitted, receiver>>
      BY <1>2 DEF HttpS!Request
    <2>3. answer \in Seq(Statuses) /\ Len(answer) = arrived /\ arrived \in Nat
      BY <1>0 DEF HttpTypes
    <2>4. /\ answer' \in [1 .. arrived' -> Statuses] /\ answer'[arrived + 1] = x
          /\ \A r \in 1 .. arrived : answer'[r] = answer[r]
      <3>1. /\ answer' \in Seq(Statuses) /\ Len(answer') = arrived' /\ answer'[arrived + 1] = x
            /\ \A r \in 1 .. arrived : answer'[r] = answer[r]
        BY <2>1, <2>3, AppendProperties
      <3> QED BY <3>1, LenProperties
    <2>5. channel' \in Seq(1 .. arrived') /\ emitted' \in Seq(1 .. arrived')
      <3>1. 1 .. arrived \subseteq 1 .. arrived'
        BY <2>1, <2>3
      <3> QED BY <1>0, <2>2, <3>1, SeqMonotonic DEF HttpTypes
    <2>6. HttpTypes'
      <3>1. /\ conn' \in [Conn -> {"none", "idle", "body", "send", "gone"}]
            /\ request' \in [Conn -> Nat] /\ arrived' \in Nat
        <4>1. conn \in [Conn -> {"none", "idle", "body", "send", "gone"}] /\ request \in [Conn -> Nat]
          BY <1>0 DEF HttpTypes
        <4>2. arrived + 1 \in Nat
          BY <2>3
        <4>3. conn' = [conn EXCEPT ![c] = "body"] \/ conn' = conn
          BY <2>1
        <4>4. request' = [request EXCEPT ![c] = arrived + 1] \/ request' = request
          BY <2>1
        <4> QED BY <2>1, <4>1, <4>2, <4>3, <4>4
      <3>2. phase' \in {"run", "send", "backoff", "close", "done"} /\ Len(channel') <= BufferSize
        BY <1>0, <2>2 DEF HttpTypes
      <3> QED BY <2>4, <2>5, <3>1, <3>2 DEF HttpTypes
    <2>7. Unanswered'
      <3> SUFFICES ASSUME NEW d \in Conn, Busy(d)'
                   PROVE  /\ request'[d] \in 1 .. arrived' /\ answer'[request'[d]] = 0
                          /\ \A e \in Conn : Busy(e)' /\ request'[e] = request'[d] => e = d
        BY DEF Unanswered
      <3>1. CASE UNCHANGED <<conn, request>>
        <4>1. Busy(d) /\ \A e \in Conn : Busy(e)' => Busy(e)
          BY <3>1 DEF Busy
        <4> QED BY <1>0, <2>1, <2>3, <2>4, <3>1, <4>1 DEF Unanswered
      <3>2. CASE /\ conn[c] = "idle" /\ x = 0 /\ conn' = [conn EXCEPT ![c] = "body"]
                 /\ request' = [request EXCEPT ![c] = arrived + 1]
        <4>1. request'[c] = arrived + 1
          BY <1>0, <3>2 DEF HttpTypes
        <4>2. \A e \in Conn : e # c /\ Busy(e)' => /\ request'[e] = request[e] /\ request[e] \in 1 .. arrived
                                                  /\ answer[request[e]] = 0 /\ Busy(e)
          BY <1>0, <3>2 DEF HttpTypes, Busy, Unanswered
        <4>3. CASE d = c
          BY <2>1, <2>3, <2>4, <3>2, <4>1, <4>2, <4>3
        <4>4. CASE d # c
          BY <1>0, <2>1, <2>3, <2>4, <3>2, <4>1, <4>2, <4>4 DEF Unanswered
        <4> QED BY <4>3, <4>4
      <3> QED BY <2>1, <3>1, <3>2
    <2>8. HttpS!Acknowledged' = HttpS!Acknowledged
      BY <1>0, <2>1, AcknowledgedIs
    <2>9. (HttpS!AnswerIsTrue /\ HttpS!LossAtClose)'
      BY <1>0, <2>2, <2>8, QuietKeeps
    <2> QED BY <1>r, <2>6, <2>7, <2>9 DEF HttpInv
  <1>3. ASSUME NEW c \in Conn, HttpS!Body(c) PROVE HttpInv'
    <2>1. UNCHANGED <<phase, channel, emitted, receiver, arrived>> /\ Busy(c)
      BY <1>3 DEF HttpS!Body, Busy
    <2>2. CASE conn' = [conn EXCEPT ![c] = "send"] /\ UNCHANGED <<request, answer>>
      <3>1. \A d \in Conn : Busy(d)' => Busy(d)
        BY <1>0, <2>1, <2>2 DEF Busy, HttpTypes
      <3>2. HttpTypes'
        BY <1>0, <2>1, <2>2 DEF HttpTypes
      <3> QED BY <1>r, <1>0, <2>1, <2>2, <3>1, <3>2, NobodyAnswered, AcknowledgedIs, QuietKeeps
              DEF HttpInv
    <2>3. CASE HttpS!Answer(c, 400)
      <3>1. /\ conn' \in [Conn -> {"none", "idle", "body", "send", "gone"}]
            /\ request' \in [Conn -> Nat] /\ answer' \in [1 .. arrived' -> Statuses]
            /\ Unanswered' /\ HttpS!Acknowledged' = HttpS!Acknowledged
        BY <1>0, <2>1, <2>3, AnswerKeeps DEF Statuses
      <3>2. HttpTypes'
        BY <1>0, <2>1, <3>1 DEF HttpTypes
      <3> QED BY <1>r, <1>0, <2>1, <3>1, <3>2, QuietKeeps DEF HttpInv
    <2> QED BY <1>3, <2>2, <2>3 DEF HttpS!Body
  <1>4. ASSUME NEW c \in Conn, HttpS!SendMessage(c) PROVE HttpInv'
    <2> DEFINE r == request[c]
    <2>1. UNCHANGED <<phase, emitted, receiver, arrived>> /\ Busy(c)
      BY <1>4 DEF HttpS!SendMessage, Busy
    <2>2. r \in 1 .. arrived
      BY <1>0, <2>1 DEF Unanswered
    <2>3. CASE /\ receiver /\ Len(channel) < BufferSize
               /\ channel' = Append(channel, r) /\ HttpS!Answer(c, 200)
      <3>1. /\ conn' \in [Conn -> {"none", "idle", "body", "send", "gone"}]
            /\ request' \in [Conn -> Nat] /\ answer' \in [1 .. arrived' -> Statuses]
            /\ Unanswered' /\ HttpS!Acknowledged' = HttpS!Acknowledged \cup {r}
        BY <1>0, <2>1, <2>3, AnswerKeeps DEF Statuses
      <3>2. channel' \in Seq(1 .. arrived') /\ Len(channel') = Len(channel) + 1
        BY <1>0, <2>1, <2>2, <2>3 DEF HttpTypes
      <3>3. HttpTypes' /\ receiver'
        <4>1. Len(channel') <= BufferSize
          BY <1>0, <2>3, <3>2 DEF HttpTypes
        <4> QED BY <1>0, <2>1, <2>3, <3>1, <3>2, <4>1 DEF HttpTypes
      <3>4. HttpS!ToSet(channel') = HttpS!ToSet(channel) \cup {r}
        <4>1. channel \in Seq(1 .. arrived) /\ channel' = Append(channel, r)
          BY <1>0, <2>3 DEF HttpTypes
        <4> DEFINE N == 1 .. arrived
        <4>3. r \in N /\ channel \in Seq(N)
          BY <2>2, <4>1
        <4> HIDE DEF r, N
        <4>2. ToSet(Append(channel, r)) = ToSet(channel) \cup {r}
          BY <4>3, ArrivalSet
        <4> QED BY <4>1, <4>2, SameSets
      <3>5. HttpS!AnswerIsTrue'
        BY <1>0, <2>1, <2>3, <3>1, <3>4 DEF HttpS!AnswerIsTrue
      <3>6. HttpS!LossAtClose'
        BY <3>3, <3>5, LossStays
      <3> QED BY <1>r, <3>1, <3>3, <3>5, <3>6 DEF HttpInv
    <2>4. CASE ~receiver /\ UNCHANGED channel /\ HttpS!Answer(c, 503)
      <3>1. /\ conn' \in [Conn -> {"none", "idle", "body", "send", "gone"}]
            /\ request' \in [Conn -> Nat] /\ answer' \in [1 .. arrived' -> Statuses]
            /\ Unanswered' /\ HttpS!Acknowledged' = HttpS!Acknowledged
        BY <1>0, <2>1, <2>4, AnswerKeeps DEF Statuses
      <3>2. HttpTypes'
        BY <1>0, <2>1, <2>4, <3>1 DEF HttpTypes
      <3> QED BY <1>r, <1>0, <2>1, <2>4, <3>1, <3>2, QuietKeeps DEF HttpInv
    <2> QED BY <1>4, <2>3, <2>4 DEF HttpS!SendMessage
  <1>5. CASE HttpS!Poll
    <2>1. /\ channel # <<>> /\ phase = "run" /\ phase' = "send"
          /\ emitted' = Append(emitted, Head(channel)) /\ channel' = Tail(channel)
          /\ UNCHANGED <<conn, request, receiver, arrived, answer>>
      BY <1>5 DEF HttpS!Poll, HttpS!PollSome, HttpS!Polls
    <2>2. Head(channel) \in 1 .. arrived /\ Len(channel') = Len(channel) - 1
          /\ channel' \in Seq(1 .. arrived) /\ emitted' \in Seq(1 .. arrived)
      BY <1>0, <2>1 DEF HttpTypes
    <2>3. HttpTypes' /\ receiver'
      <3>1. Len(channel') <= BufferSize
        BY <1>0, <2>1, <2>2 DEF HttpTypes
      <3>2. HttpTypes'
        BY <1>0, <2>1, <2>2, <3>1 DEF HttpTypes
      <3> QED BY <1>0, <2>1, <3>2 DEF ReceiverIs
    <2>4. HttpS!ToSet(emitted') \cup HttpS!ToSet(channel') = HttpS!ToSet(emitted) \cup HttpS!ToSet(channel)
      BY <1>0, <2>1, <2>2, QueueSets, SameSets DEF HttpTypes
    <2>5. HttpS!Acknowledged' = HttpS!Acknowledged /\ Unanswered'
      BY <1>0, <2>1, AcknowledgedIs, NobodyAnswered DEF Busy
    <2>6. HttpS!AnswerIsTrue'
      BY <1>0, <2>1, <2>4, <2>5 DEF HttpS!AnswerIsTrue
    <2>7. HttpS!LossAtClose'
      BY <2>3, <2>6, LossStays
    <2> QED BY <1>r, <2>3, <2>5, <2>6, <2>7 DEF HttpInv
  <1>6. CASE (HttpS!LoopStep \/ HttpS!Cancel) /\ UNCHANGED HttpS!ioVars
    <2>1. UNCHANGED <<conn, request, channel, receiver, arrived, answer>>
      BY <1>6
    <2>2. HttpTypes' /\ UNCHANGED emitted
      BY <1>0, <1>6, <2>1, HttpLoopIs DEF HttpTypes
    <2>3. Unanswered' /\ HttpS!Acknowledged' = HttpS!Acknowledged
      BY <1>0, <2>1, NobodyAnswered, AcknowledgedIs DEF Busy
    <2> QED BY <1>r, <1>0, <2>1, <2>2, <2>3, QuietKeeps DEF HttpInv
  <1>7. CASE HttpS!Close
    <2>1. /\ phase' = "done" /\ channel' = <<>> /\ receiver' = FALSE
          /\ UNCHANGED <<emitted, conn, request, arrived, answer>>
      BY <1>7 DEF HttpS!Close, HttpS!Closed
    <2>2. channel' \in Seq(1 .. arrived') /\ Len(channel') = 0
      BY <2>1
    <2>3. HttpTypes'
      <3>1. Len(channel') <= BufferSize
        BY <1>0, <2>2
      <3> QED BY <1>0, <2>1, <2>2, <3>1 DEF HttpTypes
    <2>4. Unanswered' /\ HttpS!Acknowledged' = HttpS!Acknowledged
      BY <1>0, <2>1, NobodyAnswered, AcknowledgedIs DEF Busy
    <2>5. HttpS!ToSet(channel') = {}
      BY <2>1 DEF HttpS!ToSet
    <2>6. (HttpS!AnswerIsTrue /\ HttpS!LossAtClose)'
      BY <1>0, <2>1, <2>4, <2>5 DEF HttpS!AnswerIsTrue, HttpS!LossAtClose
    <2> QED BY <1>r, <2>3, <2>4, <2>6 DEF HttpInv
  <1>8. CASE UNCHANGED HttpS!vars
    BY <1>r, <1>0, <1>8, NobodyAnswered, AcknowledgedIs, QuietKeeps
       DEF HttpInv, HttpTypes, HttpS!vars, Busy
  <1> QED BY <1>1, <1>2, <1>3, <1>4, <1>5, <1>6, <1>7, <1>8 DEF HttpS!Next

-----------------------------------------------------------------------------
(***************************************************************************)
(* Queues in a row: a message goes from the head of one to the end of the  *)
(* one before.                                                             *)
(***************************************************************************)

\* A sequence rises and does not exceed n.
RisingTo(s, n) ==
    \A i, j \in 1 .. Len(s) : s[i] <= n /\ (i < j => s[i] < s[j])

LEMMA MoveHead ==
  ASSUME NEW S, NEW a \in Seq(S), NEW b \in Seq(S), NEW c \in Seq(S), b # <<>>
  PROVE  Append(a, Head(b)) \o (Tail(b) \o c) = a \o (b \o c)
  <1>1. Head(b) \in S /\ Tail(b) \in Seq(S) /\ <<Head(b)>> \in Seq(S)
    BY HeadTailProperties
  <1>2. b = <<Head(b)>> \o Tail(b)
    OBVIOUS
  <1>3. Append(a, Head(b)) = a \o <<Head(b)>>
    BY <1>1, AppendIsConcat
  <1>4. Tail(b) \o c \in Seq(S)
    BY <1>1, ConcatProperties
  <1>5. (a \o <<Head(b)>>) \o (Tail(b) \o c) = a \o (<<Head(b)>> \o (Tail(b) \o c))
    <2>1. PICK first \in Seq(S) : first = <<Head(b)>>
      BY <1>1
    <2>2. PICK others \in Seq(S) : others = Tail(b) \o c
      BY <1>4
    <2>3. (a \o first) \o others = a \o (first \o others)
      OBVIOUS
    <2> QED BY <2>1, <2>2, <2>3
  <1>6. <<Head(b)>> \o (Tail(b) \o c) = (<<Head(b)>> \o Tail(b)) \o c
    BY <1>1, ConcatAssociative
  <1> QED BY <1>2, <1>3, <1>5, <1>6

\* For the messages of a source.
LEMMA MessagesMove ==
  \A a, b, c \in Seq(Nat) :
     b # <<>> => Append(a, Head(b)) \o (Tail(b) \o c) = a \o (b \o c)
  <1> DEFINE Moves(S) == \A a, b, c \in Seq(S) :
        b # <<>> => Append(a, Head(b)) \o (Tail(b) \o c) = a \o (b \o c)
  <1>1. ASSUME NEW S PROVE Moves(S)
    BY MoveHead
  <1>2. Moves(Nat)
    <2> HIDE DEF Moves
    <2> QED BY <1>1
  <1> QED BY <1>2, Zenon

LEMMA MoveOne ==
  ASSUME NEW S, NEW a \in Seq(S), NEW e \in S, NEW c \in Seq(S)
  PROVE  Append(a, e) \o c = a \o (<<e>> \o c)
  <1>1. <<e>> \in Seq(S) /\ Append(a, e) = a \o <<e>>
    BY AppendIsConcat
  <1> QED BY <1>1, ConcatAssociative

LEMMA AppendInside ==
  ASSUME NEW S, NEW a \in Seq(S), NEW b \in Seq(S), NEW e \in S
  PROVE  a \o Append(b, e) = Append(a \o b, e)
  <1>1. <<e>> \in Seq(S) /\ a \o b \in Seq(S)
    BY ConcatProperties
  <1>2. a \o (b \o <<e>>) = (a \o b) \o <<e>>
    BY <1>1, ConcatAssociative
  <1> QED BY <1>1, <1>2, AppendIsConcat

\* What comes after may be lost, and something greater may come.
LEMMA RisingPrefix ==
  ASSUME NEW a \in Seq(Nat), NEW b \in Seq(Nat), NEW n \in Nat, RisingTo(a \o b, n)
  PROVE  RisingTo(a, n)
  <1>1. /\ Len(a \o b) = Len(a) + Len(b) /\ Len(a) \in Nat /\ Len(b) \in Nat
        /\ \A i \in 1 .. Len(a) : (a \o b)[i] = a[i]
    BY ConcatProperties
  <1> SUFFICES ASSUME NEW i \in 1 .. Len(a), NEW j \in 1 .. Len(a)
               PROVE  a[i] <= n /\ (i < j => a[i] < a[j])
    BY DEF RisingTo
  <1>2. i \in 1 .. Len(a \o b) /\ j \in 1 .. Len(a \o b)
    BY <1>1
  <1>3. (a \o b)[i] <= n /\ (i < j => (a \o b)[i] < (a \o b)[j])
    BY <1>2 DEF RisingTo
  <1> QED BY <1>1, <1>3

LEMMA RisingAppend ==
  ASSUME NEW a \in Seq(Nat), NEW n \in Nat, NEW e \in Nat, RisingTo(a, n), n < e
  PROVE  RisingTo(Append(a, e), e)
  <1>1. /\ Len(Append(a, e)) = Len(a) + 1 /\ Append(a, e)[Len(a) + 1] = e /\ Len(a) \in Nat
        /\ \A i \in 1 .. Len(a) : Append(a, e)[i] = a[i] /\ a[i] \in Nat
    BY AppendProperties
  <1> SUFFICES ASSUME NEW i \in 1 .. Len(a) + 1, NEW j \in 1 .. Len(a) + 1
               PROVE  /\ Append(a, e)[i] <= e
                      /\ i < j => Append(a, e)[i] < Append(a, e)[j]
    BY <1>1 DEF RisingTo
  <1>2. CASE i = Len(a) + 1
    BY <1>1, <1>2
  <1>3. CASE i \in 1 .. Len(a)
    <2>1. Append(a, e)[i] = a[i] /\ a[i] <= n /\ a[i] \in Nat
      BY <1>1, <1>3 DEF RisingTo
    <2>2. CASE j = Len(a) + 1
      BY <1>1, <2>1, <2>2
    <2>3. CASE j \in 1 .. Len(a)
      BY <1>1, <1>3, <2>1, <2>3 DEF RisingTo
    <2> QED BY <1>1, <2>2, <2>3
  <1> QED BY <1>1, <1>2, <1>3

LEMMA RisingHigher ==
  ASSUME NEW a \in Seq(Nat), NEW n \in Nat, NEW m \in Nat, RisingTo(a, n), n <= m
  PROVE  RisingTo(a, m)
  BY DEF RisingTo

-----------------------------------------------------------------------------
(***************************************************************************)
(* The MQTT source.                                                        *)
(***************************************************************************)
Hand == IF eventloop = "send" THEN <<held>> ELSE <<>>

\* What was published, from what went downstream to what is on the wire.
Chain == emitted \o (channel \o (Hand \o wire))

MqttTypes ==
    /\ emitted \in Seq(Nat) /\ channel \in Seq(Nat) /\ wire \in Seq(Nat)
    /\ held \in Nat /\ published \in Nat

MqttInv == MqttTypes /\ RisingTo(Chain, published)

\* The chain in pieces, and the chain without its end.
LEMMA ChainPieces ==
  ASSUME MqttTypes, RisingTo(Chain, published)
  PROVE  /\ Hand \in Seq(Nat) /\ Hand \o wire \in Seq(Nat)
         /\ channel \o (Hand \o wire) \in Seq(Nat) /\ Chain \in Seq(Nat)
         /\ RisingTo(emitted, published)
         /\ RisingTo(emitted \o (channel \o Hand), published)
  <1>1. Hand \in Seq(Nat)
    BY DEF Hand, MqttTypes
  <1>2. Hand \o wire \in Seq(Nat) /\ channel \o Hand \in Seq(Nat)
    BY <1>1, ConcatProperties DEF MqttTypes
  <1>3. channel \o (Hand \o wire) \in Seq(Nat) /\ emitted \o (channel \o Hand) \in Seq(Nat)
    BY <1>2, ConcatProperties DEF MqttTypes
  <1>4. Chain \in Seq(Nat)
    BY <1>3, ConcatProperties DEF Chain, MqttTypes
  <1>5. RisingTo(emitted, published)
    BY <1>3, RisingPrefix DEF Chain, MqttTypes
  <1>6. Chain = (emitted \o (channel \o Hand)) \o wire
    <2>1. (channel \o Hand) \o wire = channel \o (Hand \o wire)
      BY <1>1, ConcatAssociative, SMTT(40) DEF MqttTypes
    <2>2. emitted \in Seq(Nat) /\ wire \in Seq(Nat)
      BY DEF MqttTypes
    <2>4. PICK first \in Seq(Nat) : first = channel \o Hand
      BY <1>2
    <2>3. (emitted \o first) \o wire = emitted \o (first \o wire)
      BY <2>2, ConcatAssociative
    <2> QED BY <2>1, <2>3, <2>4 DEF Chain
  <1>7. RisingTo(emitted \o (channel \o Hand), published)
    BY <1>3, <1>6, RisingPrefix DEF MqttTypes
  <1> QED BY <1>1, <1>2, <1>3, <1>4, <1>5, <1>7

\* Each step moves a message along the chain, cuts the end of the chain, or
\* adds a newer message to it.
LEMMA MqttInvStep == ASSUME MqttInv, [MqttS!Next]_(MqttS!vars) PROVE MqttInv'
  <1> USE DEF MqttS!loopVars, MqttS!linkVars
  <1>0. /\ MqttTypes /\ RisingTo(Chain, published)
        /\ Hand \in Seq(Nat) /\ Hand \o wire \in Seq(Nat)
        /\ channel \o (Hand \o wire) \in Seq(Nat) /\ Chain \in Seq(Nat)
    BY ChainPieces DEF MqttInv
  <1>1. ASSUME UNCHANGED <<emitted, channel, held, wire, published>>,
               eventloop' = "send" <=> eventloop = "send"
        PROVE  MqttInv'
    <2>1. Hand' = Hand
      BY <1>1 DEF Hand
    <2>2. Chain' = Chain
      BY <1>1, <2>1 DEF Chain
    <2> QED BY <1>0, <1>1, <2>2 DEF MqttInv, MqttTypes
  <1>2. CASE MqttS!Incoming
    <2>1. /\ wire # <<>> /\ held' = Head(wire) /\ wire' = Tail(wire)
          /\ eventloop = "poll" /\ eventloop' = "send"
          /\ UNCHANGED <<emitted, channel, published>>
      BY <1>2 DEF MqttS!Incoming
    <2>2. held' \in Nat /\ wire' \in Seq(Nat)
      BY <1>0, <2>1, HeadTailProperties DEF MqttTypes
    <2>3. Hand \o wire = wire /\ Hand' \o wire' = wire
      <3>1. Hand = <<>> /\ Hand' = <<Head(wire)>>
        BY <2>1 DEF Hand
      <3>2. wire \in Seq(Nat) /\ <<Head(wire)>> \o Tail(wire) = wire
        BY <1>0, <2>1 DEF MqttTypes
      <3> QED BY <2>1, <3>1, <3>2, ConcatEmptySeq
    <2> QED BY <1>0, <2>1, <2>2, <2>3 DEF MqttInv, MqttTypes, Chain
  <1>3. CASE MqttS!Forward
    <2>1. /\ eventloop = "send" /\ channel' = Append(channel, held) /\ held' = 0
          /\ eventloop' = "poll" /\ UNCHANGED <<emitted, wire, published>>
      BY <1>3 DEF MqttS!Forward, MqttS!NoMessage
    <2>2. channel' \in Seq(Nat)
      BY <1>0, <2>1, AppendProperties DEF MqttTypes
    <2>3. Hand = <<held>> /\ Hand' = <<>>
      BY <2>1 DEF Hand
    <2>4. channel' \o (Hand' \o wire') = channel \o (Hand \o wire)
      <3>1. Hand' \o wire' = wire
        BY <1>0, <2>1, <2>3, ConcatEmptySeq DEF MqttTypes
      <3> QED BY <1>0, <2>1, <2>3, <3>1, MoveOne DEF MqttTypes
    <2> QED BY <1>0, <2>1, <2>2, <2>4 DEF MqttInv, MqttTypes, Chain
  <1>4. CASE MqttS!LinkBreaks
    <2>1. /\ wire' = <<>> /\ UNCHANGED <<emitted, channel, held, published>>
          /\ eventloop' = "send" <=> eventloop = "send"
      BY <1>4 DEF MqttS!LinkBreaks
    <2>2. Hand' = Hand /\ Hand' \o wire' = Hand
      BY <1>0, <2>1, ConcatEmptySeq DEF Hand
    <2>3. Chain' = emitted \o (channel \o Hand)
      BY <2>1, <2>2 DEF Chain
    <2> QED BY <1>0, <2>1, <2>3, ChainPieces DEF MqttInv, MqttTypes
  <1>5. CASE MqttS!Publish
    <2>1. /\ published' = published + 1
          /\ wire' = wire \/ wire' = Append(wire, published + 1)
          /\ UNCHANGED <<emitted, channel, held, eventloop>>
      BY <1>5 DEF MqttS!Publish
    <2>2. Hand' = Hand /\ published' \in Nat /\ published < published'
      BY <1>0, <2>1 DEF Hand, MqttTypes
    <2>3. CASE wire' = wire
      <3>1. Chain' = Chain
        BY <2>1, <2>2, <2>3 DEF Chain
      <3>2. RisingTo(Chain, published')
        BY <1>0, <2>2, RisingHigher DEF MqttTypes
      <3> QED BY <1>0, <2>1, <2>2, <2>3, <3>1, <3>2 DEF MqttInv, MqttTypes
    <2>4. CASE wire' = Append(wire, published')
      <3>1. wire' \in Seq(Nat)
        BY <1>0, <2>2, <2>4, AppendProperties DEF MqttTypes
      <3>2. Chain' = Append(Chain, published')
        <4>1. /\ Hand \in Seq(Nat) /\ wire \in Seq(Nat) /\ channel \in Seq(Nat)
              /\ emitted \in Seq(Nat)
          BY <1>0 DEF MqttTypes
        <4>2. PICK last \in Seq(Nat) : last = Hand \o wire
          BY <1>0
        <4>3. PICK others \in Seq(Nat) : others = channel \o last
          BY <1>0, <4>2
        <4>4. Hand \o wire' = Append(last, published')
          BY <2>2, <2>4, <4>1, <4>2, AppendInside, SMTT(40)
        <4>5. channel \o Append(last, published') = Append(others, published')
          BY <2>2, <4>1, <4>3, AppendInside, SMTT(40)
        <4>6. emitted \o Append(others, published') = Append(emitted \o others, published')
          BY <2>2, <4>1, AppendInside, SMTT(40)
        <4> QED BY <2>1, <2>2, <4>2, <4>3, <4>4, <4>5, <4>6 DEF Chain
      <3>3. RisingTo(Append(Chain, published'), published')
        BY <1>0, <2>2, RisingAppend DEF MqttTypes
      <3> QED BY <1>0, <2>1, <2>2, <3>1, <3>2, <3>3 DEF MqttInv, MqttTypes
    <2> QED BY <2>1, <2>3, <2>4
  <1>6. CASE MqttS!Poll
    <2>1. /\ channel # <<>> /\ emitted' = Append(emitted, Head(channel)) /\ channel' = Tail(channel)
          /\ UNCHANGED <<eventloop, held, wire, published>>
      BY <1>6 DEF MqttS!Poll, MqttS!PollSome
    <2>2. Head(channel) \in Nat /\ channel' \in Seq(Nat) /\ emitted' \in Seq(Nat)
      BY <1>0, <2>1, HeadTailProperties, AppendProperties DEF MqttTypes
    <2>3. Chain' = Chain
      <3>1. Hand' \o wire' = Hand \o wire
        BY <2>1 DEF Hand
      <3>2. emitted \in Seq(Nat) /\ channel \in Seq(Nat) /\ channel # <<>>
        BY <1>0, <2>1 DEF MqttTypes
      <3>4. PICK last \in Seq(Nat) : last = Hand \o wire
        BY <1>0
      <3>3. Append(emitted, Head(channel)) \o (Tail(channel) \o last) = emitted \o (channel \o last)
        BY <3>2, <3>4, MessagesMove, Zenon
      <3> QED BY <2>1, <3>1, <3>3, <3>4 DEF Chain
    <2> QED BY <1>0, <2>1, <2>2, <2>3 DEF MqttInv, MqttTypes
  <1>7. CASE MqttS!Close
    <2>1. /\ eventloop' = "gone" /\ held' = 0 /\ channel' = <<>> /\ wire' = <<>>
          /\ UNCHANGED <<emitted, published>>
      BY <1>7 DEF MqttS!Close, MqttS!Closed, MqttS!NoMessage
    <2>2. <<>> \in Seq(Nat) /\ Hand' = <<>>
      BY <2>1 DEF Hand
    <2>3. Chain' = emitted
      BY <1>0, <2>1, <2>2, ConcatEmptySeq DEF Chain, MqttTypes
    <2> QED BY <1>0, <2>1, <2>2, <2>3, ChainPieces DEF MqttInv, MqttTypes
  <1>8. ASSUME \/ \E session_present \in BOOLEAN : MqttS!ConnAck(session_present)
               \/ \E granted \in BOOLEAN : MqttS!SubAck(granted)
               \/ MqttS!Wakes \/ MqttS!PollFails
               \/ (MqttS!LoopStep \/ MqttS!Cancel) /\ MqttS!Rest
               \/ UNCHANGED MqttS!vars
        PROVE  /\ UNCHANGED <<emitted, channel, held, wire, published>>
               /\ eventloop' = "send" <=> eventloop = "send"
    BY <1>8 DEF MqttS!ConnAck, MqttS!SubAck, MqttS!Wakes, MqttS!PollFails, MqttS!Rest, MqttS!vars,
                MqttS!LoopStep, MqttS!Sent, MqttS!Leave, MqttS!BackoffEnds, MqttS!Cancel
  <1> QED BY <1>1, <1>2, <1>3, <1>4, <1>5, <1>6, <1>7, <1>8 DEF MqttS!Next, MqttS!Works

LEMMA MqttInvInit == ASSUME MqttS!Init PROVE MqttInv
  <1>1. /\ emitted = <<>> /\ channel = <<>> /\ wire = <<>> /\ held = 0 /\ published = 0
        /\ Hand = <<>>
    BY DEF MqttS!Init, MqttS!LoopInit, MqttS!NoMessage, Hand
  <1>2. Chain = <<>>
    BY <1>1 DEF Chain
  <1>3. RisingTo(<<>>, 0)
    BY DEF RisingTo
  <1> QED BY <1>1, <1>2, <1>3 DEF MqttInv, MqttTypes

LEMMA MqttInvSays == ASSUME MqttInv PROVE LineS!EmittedInOrder
  BY ChainPieces DEF MqttInv, RisingTo, LineS!EmittedInOrder

-----------------------------------------------------------------------------
(***************************************************************************)
(* Files and standard input.                                               *)
(***************************************************************************)

\* A set of natural numbers has a least element, if it has any: the library's
\* well-foundedness of < without its operator parameter.
LEMMA Least == ASSUME NEW T, T \subseteq Nat, T # {} PROVE \E x \in T : \A y \in T : x <= y
  <1> DEFINE less == {p \in Nat \X Nat : p[1] < p[2]}
  <1>1. IsWellFoundedOn(less, Nat)
    <2>1. OpToRel(<, Nat) = less
      BY Zenon DEF OpToRel
    <2> QED BY <2>1, NatLessThanWellFounded
  <1> HIDE DEF less
  <1>2. PICK x \in T : \A y \in T : ~(<<y, x>> \in less)
    BY <1>1, WFMin
  <1>3. ASSUME NEW y \in T PROVE x <= y
    <2>1. x \in Nat /\ y \in Nat
      OBVIOUS
    <2>2. y < x => <<y, x>> \in less
      BY <2>1 DEF less
    <2> QED BY <1>2, <2>1, <2>2
  <1> QED BY <1>3

\* The lines of text among the first n.
TextTo(n) == {i \in 1 .. n : input[i] = "text"}

\* Those of them no failed read cut.
Uncut(n) == TextTo(n) \ fragments

\* What a failed read left behind of a line is of a line it cut.
CutsKnown == kind # "bin" /\ rest # "whole" => line + 1 \in fragments

\* What read_line() gives is the next line there is to read as text.
LEMMA NextTextRead ==
  ASSUME input \in Seq({"text", "binary"}), line \in 0 .. Len(input)
  PROVE  LET next == LineS!NextText(line)
         IN /\ next \in line + 1 .. Len(input) + 1
            /\ next <= Len(input) => LineS!ToRead(line, next) = "text"
            /\ \A i \in line + 1 .. Len(input) : i < next => LineS!ToRead(line, i) # "text"
  <1>0. Len(input) \in Nat
    OBVIOUS
  <1> DEFINE texts == {i \in (line + 1) .. Len(input) : LineS!ToRead(line, i) = "text"}
             first == CHOOSE i \in texts : \A j \in texts : i <= j
  <1>1. LineS!NextText(line) = IF texts = {} THEN Len(input) + 1 ELSE first
    BY DEF LineS!NextText
  <1>2. CASE texts = {}
    BY <1>0, <1>1, <1>2
  <1>3. CASE texts # {}
    <2>1. texts \subseteq Nat
      BY <1>0
    <2>2. \E x \in texts : \A y \in texts : x <= y
      <3> HIDE DEF texts
      <3> QED BY <1>3, <2>1, Least
    <2>3. first \in texts /\ \A j \in texts : first <= j
      <3> HIDE DEF texts
      <3> QED BY <2>2
    <2> HIDE DEF first
    <2>4. LineS!NextText(line) = first
      BY <1>1, <1>3
    <2>5. first \in line + 1 .. Len(input) /\ LineS!ToRead(line, first) = "text" /\ first <= Len(input)
      BY <1>0, <2>3
    <2>6. ASSUME NEW i \in line + 1 .. Len(input), i < first PROVE LineS!ToRead(line, i) # "text"
      BY <1>0, <2>3, <2>5, <2>6
    <2>7. first \in line + 1 .. Len(input) + 1
      BY <1>0, <2>5
    <2> HIDE DEF texts
    <2> QED BY <2>4, <2>5, <2>6, <2>7
  <1> QED BY <1>2, <1>3

\* It skips no line of text that was not cut, and gives no other.
LEMMA NextTextIs ==
  ASSUME input \in Seq({"text", "binary"}), line \in 0 .. Len(input), CutsKnown, kind # "bin"
  PROVE  LET next == LineS!NextText(line)
         IN /\ \/ next = Len(input) + 1 /\ Uncut(Len(input)) = Uncut(line)
               \/ /\ next \in line + 1 .. Len(input)
                  /\ Uncut(next) = Uncut(line) \cup ({next} \ fragments)
            /\ \A at \in line .. Len(input) : at < next => Uncut(at) = Uncut(line)
  <1>0. Len(input) \in Nat /\ line \in Nat /\ \A i \in 1 .. Len(input) : input[i] \in {"text", "binary"}
    OBVIOUS
  <1>1. PICK next \in Nat : next = LineS!NextText(line)
    BY <1>0, NextTextRead
  <1>2. /\ next \in line + 1 .. Len(input) + 1
        /\ next <= Len(input) => LineS!ToRead(line, next) = "text"
        /\ \A i \in line + 1 .. Len(input) : i < next => LineS!ToRead(line, i) # "text"
    BY <1>1, NextTextRead
  <1>3. ASSUME NEW i \in line + 1 .. Len(input), i \notin fragments
        PROVE  LineS!ToRead(line, i) = input[i]
    BY <1>0, <1>3 DEF LineS!ToRead, CutsKnown
  <1>4. ASSUME NEW at \in line .. Len(input), at < next PROVE Uncut(at) = Uncut(line)
    <2>1. \A i \in line + 1 .. at : i \notin fragments => input[i] # "text"
      BY <1>0, <1>2, <1>3, <1>4
    <2> QED BY <1>0, <2>1 DEF Uncut, TextTo
  <1>5. CASE next = Len(input) + 1
    BY <1>0, <1>1, <1>4, <1>5
  <1>6. CASE next # Len(input) + 1
    <2>1. next \in line + 1 .. Len(input) /\ next - 1 \in line .. Len(input) /\ next - 1 < next
      BY <1>0, <1>2, <1>6
    <2>2. Uncut(next - 1) = Uncut(line)
      BY <1>4, <2>1
    <2>3. next \notin fragments => input[next] = "text"
      BY <1>2, <1>3, <2>1
    <2>4. Uncut(next) = Uncut(next - 1) \cup ({next} \ fragments)
      BY <1>0, <2>1, <2>3 DEF Uncut, TextTo
    <2> QED BY <1>1, <1>4, <2>1, <2>2, <2>4
  <1> QED BY <1>5, <1>6

\* The messages between the reader and poll().
Ahead == {channel, held} \ {LineS!Nothing, LineS!Error}

LineTypes ==
    /\ phase \in {"run", "send", "backoff", "close", "done"} /\ cancelled \in BOOLEAN
    /\ kind \in {"file", "bin", "stdin"} /\ input \in Seq({"text", "binary"})
    /\ line \in 0 .. Len(input) /\ emitted \in Seq(Nat)
    /\ {channel, held} \subseteq Nat \cup {LineS!Nothing}
    /\ faults \in Nat

\* Each read that failed cut at most one line.
Cuts ==
    /\ rest \in {"whole", "text", "binary"} /\ CutsKnown
    /\ IsFiniteSet(fragments) /\ Cardinality(fragments) <= faults

\* Only standard input has a thread, and only a thread that sends holds a line.
Thread ==
    /\ kind # "stdin" => reader = "none"
    /\ reader = "none" => channel = LineS!Nothing
    /\ reader # "send" => held = LineS!Nothing

\* The lines of text consumed are downstream or on their way there, in order.
InTransit ==
    /\ RisingTo(emitted, line)
    /\ phase # "done" =>
          /\ (ToSet(emitted) \cup Ahead) \ fragments = Uncut(line)
          /\ Ahead \subseteq 1 .. line
          /\ \A e \in ToSet(emitted), a \in Ahead : e < a
          /\ channel > 0 /\ held > 0 => channel < held
          /\ reader = "gone" => Uncut(line) = Uncut(Len(input))

WholeFile == emitted = <<>> \/ emitted = <<Len(input)>>

\* A loop that came to its end by itself came to the end of the file.
AtEnd ==
    phase \in {"close", "done"} /\ result = "ok" /\ ~cancelled =>
        IF kind = "bin" THEN ToSet(emitted) = {Len(input)}
        ELSE ToSet(emitted) \ fragments = Uncut(Len(input))

\* An error in the budget, or on its way to it, is that of a read that failed.
ErrorsAreFaults ==
    faults = 0 => pollErrors = 0 /\ result = "ok" /\ channel # LineS!Error /\ held # LineS!Error

LineInv ==
    /\ LineTypes /\ Thread /\ Cuts
    /\ IF kind = "bin" THEN WholeFile ELSE InTransit
    /\ AtEnd /\ ErrorsAreFaults

\* Polls that consume what is in front of them.
LEMMA RisingBeyond ==
  ASSUME NEW a \in Seq(Nat), NEW n \in Nat, NEW m \in Nat, RisingTo(a, n),
         \A e \in ToSet(a) : e < m
  PROVE  RisingTo(Append(a, m), m)
  <1>1. /\ Len(Append(a, m)) = Len(a) + 1 /\ Append(a, m)[Len(a) + 1] = m /\ Len(a) \in Nat
        /\ \A i \in 1 .. Len(a) : Append(a, m)[i] = a[i] /\ a[i] \in Nat /\ a[i] < m
    BY AppendProperties DEF ToSet
  <1> SUFFICES ASSUME NEW i \in 1 .. Len(a) + 1, NEW j \in 1 .. Len(a) + 1
               PROVE  /\ Append(a, m)[i] <= m
                      /\ i < j => Append(a, m)[i] < Append(a, m)[j]
    BY <1>1 DEF RisingTo
  <1>2. CASE i = Len(a) + 1
    BY <1>1, <1>2
  <1>3. CASE i # Len(a) + 1 /\ j = Len(a) + 1
    BY <1>1, <1>3
  <1>4. CASE i # Len(a) + 1 /\ j # Len(a) + 1
    BY <1>1, <1>4 DEF RisingTo
  <1> QED BY <1>2, <1>3, <1>4

\* What a rising sequence holds is at most its bound.
LEMMA RisingSet ==
  ASSUME NEW a \in Seq(Nat), NEW n \in Nat, RisingTo(a, n)
  PROVE  \A e \in ToSet(a) : e \in Nat /\ e <= n
  BY DEF RisingTo, ToSet

\* A read that fails loses at most the line it cuts, and skips none.
LEMMA FailedRead ==
  ASSUME LineTypes, Cuts, UNCHANGED <<kind, input>>,
         NEW at \in 0 .. Len(input), NEW left \in LineS!Leaves, LineS!ReadFails(at, left)
  PROVE  /\ faults' \in Nat \ {0}
         /\ line' \in 0 .. Len(input) /\ line <= line' /\ fragments \subseteq fragments'
         /\ kind # "bin" => Uncut(line)' = Uncut(line) \ fragments'
         /\ Cuts'
  <1>0. /\ Len(input) \in Nat /\ line \in 0 .. Len(input) /\ faults \in Nat
        /\ input \in Seq({"text", "binary"}) /\ rest \in {"whole", "text", "binary"}
    BY DEF LineTypes, Cuts
  <1>1. /\ faults' = faults + 1 /\ at \in line .. Len(input) /\ at < LineS!NextText(line)
    BY DEF LineS!ReadFails
  <1>2. kind # "bin" => Uncut(at) = Uncut(line)
    BY <1>0, <1>1, NextTextIs DEF Cuts
  <1>3. CASE left = "all"
    <2>1. line' = at /\ rest' = (IF at = line THEN rest ELSE "whole") /\ fragments' = fragments
      BY <1>3 DEF LineS!ReadFails
    <2>2. Uncut(line)' = Uncut(at)
      BY <2>1 DEF Uncut, TextTo
    <2>3. kind # "bin" => Uncut(line) \ fragments' = Uncut(line)
      BY <2>1 DEF Uncut
    <2>4. Cuts'
      <3>1. IsFiniteSet(fragments)' /\ Cardinality(fragments') <= faults'
        <4>1. Cardinality(fragments) \in Nat
          BY FS_CardinalityType DEF Cuts
        <4> QED BY <1>0, <1>1, <2>1, <4>1 DEF Cuts
      <3>2. CutsKnown' /\ rest' \in {"whole", "text", "binary"}
        BY <2>1 DEF Cuts, CutsKnown
      <3> QED BY <3>1, <3>2 DEF Cuts
    <2> QED BY <1>0, <1>1, <1>2, <2>1, <2>2, <2>3, <2>4
  <1>4. CASE left # "all"
    <2> DEFINE cut == IF kind = "bin" THEN Len(input) ELSE at + 1
    <2>1. /\ at < Len(input) /\ fragments' = fragments \cup {cut}
          /\ \/ at + 1 = Len(input) /\ line' = Len(input) /\ rest' = "whole"
             \/ line' = at /\ rest' \in {"text", "binary"}
      BY <1>4 DEF LineS!ReadFails, LineS!Leaves
    <2>2. IsFiniteSet(fragments)' /\ Cardinality(fragments') <= faults'
      <3>1. IsFiniteSet(fragments) /\ Cardinality(fragments) \in Nat /\ Cardinality(fragments) <= faults
        BY FS_CardinalityType DEF Cuts
      <3>2. /\ IsFiniteSet(fragments \cup {cut})
            /\ Cardinality(fragments \cup {cut}) = IF cut \in fragments THEN Cardinality(fragments)
                                                   ELSE Cardinality(fragments) + 1
        <4> HIDE DEF cut
        <4> QED BY <3>1, FS_AddElement
      <3> QED BY <1>0, <1>1, <2>1, <3>1, <3>2
    <2>3. CutsKnown'
      BY <1>0, <1>1, <2>1 DEF CutsKnown
    <2>4. ASSUME kind # "bin" PROVE Uncut(line)' = Uncut(line) \ fragments'
      <3>1. Uncut(line)' = Uncut(line') \ {at + 1}
        BY <2>1, <2>4 DEF Uncut, TextTo
      <3>2. line' = at \/ line' = at + 1
        BY <2>1
      <3>3. Uncut(at + 1) \ {at + 1} = Uncut(at) \ {at + 1}
        BY <1>0, <1>1, <2>1 DEF Uncut, TextTo
      <3>4. Uncut(line) \ fragments' = Uncut(line) \ {at + 1}
        BY <2>1, <2>4 DEF Uncut
      <3> QED BY <1>2, <2>4, <3>1, <3>2, <3>3, <3>4
    <2> HIDE DEF cut
    <2> QED BY <1>0, <1>1, <2>1, <2>2, <2>3, <2>4 DEF Cuts
  <1> QED BY <1>3, <1>4

LEMMA LineSmallSteps ==
  ASSUME LineInv, [LineS!Next]_(LineS!vars)
  PROVE  LineTypes' /\ Thread' /\ ErrorsAreFaults' /\ UNCHANGED <<kind, input>>
  <1> USE DEF LineInv, LineTypes, Thread, ErrorsAreFaults, LineS!Nothing, LineS!Error
  <1>n. /\ LineS!NextText(line) \in Nat
        /\ LineS!NextText(line) <= Len(input) => LineS!NextText(line) \in line + 1 .. Len(input)
    BY NextTextRead
  <1>a. ASSUME NEW at \in 0 .. Len(input), NEW left \in LineS!Leaves, LineS!ReadFails(at, left),
               UNCHANGED <<kind, input>>
        PROVE  faults' \in Nat \ {0} /\ line' \in 0 .. Len(input)
    BY <1>a, FailedRead
  <1>1. CASE LineS!FilePoll
    <2>1. CASE LET next == LineS!NextText(line)
               IN /\ IF LineS!AtEof(next) THEN LineS!PollNone ELSE LineS!PollSome(next)
                  /\ LineS!ReadTo(next)
      <3>1. PICK next \in Nat : next = LineS!NextText(line)
        BY <1>n
      <3>2. line' \in 0 .. Len(input)
        BY <1>n, <2>1, <3>1 DEF LineS!ReadTo, LineS!AtEof
      <3>3. emitted' \in Seq(Nat)
        <4>1. emitted' = emitted \/ emitted' = Append(emitted, next)
          BY <2>1, <3>1 DEF LineS!PollNone, LineS!PollSome
        <4>2. emitted \in Seq(Nat) /\ Append(emitted, next) \in Seq(Nat)
          BY Zenon, AppendProperties
        <4> QED BY <4>1, <4>2
      <3> QED BY <1>1, <2>1, <3>2, <3>3
            DEF LineS!FilePoll, LineS!PollNone, LineS!PollSome, LineS!Polls, LineS!ReadTo
    <2>2. CASE \E at \in 0 .. Len(input), left \in LineS!Leaves : LineS!ReadFails(at, left) /\ LineS!PollError
      BY <1>a, <1>1, <2>2 DEF LineS!FilePoll, LineS!PollError, LineS!Polls
    <2> QED BY <1>1, <2>1, <2>2 DEF LineS!FilePoll
  <1>2. CASE LineS!BinaryPoll
    <2>1. CASE \/ LineS!PollNone /\ UNCHANGED LineS!readVars
               \/ LineS!PollSome(Len(input)) /\ LineS!ReadTo(Len(input) + 1)
      BY <1>2, <2>1, AppendProperties
         DEF LineS!BinaryPoll, LineS!AtEof, LineS!PollNone, LineS!PollSome, LineS!Polls, LineS!ReadTo,
             LineS!readVars
    <2>2. CASE \E left \in LineS!Leaves : LineS!ReadFails(line, left) /\ LineS!PollError
      BY <1>a, <1>2, <2>2 DEF LineS!BinaryPoll, LineS!PollError, LineS!Polls
    <2> QED BY <1>2, <2>1, <2>2 DEF LineS!BinaryPoll
  <1>3. CASE LineS!StdinPoll
    <2>1. CASE channel > LineS!Error /\ LineS!PollSome(channel)
      BY <1>3, <2>1 DEF LineS!StdinPoll, LineS!PollSome, LineS!Polls, LineS!readVars
    <2>2. CASE channel = LineS!Error /\ LineS!PollError
      BY <1>3, <2>2 DEF LineS!StdinPoll, LineS!PollError, LineS!Polls, LineS!readVars
    <2>3. CASE channel = LineS!Nothing /\ reader = "gone" /\ LineS!PollNone
      BY <1>3, <2>3 DEF LineS!StdinPoll, LineS!PollNone, LineS!Polls, LineS!readVars
    <2> QED BY <1>3, <2>1, <2>2, <2>3 DEF LineS!StdinPoll
  <1>4. CASE LineS!ThreadReads
    <2>1. CASE LET next == LineS!NextText(line)
               IN /\ LineS!ReadTo(next)
                  /\ IF LineS!AtEof(next) THEN reader' = "gone" /\ UNCHANGED held
                     ELSE reader' = "send" /\ held' = next
      BY <1>n, <1>4, <2>1
         DEF LineS!ThreadReads, LineS!AtEof, LineS!ReadTo, LineS!loopVars
    <2>2. CASE \E at \in 0 .. Len(input), left \in LineS!Leaves : LineS!ReadFails(at, left) /\ reader' = "send" /\ held' = LineS!Error
      BY <1>a, <1>4, <2>2 DEF LineS!ThreadReads, LineS!loopVars
    <2> QED BY <1>4, <2>1, <2>2 DEF LineS!ThreadReads
  <1>5. CASE LineS!ThreadSends
    BY <1>5 DEF LineS!ThreadSends, LineS!loopVars, LineS!readVars
  <1>6. CASE (LineS!LoopStep \/ LineS!Cancel) /\ LineS!Rest
    BY <1>6 DEF LineS!LoopStep, LineS!Sent, LineS!Leave, LineS!BackoffEnds, LineS!Cancel, LineS!Rest,
                LineS!readVars
  <1>7. CASE LineS!CloseSource
    BY <1>7 DEF LineS!CloseSource, LineS!Closed, LineS!readVars
  <1>8. CASE UNCHANGED LineS!vars
    BY <1>8 DEF LineS!vars, LineS!loopVars, LineS!readVars
  <1> QED BY <1>1, <1>2, <1>3, <1>4, <1>5, <1>6, <1>7, <1>8 DEF LineS!Next, LineS!Over

\* A read that succeeds leaves the next line whole.
LEMMA CutsKept ==
  ASSUME Cuts, UNCHANGED <<kind, faults, fragments>>, rest' = "whole" \/ UNCHANGED <<line, rest>>
  PROVE  Cuts'
  BY DEF Cuts, CutsKnown

LEMMA CutsStay == ASSUME LineInv, [LineS!Next]_(LineS!vars) PROVE Cuts'
  <1>0. LineTypes /\ Cuts /\ UNCHANGED <<kind, input>>
    BY LineSmallSteps DEF LineInv
  <1>1. ASSUME NEW at \in 0 .. Len(input), NEW left \in LineS!Leaves, LineS!ReadFails(at, left) PROVE Cuts'
    BY <1>0, <1>1, FailedRead
  <1>2. ASSUME NEW n, LineS!ReadTo(n) PROVE Cuts'
    BY <1>0, <1>2, CutsKept DEF LineS!ReadTo
  <1>3. ASSUME UNCHANGED LineS!readVars PROVE Cuts'
    BY <1>0, <1>3, CutsKept DEF LineS!readVars
  <1>4. ASSUME LineS!BinaryPoll PROVE Cuts'
    <2>1. line \in 0 .. Len(input)
      BY <1>0 DEF LineTypes
    <2> QED BY <1>1, <1>2, <1>3, <1>4, <2>1 DEF LineS!BinaryPoll
  <1>5. ASSUME LineS!FilePoll \/ LineS!ThreadReads PROVE Cuts'
    BY <1>1, <1>2, <1>5 DEF LineS!FilePoll, LineS!ThreadReads
  <1>6. CASE \/ LineS!StdinPoll \/ LineS!ThreadSends \/ LineS!CloseSource \/ UNCHANGED LineS!vars
             \/ (LineS!LoopStep \/ LineS!Cancel) /\ LineS!Rest
    BY <1>3, <1>6 DEF LineS!StdinPoll, LineS!ThreadSends, LineS!CloseSource, LineS!Rest, LineS!vars,
                      LineS!readVars
  <1> QED BY <1>4, <1>5, <1>6 DEF LineS!Next, LineS!Over

\* A step that moves no message.
LEMMA LineQuiet ==
  ASSUME IF kind = "bin" THEN WholeFile ELSE InTransit, LineTypes, LineTypes',
         UNCHANGED <<kind, input, emitted, channel>>, Ahead' = Ahead, held' # held => ~(held' > 0),
         fragments \subseteq fragments', line <= line',
         kind # "bin" => Uncut(line)' = Uncut(line) \ fragments',
         phase' # "done" => phase # "done", reader' = "gone" => reader = "gone"
  PROVE  (IF kind = "bin" THEN WholeFile ELSE InTransit)'
  <1>1. CASE kind = "bin"
    BY <1>1 DEF WholeFile
  <1>2. CASE kind # "bin"
    <2>1. InTransit /\ {line, line'} \subseteq Nat /\ emitted \in Seq(Nat) /\ Len(input) \in Nat
      BY <1>2 DEF LineTypes
    <2>2. RisingTo(emitted', line')
      BY <2>1, RisingHigher DEF InTransit
    <2>3. Uncut(Len(input))' = Uncut(Len(input)) \ fragments'
      BY DEF Uncut, TextTo
    <2>4. ASSUME phase' # "done"
          PROVE  /\ (ToSet(emitted') \cup Ahead') \ fragments' = Uncut(line)'
                 /\ Ahead' \subseteq 1 .. line'
                 /\ \A e \in ToSet(emitted'), x \in Ahead' : e < x
                 /\ channel' > 0 /\ held' > 0 => channel' < held'
                 /\ reader' = "gone" => Uncut(line)' = Uncut(Len(input))'
      <3>0. /\ (ToSet(emitted) \cup Ahead) \ fragments = Uncut(line)
            /\ Ahead \subseteq 1 .. line
            /\ \A e \in ToSet(emitted), x \in Ahead : e < x
            /\ channel > 0 /\ held > 0 => channel < held
            /\ reader = "gone" => Uncut(line) = Uncut(Len(input))
        BY <2>1, <2>4 DEF InTransit
      <3>1. (ToSet(emitted') \cup Ahead') \ fragments' = Uncut(line)'
        BY <1>2, <3>0
      <3>2. 1 .. line \subseteq 1 .. line'
        BY <2>1
      <3> QED BY <1>2, <2>3, <3>0, <3>1, <3>2
    <2>5. InTransit'
      BY <2>2, <2>4 DEF InTransit
    <2> QED BY <1>2, <2>5
  <1> QED BY <1>1, <1>2

\* A loop that was at its end, or had been told to stop, or had failed.
LEMMA AtEndStays ==
  ASSUME AtEnd, UNCHANGED <<kind, input, emitted>>, fragments \subseteq fragments',
         \/ phase' \notin {"close", "done"} \/ result' # "ok" \/ cancelled'
         \/ phase \in {"close", "done"} /\ result = "ok" /\ ~cancelled
  PROVE  AtEnd'
  <1>1. Uncut(Len(input))' = Uncut(Len(input)) \ fragments'
    BY DEF Uncut, TextTo
  <1> QED BY <1>1 DEF AtEnd

LEMMA LineMoves ==
  ASSUME LineInv, [LineS!Next]_(LineS!vars)
  PROVE  (IF kind = "bin" THEN WholeFile ELSE InTransit)' /\ AtEnd'
  <1> USE DEF LineS!Nothing, LineS!Error
  <1>0. /\ LineTypes /\ Thread /\ Cuts /\ AtEnd /\ (IF kind = "bin" THEN WholeFile ELSE InTransit)
        /\ LineTypes' /\ Thread' /\ UNCHANGED <<kind, input>>
    BY LineSmallSteps DEF LineInv
  <1>1. CASE LineS!FilePoll
    <2>0. /\ kind = "file" /\ UNCHANGED <<reader, channel, held>> /\ phase = "run"
          /\ channel = LineS!Nothing /\ held = LineS!Nothing /\ Ahead = {} /\ Ahead' = {}
          /\ ToSet(emitted) \ fragments = Uncut(line) /\ RisingTo(emitted, line) /\ reader # "gone"
      BY <1>0, <1>1 DEF LineS!FilePoll, Thread, InTransit, Ahead, LineS!PollNone, LineS!PollSome,
                        LineS!PollError, LineS!Polls
    <2>1. PICK next : next = LineS!NextText(line)
      OBVIOUS
    <2>2. \/ next = Len(input) + 1 /\ Uncut(Len(input)) = Uncut(line)
          \/ next \in line + 1 .. Len(input) /\ Uncut(next) = Uncut(line) \cup ({next} \ fragments)
      BY <1>0, <2>0, <2>1, NextTextIs DEF LineTypes, Cuts
    <2>3. CASE LineS!AtEof(next) /\ LineS!PollNone /\ LineS!ReadTo(next)
      <3>1. /\ emitted' = emitted /\ line' = Len(input) /\ Len(input) \in Nat /\ line <= line'
            /\ Uncut(Len(input)) = Uncut(line) /\ UNCHANGED fragments
        BY <1>0, <2>2, <2>3 DEF LineS!AtEof, LineS!PollNone, LineS!ReadTo, LineTypes
      <3>2. Uncut(line)' = Uncut(Len(input)) /\ Uncut(Len(input))' = Uncut(Len(input))
        BY <1>0, <3>1 DEF Uncut, TextTo
      <3>3. RisingTo(emitted', line')
        BY <1>0, <2>0, <3>1, RisingHigher DEF LineTypes
      <3>4. InTransit' /\ AtEnd'
        BY <1>0, <2>0, <3>1, <3>2, <3>3 DEF InTransit, AtEnd
      <3> QED BY <1>0, <2>0, <3>4
    <2>4. CASE ~LineS!AtEof(next) /\ LineS!PollSome(next) /\ LineS!ReadTo(next)
      <3>1. /\ emitted' = Append(emitted, next) /\ line' = next /\ phase' = "send"
            /\ line \in Nat /\ next \in Nat /\ line < next
            /\ Uncut(next) = Uncut(line) \cup ({next} \ fragments) /\ UNCHANGED fragments
        BY <1>0, <2>2, <2>4 DEF LineS!AtEof, LineS!PollSome, LineS!ReadTo, LineTypes
      <3>2. Uncut(line)' = Uncut(next)
        BY <1>0, <3>1 DEF Uncut, TextTo
      <3>3. RisingTo(emitted', line')
        BY <1>0, <2>0, <3>1, RisingAppend DEF LineTypes
      <3>4. ToSet(emitted') = ToSet(emitted) \cup {next}
        BY <1>0, <3>1, ArrivalSet DEF LineTypes
      <3>5. InTransit' /\ AtEnd'
        BY <1>0, <2>0, <3>1, <3>2, <3>3, <3>4 DEF InTransit, AtEnd
      <3> QED BY <1>0, <2>0, <3>5
    <2>5. CASE \E at \in 0 .. Len(input), left \in LineS!Leaves : LineS!ReadFails(at, left) /\ LineS!PollError
      <3>1. UNCHANGED emitted /\ phase' \in {"close", "backoff"} /\ (phase' = "close" => result' = "failed")
        BY <2>5 DEF LineS!PollError
      <3>2. /\ fragments \subseteq fragments' /\ line <= line'
            /\ Uncut(line)' = Uncut(line) \ fragments'
        BY <1>0, <2>0, <2>5, FailedRead
      <3> QED BY <1>0, <2>0, <3>1, <3>2, LineQuiet, AtEndStays
    <2> QED BY <1>1, <2>1, <2>3, <2>4, <2>5 DEF LineS!FilePoll
  <1>2. CASE LineS!BinaryPoll
    <2>0. kind = "bin" /\ WholeFile
      BY <1>0, <1>2 DEF LineS!BinaryPoll
    <2>1. CASE emitted # <<>> /\ LineS!PollNone
      <3>1. emitted' = emitted /\ emitted = <<Len(input)>>
        BY <2>0, <2>1 DEF LineS!PollNone, WholeFile
      <3>2. ToSet(<<Len(input)>>) = {Len(input)}
        BY DEF ToSet
      <3> QED BY <1>0, <2>0, <3>1, <3>2 DEF WholeFile, AtEnd
    <2>2. CASE emitted = <<>> /\ LineS!PollSome(Len(input))
      <3>1. emitted' = <<Len(input)>> /\ phase' = "send"
        BY <2>2 DEF LineS!PollSome
      <3> QED BY <1>0, <2>0, <3>1 DEF WholeFile, AtEnd
    <2>3. CASE LineS!PollError
      <3>1. UNCHANGED emitted /\ phase' \in {"backoff", "close"} /\ (phase' = "close" => result' = "failed")
        BY <2>3 DEF LineS!PollError
      <3> QED BY <1>0, <2>0, <3>1 DEF WholeFile, AtEnd
    <2> QED BY <1>2, <2>1, <2>2, <2>3 DEF LineS!BinaryPoll
  <1>3. CASE LineS!StdinPoll
    <2>0. /\ kind = "stdin" /\ UNCHANGED <<line, reader, held>> /\ phase = "run"
          /\ channel' = LineS!Nothing /\ InTransit /\ UNCHANGED fragments
          /\ Uncut(line)' = Uncut(line) /\ Uncut(Len(input))' = Uncut(Len(input))
          /\ {line, line'} \subseteq Nat
      BY <1>0, <1>3 DEF LineS!StdinPoll, LineS!PollNone, LineS!PollSome, LineS!PollError, LineS!Polls,
                        LineS!readVars, Uncut, TextTo, LineTypes
    <2>1. CASE channel > LineS!Error /\ LineS!PollSome(channel)
      <3>1. /\ emitted' = Append(emitted, channel) /\ phase' = "send"
            /\ channel \in Nat /\ channel \in Ahead
        BY <1>0, <2>1 DEF LineS!PollSome, Ahead, LineTypes
      <3>2. ToSet(emitted') = ToSet(emitted) \cup {channel} /\ Ahead = {channel} \cup Ahead'
        BY <1>0, <2>0, <3>1, ArrivalSet DEF LineTypes, Ahead
      <3>3. \A e \in ToSet(emitted) : e < channel
        BY <2>0, <3>1 DEF InTransit
      <3>4. channel <= line
        BY <2>0, <3>1 DEF InTransit
      <3>5. RisingTo(emitted', channel)
        BY <1>0, <2>0, <3>1, <3>3, RisingBeyond DEF LineTypes, InTransit
      <3>6. RisingTo(emitted', line')
        BY <1>0, <2>0, <3>1, <3>4, <3>5, RisingHigher DEF LineTypes
      <3>7. \A a \in Ahead' : channel < a
        BY <1>0, <2>0, <3>1 DEF Ahead, InTransit, LineTypes
      <3>8. \A e \in ToSet(emitted'), a \in Ahead' : e < a
        BY <2>0, <3>2, <3>7 DEF InTransit
      <3>9. InTransit' /\ AtEnd'
        BY <1>0, <2>0, <3>1, <3>2, <3>6, <3>8 DEF InTransit, AtEnd
      <3> QED BY <1>0, <2>0, <3>9
    <2>2. CASE channel = LineS!Error /\ LineS!PollError
      <3>1. /\ UNCHANGED emitted /\ phase' \in {"backoff", "close"} /\ (phase' = "close" => result' = "failed")
            /\ Ahead' = Ahead
        BY <2>0, <2>2 DEF LineS!PollError, Ahead
      <3>2. InTransit' /\ AtEnd'
        BY <1>0, <2>0, <3>1 DEF InTransit, AtEnd
      <3> QED BY <1>0, <2>0, <3>2
    <2>3. CASE channel = LineS!Nothing /\ reader = "gone" /\ LineS!PollNone
      <3>1. UNCHANGED emitted /\ phase' = "close" /\ Ahead = {} /\ Ahead' = {}
        BY <1>0, <2>0, <2>3 DEF LineS!PollNone, Ahead, Thread
      <3>2. ToSet(emitted) \ fragments = Uncut(Len(input))
        BY <2>0, <2>3, <3>1 DEF InTransit
      <3>3. InTransit' /\ AtEnd'
        BY <1>0, <2>0, <3>1, <3>2 DEF InTransit, AtEnd
      <3> QED BY <1>0, <2>0, <3>3
    <2> QED BY <1>3, <2>1, <2>2, <2>3 DEF LineS!StdinPoll
  <1>4. CASE LineS!ThreadReads
    <2>0. /\ kind = "stdin" /\ reader = "read" /\ InTransit /\ held = LineS!Nothing
          /\ UNCHANGED <<phase, cancelled, emitted, result, channel>>
      BY <1>0, <1>4 DEF LineS!ThreadReads, LineS!loopVars, Thread
    <2>a. fragments \subseteq fragments' => AtEnd'
      <3>1. Uncut(Len(input))' = Uncut(Len(input)) \ fragments' \/ ~(fragments \subseteq fragments')
        BY <1>0 DEF Uncut, TextTo
      <3> QED BY <1>0, <2>0, <3>1 DEF AtEnd
    <2>1. PICK next : next = LineS!NextText(line)
      OBVIOUS
    <2>2. \/ next = Len(input) + 1 /\ Uncut(Len(input)) = Uncut(line)
          \/ next \in line + 1 .. Len(input) /\ Uncut(next) = Uncut(line) \cup ({next} \ fragments)
      BY <1>0, <2>0, <2>1, NextTextIs DEF LineTypes, Cuts
    <2>3. CASE LineS!AtEof(next) /\ LineS!ReadTo(next) /\ reader' = "gone" /\ UNCHANGED held
      <3>1. /\ line' = Len(input) /\ {line, line'} \subseteq Nat /\ line <= line'
            /\ Uncut(Len(input)) = Uncut(line) /\ UNCHANGED fragments
        BY <1>0, <2>2, <2>3 DEF LineS!AtEof, LineS!ReadTo, LineTypes
      <3>2. /\ Uncut(line)' = Uncut(line) /\ Uncut(Len(input))' = Uncut(Len(input)) /\ Ahead' = Ahead
            /\ 1 .. line \subseteq 1 .. line'
        <4>1. Uncut(line)' = Uncut(Len(input)) /\ Uncut(Len(input))' = Uncut(Len(input))
          BY <1>0, <3>1 DEF Uncut, TextTo
        <4> QED BY <2>0, <2>3, <3>1, <4>1 DEF Ahead
      <3>3. RisingTo(emitted', line')
        BY <1>0, <2>0, <3>1, RisingHigher DEF LineTypes, InTransit
      <3>4. InTransit'
        BY <1>0, <2>0, <2>3, <3>1, <3>2, <3>3 DEF InTransit
      <3> QED BY <1>0, <2>0, <2>a, <3>1, <3>4
    <2>4. CASE ~LineS!AtEof(next) /\ LineS!ReadTo(next) /\ reader' = "send" /\ held' = next
      <3>1. /\ line' = next /\ {line, next} \subseteq Nat /\ line < next /\ next > 0
            /\ Uncut(next) = Uncut(line) \cup ({next} \ fragments) /\ UNCHANGED fragments
        BY <1>0, <2>2, <2>4 DEF LineS!AtEof, LineS!ReadTo, LineTypes
      <3>2. Uncut(line)' = Uncut(next) /\ Ahead' = Ahead \cup {next} /\ 1 .. line \subseteq 1 .. line'
        <4>1. Uncut(line)' = Uncut(next)
          BY <1>0, <3>1 DEF Uncut, TextTo
        <4>2. Ahead' = Ahead \cup {next} /\ 1 .. line \subseteq 1 .. line'
          BY <2>0, <2>4, <3>1 DEF Ahead
        <4> QED BY <4>1, <4>2
      <3>3. RisingTo(emitted', line')
        BY <1>0, <2>0, <3>1, RisingHigher DEF LineTypes, InTransit
      <3>4. \A e \in ToSet(emitted) : e \in Nat /\ e <= line
        BY <1>0, <2>0, RisingSet, <3>1 DEF LineTypes, InTransit
      <3>5. \A e \in ToSet(emitted) : e < next
        BY <3>1, <3>4
      <3>6. phase # "done" /\ channel > 0 => channel < next
        BY <1>0, <2>0, <3>1 DEF InTransit, Ahead, LineTypes
      <3>8. next \in 1 .. line'
        BY <3>1
      <3>7. InTransit'
        BY <1>0, <2>0, <2>4, <3>1, <3>2, <3>3, <3>5, <3>6, <3>8 DEF InTransit
      <3> QED BY <1>0, <2>0, <2>a, <3>1, <3>7
    <2>5. CASE \E at \in 0 .. Len(input), left \in LineS!Leaves :
                  LineS!ReadFails(at, left) /\ reader' = "send" /\ held' = LineS!Error
      <3>1. Ahead' = Ahead
        BY <2>0, <2>5 DEF Ahead
      <3>2. /\ fragments \subseteq fragments' /\ line <= line'
            /\ Uncut(line)' = Uncut(line) \ fragments'
        BY <1>0, <2>0, <2>5, FailedRead
      <3> QED BY <1>0, <2>0, <2>a, <2>5, <3>1, <3>2, LineQuiet
    <2> QED BY <1>4, <2>1, <2>3, <2>4, <2>5 DEF LineS!ThreadReads
  <1>5. CASE LineS!ThreadSends
    <2>0. /\ reader = "send" /\ kind = "stdin" /\ InTransit /\ held' = LineS!Nothing
          /\ UNCHANGED <<phase, cancelled, emitted, result, line, fragments>>
      BY <1>0, <1>5 DEF LineS!ThreadSends, LineS!loopVars, LineS!readVars, Thread
    <2>1. AtEnd' /\ Uncut(line)' = Uncut(line) /\ Uncut(Len(input))' = Uncut(Len(input))
      <3>1. Uncut(line)' = Uncut(line) /\ Uncut(Len(input))' = Uncut(Len(input))
        BY <1>0, <2>0 DEF Uncut, TextTo
      <3> QED BY <1>0, <2>0, <3>1 DEF AtEnd
    <2>2. CASE phase = "done"
      BY <1>0, <2>0, <2>1, <2>2 DEF InTransit
    <2>3. CASE phase # "done"
      <3>1. channel = LineS!Nothing /\ channel' = held /\ reader' = "read"
        BY <1>5, <2>3 DEF LineS!ThreadSends
      <3>2. Ahead' = Ahead
        BY <2>0, <3>1 DEF Ahead
      <3> QED BY <1>0, <2>0, <2>1, <3>1, <3>2 DEF InTransit
    <2> QED BY <2>2, <2>3
  <1>6. CASE (LineS!LoopStep \/ LineS!Cancel) /\ LineS!Rest
    <2>1. /\ UNCHANGED <<emitted, channel, held, line, reader, result, fragments>>
          /\ phase' # "done" => phase # "done"
      BY <1>0, <1>6 DEF LineS!LoopStep, LineS!Sent, LineS!Leave, LineS!BackoffEnds, LineS!Cancel,
                        LineS!Rest, LineS!readVars
    <2>2. \/ phase' \notin {"close", "done"} \/ cancelled'
      BY <1>6 DEF LineS!LoopStep, LineS!Sent, LineS!Leave, LineS!BackoffEnds, LineS!Cancel
    <2>3. Ahead' = Ahead /\ line <= line' /\ Uncut(line)' = Uncut(line) \ fragments'
      BY <1>0, <2>1 DEF Ahead, Uncut, TextTo, LineTypes
    <2> QED BY <1>0, <2>1, <2>2, <2>3, LineQuiet, AtEndStays
  <1>7. CASE LineS!CloseSource
    <2>1. /\ UNCHANGED <<emitted, line, cancelled, result, fragments>> /\ phase = "close" /\ phase' = "done"
      BY <1>7 DEF LineS!CloseSource, LineS!Closed, LineS!readVars
    <2>2. Uncut(Len(input))' = Uncut(Len(input))
      BY <1>0, <2>1 DEF Uncut, TextTo
    <2>3. (IF kind = "bin" THEN WholeFile ELSE InTransit)'
      BY <1>0, <2>1 DEF WholeFile, InTransit
    <2>4. AtEnd'
      BY <1>0, <2>1, <2>2 DEF AtEnd
    <2> QED BY <2>3, <2>4
  <1>8. CASE UNCHANGED LineS!vars
    <2>1. UNCHANGED <<emitted, channel, held, line, reader, result, phase, cancelled, fragments>>
      BY <1>8 DEF LineS!vars, LineS!loopVars, LineS!readVars
    <2>2. Uncut(Len(input))' = Uncut(Len(input)) /\ Uncut(line)' = Uncut(line) \ fragments'
      BY <1>0, <2>1 DEF Uncut, TextTo
    <2>3. AtEnd'
      BY <1>0, <2>1, <2>2 DEF AtEnd
    <2>4. Ahead' = Ahead /\ line <= line'
      BY <2>1, <1>0 DEF Ahead, LineTypes
    <2> QED BY <1>0, <2>1, <2>2, <2>3, <2>4, LineQuiet
  <1> QED BY <1>1, <1>2, <1>3, <1>4, <1>5, <1>6, <1>7, <1>8 DEF LineS!Next, LineS!Over

LEMMA LineInvInit == ASSUME LineS!Init PROVE LineInv
  <1> USE DEF LineS!Nothing, LineS!Error
  <1>1. /\ emitted = <<>> /\ line = 0 /\ channel = LineS!Nothing /\ held = LineS!Nothing
        /\ kind \in {"file", "bin", "stdin"} /\ input \in Seq({"text", "binary"})
        /\ phase = "run" /\ reader \in {"read", "none"} /\ (kind # "stdin" => reader = "none")
        /\ fragments = {} /\ rest = "whole" /\ faults = 0
    BY AdaptersFit DEF LineS!Init, LineS!LoopInit, LineS!LineAssumption
  <1>2. LineTypes
    <2>1. emitted \in Seq(Nat) /\ line \in 0 .. Len(input)
      BY <1>1
    <2>2. cancelled \in BOOLEAN
      BY DEF LineS!Init, LineS!LoopInit
    <2>3. faults \in Nat /\ {channel, held} \subseteq Nat \cup {LineS!Nothing}
      BY <1>1
    <2> QED BY <1>1, <2>1, <2>2, <2>3 DEF LineTypes
  <1>3. Thread /\ WholeFile /\ AtEnd /\ ErrorsAreFaults
    BY <1>1 DEF LineS!Init, LineS!LoopInit, Thread, WholeFile, AtEnd, ErrorsAreFaults
  <1>4. Ahead = {} /\ Uncut(line) = {} /\ ToSet(emitted) = {}
    BY <1>1 DEF Ahead, Uncut, TextTo, ToSet
  <1>7. Cuts
    BY <1>1, FS_EmptySet DEF Cuts, CutsKnown
  <1>5. RisingTo(emitted, line)
    BY <1>1 DEF RisingTo
  <1>6. InTransit
    <2>1. reader # "gone" /\ ~(channel > 0) /\ ToSet(emitted) \cup Ahead = {} /\ Ahead \subseteq 1 .. line
      BY <1>1, <1>4
    <2> QED BY <1>4, <1>5, <2>1 DEF InTransit
  <1> QED BY <1>2, <1>3, <1>6, <1>7 DEF LineInv

\* What the invariant says of the lines that went downstream.
LEMMA LineInvSays ==
  ASSUME LineInv PROVE LineS!EmittedInOrder /\ LineS!EofIsComplete /\ LineS!BadDataIsNoError
  <1>1. LineS!EmittedInOrder
    <2>1. CASE kind = "bin"
      BY <2>1 DEF LineInv, WholeFile, LineS!EmittedInOrder
    <2>2. CASE kind # "bin"
      BY <2>2 DEF LineInv, InTransit, RisingTo, LineS!EmittedInOrder
    <2> QED BY <2>1, <2>2
  <1>2. LineS!EofIsComplete
    <2>1. LineS!ToSet(emitted) = ToSet(emitted) /\ LineS!Text = TextTo(Len(input))
      BY DEF LineS!ToSet, ToSet, LineS!Text, TextTo
    <2>2. LineS!Cardinality(fragments) <= faults
      BY SameCardinality DEF LineInv, Cuts
    <2> QED BY <2>1, <2>2 DEF LineInv, AtEnd, Uncut, LineS!EofIsComplete
  <1>3. LineS!BadDataIsNoError
    BY DEF LineInv, ErrorsAreFaults, LineS!BadDataIsNoError
  <1> QED BY <1>1, <1>2, <1>3

-----------------------------------------------------------------------------
(***************************************************************************)
(* The sources side by side.                                               *)
(***************************************************************************)

\* The loop's own variables: it goes on while the error budget lasts.
LoopBounds ==
    /\ phase \in {"run", "send", "backoff", "close", "done"} /\ cancelled \in BOOLEAN
    /\ pollErrors \in 0 .. MaxPollErrors /\ result \in {"ok", "failed"}
    /\ phase \in {"run", "send", "backoff"} => pollErrors < MaxPollErrors

\* The loop's steps, whatever the adapter.
Ran(p, c, e, r) ==
    \/ p = "send" /\ c = cancelled /\ e = 0 /\ r = result
    \/ p = "close" /\ c = cancelled /\ e = pollErrors /\ r = result
    \/ p = "run" /\ phase \in {"send", "backoff"} /\ c = cancelled /\ e = pollErrors /\ r = result
    \/ p = "done" /\ c = cancelled /\ e = pollErrors /\ r = result
    \/ p = phase /\ c \in BOOLEAN /\ e = pollErrors /\ r = result
    \/ /\ phase = "run" /\ c = cancelled /\ e = pollErrors + 1
       /\ \/ p = "close" /\ r = "failed"
          \/ p = "backoff" /\ r = result /\ e < MaxPollErrors

LEMMA LoopStays ==
  ASSUME LoopBounds, Ran(phase', cancelled', pollErrors', result') PROVE LoopBounds'
  BY AdaptersFit DEF LoopBounds, Ran, LineS!LoopAssumption

LEMMA LoopStarts == ASSUME LineS!LoopInit PROVE LoopBounds
  <1>1. MaxPollErrors \in Nat /\ 0 < MaxPollErrors /\ 0 \in 0 .. MaxPollErrors
    BY AdaptersFit DEF LineS!LoopAssumption
  <1>2. phase = "run" /\ cancelled \in BOOLEAN /\ pollErrors = 0 /\ result = "ok"
    BY DEF LineS!LoopInit
  <1> QED BY <1>1, <1>2 DEF LoopBounds

LineBounds ==
    /\ LoopBounds /\ input \in Inputs /\ faults \in 0 .. MaxFaults
    /\ reader \in {"none", "read", "send", "gone"}
    /\ {channel, held} \subseteq {LineS!Nothing, LineS!Error} \cup 1 .. Len(input)

LEMMA LineBoundsStay ==
  ASSUME LineInv, LineBounds, [LineS!Next]_(LineS!vars) PROVE LineBounds'
  <1> USE DEF LineBounds, LineS!Nothing, LineS!Error
  <1>n. /\ LineS!NextText(line) \in Nat
        /\ LineS!NextText(line) <= Len(input) => LineS!NextText(line) \in 1 .. Len(input)
    BY NextTextRead DEF LineInv, LineTypes
  <1>l. LoopBounds
    OBVIOUS
  <1>a. MaxFaults \in Nat /\ MaxPollErrors \in Nat
    BY AdaptersFit DEF LineS!LineAssumption, LineS!LoopAssumption
  <1>f. ASSUME NEW at, NEW left, LineS!ReadFails(at, left) PROVE faults' \in 0 .. MaxFaults
    BY <1>a, <1>f DEF LineS!ReadFails
  <1>e. ASSUME LineS!PollError PROVE LoopBounds'
    <2>1. Ran(phase', cancelled', pollErrors', result')
      BY <1>a, <1>e DEF LineS!PollError, LineS!Polls, Ran, LoopBounds
    <2> QED BY <2>1, LoopStays
  <1>s. ASSUME NEW m, LineS!PollSome(m) PROVE LoopBounds'
    <2>1. Ran(phase', cancelled', pollErrors', result')
      BY <1>s DEF LineS!PollSome, Ran
    <2> QED BY <2>1, LoopStays
  <1>p. ASSUME LineS!PollNone PROVE LoopBounds'
    <2>1. Ran(phase', cancelled', pollErrors', result')
      BY <1>p DEF LineS!PollNone, Ran
    <2> QED BY <2>1, LoopStays
  <1>1. CASE LineS!FilePoll
    <2>1. CASE LET next == LineS!NextText(line)
               IN /\ IF LineS!AtEof(next) THEN LineS!PollNone ELSE LineS!PollSome(next)
                  /\ LineS!ReadTo(next)
      BY <1>1, <2>1, <1>s, <1>p DEF LineS!FilePoll, LineS!ReadTo
    <2>2. CASE \E at \in 0 .. Len(input), left \in LineS!Leaves : LineS!ReadFails(at, left) /\ LineS!PollError
      BY <1>1, <2>2, <1>f, <1>e DEF LineS!FilePoll
    <2> QED BY <1>1, <2>1, <2>2 DEF LineS!FilePoll
  <1>2. CASE LineS!BinaryPoll
    <2>1. CASE \/ LineS!PollNone /\ UNCHANGED LineS!readVars
               \/ LineS!PollSome(Len(input)) /\ LineS!ReadTo(Len(input) + 1)
      BY <1>2, <2>1, <1>s, <1>p DEF LineS!BinaryPoll, LineS!ReadTo, LineS!readVars
    <2>2. CASE \E left \in LineS!Leaves : LineS!ReadFails(line, left) /\ LineS!PollError
      BY <1>2, <2>2, <1>f, <1>e DEF LineS!BinaryPoll
    <2> QED BY <1>2, <2>1, <2>2 DEF LineS!BinaryPoll
  <1>3. CASE LineS!StdinPoll
    <2>1. LoopBounds'
      BY <1>3, <1>s, <1>p, <1>e DEF LineS!StdinPoll
    <2> QED BY <1>3, <2>1 DEF LineS!StdinPoll, LineS!readVars
  <1>4. CASE LineS!ThreadReads
    <2>1. LoopBounds'
      BY <1>4 DEF LineS!ThreadReads, LineS!loopVars, LoopBounds
    <2>2. CASE LET next == LineS!NextText(line)
               IN /\ LineS!ReadTo(next)
                  /\ IF LineS!AtEof(next) THEN reader' = "gone" /\ UNCHANGED held
                     ELSE reader' = "send" /\ held' = next
      BY <1>n, <1>4, <2>1, <2>2 DEF LineS!ThreadReads, LineS!ReadTo, LineS!AtEof
    <2>3. CASE \E at \in 0 .. Len(input), left \in LineS!Leaves : LineS!ReadFails(at, left) /\ reader' = "send" /\ held' = LineS!Error
      BY <1>4, <1>f, <2>1, <2>3 DEF LineS!ThreadReads
    <2> QED BY <1>4, <2>2, <2>3 DEF LineS!ThreadReads
  <1>5. CASE LineS!ThreadSends
    BY <1>5 DEF LineS!ThreadSends, LineS!loopVars, LineS!readVars, LoopBounds
  <1>6. CASE (LineS!LoopStep \/ LineS!Cancel) /\ LineS!Rest
    <2>1. Ran(phase', cancelled', pollErrors', result')
      BY <1>6 DEF LineS!LoopStep, LineS!Sent, LineS!Leave, LineS!BackoffEnds, LineS!Cancel, Ran
    <2> QED BY <1>6, <2>1, LoopStays DEF LineS!Rest, LineS!readVars
  <1>7. CASE LineS!CloseSource
    <2>1. Ran(phase', cancelled', pollErrors', result')
      BY <1>7 DEF LineS!CloseSource, LineS!Closed, Ran
    <2> QED BY <1>7, <2>1, LoopStays DEF LineS!CloseSource, LineS!readVars
  <1>8. CASE UNCHANGED LineS!vars
    BY <1>8 DEF LineS!vars, LineS!loopVars, LineS!readVars, LoopBounds
  <1> QED BY <1>1, <1>2, <1>3, <1>4, <1>5, <1>6, <1>7, <1>8 DEF LineS!Next, LineS!Over

LEMMA LineBoundsInit == ASSUME LineS!Init PROVE LineBounds
  <1>1. input \in Inputs /\ faults = 0 /\ MaxFaults \in Nat /\ LineS!LoopInit
        /\ reader \in {"none", "read"} /\ channel = LineS!Nothing /\ held = LineS!Nothing
    BY AdaptersFit DEF LineS!Init, LineS!LineAssumption
  <1>2. faults \in 0 .. MaxFaults /\ LoopBounds
    BY <1>1, LoopStarts
  <1> QED BY <1>1, <1>2 DEF LineBounds

\* What LineS!Init says is the same in the other two sources.
MqttBounds ==
    /\ LoopBounds /\ eventloop \in {"poll", "send", "sleep", "gone"}
    /\ eventloop # "send" => held = 0
    /\ published \in 0 .. MaxMessages /\ Len(channel) <= ChannelCap
    /\ requests \in 0 .. RequestCap /\ {up, session, subscribed, rejected} \subseteq BOOLEAN

LEMMA MqttBoundsInit == ASSUME MqttS!Init PROVE MqttBounds
  <1>1. /\ eventloop = "poll" /\ held = 0 /\ channel = <<>> /\ published = 0 /\ requests = 0
        /\ up = FALSE /\ session = FALSE /\ subscribed = FALSE /\ rejected = FALSE
    BY DEF MqttS!Init, MqttS!NoMessage
  <1>2. {ChannelCap, RequestCap, MaxMessages} \subseteq Nat
    BY AdaptersFit DEF MqttS!MqttAssumption
  <1>3. LoopBounds
    BY LoopStarts DEF MqttS!Init, MqttS!LoopInit, LineS!LoopInit
  <1>4. Len(channel) <= ChannelCap /\ published \in 0 .. MaxMessages /\ requests \in 0 .. RequestCap
    BY <1>1, <1>2
  <1> QED BY <1>1, <1>3, <1>4 DEF MqttBounds

LEMMA MqttBoundsStay ==
  ASSUME MqttInv, MqttBounds, [MqttS!Next]_(MqttS!vars) PROVE MqttBounds'
  <1>0. /\ {ChannelCap, RequestCap, MaxMessages} \subseteq Nat /\ channel \in Seq(Nat) /\ held \in Nat
        /\ LoopBounds
    BY AdaptersFit DEF MqttS!MqttAssumption, MqttInv, MqttTypes, MqttBounds
  <1>1. CASE MqttS!Works \/ MqttS!PollFails \/ MqttS!LinkBreaks \/ MqttS!Publish
    <2>1. LoopBounds'
      BY <1>0, <1>1 DEF MqttS!Works, MqttS!PollFails, MqttS!LinkBreaks, MqttS!Publish, MqttS!ConnAck,
            MqttS!SubAck, MqttS!Incoming, MqttS!Forward, MqttS!Wakes, MqttS!loopVars, LoopBounds
    <2>2. CASE \E session_present \in BOOLEAN : MqttS!ConnAck(session_present)
      BY <1>0, <2>1, <2>2 DEF MqttS!ConnAck, MqttBounds
    <2>3. CASE \E granted \in BOOLEAN : MqttS!SubAck(granted)
      BY <1>0, <2>1, <2>3 DEF MqttS!SubAck, MqttBounds
    <2>4. CASE MqttS!Incoming
      BY <1>0, <2>1, <2>4 DEF MqttS!Incoming, MqttBounds
    <2>5. CASE MqttS!Forward
      <3>1. Len(channel') = Len(channel) + 1 /\ Len(channel) < ChannelCap
        BY <1>0, <2>5 DEF MqttS!Forward
      <3>2. Len(channel') <= ChannelCap
        BY <1>0, <3>1
      <3> QED BY <2>1, <2>5, <3>2 DEF MqttS!Forward, MqttS!NoMessage, MqttS!linkVars, MqttBounds
    <2>6. CASE MqttS!Wakes \/ MqttS!PollFails \/ MqttS!LinkBreaks
      BY <2>1, <2>6 DEF MqttS!Wakes, MqttS!PollFails, MqttS!LinkBreaks, MqttS!linkVars, MqttBounds
    <2>7. CASE MqttS!Publish
      <3>1. published' \in 0 .. MaxMessages
        BY <1>0, <2>7 DEF MqttS!Publish, MqttBounds
      <3> QED BY <2>1, <2>7, <3>1 DEF MqttS!Publish, MqttBounds
    <2> QED BY <1>1, <2>2, <2>3, <2>4, <2>5, <2>6, <2>7 DEF MqttS!Works
  <1>2. CASE MqttS!Poll
    <2>1. Ran(phase', cancelled', pollErrors', result')
      BY <1>2 DEF MqttS!Poll, MqttS!PollSome, Ran
    <2>2. Len(channel') <= ChannelCap
      <3>1. channel # <<>> /\ channel' = Tail(channel) /\ Len(channel) <= ChannelCap
        BY <1>2 DEF MqttS!Poll, MqttBounds
      <3>2. Len(Tail(channel)) = Len(channel) - 1 /\ Len(channel) \in Nat
        BY <1>0, <3>1
      <3> QED BY <1>0, <3>1, <3>2
    <2> QED BY <1>0, <1>2, <2>1, <2>2, LoopStays DEF MqttS!Poll, MqttS!linkVars, MqttBounds
  <1>3. CASE (MqttS!LoopStep \/ MqttS!Cancel) /\ MqttS!Rest
    <2>1. Ran(phase', cancelled', pollErrors', result')
      BY <1>3 DEF MqttS!LoopStep, MqttS!Sent, MqttS!Leave, MqttS!BackoffEnds, MqttS!Cancel, Ran
    <2> QED BY <1>0, <1>3, <2>1, LoopStays DEF MqttS!Rest, MqttS!linkVars, MqttBounds
  <1>4. CASE MqttS!Close
    <2>1. Ran(phase', cancelled', pollErrors', result')
      BY <1>4 DEF MqttS!Close, MqttS!Closed, Ran
    <2>2. Len(channel') <= ChannelCap
      BY <1>0, <1>4 DEF MqttS!Close
    <2> QED BY <1>0, <1>4, <2>1, <2>2, LoopStays DEF MqttS!Close, MqttS!NoMessage, MqttBounds
  <1>5. CASE UNCHANGED MqttS!vars
    BY <1>5 DEF MqttS!vars, MqttS!loopVars, MqttS!linkVars, LoopBounds, MqttBounds
  <1> QED BY <1>1, <1>2, <1>3, <1>4, <1>5 DEF MqttS!Next

HttpBounds ==
    /\ LoopBounds /\ server \in {"up", "down"} /\ arrived <= MaxRequests
    /\ request \in [Conn -> 0 .. MaxRequests]

LEMMA HttpBoundsInit == ASSUME HttpS!Init PROVE HttpBounds
  <1>1. /\ server = "up" /\ arrived = 0 /\ request = [c \in Conn |-> 0] /\ MaxRequests \in Nat
    BY AdaptersFit DEF HttpS!Init, HttpS!NoRequest, HttpS!HttpAssumption
  <1>2. LoopBounds
    BY LoopStarts DEF HttpS!Init, HttpS!LoopInit, LineS!LoopInit
  <1>3. arrived <= MaxRequests /\ request \in [Conn -> 0 .. MaxRequests]
    BY <1>1
  <1> QED BY <1>1, <1>2, <1>3 DEF HttpBounds

LEMMA HttpBoundsStay ==
  ASSUME HttpInv, HttpBounds, [HttpS!Next]_(HttpS!vars) PROVE HttpBounds'
  <1>0. MaxRequests \in Nat /\ arrived \in Nat /\ LoopBounds
    BY AdaptersFit DEF HttpS!HttpAssumption, HttpInv, HttpTypes, HttpBounds
  <1>1. ASSUME NEW c \in Conn, HttpS!Accept(c) \/ HttpS!HangUp(c) PROVE HttpBounds'
    BY <1>0, <1>1 DEF HttpS!Accept, HttpS!HangUp, HttpS!loopVars, HttpBounds, LoopBounds
  <1>2. ASSUME NEW c \in Conn, HttpS!Body(c) \/ HttpS!SendMessage(c) PROVE HttpBounds'
    <2>1. LoopBounds' /\ UNCHANGED <<server, arrived>>
      BY <1>0, <1>2 DEF HttpS!Body, HttpS!SendMessage, HttpS!loopVars, LoopBounds
    <2>2. request' = request \/ request' = [request EXCEPT ![c] = 0]
      BY <1>2 DEF HttpS!Body, HttpS!SendMessage, HttpS!Answer, HttpS!NoRequest
    <2>3. request' \in [Conn -> 0 .. MaxRequests]
      BY <1>0, <2>2 DEF HttpBounds
    <2> QED BY <2>1, <2>3 DEF HttpBounds
  <1>3. ASSUME NEW c \in Conn, NEW method \in {"POST", "GET"}, NEW path \in BOOLEAN,
               HttpS!Request(c, method, path)
        PROVE  HttpBounds'
    <2>1. LoopBounds' /\ server' = server
      BY <1>0, <1>3 DEF HttpS!Request, HttpS!loopVars, LoopBounds
    <2>2. arrived' = arrived + 1 /\ arrived' <= MaxRequests /\ arrived' \in Nat
      BY <1>0, <1>3 DEF HttpS!Request
    <2>3. request' = request \/ request' = [request EXCEPT ![c] = arrived']
      BY <1>3, <2>2 DEF HttpS!Request
    <2>4. request' \in [Conn -> 0 .. MaxRequests]
      BY <1>0, <2>2, <2>3 DEF HttpBounds
    <2> QED BY <2>1, <2>2, <2>4 DEF HttpBounds
  <1>4. CASE HttpS!Poll
    <2>1. Ran(phase', cancelled', pollErrors', result')
      BY <1>4 DEF HttpS!Poll, HttpS!PollSome, Ran
    <2> QED BY <1>0, <1>4, <2>1, LoopStays DEF HttpS!Poll, HttpBounds
  <1>5. CASE (HttpS!LoopStep \/ HttpS!Cancel) /\ UNCHANGED HttpS!ioVars
    <2>1. Ran(phase', cancelled', pollErrors', result')
      BY <1>5 DEF HttpS!LoopStep, HttpS!Sent, HttpS!Leave, HttpS!BackoffEnds, HttpS!Cancel, Ran
    <2> QED BY <1>0, <1>5, <2>1, LoopStays DEF HttpS!ioVars, HttpBounds
  <1>6. CASE HttpS!Close
    <2>1. Ran(phase', cancelled', pollErrors', result')
      BY <1>6 DEF HttpS!Close, HttpS!Closed, Ran
    <2> QED BY <1>0, <1>6, <2>1, LoopStays DEF HttpS!Close, HttpBounds
  <1>7. CASE UNCHANGED HttpS!vars
    BY <1>7 DEF HttpS!vars, HttpS!loopVars, HttpS!ioVars, HttpBounds, LoopBounds
  <1> QED BY <1>1, <1>2, <1>3, <1>4, <1>5, <1>6, <1>7 DEF HttpS!Next

\* Each adapter keeps its own invariant; the others' variables stay Off.
SourcesInv ==
    /\ part = "line" => LineInv /\ LineBounds
    /\ part = "mqtt" => MqttInv /\ MqttBounds
    /\ part = "http" => HttpInv /\ HttpBounds

LEMMA RisingLast ==
  ASSUME NEW a \in Seq(Nat), NEW s \in Seq(Nat), NEW n \in Nat, s # <<>>, RisingTo(a \o s, n)
  PROVE  s[Len(s)] <= n
  <1>1. /\ Len(a \o s) = Len(a) + Len(s) /\ Len(a) \in Nat /\ Len(s) \in Nat /\ Len(s) > 0
        /\ \A i \in 1 .. Len(a) + Len(s) :
              (a \o s)[i] = IF i <= Len(a) THEN a[i] ELSE s[i - Len(a)]
    <2>1. Len(s) \in Nat /\ Len(s) > 0
      OBVIOUS
    <2> QED BY <2>1, ConcatProperties
  <1>2. PICK last \in Nat : last = Len(a) + Len(s)
    BY <1>1
  <1>3. last \in 1 .. Len(a \o s) /\ (a \o s)[last] = s[Len(s)]
    BY <1>1, <1>2
  <1>4. (a \o s)[last] <= n
    BY <1>3 DEF RisingTo
  <1> QED BY <1>3, <1>4

LEMMA SourcesInvHolds == ASSUME SourcesInv PROVE SourcesFaithful
  <1>1. ASSUME part = "line"
        PROVE  LineS!LineTypeOK /\ LineS!EmittedInOrder /\ LineS!EofIsComplete /\ LineS!BadDataIsNoError
    <2>0. LineInv /\ LineBounds
      BY <1>1 DEF SourcesInv
    <2>1. LineS!LineTypeOK
      BY <2>0 DEF LineInv, Cuts, LineTypes, LineBounds, LoopBounds, LineS!LineTypeOK, LineS!LoopTypeOK
    <2> QED BY <2>0, <2>1, LineInvSays
  <1>2. ASSUME part = "mqtt" PROVE MqttS!MqttTypeOK /\ LineS!EmittedInOrder
    <2>0. MqttInv /\ MqttBounds /\ LineS!EmittedInOrder
      BY <1>2, MqttInvSays DEF SourcesInv
    <2>1. held \in 0 .. MaxMessages
      <3>1. MaxMessages \in Nat /\ published \in 0 .. MaxMessages /\ held \in Nat
        BY <2>0, AdaptersFit DEF MqttS!MqttAssumption, MqttBounds, MqttInv, MqttTypes
      <3>2. CASE eventloop = "send"
        <4>1. RisingTo(emitted \o (channel \o <<held>>), published)
          BY <2>0, <3>2, ChainPieces DEF MqttInv, Hand
        <4>2. held <= published
          <5>1. emitted \in Seq(Nat) /\ channel \in Seq(Nat) /\ published \in Nat
            BY <2>0 DEF MqttInv, MqttTypes
          <5>a. Append(channel, held) \in Seq(Nat)
            BY Zenon, <3>1, <5>1, AppendProperties
          <5>2. PICK s \in Seq(Nat) : s = Append(channel, held)
            BY <5>a
          <5>3. s = channel \o <<held>>
            BY <3>1, <5>1, <5>2, AppendIsConcat
          <5>4. s # <<>> /\ s[Len(s)] = held
            BY <3>1, <5>1, <5>2
          <5> QED BY <4>1, <5>1, <5>3, <5>4, RisingLast
        <4> QED BY <3>1, <4>2
      <3> QED BY <2>0, <3>1, <3>2 DEF MqttBounds
    <2>2. MqttS!LoopTypeOK
      BY <2>0 DEF MqttBounds, LoopBounds, MqttS!LoopTypeOK
    <2> QED BY <2>0, <2>1, <2>2 DEF MqttBounds, MqttS!MqttTypeOK
  <1>3. ASSUME part = "http" PROVE HttpS!HttpTypeOK /\ HttpS!AnswerIsTrue /\ HttpS!LossAtClose
    <2>0. HttpInv /\ HttpBounds
      BY <1>3 DEF SourcesInv
    <2>1. HttpS!LoopTypeOK
      BY <2>0 DEF HttpBounds, LoopBounds, HttpS!LoopTypeOK
    <2> QED BY <2>0, <2>1 DEF HttpInv, HttpTypes, HttpBounds, Statuses, HttpS!HttpTypeOK
  <1> QED BY <1>1, <1>2, <1>3 DEF SourcesFaithful

LEMMA SourcesInvInit == ASSUME Init PROVE SourcesInv
  BY LineInvInit, LineBoundsInit, MqttInvInit, MqttBoundsInit, HttpInvInit, HttpBoundsInit
     DEF Init, SourcesInv

LEMMA SourcesInvStep == ASSUME SourcesInv, [Next]_vars PROVE SourcesInv'
  <1>1. CASE LineNext
    <2>1. part = "line" /\ part' = "line" /\ LineS!Next
      BY <1>1 DEF LineNext
    <2> QED BY <2>1, LineSmallSteps, CutsStay, LineMoves, LineBoundsStay DEF SourcesInv, LineInv
  <1>2. CASE MqttNext
    <2>1. part = "mqtt" /\ part' = "mqtt" /\ MqttS!Next
      BY <1>2 DEF MqttNext
    <2> QED BY <2>1, MqttInvStep, MqttBoundsStay DEF SourcesInv
  <1>3. CASE HttpNext
    <2>1. part = "http" /\ part' = "http" /\ HttpS!Next
      BY <1>3 DEF HttpNext
    <2> QED BY <2>1, HttpInvStep, HttpBoundsStay DEF SourcesInv
  <1>4. CASE SinkNext
    BY <1>4 DEF SinkNext, SourcesInv
  <1>5. CASE UNCHANGED vars
    <2>1. /\ part' = part /\ UNCHANGED LineS!vars /\ UNCHANGED MqttS!vars /\ UNCHANGED HttpS!vars
      BY <1>5 DEF vars, lineOwn, mqttOwn, httpOwn, sourceOwn, LineS!vars, MqttS!vars, HttpS!vars,
                  LineS!loopVars, LineS!readVars, MqttS!loopVars, MqttS!linkVars, HttpS!loopVars,
                  HttpS!ioVars
    <2> QED BY <2>1, LineSmallSteps, CutsStay, LineMoves, LineBoundsStay, MqttInvStep, MqttBoundsStay,
               HttpInvStep, HttpBoundsStay DEF SourcesInv, LineInv
  <1> QED BY <1>1, <1>2, <1>3, <1>4, <1>5 DEF Next

\* Whatever reads fail, links break and connections interleave, every source
\* passes on what it met in order and once, ends complete, and answers truly.
THEOREM SourcesStayFaithful == Spec => []SourcesFaithful
  <1>1. SourcesInv => SourcesFaithful
    BY SourcesInvHolds
  <1>2. Init => SourcesInv
    BY SourcesInvInit
  <1>3. SourcesInv /\ [Next]_vars => SourcesInv'
    BY SourcesInvStep
  <1> QED BY <1>1, <1>2, <1>3, PTL DEF Spec

-----------------------------------------------------------------------------
(***************************************************************************)
(* The sinks.                                                              *)
(***************************************************************************)
Token == SinkS!Message \cup {SinkS!LineEnd}
Writers == [buf : Seq(Token), out : Seq(Token), ok : BOOLEAN]
Links == [requests : Seq(SinkS!Message), resend : Seq(SinkS!Message),
          inflight : Seq(SinkS!Message), wire : Seq(SinkS!Message),
          up : BOOLEAN, alive : BOOLEAN, broken : Nat]

Local == cfg.kind \in {"file", "stdout"}
Acknowledging == cfg.kind = "mqtt" /\ cfg.topic /\ cfg.qos > 0

SinkTypes ==
    /\ cfg \in Configs
    /\ phase \in {"init", "refused", "run", "drain", "flush", "close", "done"}
    /\ sent \in 0 .. MaxMessages /\ taken \in 0 .. sent
    /\ upstream \in BOOLEAN /\ cancelled \in BOOLEAN /\ flushed \in BOOLEAN /\ erred \in BOOLEAN
    /\ idle \in 0 .. Timeout /\ age \in Nat
    /\ op \in {"none", "collect", "flush", "close"}
    /\ batch \in Seq(SinkS!Message) /\ pending \in Seq(SinkS!Message)
    /\ endpoint \in Seq(SinkS!Message)
    /\ file \in Writers /\ file.ok = TRUE
    /\ link \in Links
    /\ processed \in Nat /\ failed \in Nat
    /\ result \in {"none", "ok", "failed"}

\* s numbers the messages that follow the n-th.
Follows(s, n) == \A i \in 1 .. Len(s) : s[i] = n + i

\* The messages that are in no batch and no call.
Handed == taken - (Len(batch) + Len(pending))

\* Where the messages are while the loop goes from phase to phase.
SinkControl ==
    /\ Len(batch) + Len(pending) <= taken
    /\ Follows(pending, taken - Len(pending)) /\ Follows(batch, taken - Len(batch))
    /\ pending # <<>> => op # "none"
    /\ op # "none" => batch = <<>> /\ ~Local
    /\ op = "collect" => phase \in {"run", "drain"}
    /\ op = "flush" => phase \in {"run", "flush"}
    /\ op = "close" => phase = "close" /\ pending = <<>>
    /\ phase \in {"init", "refused"} => taken = 0
    /\ phase \in {"flush", "close", "done"} => taken = sent
    /\ phase \in {"close", "done"} => batch = <<>> /\ pending = <<>>
    /\ processed + failed + (IF op = "collect" THEN 1 ELSE 0) <= taken

\* A message restarts the timer, and it also fills the batch.
BatchWaits ==
    /\ batch = <<>> => age = 0
    /\ batch # <<>> => /\ cfg.batch # SinkS!Unbatched /\ Len(batch) < cfg.batch
                       /\ age <= (Len(batch) - 1) * Timeout + idle

\* Line ends apart, a text rises and does not exceed n.
PaysTo(text, n) ==
    \A i, j \in 1 .. Len(text) :
        /\ text[i] <= n
        /\ i < j /\ text[i] # 0 /\ text[j] # 0 => text[i] < text[j]

TextOf(w) == w.out \o w.buf

LocalWritten ==
    /\ PaysTo(TextOf(file), Handed)
    /\ ~erred => TextOf(file) = SinkS!Lines(Handed)
    /\ phase = "done" /\ result = "ok" => file.buf = <<>>

\* The first n messages.
Firsts(n) == [i \in 1 .. n |-> i]

HttpTaken ==
    /\ RisingTo(endpoint, Handed)
    /\ ~erred => endpoint = Firsts(Handed)

\* Of what waits for an acknowledgement the last, W, are on the wire and those
\* before them have arrived.
Wired(I, W, E) ==
    /\ Len(W) <= Len(I)
    /\ \A i \in 1 .. Len(I) - Len(W) : I[i] \in ToSet(E)
    /\ \A j \in 1 .. Len(W) : W[j] = I[(Len(I) - Len(W)) + j]

\* What was handed to the client is with the broker or still with the client,
\* which keeps more than its requests and what waits for an acknowledgement
\* only when the link has broken.
Holds(Q, R, I, W, k, E, n) ==
    /\ Len(Q) <= RequestCap
    /\ Len(R) + Len(I) <= RequestCap * k + MaxInflight
    /\ Wired(I, W, E)
    /\ 1 .. n \subseteq ToSet(E) \cup ToSet(R) \cup ToSet(I) \cup ToSet(Q)

BrokerTaken ==
    /\ phase # "done" => Holds(link.requests, link.resend, link.inflight, link.wire, link.broken,
                               endpoint, Handed)
    /\ phase = "done" => ~link.alive /\ SinkS!LossAtClose

SinkInv ==
    /\ SinkTypes /\ SinkControl /\ BatchWaits
    /\ IF Local THEN LocalWritten ELSE file = SinkS!ClosedFile
    /\ cfg.kind # "mqtt" => ~link.alive /\ link.wire = <<>>
    /\ cfg.kind = "http" => HttpTaken
    /\ Acknowledging => BrokerTaken

-----------------------------------------------------------------------------
(***************************************************************************)
(* A file's writer.                                                        *)
(***************************************************************************)

LEMMA Regrouped ==
  ASSUME NEW a \in Seq(Token), NEW b \in Seq(Token), NEW c \in Seq(Token)
  PROVE  (a \o b) \o c = a \o (b \o c)
  BY ConcatAssociative

LEMMA WriterPieces ==
  ASSUME NEW w \in Writers
  PROVE  w.buf \in Seq(Token) /\ w.out \in Seq(Token) /\ TextOf(w) \in Seq(Token)
  <1>1. w.buf \in Seq(Token) /\ w.out \in Seq(Token)
    BY DEF Writers
  <1> QED BY <1>1, ConcatProperties DEF TextOf

\* A flush moves the text to the file, as far as it gets, and loses none of it.
LEMMA FlushKeeps ==
  ASSUME NEW w \in Writers, NEW x \in SinkS!FlushWriter(w)
  PROVE  /\ x \in Writers /\ TextOf(x) = TextOf(w)
         /\ x.ok => x.buf = <<>> /\ x.out = TextOf(w)
  <1>1. PICK buf \in Seq(Token) : buf = w.buf
    BY DEF Writers
  <1>2. PICK out \in Seq(Token) : out = w.out
    BY DEF Writers
  <1>3. CASE x = [buf |-> <<>>, out |-> w.out \o w.buf, ok |-> TRUE]
    <2>1. x.buf = <<>> /\ x.out = out \o buf /\ x.ok = TRUE
      BY <1>1, <1>2, <1>3
    <2>2. out \o buf \in Seq(Token) /\ (out \o buf) \o <<>> = out \o buf /\ <<>> \in Seq(Token)
      BY ConcatProperties, ConcatEmptySeq
    <2>3. x \in Writers
      BY <1>1, <1>2, <1>3, <2>2 DEF Writers
    <2> QED BY <1>1, <1>2, <2>1, <2>2, <2>3 DEF TextOf
  <1>4. CASE \E n \in 0 .. Len(w.buf) - 1 :
                 x = [buf |-> SubSeq(w.buf, n + 1, Len(w.buf)),
                      out |-> w.out \o SubSeq(w.buf, 1, n), ok |-> FALSE]
    <2>1. PICK n \in 0 .. Len(buf) - 1 :
              x = [buf |-> SubSeq(buf, n + 1, Len(buf)), out |-> out \o SubSeq(buf, 1, n),
                   ok |-> FALSE]
      BY <1>1, <1>2, <1>4
    <2>2. Len(buf) \in Nat /\ n \in Nat /\ n <= Len(buf)
      BY LenProperties
    <2>3. SubSeq(buf, 1, n) \in Seq(Token) /\ SubSeq(buf, n + 1, Len(buf)) \in Seq(Token)
      BY <2>2
    <2>4. PICK first \in Seq(Token) : first = SubSeq(buf, 1, n)
      BY <2>3
    <2>5. PICK behind \in Seq(Token) : behind = SubSeq(buf, n + 1, Len(buf))
      BY <2>3
    <2>6. first \o behind = buf
      <3>1. first \o behind = SubSeq(buf, 1, Len(buf))
        BY <2>2, <2>4, <2>5, ConcatAdjacentSubSeq
      <3> QED BY <3>1, SubSeqFull
    <2>7. (out \o first) \o behind = out \o buf /\ out \o first \in Seq(Token)
      <3>1. (out \o first) \o behind = out \o (first \o behind)
        BY Regrouped
      <3>2. out \o first \in Seq(Token)
        BY ConcatProperties
      <3> QED BY <2>6, <3>1, <3>2
    <2>8. x = [buf |-> behind, out |-> out \o first, ok |-> FALSE]
      BY <2>1, <2>4, <2>5
    <2>9. x \in Writers
      BY <2>7, <2>8 DEF Writers
    <2> QED BY <1>1, <1>2, <2>7, <2>8, <2>9 DEF TextOf
  <1> QED BY <1>3, <1>4 DEF SinkS!FlushWriter

\* A token is written whole or not at all.
LEMMA WriteAllAdds ==
  ASSUME NEW w \in Writers, w.ok, NEW t \in Token, NEW x \in SinkS!WriteAll(w, t)
  PROVE  /\ x \in Writers
         /\ TextOf(x) = IF x.ok THEN Append(TextOf(w), t) ELSE TextOf(w)
  <1>1. PICK buf \in Seq(Token) : buf = w.buf
    BY DEF Writers
  <1>2. PICK out \in Seq(Token) : out = w.out
    BY DEF Writers
  <1>3. CASE x = [w EXCEPT !.buf = Append(@, t)]
    <2>1. Append(buf, t) \in Seq(Token)
      BY Zenon, AppendProperties
    <2>2. w.ok \in BOOLEAN
      BY DEF Writers
    <2>3. x = [buf |-> Append(buf, t), out |-> out, ok |-> w.ok]
      BY <1>1, <1>2, <1>3 DEF Writers
    <2>4. x \in Writers
      BY <2>1, <2>2, <2>3 DEF Writers
    <2>5. out \o Append(buf, t) = Append(out \o buf, t)
      BY AppendInside
    <2>6. x.ok /\ x.buf = Append(buf, t) /\ x.out = out
      BY <2>3
    <2> QED BY <1>1, <1>2, <2>4, <2>5, <2>6 DEF TextOf
  <1>4. ASSUME NEW y \in SinkS!FlushWriter(w), x = IF y.ok THEN [y EXCEPT !.buf = <<t>>] ELSE y
        PROVE  /\ x \in Writers
               /\ TextOf(x) = IF x.ok THEN Append(TextOf(w), t) ELSE TextOf(w)
    <2>1. y \in Writers /\ TextOf(y) = TextOf(w) /\ (y.ok => y.out = TextOf(w))
      BY FlushKeeps
    <2>2. CASE ~y.ok
      BY <1>4, <2>1, <2>2
    <2>3. CASE y.ok
      <3>1. y = [buf |-> y.buf, out |-> y.out, ok |-> y.ok]
        BY <2>1 DEF Writers
      <3>2. x = [buf |-> <<t>>, out |-> y.out, ok |-> y.ok]
        BY <1>4, <2>3, <3>1
      <3>3. TextOf(w) \in Seq(Token) /\ <<t>> \in Seq(Token)
        BY WriterPieces
      <3>4. x \in Writers
        BY <2>1, <2>3, <3>2, <3>3 DEF Writers
      <3>5. Append(TextOf(w), t) = TextOf(w) \o <<t>>
        BY <3>3, AppendIsConcat
      <3>6. x.ok /\ x.buf = <<t>> /\ x.out = y.out
        BY <2>3, <3>2
      <3> QED BY <2>1, <2>3, <3>4, <3>5, <3>6 DEF TextOf
    <2> QED BY <2>2, <2>3
  <1>5. \/ x = [w EXCEPT !.buf = Append(@, t)]
        \/ \E y \in SinkS!FlushWriter(w) : x = IF y.ok THEN [y EXCEPT !.buf = <<t>>] ELSE y
    BY DEF SinkS!WriteAll
  <1> QED BY <1>3, <1>4, <1>5

\* What a text becomes when a payload or a line end is added to it.
LEMMA TokensAreNumbers == Token \subseteq Nat /\ SinkS!Message \subseteq Nat \ {0} /\ 0 \in Token
  BY AdaptersFit DEF AdaptersFit, Token, SinkS!SinkAssumption, SinkS!Message, SinkS!LineEnd

LEMMA PaysHigher ==
  ASSUME NEW text \in Seq(Token), NEW n \in Nat, NEW m \in Nat, PaysTo(text, n), n <= m
  PROVE  PaysTo(text, m)
  <1>1. \A i \in 1 .. Len(text) : text[i] \in Token
    BY ElementOfSeq
  <1>2. \A i \in 1 .. Len(text) : text[i] \in Nat
    BY <1>1, TokensAreNumbers
  <1> QED BY <1>2 DEF PaysTo

LEMMA PaysOneMore ==
  ASSUME NEW text \in Seq(Token), NEW n \in Nat, PaysTo(text, n)
  PROVE  /\ PaysTo(Append(text, 0), n)
         /\ n + 1 \in Token => PaysTo(Append(text, n + 1), n + 1)
  <1>0. Len(text) \in Nat /\ \A i \in 1 .. Len(text) : text[i] \in Token
    BY ElementOfSeq, LenProperties
  <1>1. /\ Len(text) \in Nat /\ \A i \in 1 .. Len(text) : text[i] \in Nat
        /\ \A i, j \in 1 .. Len(text) :
               /\ text[i] <= n
               /\ i < j /\ text[i] # 0 /\ text[j] # 0 => text[i] < text[j]
    BY <1>0, TokensAreNumbers DEF PaysTo
  <1>2. ASSUME NEW t \in Token
        PROVE  /\ Len(Append(text, t)) = Len(text) + 1 /\ Append(text, t)[Len(text) + 1] = t
               /\ \A i \in 1 .. Len(text) : Append(text, t)[i] = text[i]
    OBVIOUS
  <1>3. PaysTo(Append(text, 0), n)
    <2>1. 0 \in Token
      BY TokensAreNumbers
    <2> SUFFICES ASSUME NEW i \in 1 .. Len(text) + 1, NEW j \in 1 .. Len(text) + 1
                 PROVE  /\ Append(text, 0)[i] <= n
                        /\ i < j /\ Append(text, 0)[i] # 0 /\ Append(text, 0)[j] # 0 =>
                               Append(text, 0)[i] < Append(text, 0)[j]
      BY <1>2, <2>1 DEF PaysTo
    <2>2. CASE i = Len(text) + 1 \/ j = Len(text) + 1
      BY <1>1, <1>2, <2>1, <2>2
    <2>3. CASE i \in 1 .. Len(text) /\ j \in 1 .. Len(text)
      BY <1>1, <1>2, <2>1, <2>3
    <2> QED BY <1>1, <2>2, <2>3
  <1>4. ASSUME n + 1 \in Token PROVE PaysTo(Append(text, n + 1), n + 1)
    <2> SUFFICES ASSUME NEW i \in 1 .. Len(text) + 1, NEW j \in 1 .. Len(text) + 1
                 PROVE  /\ Append(text, n + 1)[i] <= n + 1
                        /\ i < j /\ Append(text, n + 1)[i] # 0 /\ Append(text, n + 1)[j] # 0 =>
                               Append(text, n + 1)[i] < Append(text, n + 1)[j]
      BY <1>2, <1>4 DEF PaysTo
    <2>1. CASE i = Len(text) + 1
      BY <1>1, <1>2, <1>4, <2>1
    <2>2. CASE i \in 1 .. Len(text) /\ j = Len(text) + 1
      BY <1>1, <1>2, <1>4, <2>2
    <2>3. CASE i \in 1 .. Len(text) /\ j \in 1 .. Len(text)
      BY <1>1, <1>2, <1>4, <2>3
    <2> QED BY <1>1, <2>1, <2>2, <2>3
  <1> QED BY <1>3, <1>4

LEMMA LinesStep ==
  ASSUME NEW n \in Nat
  PROVE  SinkS!Lines(n + 1) = Append(Append(SinkS!Lines(n), n + 1), 0)
  <1> DEFINE token(i) == IF i % 2 = 1 THEN (i + 1) \div 2 ELSE 0
             some == SinkS!Lines(n)
             more == Append(Append(some, n + 1), 0)
  <1>1. some = [i \in 1 .. 2 * n |-> token(i)]
    BY DEF SinkS!Lines, SinkS!LineEnd
  <1>2. SinkS!Lines(n + 1) = [i \in 1 .. 2 * (n + 1) |-> token(i)]
    BY DEF SinkS!Lines, SinkS!LineEnd
  <1>3. \A i \in Nat : token(i) \in Nat
    OBVIOUS
  <1>4. token(2 * n + 1) = n + 1 /\ token(2 * n + 2) = 0 /\ 2 * (n + 1) = (2 * n + 1) + 1
    OBVIOUS
  <1> HIDE DEF token
  <1>5. some \in Seq(Nat) /\ Len(some) = 2 * n
    BY <1>1, <1>3, SMTT(40)
  <1> HIDE DEF some
  <1>a. ASSUME NEW s \in Seq(Nat), NEW e \in Nat PROVE Append(s, e) \in Seq(Nat)
    BY Zenon, AppendProperties
  <1>b. n + 1 \in Nat /\ 0 \in Nat
    OBVIOUS
  <1>6. PICK one \in Seq(Nat) : one = Append(some, n + 1)
    BY Zenon, <1>5, <1>a, <1>b
  <1>7. /\ Len(one) = 2 * n + 1 /\ one[2 * n + 1] = n + 1
        /\ \A i \in 1 .. 2 * n : one[i] = token(i)
    BY <1>1, <1>5, <1>6
  <1>8. PICK two \in Seq(Nat) : two = Append(one, 0)
    BY Zenon, <1>6, <1>a, <1>b
  <1>9. /\ Len(two) = 2 * n + 2 /\ two[2 * n + 2] = 0
        /\ \A i \in 1 .. 2 * n + 1 : two[i] = one[i]
    BY <1>7, <1>8, SMTT(40)
  <1>10. two = [i \in 1 .. 2 * n + 2 |-> token(i)]
    <2>1. \A i \in 1 .. 2 * n + 2 : i = 2 * n + 2 \/ i = 2 * n + 1 \/ i \in 1 .. 2 * n
      OBVIOUS
    <2>2. \A i \in 1 .. 2 * n + 2 : two[i] = token(i)
      BY <1>4, <1>7, <1>9, <2>1, SMTT(40)
    <2>3. two = [i \in 1 .. 2 * n + 2 |-> two[i]]
      <3>1. two = [i \in 1 .. Len(two) |-> two[i]]
        OBVIOUS
      <3> QED BY <1>9, <3>1
    <2> QED BY <2>2, <2>3
  <1> QED BY <1>2, <1>4, <1>6, <1>8, <1>10 DEF some

\* A writer after the first n messages, and what it holds while no write failed.
Written(x, n, clean) ==
    /\ x \in Writers /\ PaysTo(TextOf(x), n)
    /\ clean /\ x.ok => TextOf(x) = SinkS!Lines(n)

LEMMA WriteLineAdds ==
  ASSUME NEW outcomes, NEW n \in Nat, n + 1 \in SinkS!Message, NEW clean,
         \A w \in outcomes : Written(w, n, clean),
         NEW x \in SinkS!WriteLine(outcomes, n + 1)
  PROVE  Written(x, n + 1, clean)
  <1>0. n + 1 \in Token /\ 0 \in Token /\ n + 1 \in Nat /\ n <= n + 1 /\ SinkS!LineEnd = 0
    BY TokensAreNumbers DEF Token, SinkS!LineEnd
  <1>1. PICK w \in outcomes :
            x \in IF w.ok THEN SinkS!Then(SinkS!WriteAll(w, n + 1),
                                          LAMBDA y : SinkS!WriteAll(y, 0))
                  ELSE {w}
    BY <1>0 DEF SinkS!WriteLine, SinkS!Then
  <1>2. w \in Writers /\ PaysTo(TextOf(w), n) /\ TextOf(w) \in Seq(Token)
    BY WriterPieces DEF Written
  <1>3. PaysTo(TextOf(w), n + 1)
    BY <1>0, <1>2, PaysHigher
  <1>4. CASE ~w.ok
    <2>1. x = w
      BY <1>1, <1>4
    <2> QED BY <1>2, <1>3, <1>4, <2>1 DEF Written
  <1>5. CASE w.ok
    <2>1. PICK y \in SinkS!WriteAll(w, n + 1) : x \in IF y.ok THEN SinkS!WriteAll(y, 0) ELSE {y}
      BY <1>1, <1>5 DEF SinkS!Then
    <2>2. y \in Writers /\ TextOf(y) = IF y.ok THEN Append(TextOf(w), n + 1) ELSE TextOf(w)
      BY <1>0, <1>2, <1>5, WriteAllAdds
    <2>3. CASE ~y.ok
      <3>1. x = y
        BY <2>1, <2>3
      <3> QED BY <1>3, <2>2, <2>3, <3>1 DEF Written
    <2>4. CASE y.ok
      <3>1. x \in Writers /\ TextOf(x) = IF x.ok THEN Append(TextOf(y), 0) ELSE TextOf(y)
        BY <1>0, <2>1, <2>2, <2>4, WriteAllAdds
      <3>2. PaysTo(TextOf(y), n + 1) /\ TextOf(y) \in Seq(Token)
        BY <1>0, <1>2, <2>2, <2>4, PaysOneMore, WriterPieces
      <3>3. PaysTo(Append(TextOf(y), 0), n + 1)
        BY <1>0, <3>2, PaysOneMore
      <3>4. clean => TextOf(w) = SinkS!Lines(n)
        BY <1>5 DEF Written
      <3>5. ASSUME clean, x.ok PROVE TextOf(x) = SinkS!Lines(n + 1)
        BY <2>2, <2>4, <3>1, <3>4, <3>5, LinesStep
      <3> QED BY <3>1, <3>2, <3>3, <3>5 DEF Written
    <2> QED BY <2>3, <2>4
  <1> QED BY <1>4, <1>5

\* A batch is written message by message; the definition of the loop over it
\* has a meaning because each of its steps has one.
LEMMA LoopOverBatch ==
  ASSUME NEW ms \in Seq(SinkS!Message)
  PROVE  \E after :
            /\ after = [i \in 0 .. Len(ms) |->
                            IF i = 0 THEN {file} ELSE SinkS!WriteLine(after[i - 1], ms[i])]
            /\ SinkS!WriteLines(ms) = after[Len(ms)]
  <1> DEFINE Loop(f, n) ==
               f = [i \in 0 .. n |-> IF i = 0 THEN {file} ELSE SinkS!WriteLine(f[i - 1], ms[i])]
             stuck == {n \in 0 .. Len(ms) : ~\E f : Loop(f, n)}
  <1>0. Len(ms) \in Nat
    OBVIOUS
  <1>1. stuck = {}
    <2> SUFFICES ASSUME stuck # {} PROVE FALSE
      OBVIOUS
    <2>1. PICK n \in stuck : \A m \in stuck : n <= m
      <3>1. stuck \subseteq Nat
        BY <1>0
      <3> HIDE DEF stuck
      <3> QED BY <3>1, Least
    <2>2. n \in 0 .. Len(ms) /\ ~\E f : Loop(f, n)
      OBVIOUS
    <2>3. CASE n = 0
      <3>1. [i \in 0 .. 0 |-> {file}] =
                [i \in 0 .. 0 |-> IF i = 0 THEN {file}
                                  ELSE SinkS!WriteLine([j \in 0 .. 0 |-> {file}][i - 1], ms[i])]
        OBVIOUS
      <3>2. Loop([i \in 0 .. 0 |-> {file}], 0)
        BY <3>1
      <3> QED BY <2>2, <2>3, <3>2
    <2>4. CASE n # 0
      <3>1. n - 1 \in 0 .. Len(ms) /\ ~(n <= n - 1)
        BY <1>0, <2>2, <2>4
      <3>2. PICK f : Loop(f, n - 1)
        BY <2>1, <3>1
      <3> DEFINE g == [i \in 0 .. n |-> IF i = n THEN SinkS!WriteLine(f[n - 1], ms[n]) ELSE f[i]]
      <3>3. ASSUME NEW i \in 0 .. n
            PROVE  g[i] = IF i = 0 THEN {file} ELSE SinkS!WriteLine(g[i - 1], ms[i])
        <4>1. CASE i = n
          <5>1. g[i] = SinkS!WriteLine(f[n - 1], ms[n]) /\ n - 1 \in 0 .. n /\ n - 1 # n
            BY <1>0, <2>2, <2>4, <4>1
          <5>2. g[i - 1] = f[n - 1]
            BY <4>1, <5>1
          <5> QED BY <2>4, <4>1, <5>1, <5>2
        <4>2. CASE i # n
          <5>1. i \in 0 .. n - 1 /\ g[i] = f[i]
            BY <1>0, <2>2, <4>2
          <5>2. f[i] = IF i = 0 THEN {file} ELSE SinkS!WriteLine(f[i - 1], ms[i])
            BY <3>2, <5>1
          <5>3. i # 0 => i - 1 \in 0 .. n /\ i - 1 # n
            BY <1>0, <2>2, <5>1
          <5>4. i # 0 => g[i - 1] = f[i - 1]
            BY <5>3
          <5> QED BY <5>1, <5>2, <5>4
        <4> QED BY <4>1, <4>2
      <3>4. g = [i \in 0 .. n |-> g[i]]
        OBVIOUS
      <3> HIDE DEF g
      <3>5. Loop(g, n)
        BY <3>3, <3>4
      <3> QED BY <2>2, <3>5
    <2> QED BY <2>3, <2>4
  <1>2. PICK f : Loop(f, Len(ms))
    BY <1>0, <1>1
  <1> DEFINE after[i \in 0 .. Len(ms)] ==
               IF i = 0 THEN {file} ELSE SinkS!WriteLine(after[i - 1], ms[i])
  <1>3. SinkS!WriteLines(ms) = after[Len(ms)]
    BY DEF SinkS!WriteLines
  <1>4. after = [i \in 0 .. Len(ms) |->
                     IF i = 0 THEN {file} ELSE SinkS!WriteLine(after[i - 1], ms[i])]
    BY <1>2
  <1> HIDE DEF after
  <1> QED BY <1>3, <1>4

\* Writing the messages that follow the n-th, then flushing.
LEMMA BatchWritten ==
  ASSUME NEW ms \in Seq(SinkS!Message), NEW n \in Nat, Follows(ms, n), NEW clean,
         Written(file, n, clean)
  PROVE  \A x \in SinkS!WriteLines(ms) : Written(x, n + Len(ms), clean)
  <1>0. Len(ms) \in Nat
    OBVIOUS
  <1>1. PICK after :
            /\ after = [i \in 0 .. Len(ms) |->
                            IF i = 0 THEN {file} ELSE SinkS!WriteLine(after[i - 1], ms[i])]
            /\ SinkS!WriteLines(ms) = after[Len(ms)]
    BY LoopOverBatch
  <1> DEFINE wrong == {i \in 0 .. Len(ms) : ~\A x \in after[i] : Written(x, n + i, clean)}
  <1>2. wrong = {}
    <2> SUFFICES ASSUME wrong # {} PROVE FALSE
      OBVIOUS
    <2>1. PICK i \in wrong : \A j \in wrong : i <= j
      <3>1. wrong \subseteq Nat
        BY <1>0
      <3> HIDE DEF wrong
      <3> QED BY <3>1, Least
    <2>2. i \in 0 .. Len(ms) /\ ~\A x \in after[i] : Written(x, n + i, clean)
      OBVIOUS
    <2>3. i # 0
      <3>1. ASSUME i = 0 PROVE after[i] = {file} /\ n + i = n
        BY <1>0, <1>1, <3>1
      <3> QED BY <2>2, <3>1
    <2>4. i - 1 \in 0 .. Len(ms) /\ ~(i <= i - 1) /\ i \in 1 .. Len(ms)
      BY <1>0, <2>2, <2>3
    <2>5. \A x \in after[i - 1] : Written(x, n + (i - 1), clean)
      BY <2>1, <2>4
    <2>6. after[i] = SinkS!WriteLine(after[i - 1], ms[i])
      BY <1>1, <2>2, <2>3
    <2>7. ms[i] = n + i /\ ms[i] \in SinkS!Message
      BY <2>4, ElementOfSeq DEF Follows
    <2>8. n + (i - 1) \in Nat /\ (n + (i - 1)) + 1 = n + i
      BY <2>4
    <2>9. PICK m \in Nat : m = n + (i - 1)
      BY <2>8
    <2>10. \A x \in SinkS!WriteLine(after[i - 1], m + 1) : Written(x, m + 1, clean)
      BY <2>5, <2>7, <2>8, <2>9, WriteLineAdds
    <2> QED BY <2>2, <2>6, <2>7, <2>8, <2>9, <2>10
  <1>3. \A x \in after[Len(ms)] : Written(x, n + Len(ms), clean)
    BY <1>0, <1>2
  <1> QED BY <1>1, <1>3

LEMMA FlushWritten ==
  ASSUME NEW outcomes, NEW n \in Nat, NEW clean, \A w \in outcomes : Written(w, n, clean)
  PROVE  \A x \in SinkS!Then(outcomes, SinkS!FlushWriter) :
             Written(x, n, clean) /\ (x.ok => x.buf = <<>>)
  <1> SUFFICES ASSUME NEW w \in outcomes,
                      NEW x \in IF w.ok THEN SinkS!FlushWriter(w) ELSE {w}
               PROVE  Written(x, n, clean) /\ (x.ok => x.buf = <<>>)
    BY DEF SinkS!Then
  <1>1. CASE ~w.ok
    BY <1>1
  <1>2. CASE w.ok
    <2>1. x \in Writers /\ TextOf(x) = TextOf(w) /\ (x.ok => x.buf = <<>>)
      BY <1>2, FlushKeeps DEF Written
    <2> QED BY <1>2, <2>1 DEF Written
  <1> QED BY <1>1, <1>2

\* A writer that is dropped after an error keeps what it could not flush.
LEMMA DropWritten ==
  ASSUME NEW outcomes, NEW n \in Nat, NEW clean,
         \A w \in outcomes : Written(w, n, clean) /\ (w.ok => w.buf = <<>>)
  PROVE  \A x \in SinkS!Dropped(outcomes) : Written(x, n, clean) /\ (x.ok => x.buf = <<>>)
  <1> SUFFICES ASSUME NEW w \in outcomes,
                      NEW x \in IF w.ok THEN {w}
                                ELSE {[y EXCEPT !.ok = FALSE] : y \in SinkS!FlushWriter(w)}
               PROVE  Written(x, n, clean) /\ (x.ok => x.buf = <<>>)
    BY DEF SinkS!Dropped
  <1>1. CASE w.ok
    BY <1>1
  <1>2. CASE ~w.ok
    <2>1. PICK y \in SinkS!FlushWriter(w) : x = [y EXCEPT !.ok = FALSE]
      BY <1>2
    <2>2. y \in Writers /\ TextOf(y) = TextOf(w)
      BY FlushKeeps DEF Written
    <2>3. x = [buf |-> y.buf, out |-> y.out, ok |-> FALSE]
      BY <2>1, <2>2 DEF Writers
    <2>4. x \in Writers /\ TextOf(x) = TextOf(y) /\ ~x.ok
      BY <2>2, <2>3 DEF Writers, TextOf
    <2> QED BY <2>2, <2>4 DEF Written
  <1> QED BY <1>1, <1>2

\* What the local sinks do with a batch: write it, flush, and perhaps drop.
LEMMA LocalWrites ==
  ASSUME NEW ms \in Seq(SinkS!Message), NEW n \in Nat, Follows(ms, n), NEW clean,
         Written(file, n, clean),
         NEW batches,
         batches = IF ms = <<>> THEN {file}
                   ELSE SinkS!Then(SinkS!WriteLines(ms), SinkS!FlushWriter)
  PROVE  /\ \A x \in batches : Written(x, n + Len(ms), clean)
         /\ \A x \in SinkS!Then(batches, SinkS!FlushWriter) :
                Written(x, n + Len(ms), clean) /\ (x.ok => x.buf = <<>>)
         /\ \A x \in SinkS!Dropped(SinkS!Then(batches, SinkS!FlushWriter)) :
                Written(x, n + Len(ms), clean) /\ (x.ok => x.buf = <<>>)
  <1>1. n + Len(ms) \in Nat /\ (ms = <<>> => n + Len(ms) = n)
    OBVIOUS
  <1>2. \A x \in SinkS!Then(SinkS!WriteLines(ms), SinkS!FlushWriter) : Written(x, n + Len(ms), clean)
    BY <1>1, BatchWritten, FlushWritten
  <1>3. \A x \in batches : Written(x, n + Len(ms), clean)
    BY <1>1, <1>2
  <1>4. \A x \in SinkS!Then(batches, SinkS!FlushWriter) :
            Written(x, n + Len(ms), clean) /\ (x.ok => x.buf = <<>>)
    BY <1>1, <1>3, FlushWritten
  <1> QED BY <1>1, <1>3, <1>4, DropWritten

(***************************************************************************)
(* A sink call: it keeps what is buffered, or hands it over, to a writer   *)
(* at once and to a peer while the call awaits.                            *)
(***************************************************************************)

LEMMA ConfigFits ==
  ASSUME SinkTypes
  PROVE  /\ cfg.kind \in {"file", "stdout", "http", "mqtt"}
         /\ cfg.batch \in Nat \cup {SinkS!Unbatched} /\ SinkS!Unbatched = -1
         /\ cfg.topic \in BOOLEAN /\ cfg.qos \in 0 .. 2
         /\ Timeout \in Nat \ {0} /\ MaxMessages \in Nat \ {0} /\ RequestCap \in Nat \ {0}
         /\ MaxInflight \in Nat \ {0}
         /\ Len(batch) \in Nat /\ Len(pending) \in Nat
         /\ taken \in Nat /\ sent \in Nat /\ taken <= sent /\ sent <= MaxMessages
  BY AdaptersFit DEF AdaptersFit, SinkS!SinkAssumption, SinkTypes, SinkS!Unbatched

Splits(b, kept, ms) ==
    \/ kept = <<>> /\ ms = b
    \/ kept = b /\ ms = <<>> /\ SinkS!Batching /\ Len(b) < cfg.batch

Called(o, n, b, kept, ms) ==
    /\ Splits(b, kept, ms)
    /\ o # "collect" => kept = <<>> /\ ms = b
    /\ \/ Local /\ \E outcomes : /\ SinkS!Writes(o, kept, outcomes)
                                 /\ \A x \in outcomes :
                                        /\ Written(x, n - Len(kept), ~erred)
                                        /\ o = "close" /\ x.ok => x.buf = <<>>
       \/ ~Local /\ ms = <<>> /\ (o = "close" => cfg.kind = "http")
                 /\ SinkS!Writes(o, kept, {file})
       \/ ~Local /\ kept = <<>> /\ SinkS!Starts(o, kept, ms)

\* What is handed over, and the file that it follows.
LEMMA BeforeCall ==
  ASSUME SinkInv, op = "none"
  PROVE  /\ pending = <<>> /\ Handed = taken - Len(batch) /\ Handed \in Nat
         /\ Follows(batch, taken - Len(batch))
         /\ Local => Written(file, Handed, ~erred) /\ file.ok = TRUE
  <1>1. SinkTypes /\ SinkControl /\ (Local => LocalWritten)
    BY DEF SinkInv
  <1>2. pending = <<>> /\ Len(pending) = 0
    BY <1>1 DEF SinkControl
  <1>3. Handed = taken - Len(batch) /\ Handed \in Nat
    BY <1>1, <1>2, ConfigFits DEF Handed, SinkControl
  <1>4. ASSUME Local PROVE Written(file, Handed, ~erred)
    BY <1>1, <1>4 DEF Written, LocalWritten, SinkTypes
  <1>5. file.ok = TRUE
    BY <1>1 DEF SinkTypes
  <1> QED BY <1>1, <1>2, <1>3, <1>4, <1>5 DEF SinkControl

LEMMA CollectCalls ==
  ASSUME SinkInv, op = "none", taken + 1 \in SinkS!Message, SinkS!CallCollect(taken + 1)
  PROVE  \E kept, ms \in Seq(SinkS!Message) :
             Called("collect", taken + 1, Append(batch, taken + 1), kept, ms)
  <1> DEFINE m == taken + 1
             b == Append(batch, m)
  <1>1. SinkTypes /\ batch \in Seq(SinkS!Message)
    BY DEF SinkInv, SinkTypes
  <1>2. m \in Nat /\ taken \in Nat /\ Len(batch) \in Nat
    BY <1>1, ConfigFits
  <1>3. /\ b \in Seq(SinkS!Message) /\ b # <<>> /\ Len(b) = Len(batch) + 1
        /\ b[Len(batch) + 1] = m /\ \A i \in 1 .. Len(batch) : b[i] = batch[i]
    BY <1>1
  <1>4. Follows(b, taken - Len(batch)) /\ Follows(batch, taken - Len(batch))
    <2>1. Follows(batch, taken - Len(batch))
      BY BeforeCall
    <2>2. ASSUME NEW i \in 1 .. Len(b) PROVE b[i] = (taken - Len(batch)) + i
      BY <1>2, <1>3, <2>1 DEF Follows
    <2> QED BY <2>1, <2>2 DEF Follows
  <1>5. ~SinkS!Batching => batch = <<>> /\ b = <<m>>
    <2>1. BatchWaits
      BY DEF SinkInv
    <2>2. ~SinkS!Batching => batch = <<>>
      BY <2>1 DEF BatchWaits, SinkS!Batching
    <2> QED BY <2>2
  <1> HIDE DEF b
  <1>6. /\ SinkS!Batching /\ ~(Len(b) >= cfg.batch) =>
               SinkS!Push(m).keep = b /\ SinkS!Push(m).full = <<>> /\ Len(b) < cfg.batch
        /\ SinkS!Batching /\ Len(b) >= cfg.batch =>
               SinkS!Push(m).keep = <<>> /\ SinkS!Push(m).full = b
    <2>1. SinkS!Push(m) = IF Len(b) >= cfg.batch THEN [keep |-> <<>>, full |-> b]
                          ELSE [keep |-> b, full |-> <<>>]
      BY DEF SinkS!Push, b
    <2>2. SinkS!Batching => cfg.batch \in Int
      BY <1>1, ConfigFits
    <2>3. Len(b) \in Int
      BY <1>3
    <2> QED BY <2>1, <2>2, <2>3
  <1>7. <<>> \in Seq(SinkS!Message)
    OBVIOUS
  <1>8. CASE Local
    <2>1. /\ Written(file, taken - Len(batch), ~erred) /\ taken - Len(batch) \in Nat
          /\ (taken - Len(batch)) + Len(b) = m - Len(<<>>) /\ taken - Len(batch) = m - Len(b)
      BY <1>2, <1>3, <1>8, BeforeCall
    <2>2. /\ \A x \in SinkS!WriteLines(b) : Written(x, m - Len(<<>>), ~erred)
          /\ \A x \in SinkS!Then(SinkS!WriteLines(b), SinkS!FlushWriter) :
                 Written(x, m - Len(<<>>), ~erred)
      <3>1. \A x \in SinkS!WriteLines(b) : Written(x, (taken - Len(batch)) + Len(b), ~erred)
        BY <1>3, <1>4, <2>1, BatchWritten
      <3>2. m - Len(<<>>) \in Nat
        BY <1>2
      <3>3. \A x \in SinkS!WriteLines(b) : Written(x, m - Len(<<>>), ~erred)
        BY <2>1, <3>1
      <3> QED BY <3>2, <3>3, FlushWritten
    <2>3. ASSUME NEW kept, NEW ms, Splits(b, kept, ms), NEW outcomes,
                 SinkS!Writes("collect", kept, outcomes),
                 \A x \in outcomes : Written(x, m - Len(kept), ~erred)
          PROVE  Called("collect", m, b, kept, ms)
      BY <1>8, <2>3 DEF Called
    <2>4. CASE SinkS!Batching /\ ~(Len(b) >= cfg.batch)
      <3>1. SinkS!Writes("collect", b, {file}) /\ Splits(b, b, <<>>)
        BY <1>6, <2>4, <1>8 DEF SinkS!CallCollect, SinkS!FileCollect, SinkS!StdoutCollect,
               SinkS!HttpCollect, SinkS!MqttCollect, Splits, Local
      <3>2. \A x \in {file} : Written(x, m - Len(b), ~erred)
        BY <2>1
      <3>3. Called("collect", m, b, b, <<>>)
        BY <2>3, <3>1, <3>2
      <3> QED BY <1>3, <1>7, <3>3 DEF b
    <2>5. CASE ~(SinkS!Batching /\ ~(Len(b) >= cfg.batch))
      <3>1. \/ SinkS!Writes("collect", <<>>, SinkS!WriteLines(b))
            \/ SinkS!Writes("collect", <<>>, SinkS!Then(SinkS!WriteLines(b), SinkS!FlushWriter))
        BY <1>3, <1>5, <1>6, <2>5, <1>8
           DEF SinkS!CallCollect, SinkS!FileCollect, SinkS!StdoutCollect, SinkS!HttpCollect,
               SinkS!MqttCollect, Local, SinkS!WriteBatch, SinkS!PrintBatch
      <3>2. Splits(b, <<>>, b)
        BY DEF Splits
      <3>3. Called("collect", m, b, <<>>, b)
        BY <2>2, <2>3, <3>1, <3>2
      <3> QED BY <1>3, <1>7, <3>3 DEF b
    <2> QED BY <2>4, <2>5
  <1>9. CASE ~Local
    <2>1. CASE SinkS!Batching /\ ~(Len(b) >= cfg.batch)
      <3>1. SinkS!Writes("collect", b, {file}) /\ Splits(b, b, <<>>)
        BY <1>6, <2>1, <1>9 DEF SinkS!CallCollect, SinkS!FileCollect, SinkS!StdoutCollect,
               SinkS!HttpCollect, SinkS!MqttCollect, Splits, Local, SinkS!Buffers
      <3>2. Called("collect", m, b, b, <<>>)
        BY <1>9, <3>1 DEF Called
      <3> QED BY <1>3, <1>7, <3>2 DEF b
    <2>2. CASE ~(SinkS!Batching /\ ~(Len(b) >= cfg.batch))
      <3>1. SinkS!Starts("collect", <<>>, b)
        BY <1>3, <1>5, <1>6, <2>2, <1>9
           DEF SinkS!CallCollect, SinkS!FileCollect, SinkS!StdoutCollect, SinkS!HttpCollect,
               SinkS!MqttCollect, Local
      <3>2. Called("collect", m, b, <<>>, b)
        BY <1>9, <3>1 DEF Called, Splits
      <3> QED BY <1>3, <1>7, <3>2 DEF b
    <2> QED BY <2>1, <2>2
  <1> QED BY <1>8, <1>9

LEMMA FlushCalls ==
  ASSUME SinkInv, op = "none", SinkS!CallFlush
  PROVE  Called("flush", taken, batch, <<>>, batch)
  <1>1. SinkTypes /\ batch \in Seq(SinkS!Message) /\ taken \in Nat /\ Len(batch) \in Nat
    BY ConfigFits DEF SinkInv, SinkTypes
  <1>2. Splits(batch, <<>>, batch)
    BY DEF Splits
  <1>3. CASE Local
    <2> DEFINE batches == IF batch = <<>> THEN {file}
                          ELSE SinkS!Then(SinkS!WriteLines(batch), SinkS!FlushWriter)
    <2>1. SinkS!Writes("flush", <<>>, SinkS!Then(batches, SinkS!FlushWriter))
      BY <1>3 DEF SinkS!CallFlush, SinkS!FileFlush, SinkS!StdoutFlush, SinkS!HttpFlush,
                  SinkS!MqttFlush, Local, SinkS!WriteBatch, SinkS!PrintBatch
    <2>2. /\ Written(file, taken - Len(batch), ~erred) /\ taken - Len(batch) \in Nat
          /\ Follows(batch, taken - Len(batch))
          /\ (taken - Len(batch)) + Len(batch) = taken - Len(<<>>)
      BY <1>1, <1>3, BeforeCall
    <2>3. \A x \in SinkS!Then(batches, SinkS!FlushWriter) :
              Written(x, (taken - Len(batch)) + Len(batch), ~erred)
      BY <1>1, <2>2, LocalWrites
    <2> HIDE DEF batches
    <2> QED BY <1>2, <1>3, <2>1, <2>2, <2>3 DEF Called
  <1>4. CASE ~Local
    <2>1. \/ batch = <<>> /\ SinkS!Writes("flush", <<>>, {file})
          \/ SinkS!Starts("flush", <<>>, batch)
      BY <1>4 DEF SinkS!CallFlush, SinkS!FileFlush, SinkS!StdoutFlush, SinkS!HttpFlush,
                  SinkS!MqttFlush, Local, SinkS!Buffers
    <2> QED BY <1>2, <1>4, <2>1 DEF Called
  <1> QED BY <1>3, <1>4

LEMMA CloseCalls ==
  ASSUME SinkInv, op = "none", SinkS!CallClose
  PROVE  Called("close", taken, batch, <<>>, batch)
  <1>1. SinkTypes /\ batch \in Seq(SinkS!Message) /\ taken \in Nat /\ Len(batch) \in Nat
    BY ConfigFits DEF SinkInv, SinkTypes
  <1>2. Splits(batch, <<>>, batch)
    BY DEF Splits
  <1>3. CASE Local
    <2> DEFINE batches == IF batch = <<>> THEN {file}
                          ELSE SinkS!Then(SinkS!WriteLines(batch), SinkS!FlushWriter)
    <2>1. SinkS!Writes("close", <<>>, SinkS!Dropped(SinkS!Then(batches, SinkS!FlushWriter)))
      BY <1>3 DEF SinkS!CallClose, SinkS!FileClose, SinkS!StdoutClose, SinkS!HttpClose,
                  SinkS!MqttClose, Local, SinkS!WriteBatch, SinkS!PrintBatch
    <2>2. /\ Written(file, taken - Len(batch), ~erred) /\ taken - Len(batch) \in Nat
          /\ Follows(batch, taken - Len(batch))
          /\ (taken - Len(batch)) + Len(batch) = taken - Len(<<>>)
      BY <1>1, <1>3, BeforeCall
    <2>3. \A x \in SinkS!Dropped(SinkS!Then(batches, SinkS!FlushWriter)) :
              /\ Written(x, (taken - Len(batch)) + Len(batch), ~erred)
              /\ x.ok => x.buf = <<>>
      BY <1>1, <2>2, LocalWrites
    <2> HIDE DEF batches
    <2> QED BY <1>2, <1>3, <2>1, <2>2, <2>3 DEF Called
  <1>4. CASE ~Local
    <2>1. \/ batch = <<>> /\ cfg.kind = "http" /\ SinkS!Writes("close", <<>>, {file})
          \/ SinkS!Starts("close", <<>>, batch)
      BY <1>4 DEF SinkS!CallClose, SinkS!FileClose, SinkS!StdoutClose, SinkS!HttpClose,
                  SinkS!MqttClose, Local, SinkS!Buffers
    <2> QED BY <1>2, <1>4, <2>1 DEF Called
  <1> QED BY <1>3, <1>4

\* When the loop calls, and with which messages.
Calls(o, b) ==
    \/ /\ o = "collect" /\ phase \in {"run", "drain"} /\ taken < sent
       /\ taken' = taken + 1 /\ b = Append(batch, taken + 1)
    \/ o = "flush" /\ phase \in {"run", "flush"} /\ taken' = taken /\ b = batch
    \/ o = "close" /\ phase = "close" /\ taken' = taken /\ b = batch

LEMMA SumBelow ==
  ASSUME NEW a \in Nat, NEW b \in Nat, NEW c \in Nat, NEW d \in Nat, NEW m \in Nat,
         NEW n \in Nat, NEW k \in Nat, a + b <= c + d + k, c + d <= m, n = m + k
  PROVE  a + b <= n
  OBVIOUS

LEMMA CallKeepsControl ==
  ASSUME SinkInv, op = "none", UNCHANGED <<cfg, sent, upstream, cancelled>>,
         NEW o, NEW b, NEW kept \in Seq(SinkS!Message), NEW ms \in Seq(SinkS!Message),
         Calls(o, b), Called(o, taken', b, kept, ms)
  PROVE  /\ SinkTypes' /\ SinkControl' /\ BatchWaits'
         /\ Handed' = taken' - (Len(kept) + Len(pending')) /\ taken' - Len(kept) \in Nat
         /\ ~Local => Handed' = Handed
  <1>1. SinkTypes /\ SinkControl /\ BatchWaits /\ pending = <<>> /\ Len(pending) = 0
    BY BeforeCall DEF SinkInv
  <1>2. /\ batch \in Seq(SinkS!Message) /\ taken \in Nat /\ sent \in Nat /\ sent <= MaxMessages
        /\ Len(batch) \in Nat /\ taken <= sent /\ MaxMessages \in Nat /\ Len(batch) <= taken
        /\ Timeout \in Nat
    <2>1. /\ taken \in Nat /\ sent \in Nat /\ sent <= MaxMessages /\ Len(batch) \in Nat
          /\ taken <= sent /\ MaxMessages \in Nat /\ Timeout \in Nat
      BY <1>1, ConfigFits
    <2> QED BY <1>1, <2>1 DEF SinkTypes, SinkControl
  <1>3. /\ b \in Seq(SinkS!Message) /\ Len(b) = Len(batch) + (taken' - taken)
        /\ taken' \in Nat /\ taken' <= sent /\ taken <= taken' /\ taken' <= taken + 1
        /\ o = "collect" => taken' = taken + 1
        /\ Follows(b, taken' - Len(b)) /\ (Len(batch) > 0 => Len(b) - 1 >= Len(batch) \/ o # "collect")
    <2>1. Follows(batch, taken - Len(batch))
      BY BeforeCall
    <2>2. CASE o = "collect" /\ taken < sent /\ taken' = taken + 1 /\ b = Append(batch, taken + 1)
      <3>1. taken + 1 \in SinkS!Message
        BY <1>2, <2>2 DEF SinkS!Message
      <3>2. /\ Append(batch, taken + 1) \in Seq(SinkS!Message) /\ Len(b) = Len(batch) + 1
            /\ b[Len(batch) + 1] = taken + 1 /\ \A i \in 1 .. Len(batch) : b[i] = batch[i]
        BY <1>2, <2>2, <3>1
      <3>3. ASSUME NEW i \in 1 .. Len(b) PROVE b[i] = (taken' - Len(b)) + i
        BY <1>2, <2>1, <2>2, <3>2 DEF Follows
      <3> QED BY <1>2, <2>2, <3>2, <3>3 DEF Follows
    <2>3. CASE o # "collect" /\ taken' = taken /\ b = batch
      BY <1>2, <2>1, <2>3
    <2> QED BY <2>2, <2>3 DEF Calls
  <1>4. /\ batch' = kept /\ age' = IF kept = <<>> THEN 0 ELSE age
        /\ \/ /\ \E x : (Local => x \in Writers) /\ (~Local => x = file)
                        /\ file' = SinkS!Opened(x) /\ SinkS!Returned(o, x.ok)
              /\ (Local \/ ms = <<>>) /\ UNCHANGED <<endpoint, link>>
           \/ /\ ~Local /\ op' = o /\ pending' = ms /\ kept = <<>>
              /\ UNCHANGED <<phase, idle, processed, failed, erred, flushed, result, file,
                             endpoint, link>>
    BY DEF Called, SinkS!Writes, SinkS!Starts, SinkS!ioVars, Written
  <1>5. Splits(b, kept, ms) /\ (o # "collect" => kept = <<>> /\ ms = b)
    BY DEF Called
  <1>6. /\ phase \in {"init", "refused", "run", "drain", "flush", "close", "done"}
        /\ processed \in Nat /\ failed \in Nat /\ processed + failed <= taken
        /\ o \in {"collect", "flush", "close"}
    BY <1>1 DEF SinkTypes, SinkControl, Calls
  <1>7. SinkTypes'
    <2>1. /\ cfg' \in Configs /\ sent' \in 0 .. MaxMessages /\ taken' \in 0 .. sent'
          /\ upstream' \in BOOLEAN /\ cancelled' \in BOOLEAN
          /\ age' \in Nat /\ batch' \in Seq(SinkS!Message)
      BY <1>1, <1>2, <1>3, <1>4 DEF SinkTypes
    <2>2. /\ phase' \in {"init", "refused", "run", "drain", "flush", "close", "done"}
          /\ flushed' \in BOOLEAN /\ erred' \in BOOLEAN /\ idle' \in 0 .. Timeout
          /\ op' \in {"none", "collect", "flush", "close"} /\ pending' \in Seq(SinkS!Message)
          /\ endpoint' \in Seq(SinkS!Message) /\ link' \in Links
          /\ processed' \in Nat /\ failed' \in Nat /\ result' \in {"none", "ok", "failed"}
      <3>1. ASSUME NEW x, x \in Writers \/ x = file, SinkS!Returned(o, x.ok),
                   UNCHANGED <<endpoint, link>>
            PROVE  <2>2
        <4>1. x.ok \in BOOLEAN
          BY <1>1, <3>1 DEF SinkTypes, Writers
        <4>2. <<>> \in Seq(SinkS!Message)
          OBVIOUS
        <4> QED BY <1>1, <1>2, <1>6, <3>1, <4>1, <4>2, SMTT(40) DEF SinkTypes, SinkS!Returned
      <3>2. ASSUME ~Local, op' = o, pending' = ms,
                   UNCHANGED <<phase, idle, processed, failed, erred, flushed, result, file,
                               endpoint, link>>
            PROVE  <2>2
        BY <1>1, <1>6, <3>2 DEF SinkTypes
      <3> QED BY <1>4, <3>1, <3>2
    <2>3. file' \in Writers /\ file'.ok = TRUE
      <3>1. ASSUME NEW x \in Writers, file' = SinkS!Opened(x) PROVE <2>3
        BY <3>1 DEF SinkS!Opened, Writers
      <3> QED BY <1>1, <1>4, <3>1 DEF SinkTypes
    <2> QED BY <2>1, <2>2, <2>3 DEF SinkTypes
  <1>8. /\ Len(kept) \in Nat /\ Len(ms) \in Nat /\ Len(kept) + Len(ms) = Len(b)
        /\ Follows(kept, taken' - Len(kept)) /\ Follows(ms, taken' - Len(ms))
        /\ Len(kept) <= taken' /\ Len(ms) <= taken' /\ (ms # <<>> => kept = <<>>)
    BY <1>2, <1>3, <1>5, SMTT(40) DEF Splits, Follows
  <1>9. pending' = <<>> \/ (pending' = ms /\ ~Local)
    BY <1>4 DEF SinkS!Returned
  <1>10. SinkControl'
    <2>1. /\ Len(batch') + Len(pending') <= taken'
          /\ Follows(pending', taken' - Len(pending')) /\ Follows(batch', taken' - Len(batch'))
      <3>1. Len(<<>>) = 0
        BY EmptySeq
      <3>2. Follows(<<>>, taken' - Len(<<>>))
        BY <3>1 DEF Follows
      <3> QED BY <1>3, <1>4, <1>8, <1>9, <3>1, <3>2
    <2>2. UNCHANGED Local
      BY DEF Local
    <2>3. CASE \E x : SinkS!Returned(o, x.ok)
      <3>1. /\ op' = "none" /\ pending' = <<>>
            /\ phase' = CASE phase = "flush" -> "close" [] phase = "close" -> "done"
                          [] OTHER -> phase
            /\ processed' + failed' <= IF o = "collect" THEN processed + failed + 1
                                       ELSE processed + failed
        BY <1>6, <2>3 DEF SinkS!Returned
      <3>2. \/ o = "collect" /\ phase \in {"run", "drain"} /\ phase' = phase
            \/ o = "flush" /\ phase = "run" /\ phase' = phase
            \/ o = "flush" /\ phase = "flush" /\ phase' = "close" /\ taken' = taken
            \/ o = "close" /\ phase = "close" /\ phase' = "done" /\ taken' = taken
        BY <3>1 DEF Calls
      <3>3. processed' \in Nat /\ failed' \in Nat
        BY <1>7 DEF SinkTypes
      <3>5. processed' + failed' <= taken'
        <4>0. /\ processed \in Nat /\ failed \in Nat /\ taken \in Nat
              /\ processed + failed <= taken
          BY <1>2, <1>6
        <4>1. CASE o = "collect"
          <5>1. /\ taken' \in Nat /\ taken' = taken + 1
                /\ processed' + failed' <= processed + failed + 1
            BY <1>3, <3>1, <4>1
          <5> QED BY <3>3, <4>0, <5>1, SumBelow
        <4>2. CASE o # "collect"
          <5>1. /\ taken' \in Nat /\ taken' = taken + 0
                /\ processed' + failed' <= processed + failed + 0
            BY <1>2, <1>3, <1>6, <3>1, <4>2 DEF Calls
          <5> QED BY <3>3, <4>0, <5>1, SumBelow
        <4> QED BY <4>1, <4>2
      <3>4. phase' \in {"close", "done"} => batch' = <<>> /\ taken' = sent'
        BY <1>1, <1>4, <1>5, <3>2 DEF SinkControl
      <3> QED BY <2>1, <3>1, <3>2, <3>3, <3>4, <3>5 DEF SinkControl
    <2>4. CASE /\ ~Local /\ op' = o /\ pending' = ms
               /\ kept = <<>> /\ UNCHANGED <<phase, processed, failed>>
      <3>1. \/ o = "collect" /\ phase \in {"run", "drain"}
            \/ o = "flush" /\ phase \in {"run", "flush"} /\ taken' = taken
            \/ o = "close" /\ phase = "close" /\ taken' = taken /\ ms = <<>>
        BY <1>1, <1>5 DEF Calls, SinkControl
      <3>2. processed' + failed' + (IF op' = "collect" THEN 1 ELSE 0) <= taken'
        BY <1>2, <1>3, <1>6, <2>4
      <3>3. batch' = <<>>
        BY <1>4, <2>4
      <3> QED BY <1>1, <2>1, <2>2, <2>4, <3>1, <3>2, <3>3 DEF SinkControl
    <2> QED BY <1>4, <2>3, <2>4
  <1>11. BatchWaits'
    <2>1. CASE kept = <<>>
      BY <1>4, <2>1 DEF BatchWaits
    <2>2. CASE kept # <<>>
      <3>1. kept = b /\ o = "collect" /\ SinkS!Batching /\ Len(b) < cfg.batch /\ age' = age
        BY <1>4, <1>5, <2>2 DEF Splits
      <3>2. idle' = 0
        BY <1>4, <2>2 DEF SinkS!Returned
      <3>3. Len(b) = Len(batch) + 1
        BY <1>2, <1>3, <3>1
      <3>4. age <= Len(batch) * Timeout
        <4>1. CASE batch = <<>>
          <5>1. age = 0 /\ Len(batch) = 0
            BY <1>1, <4>1 DEF BatchWaits
          <5> QED BY <1>2, <5>1
        <4>2. CASE batch # <<>>
          <5>1. age <= (Len(batch) - 1) * Timeout + idle /\ idle <= Timeout /\ idle \in Nat
                /\ age \in Nat
            BY <1>1, <1>2, <4>2 DEF BatchWaits, SinkTypes
          <5>2. (Len(batch) - 1) * Timeout + Timeout = Len(batch) * Timeout
            BY <1>2
          <5>3. PICK most \in Int : most = (Len(batch) - 1) * Timeout
            BY <1>2
          <5>4. age <= most + Timeout
            BY <1>2, <5>1, <5>3
          <5> QED BY <5>2, <5>3, <5>4
        <4> QED BY <4>1, <4>2
      <3>5. Len(kept) - 1 = Len(batch) /\ batch' = kept
        BY <1>2, <1>4, <3>1, <3>3
      <3>6. Len(batch) * Timeout \in Int /\ Len(batch) * Timeout + 0 = Len(batch) * Timeout
        BY <1>2
      <3>7. age' <= (Len(batch') - 1) * Timeout + idle'
        BY <3>1, <3>2, <3>4, <3>5, <3>6
      <3>8. cfg'.batch # SinkS!Unbatched /\ Len(batch') < cfg'.batch /\ batch' # <<>>
        BY <2>2, <3>1, <3>5 DEF SinkS!Batching
      <3> QED BY <3>7, <3>8 DEF BatchWaits
    <2> QED BY <2>1, <2>2
  <1>12. Handed' = taken' - (Len(kept) + Len(pending'))
    BY <1>4 DEF Handed
  <1>13. ASSUME ~Local PROVE Handed' = Handed
    <2>1. Len(pending') = Len(ms)
      BY <1>4, <1>13 DEF SinkS!Returned
    <2>2. Handed = taken - Len(batch)
      BY BeforeCall
    <2>3. Handed' = taken' - Len(b)
      BY <1>8, <1>12, <2>1
    <2>4. Len(b) = Len(batch) + (taken' - taken) /\ taken' \in Nat
      BY <1>3
    <2>5. taken' - (Len(batch) + (taken' - taken)) = taken - Len(batch)
      BY <1>2, <2>4
    <2> QED BY <2>2, <2>3, <2>4, <2>5
  <1>14. taken' - Len(kept) \in Nat
    BY <1>3, <1>8, SMTT(40)
  <1> QED BY <1>7, <1>10, <1>11, <1>12, <1>13, <1>14

LEMMA CallKeeps ==
  ASSUME SinkInv, op = "none", UNCHANGED <<cfg, sent, upstream, cancelled>>,
         NEW o, NEW b, NEW kept \in Seq(SinkS!Message), NEW ms \in Seq(SinkS!Message),
         Calls(o, b), Called(o, taken', b, kept, ms)
  PROVE  SinkInv'
  <1>1. /\ SinkTypes' /\ SinkControl' /\ BatchWaits'
        /\ Handed' = taken' - (Len(kept) + Len(pending')) /\ taken' - Len(kept) \in Nat
        /\ ~Local => Handed' = Handed
    BY CallKeepsControl
  <1>2. UNCHANGED <<cfg, Local, Acknowledging>>
    BY DEF Local, Acknowledging
  <1>3. o \in {"collect", "flush", "close"} /\ (phase = "close" => o = "close")
        /\ phase \in {"run", "drain", "flush", "close"}
    BY DEF Calls
  <1>4. CASE Local
    <2>1. PICK x : /\ Written(x, taken' - Len(kept), ~erred)
                   /\ o = "close" /\ x.ok => x.buf = <<>>
                   /\ file' = SinkS!Opened(x) /\ SinkS!Returned(o, x.ok)
                   /\ UNCHANGED link
      BY <1>4 DEF Called, SinkS!Writes
    <2>2. /\ pending' = <<>> /\ erred' = (erred \/ ~x.ok)
          /\ phase' = CASE phase = "flush" -> "close" [] phase = "close" -> "done"
                        [] OTHER -> phase
          /\ result' = IF phase # "close" THEN result
                       ELSE IF flushed /\ x.ok THEN "ok" ELSE "failed"
      BY <2>1 DEF SinkS!Returned
    <2>3. x \in Writers
      BY <2>1 DEF Written
    <2>4. file'.buf = x.buf /\ file'.out = x.out /\ TextOf(file') = TextOf(x)
      BY <2>1, <2>3 DEF Writers, SinkS!Opened, TextOf
    <2>5. Handed' = taken' - Len(kept)
      <3>1. Len(pending') = 0 /\ Len(kept) \in Nat
        BY <2>2
      <3>2. taken' \in Nat
        BY <1>1 DEF SinkTypes
      <3> QED BY <1>1, <3>1, <3>2
    <2>6. PaysTo(TextOf(file'), Handed') /\ (~erred' => TextOf(file') = SinkS!Lines(Handed'))
      BY <2>1, <2>2, <2>4, <2>5 DEF Written
    <2>7. phase' = "done" /\ result' = "ok" => file'.buf = <<>>
      BY <1>3, <2>1, <2>2, <2>4
    <2>8. LocalWritten'
      BY <2>6, <2>7 DEF LocalWritten
    <2> QED BY <1>1, <1>2, <1>4, <2>1, <2>8 DEF SinkInv, Local, Acknowledging
  <1>5. CASE ~Local
    <2>1. /\ file = SinkS!ClosedFile /\ file.ok = TRUE
          /\ (cfg.kind = "http" => HttpTaken) /\ (Acknowledging => BrokerTaken)
      BY <1>5 DEF SinkInv, SinkTypes
    <2>2. /\ UNCHANGED <<endpoint, link, erred>> /\ file' \in {file, SinkS!Opened(file)}
          /\ cfg.kind = "mqtt" => phase' # "done"
      <3>1. CASE (o = "close" => cfg.kind = "http") /\ SinkS!Writes(o, kept, {file})
        <4>1. /\ file' = SinkS!Opened(file) /\ SinkS!Returned(o, TRUE)
              /\ UNCHANGED <<endpoint, link>>
          BY <2>1, <3>1 DEF SinkS!Writes
        <4>2. erred \in BOOLEAN
          BY DEF SinkInv, SinkTypes
        <4>3. erred' = erred /\ (phase # "close" => phase' # "done")
          BY <1>3, <4>1, <4>2 DEF SinkS!Returned
        <4> QED BY <1>3, <3>1, <4>1, <4>3
      <3>2. CASE SinkS!Starts(o, kept, ms)
        BY <1>3, <3>2 DEF SinkS!Starts, SinkS!ioVars
      <3> QED BY <1>5, <3>1, <3>2 DEF Called
    <2>3. file' = SinkS!ClosedFile
      BY <2>1, <2>2 DEF SinkS!Opened, SinkS!ClosedFile
    <2>4. cfg.kind = "http" => HttpTaken'
      BY <1>1, <1>5, <2>1, <2>2 DEF HttpTaken
    <2>5. Acknowledging => BrokerTaken'
      <3> SUFFICES ASSUME Acknowledging PROVE BrokerTaken'
        OBVIOUS
      <3>1. phase' # "done" /\ phase # "done" /\ BrokerTaken
        BY <1>3, <2>1, <2>2 DEF Acknowledging
      <3>2. UNCHANGED <<Handed, link, endpoint>>
        BY <1>1, <1>5, <2>2
      <3> QED BY <3>1, <3>2 DEF BrokerTaken
    <2> QED BY <1>1, <1>2, <1>5, <2>2, <2>3, <2>4, <2>5 DEF SinkInv, Local, Acknowledging
  <1> QED BY <1>4, <1>5

LEMMA CallSteps ==
  ASSUME SinkInv, SinkS!Recv \/ SinkS!IdleFlush \/ SinkS!FinalFlush \/ SinkS!Close
  PROVE  SinkInv'
  <1>1. /\ op = "none" /\ UNCHANGED <<cfg, sent, upstream, cancelled>>
        /\ batch \in Seq(SinkS!Message) /\ <<>> \in Seq(SinkS!Message)
    BY DEF SinkS!Recv, SinkS!IdleFlush, SinkS!FinalFlush, SinkS!Close, SinkS!inVars, SinkInv,
           SinkTypes
  <1>2. CASE SinkS!Recv
    <2>1. taken \in Nat /\ sent \in Nat /\ MaxMessages \in Nat /\ taken <= sent /\ sent <= MaxMessages
      BY ConfigFits DEF SinkInv
    <2>2. phase \in {"run", "drain"} /\ taken' = taken + 1 /\ taken # sent
      BY <1>2 DEF SinkS!Recv, SinkS!QueueEmpty
    <2>3. taken + 1 \in SinkS!Message /\ taken < sent
      BY <2>1, <2>2 DEF SinkS!Message
    <2>4. PICK kept \in Seq(SinkS!Message), ms \in Seq(SinkS!Message) :
              Called("collect", taken + 1, Append(batch, taken + 1), kept, ms)
      BY <1>1, <1>2, <2>3, CollectCalls DEF SinkS!Recv
    <2>5. Called("collect", taken', Append(batch, taken + 1), kept, ms)
      BY <2>2, <2>4
    <2>6. Calls("collect", Append(batch, taken + 1))
      BY <2>2, <2>3 DEF Calls
    <2> QED BY <1>1, <2>5, <2>6, CallKeeps
  <1>3. CASE SinkS!IdleFlush \/ SinkS!FinalFlush
    <2>1. SinkS!CallFlush /\ phase \in {"run", "flush"} /\ taken' = taken
      BY <1>3 DEF SinkS!IdleFlush, SinkS!FinalFlush
    <2>2. Called("flush", taken', batch, <<>>, batch) /\ Calls("flush", batch)
      BY <1>1, <2>1, FlushCalls DEF Calls
    <2> QED BY <1>1, <2>2, CallKeeps
  <1>4. CASE SinkS!Close
    <2>1. SinkS!CallClose /\ phase = "close" /\ taken' = taken
      BY <1>4 DEF SinkS!Close
    <2>2. Called("close", taken', batch, <<>>, batch) /\ Calls("close", batch)
      BY <1>1, <2>1, CloseCalls DEF Calls
    <2> QED BY <1>1, <2>2, CallKeeps
  <1> QED BY <1>2, <1>3, <1>4

(***************************************************************************)
(* Steps that move no message.                                             *)
(***************************************************************************)
LEMMA SinkQuietKeeps ==
  ASSUME SinkInv, SinkTypes', SinkControl',
         UNCHANGED <<cfg, taken, idle, op, batch, pending, age, file, endpoint, erred, flushed, result>>,
         link' \in {link, [link EXCEPT !.alive = TRUE]},
         (phase' = "done") <=> (phase = "done"), phase = "done" => link' = link,
         link' # link => cfg.kind = "mqtt"
  PROVE  SinkInv'
  <1>1. UNCHANGED <<Local, Acknowledging, Handed>>
    BY DEF Local, Acknowledging, Handed
  <1>2. BatchWaits'
    BY DEF SinkInv, BatchWaits
  <1>3. ASSUME Local PROVE LocalWritten'
    BY <1>1, <1>3 DEF SinkInv, LocalWritten
  <1>4. ASSUME cfg.kind = "http" PROVE HttpTaken'
    BY <1>1, <1>4 DEF SinkInv, HttpTaken
  <1>5. ASSUME Acknowledging PROVE BrokerTaken'
    <2>1. BrokerTaken /\ link \in Links
      BY <1>5 DEF SinkInv, SinkTypes
    <2>2. /\ link'.requests = link.requests /\ link'.resend = link.resend
          /\ link'.inflight = link.inflight /\ link'.broken = link.broken
          /\ link'.wire = link.wire
      BY <2>1 DEF Links
    <2>3. CASE phase # "done"
      BY <1>1, <2>1, <2>2, <2>3 DEF BrokerTaken
    <2>4. CASE phase = "done"
      <3>1. UNCHANGED SinkS!LossAtClose
        BY <2>4 DEF SinkS!LossAtClose
      <3> QED BY <1>1, <2>1, <2>4, <3>1 DEF BrokerTaken
    <2> QED BY <2>3, <2>4
  <1>6. cfg'.kind # "mqtt" => ~link'.alive /\ link'.wire = <<>>
    BY DEF SinkInv
  <1> QED BY <1>1, <1>2, <1>3, <1>4, <1>5, <1>6 DEF SinkInv, Local, Acknowledging

LEMMA QuietSteps ==
  ASSUME SinkInv,
         \/ SinkS!SinkInit \/ SinkS!Send \/ SinkS!SendersGone \/ SinkS!Cancel \/ SinkS!LeaveLoop
         \/ SinkS!DrainEnds \/ UNCHANGED SinkS!vars
  PROVE  SinkInv'
  <1>1. SinkTypes /\ SinkControl
    BY DEF SinkInv
  <1>2. UNCHANGED <<cfg, taken, idle, op, batch, pending, age, file, endpoint, processed, failed,
                    erred, flushed, result>>
    BY DEF SinkS!SinkInit, SinkS!Send, SinkS!SendersGone, SinkS!Cancel, SinkS!LeaveLoop,
           SinkS!DrainEnds, SinkS!vars, SinkS!ioVars
  <1>3. /\ phase' \in {"init", "refused", "run", "drain", "flush", "close", "done"}
        /\ \/ phase' = phase /\ link' = link
           \/ /\ phase = "init" /\ phase' \in {"refused", "run"} /\ UNCHANGED sent
              /\ link' = link \/ (link' = [link EXCEPT !.alive = TRUE] /\ cfg.kind = "mqtt")
           \/ phase = "run" /\ phase' = "drain" /\ UNCHANGED <<sent, link>>
           \/ phase = "drain" /\ phase' = "flush" /\ taken = sent /\ UNCHANGED <<sent, link>>
    <2>1. CASE SinkS!SinkInit
      BY <2>1 DEF SinkS!SinkInit, SinkS!Refuse, SinkS!StdoutInit, SinkS!FileInit, SinkS!HttpInit,
                  SinkS!MqttInit, SinkS!inVars
    <2>2. CASE \/ SinkS!Send \/ SinkS!SendersGone \/ SinkS!Cancel \/ UNCHANGED SinkS!vars
      BY <1>1, <2>2 DEF SinkTypes, SinkS!Send, SinkS!SendersGone, SinkS!Cancel, SinkS!vars, SinkS!ioVars
    <2>3. CASE SinkS!LeaveLoop \/ SinkS!DrainEnds
      BY <2>3 DEF SinkS!LeaveLoop, SinkS!DrainEnds, SinkS!inVars, SinkS!ioVars, SinkS!QueueEmpty
    <2> QED BY <2>1, <2>2, <2>3
  <1>4. /\ sent' \in 0 .. MaxMessages /\ taken \in 0 .. sent'
        /\ upstream' \in BOOLEAN /\ cancelled' \in BOOLEAN
        /\ sent' # sent => phase \in {"init", "run", "drain"} /\ phase' = phase
    <2>1. sent \in 0 .. MaxMessages /\ taken \in 0 .. sent /\ MaxMessages \in Nat
      BY <1>1, ConfigFits DEF SinkTypes
    <2>2. CASE SinkS!Send
      BY <1>1, <2>1, <2>2 DEF SinkS!Send, SinkTypes
    <2>3. CASE \/ SinkS!SinkInit \/ SinkS!SendersGone \/ SinkS!Cancel \/ SinkS!LeaveLoop
               \/ SinkS!DrainEnds \/ UNCHANGED SinkS!vars
      BY <1>1, <2>1, <2>3 DEF SinkS!SinkInit, SinkS!SendersGone, SinkS!Cancel, SinkS!LeaveLoop,
         SinkS!DrainEnds, SinkS!vars, SinkS!inVars, SinkTypes
    <2> QED BY <2>2, <2>3
  <1>5. link' \in Links
    BY <1>1, <1>3 DEF SinkTypes, Links
  <1>6. SinkTypes'
    BY <1>1, <1>2, <1>3, <1>4, <1>5 DEF SinkTypes
  <1>7. SinkControl'
    <2>1. UNCHANGED Local
      BY <1>2 DEF Local
    <2>2. /\ op = "collect" => phase' \in {"run", "drain"}
          /\ op = "flush" => phase' \in {"run", "flush"}
          /\ op = "close" => phase' = "close"
          /\ phase' \in {"init", "refused"} => taken' = 0
          /\ phase' \in {"flush", "close", "done"} => taken' = sent'
          /\ phase' \in {"close", "done"} => batch = <<>> /\ pending = <<>>
      <3>1. phase # phase' => op = "none"
        <4>1. SinkS!SinkInit => op = "none"
          BY <1>1 DEF SinkS!SinkInit, SinkControl, SinkTypes
        <4> QED BY <4>1 DEF SinkS!Send, SinkS!SendersGone, SinkS!Cancel, SinkS!LeaveLoop,
                            SinkS!DrainEnds, SinkS!vars
      <3> QED BY <1>1, <1>2, <1>3, <1>4, <3>1 DEF SinkControl
    <2>3. /\ Len(batch') + Len(pending') <= taken'
          /\ Follows(pending', taken' - Len(pending')) /\ Follows(batch', taken' - Len(batch'))
          /\ pending' # <<>> => op' # "none"
          /\ op' # "none" => batch' = <<>> /\ ~Local
          /\ op' = "close" => pending' = <<>>
          /\ processed' + failed' + (IF op' = "collect" THEN 1 ELSE 0) <= taken'
      BY <1>1, <1>2 DEF SinkControl
    <2> QED BY <1>2, <2>1, <2>2, <2>3 DEF SinkControl
  <1> QED BY <1>2, <1>3, <1>6, <1>7, SinkQuietKeeps

\* Time passes while the loop waits; a message in the batch ages with the timer.
LEMMA TickKeeps == ASSUME SinkInv, SinkS!Tick PROVE SinkInv'
  <1>1. SinkTypes /\ SinkControl /\ BatchWaits
    BY DEF SinkInv
  <1>2. /\ UNCHANGED <<cfg, phase, sent, upstream, cancelled, taken, op, batch, pending, file,
                       endpoint, link, processed, failed, erred, flushed, result>>
        /\ idle' = idle + 1 /\ idle < Timeout /\ phase = "run" /\ cfg.batch # SinkS!Unbatched
        /\ age' = IF batch = <<>> THEN 0 ELSE SinkS!Min({age + 1, SinkS!AgeCap})
    BY DEF SinkS!Tick, SinkS!inVars, SinkS!ioVars, SinkS!Batching
  <1>3. /\ idle \in Nat /\ Timeout \in Nat /\ age \in Nat /\ cfg.batch \in Nat /\ Len(batch) \in Nat
    <2>1. Timeout \in Nat /\ cfg.batch \in Nat /\ Len(batch) \in Nat
      BY <1>1, <1>2, ConfigFits
    <2> QED BY <1>1, <2>1 DEF SinkTypes
  <1>4. age' \in Nat /\ age' <= age + 1
    <2>1. SinkS!AgeCap \in Nat
      BY <1>3 DEF SinkS!AgeCap
    <2>2. PICK cap \in Nat : cap = SinkS!AgeCap
      BY <2>1
    <2>3. age + 1 \in Nat
      BY <1>3
    <2>4. SinkS!Min({age + 1, cap}) \in Nat /\ SinkS!Min({age + 1, cap}) <= age + 1
      <3>1. \E x \in {age + 1, cap} : \A y \in {age + 1, cap} : x <= y
        BY <2>3
      <3> QED BY <2>3, <3>1 DEF SinkS!Min
    <2>5. 0 \in Nat /\ 0 <= age + 1
      BY <1>3
    <2> QED BY <1>2, <2>2, <2>4, <2>5
  <1>5. BatchWaits'
    <2>1. CASE batch = <<>>
      BY <1>2, <2>1 DEF BatchWaits
    <2>2. CASE batch # <<>>
      <3>1. age <= (Len(batch) - 1) * Timeout + idle
        BY <1>1, <2>2 DEF BatchWaits
      <3>2. PICK most \in Int : most = (Len(batch) - 1) * Timeout
        BY <1>3
      <3>3. age' <= most + idle'
        BY <1>2, <1>3, <1>4, <3>1, <3>2
      <3> QED BY <1>1, <1>2, <2>2, <3>2, <3>3 DEF BatchWaits
    <2> QED BY <2>1, <2>2
  <1>6. SinkTypes'
    <2>1. idle' \in 0 .. Timeout
      BY <1>2, <1>3
    <2> QED BY <1>1, <1>2, <1>4, <2>1 DEF SinkTypes
  <1>7. SinkControl'
    BY <1>1, <1>2 DEF SinkControl, Local
  <1>8. UNCHANGED <<Local, Acknowledging, Handed>>
    BY <1>2 DEF Local, Acknowledging, Handed
  <1>9. (Local => LocalWritten') /\ (cfg.kind = "http" => HttpTaken')
    BY <1>2, <1>8 DEF SinkInv, LocalWritten, HttpTaken
  <1>10. Acknowledging => BrokerTaken'
    BY <1>2, <1>8 DEF SinkInv, BrokerTaken, SinkS!LossAtClose
  <1> QED BY <1>2, <1>5, <1>6, <1>7, <1>8, <1>9, <1>10 DEF SinkInv, Local, Acknowledging

(***************************************************************************)
(* A call that went over the network returns.                              *)
(***************************************************************************)
LEMMA ReturnKeeps ==
  ASSUME SinkInv, op # "none", NEW ok \in BOOLEAN, SinkS!Returned(op, ok),
         UNCHANGED <<cfg, sent, upstream, cancelled, taken, batch, age, file>>,
         endpoint' \in Seq(SinkS!Message), link' \in Links
  PROVE  /\ SinkTypes' /\ SinkControl' /\ BatchWaits' /\ ~Local /\ batch = <<>>
         /\ Handed' = Handed + Len(pending) /\ Handed' = taken
         /\ Handed \in Nat /\ Handed = taken - Len(pending)
         /\ erred' = (erred \/ ~ok) /\ (phase' = "done" => op = "close")
  <1>1. SinkTypes /\ SinkControl /\ BatchWaits
    BY DEF SinkInv
  <1>2. /\ op' = "none" /\ pending' = <<>> /\ idle' = 0 /\ erred' = (erred \/ ~ok)
        /\ phase' = CASE phase = "flush" -> "close" [] phase = "close" -> "done" [] OTHER -> phase
        /\ result' \in {result, "ok", "failed"} /\ flushed' \in {flushed, ok}
        /\ processed' \in {processed, processed + 1} /\ failed' \in {failed, failed + 1}
        /\ processed' + failed' <= processed + failed + (IF op = "collect" THEN 1 ELSE 0)
    <2>1. processed \in Nat /\ failed \in Nat
      BY <1>1 DEF SinkTypes
    <2> QED BY <2>1 DEF SinkS!Returned
  <1>3. batch = <<>> /\ ~Local /\ op \in {"collect", "flush", "close"} /\ Len(batch) = 0
    BY <1>1 DEF SinkControl, SinkTypes
  <1>4. /\ taken \in Nat /\ Len(pending) \in Nat /\ Len(pending) <= taken /\ Timeout \in Nat
        /\ taken <= sent
    <2>1. taken \in Nat /\ Len(pending) \in Nat /\ Timeout \in Nat /\ taken <= sent
      BY <1>1, ConfigFits
    <2> QED BY <1>1, <1>3, <2>1 DEF SinkControl
  <1>5. Len(<<>>) = 0
    BY EmptySeq
  <1>6. Handed = taken - Len(pending) /\ Handed' = taken
    BY <1>2, <1>3, <1>4, <1>5 DEF Handed
  <1>7. \/ op = "collect" /\ phase \in {"run", "drain"} /\ phase' = phase
        \/ op = "flush" /\ phase = "run" /\ phase' = "run"
        \/ op = "flush" /\ phase = "flush" /\ phase' = "close" /\ taken = sent
        \/ op = "close" /\ phase = "close" /\ phase' = "done" /\ taken = sent
    BY <1>1, <1>2, <1>3 DEF SinkControl
  <1>8. SinkTypes'
    <2>1. <<>> \in Seq(SinkS!Message)
      OBVIOUS
    <2>2. processed' \in Nat /\ failed' \in Nat
      BY <1>1, <1>2 DEF SinkTypes
    <2>3. 0 \in 0 .. Timeout
      BY <1>4
    <2>4. /\ phase' \in {"init", "refused", "run", "drain", "flush", "close", "done"}
          /\ flushed' \in BOOLEAN /\ erred' \in BOOLEAN /\ result' \in {"none", "ok", "failed"}
      BY <1>1, <1>2, <1>7 DEF SinkTypes
    <2> QED BY <1>1, <1>2, <2>1, <2>2, <2>3, <2>4 DEF SinkTypes
  <1>9. SinkControl'
    <2>1. processed' + failed' <= taken'
      <3>1. processed + failed + (IF op = "collect" THEN 1 ELSE 0) <= taken
        BY <1>1 DEF SinkControl
      <3>2. /\ processed \in Nat /\ failed \in Nat /\ processed' \in Nat /\ failed' \in Nat
        BY <1>1, <1>8 DEF SinkTypes
      <3>3. PICK k \in {0, 1} : k = IF op = "collect" THEN 1 ELSE 0
        OBVIOUS
      <3>4. k \in Nat /\ processed' + failed' <= processed + failed + k /\ processed + failed + k <= taken
        BY <1>2, <3>1, <3>3
      <3>5. ASSUME NEW a \in Nat, NEW b \in Nat, NEW c \in Nat, NEW d \in Nat, NEW m \in Nat,
                   a + b <= c + d + k, c + d + k <= m
            PROVE  a + b <= m
        BY <3>4, <3>5
      <3> QED BY <1>4, <3>2, <3>4, <3>5
    <2>2. Follows(<<>>, taken' - Len(<<>>)) /\ Len(<<>>) + Len(<<>>) <= taken'
      BY <1>4, <1>5 DEF Follows
    <2>3. processed' + failed' + (IF op' = "collect" THEN 1 ELSE 0) <= taken'
      <3>1. processed' \in Nat /\ failed' \in Nat
        BY <1>8 DEF SinkTypes
      <3> QED BY <1>2, <2>1, <3>1
    <2>4. batch' = <<>> /\ pending' = <<>>
      BY <1>2, <1>3
    <2>5. /\ phase' \notin {"init", "refused"}
          /\ phase' \in {"flush", "close", "done"} => taken' = sent'
      BY <1>7
    <2> QED BY <1>2, <2>2, <2>3, <2>4, <2>5 DEF SinkControl
  <1>10. BatchWaits'
    BY <1>1, <1>3 DEF BatchWaits
  <1>11. Handed \in Nat /\ Handed' = Handed + Len(pending)
    BY <1>4, <1>6
  <1> QED BY <1>2, <1>3, <1>6, <1>7, <1>8, <1>9, <1>10, <1>11

\* A text of rising numbers, and the numbers that follow.
LEMMA RisingFollows ==
  ASSUME NEW a \in Seq(Nat), NEW b \in Seq(Nat), NEW n \in Nat, RisingTo(a, n), Follows(b, n)
  PROVE  RisingTo(a \o b, n + Len(b))
  <1>1. /\ Len(a) \in Nat /\ Len(b) \in Nat /\ Len(a \o b) = Len(a) + Len(b)
        /\ \A i \in 1 .. Len(a) : (a \o b)[i] = a[i] /\ a[i] \in Nat /\ a[i] <= n
        /\ \A i \in Len(a) + 1 .. Len(a) + Len(b) : (a \o b)[i] = n + (i - Len(a))
    <2>1. /\ Len(a) \in Nat /\ Len(b) \in Nat /\ Len(a \o b) = Len(a) + Len(b)
          /\ \A i \in 1 .. Len(a) : (a \o b)[i] = a[i] /\ a[i] \in Nat
      OBVIOUS
    <2>2. ASSUME NEW i \in Len(a) + 1 .. Len(a) + Len(b)
          PROVE  (a \o b)[i] = n + (i - Len(a))
      <3>1. i - Len(a) \in 1 .. Len(b) /\ (a \o b)[i] = b[i - Len(a)]
        BY <2>1
      <3> QED BY <3>1 DEF Follows
    <2> QED BY <2>1, <2>2 DEF RisingTo
  <1> SUFFICES ASSUME NEW i \in 1 .. Len(a \o b), NEW j \in 1 .. Len(a \o b)
               PROVE  /\ (a \o b)[i] <= n + Len(b)
                      /\ i < j => (a \o b)[i] < (a \o b)[j]
    BY DEF RisingTo
  <1>2. CASE i \in 1 .. Len(a)
    <2>1. CASE j \in 1 .. Len(a)
      BY <1>1, <1>2, <2>1 DEF RisingTo
    <2>2. CASE j \in Len(a) + 1 .. Len(a) + Len(b)
      BY <1>1, <1>2, <2>2, SMTT(40)
    <2> QED BY <1>1, <2>1, <2>2
  <1>3. CASE i \in Len(a) + 1 .. Len(a) + Len(b)
    BY <1>1, <1>3
  <1> QED BY <1>1, <1>2, <1>3

LEMMA FirstsFollow ==
  ASSUME NEW b \in Seq(Nat), NEW n \in Nat, Follows(b, n)
  PROVE  Firsts(n) \in Seq(Nat) /\ Firsts(n) \o b = Firsts(n + Len(b))
  <1>1. Firsts(n) \in Seq(Nat) /\ Len(Firsts(n)) = n /\ Len(b) \in Nat
    BY DEF Firsts
  <1>2. PICK a \in Seq(Nat) : a = Firsts(n)
    BY <1>1
  <1>3. Len(a) = n /\ \A i \in 1 .. n : a[i] = i
    BY <1>1, <1>2 DEF Firsts
  <1>4. Len(a \o b) = n + Len(b) /\ a \o b \in Seq(Nat)
    BY <1>3
  <1>5. ASSUME NEW i \in 1 .. n + Len(b) PROVE (a \o b)[i] = i
    <2>0. Len(b) \in Nat
      OBVIOUS
    <2>1. CASE i <= n
      BY <1>3, <2>0, <2>1
    <2>2. CASE ~(i <= n)
      <3>1. i - n \in 1 .. Len(b) /\ (a \o b)[i] = b[i - n]
        BY <1>3, <2>0, <2>2
      <3>2. b[i - n] = n + (i - n)
        BY <3>1 DEF Follows
      <3> QED BY <3>1, <3>2
    <2> QED BY <2>1, <2>2
  <1>6. PICK c \in Seq(Nat) : c = a \o b
    BY <1>4
  <1>7. c = [i \in 1 .. n + Len(b) |-> i]
    <2>1. Len(c) = n + Len(b) /\ \A i \in 1 .. Len(c) : c[i] = i
      BY <1>4, <1>5, <1>6
    <2>2. c = [i \in 1 .. Len(c) |-> c[i]]
      OBVIOUS
    <2> QED BY <2>1, <2>2
  <1> QED BY <1>1, <1>2, <1>6, <1>7 DEF Firsts

\* An HTTP request is answered: the endpoint took its messages, or it failed.
LEMMA HttpKeeps == ASSUME SinkInv, NEW ok \in BOOLEAN, SinkS!HttpAnswer(ok) PROVE SinkInv'
  <1>1. /\ cfg.kind = "http" /\ op # "none" /\ SinkS!Returned(op, ok)
        /\ endpoint' = endpoint \o pending \/ (~ok /\ endpoint' = endpoint)
        /\ UNCHANGED <<cfg, sent, upstream, cancelled, taken, batch, age, file, link>>
    BY DEF SinkS!HttpAnswer, SinkS!inVars
  <1>2. SinkTypes /\ SinkControl /\ HttpTaken
    BY <1>1 DEF SinkInv
  <1>3. PICK e \in Seq(SinkS!Message) : e = endpoint
    BY <1>2 DEF SinkTypes
  <1>4. PICK p \in Seq(SinkS!Message) : p = pending
    BY <1>2 DEF SinkTypes
  <1>5. e \o p \in Seq(SinkS!Message)
    BY ConcatProperties
  <1>6. endpoint' \in Seq(SinkS!Message) /\ link' \in Links
    BY <1>1, <1>2, <1>3, <1>4, <1>5 DEF SinkTypes
  <1>7. /\ SinkTypes' /\ SinkControl' /\ BatchWaits' /\ ~Local
        /\ Handed' = Handed + Len(pending) /\ Handed \in Nat /\ Handed = taken - Len(pending)
        /\ erred' = (erred \/ ~ok)
    BY <1>1, <1>6, ReturnKeeps
  <1>8. e \in Seq(Nat) /\ p \in Seq(Nat) /\ Follows(p, Handed) /\ Len(p) \in Nat
    <2>1. SinkS!Message \subseteq Nat
      BY TokensAreNumbers
    <2> QED BY <1>2, <1>4, <1>7, <2>1, SeqMonotonic, LenProperties DEF SinkControl
  <1>9. HttpTaken'
    <2>1. RisingTo(e, Handed) /\ (~erred => e = Firsts(Handed))
      BY <1>2, <1>3 DEF HttpTaken
    <2>2. CASE endpoint' = endpoint \o pending
      <3>1. RisingTo(e \o p, Handed + Len(p))
        BY <1>7, <1>8, <2>1, RisingFollows
      <3>2. Firsts(Handed) \o p = Firsts(Handed + Len(p))
        BY <1>7, <1>8, FirstsFollow
      <3> QED BY <1>3, <1>4, <1>7, <2>1, <2>2, <3>1, <3>2 DEF HttpTaken
    <2>3. CASE ~ok /\ endpoint' = endpoint
      <3>1. Handed + Len(p) \in Nat /\ Handed <= Handed + Len(p)
        BY <1>7, <1>8
      <3>2. RisingTo(e, Handed + Len(p))
        BY <1>7, <1>8, <2>1, <3>1, RisingHigher
      <3> QED BY <1>3, <1>4, <1>7, <2>3, <3>2 DEF HttpTaken
    <2> QED BY <1>1, <2>2, <2>3
  <1> QED BY <1>1, <1>7, <1>9 DEF SinkInv, Local, Acknowledging

(***************************************************************************)
(* The MQTT client and its link.                                           *)
(***************************************************************************)
LEMMA SinkSets ==
  /\ \A s : SinkS!ToSet(s) = ToSet(s)
  /\ \A S : SinkS!Cardinality(S) = Cardinality(S)
  BY DEF SinkS!ToSet, ToSet, SinkS!Cardinality, Cardinality

LEMMA ConcatSet ==
  ASSUME NEW S, NEW a \in Seq(S), NEW b \in Seq(S)
  PROVE  ToSet(a \o b) = ToSet(a) \cup ToSet(b)
  <1>1. \A s : ToSet(s) = Range(s)
    BY DEF ToSet, Range
  <1> QED BY <1>1, RangeConcatenation

LEMMA LinkPieces ==
  ASSUME SinkTypes
  PROVE  /\ link.requests \in Seq(SinkS!Message) /\ link.resend \in Seq(SinkS!Message)
         /\ link.inflight \in Seq(SinkS!Message) /\ link.wire \in Seq(SinkS!Message)
         /\ link.broken \in Nat /\ link.up \in BOOLEAN
         /\ link.alive \in BOOLEAN /\ endpoint \in Seq(SinkS!Message)
         /\ Len(link.requests) \in Nat /\ RequestCap \in Nat \ {0}
  <1>1. link.requests \in Seq(SinkS!Message)
    BY DEF SinkTypes, Links
  <1> QED BY <1>1, ConfigFits, LenProperties DEF SinkTypes, Links

\* What the event loop does leaves the sink alone.
LEMMA LinkKeeps ==
  ASSUME SinkInv, UNCHANGED SinkS!LinkVars, cfg.kind = "mqtt", link' \in Links,
         endpoint' \in Seq(SinkS!Message), Acknowledging => BrokerTaken'
  PROVE  SinkInv'
  <1>1. UNCHANGED <<cfg, phase, sent, upstream, cancelled, taken, idle, op, batch, pending, age,
                    file, processed, failed, erred, flushed, result>>
    BY DEF SinkS!LinkVars, SinkS!inVars
  <1>2. UNCHANGED <<Local, Acknowledging, Handed>>
    BY <1>1 DEF Local, Acknowledging, Handed
  <1>3. SinkTypes' /\ SinkControl' /\ BatchWaits'
    BY <1>1 DEF SinkInv, SinkTypes, SinkControl, BatchWaits, Local
  <1> QED BY <1>1, <1>2, <1>3 DEF SinkInv, Local, Acknowledging

\* A broken link sets everything aside: as many requests more to send again as
\* the client can have.
LEMMA BrokenHolds ==
  ASSUME NEW Q \in Seq(SinkS!Message), NEW R \in Seq(SinkS!Message), NEW I \in Seq(SinkS!Message),
         NEW W, NEW E, NEW k \in Nat, NEW n, RequestCap \in Nat, MaxInflight \in Nat,
         Holds(Q, R, I, W, k, E, n)
  PROVE  Holds(<<>>, R \o I \o Q, <<>>, <<>>, k + 1, E, n)
  <1>1. PICK RI \in Seq(SinkS!Message) : RI = R \o I
    BY ConcatProperties
  <1>2. /\ ToSet(RI) = ToSet(R) \cup ToSet(I) /\ ToSet(RI \o Q) = ToSet(RI) \cup ToSet(Q)
        /\ Len(RI) = Len(R) + Len(I) /\ Len(RI \o Q) = Len(RI) + Len(Q)
        /\ Len(R) \in Nat /\ Len(I) \in Nat /\ Len(Q) \in Nat
    <2>1. ToSet(R \o I) = ToSet(R) \cup ToSet(I)
      BY ConcatSet
    <2>2. ToSet(RI \o Q) = ToSet(RI) \cup ToSet(Q)
      BY ConcatSet
    <2>3. Len(R \o I) = Len(R) + Len(I) /\ Len(RI \o Q) = Len(RI) + Len(Q)
      BY ConcatProperties
    <2> QED BY <1>1, <2>1, <2>2, <2>3, LenProperties
  <1>3. Len(<<>>) = 0 /\ ToSet(<<>>) = {}
    BY EmptySeq, QueueSets
  <1>4. 1 .. n \subseteq ToSet(E) \cup ToSet(RI \o Q) \cup ToSet(<<>>) \cup ToSet(<<>>)
    BY <1>2, <1>3 DEF Holds
  <1>5. Len(RI \o Q) + Len(<<>>) <= RequestCap * (k + 1) + MaxInflight
    <2>1. PICK most \in Nat : most = RequestCap * k
      OBVIOUS
    <2>2. RequestCap * (k + 1) = most + RequestCap
      BY <2>1
    <2>3. Len(Q) <= RequestCap /\ Len(R) + Len(I) <= most + MaxInflight
      BY <2>1 DEF Holds
    <2> QED BY <1>2, <1>3, <2>2, <2>3
  <1>6. Wired(<<>>, <<>>, E)
    BY <1>3 DEF Wired
  <1> QED BY <1>1, <1>3, <1>4, <1>5, <1>6 DEF Holds

\* What has arrived and is acknowledged need not be kept.
LEMMA AckHolds ==
  ASSUME NEW Q, NEW R \in Seq(SinkS!Message), NEW I \in Seq(SinkS!Message),
         NEW W \in Seq(SinkS!Message), NEW E, NEW k \in Nat, NEW n,
         RequestCap \in Nat, MaxInflight \in Nat,
         Holds(Q, R, I, W, k, E, n), Len(I) > Len(W)
  PROVE  Holds(Q, R, Tail(I), W, k, E, n) /\ I # <<>> /\ Tail(I) \in Seq(SinkS!Message)
  <1>1. Len(I) \in Nat /\ Len(W) \in Nat /\ Len(R) \in Nat /\ Len(<<>>) = 0
    BY EmptySeq
  <1>2. I # <<>>
    BY <1>1
  <1>3. /\ Tail(I) \in Seq(SinkS!Message) /\ Len(Tail(I)) = Len(I) - 1 /\ Head(I) = I[1]
        /\ \A i \in 1 .. Len(I) - 1 : Tail(I)[i] = I[i + 1]
    BY <1>1, <1>2
  <1>4. ToSet(I) = {Head(I)} \cup ToSet(Tail(I))
    BY <1>2, QueueSets
  <1>5. Wired(I, W, E)
    BY DEF Holds
  <1>6. Head(I) \in ToSet(E)
    BY <1>1, <1>3, <1>5 DEF Wired
  <1>7. ASSUME NEW i \in 1 .. (Len(I) - 1) - Len(W) PROVE Tail(I)[i] \in ToSet(E)
    <2>1. i \in 1 .. Len(I) - 1 /\ i + 1 \in 1 .. Len(I) - Len(W)
      BY <1>1
    <2>2. I[i + 1] \in ToSet(E)
      BY <1>5, <2>1 DEF Wired
    <2> QED BY <1>3, <2>1, <2>2
  <1>8. ASSUME NEW j \in 1 .. Len(W) PROVE W[j] = Tail(I)[((Len(I) - 1) - Len(W)) + j]
    <2>1. /\ ((Len(I) - 1) - Len(W)) + j \in 1 .. Len(I) - 1
          /\ (((Len(I) - 1) - Len(W)) + j) + 1 = (Len(I) - Len(W)) + j
      BY <1>1
    <2>2. W[j] = I[(Len(I) - Len(W)) + j]
      BY <1>5 DEF Wired
    <2> QED BY <1>3, <2>1, <2>2
  <1>9. Len(W) <= Len(I) - 1
    BY <1>1
  <1>10. Wired(Tail(I), W, E)
    BY <1>3, <1>7, <1>8, <1>9 DEF Wired
  <1>11. Len(R) + Len(Tail(I)) <= RequestCap * k + MaxInflight
    <2>1. PICK most \in Nat : most = RequestCap * k
      OBVIOUS
    <2>2. Len(R) + Len(I) <= most + MaxInflight
      BY <2>1 DEF Holds
    <2> QED BY <1>1, <1>3, <2>1, <2>2
  <1>12. 1 .. n \subseteq ToSet(E) \cup ToSet(R) \cup ToSet(Tail(I)) \cup ToSet(Q)
    BY <1>4, <1>6 DEF Holds
  <1> QED BY <1>2, <1>3, <1>10, <1>11, <1>12 DEF Holds

\* The oldest publish on the wire arrives.
LEMMA ArriveHolds ==
  ASSUME NEW Q, NEW R, NEW I \in Seq(SinkS!Message), NEW W \in Seq(SinkS!Message),
         NEW E \in Seq(SinkS!Message), NEW k, NEW n,
         Holds(Q, R, I, W, k, E, n), W # <<>>
  PROVE  Holds(Q, R, I, Tail(W), k, Append(E, Head(W)), n)
  <1>1. /\ Tail(W) \in Seq(SinkS!Message) /\ Len(Tail(W)) = Len(W) - 1 /\ Head(W) = W[1]
        /\ \A j \in 1 .. Len(W) - 1 : Tail(W)[j] = W[j + 1]
        /\ Len(W) \in Nat \ {0} /\ Len(I) \in Nat /\ Head(W) \in SinkS!Message
    OBVIOUS
  <1>2. ToSet(Append(E, Head(W))) = ToSet(E) \cup {Head(W)}
    BY <1>1, ArrivalSet
  <1>3. Wired(I, W, E)
    BY DEF Holds
  <1>4. ASSUME NEW i \in 1 .. Len(I) - (Len(W) - 1) PROVE I[i] \in ToSet(Append(E, Head(W)))
    <2>1. CASE i \in 1 .. Len(I) - Len(W)
      BY <1>2, <1>3, <2>1 DEF Wired
    <2>2. CASE i = (Len(I) - Len(W)) + 1
      <3>1. W[1] = I[(Len(I) - Len(W)) + 1]
        BY <1>1, <1>3 DEF Wired
      <3> QED BY <1>1, <1>2, <2>2, <3>1
    <2> QED BY <1>1, <2>1, <2>2
  <1>5. ASSUME NEW j \in 1 .. Len(W) - 1 PROVE Tail(W)[j] = I[(Len(I) - (Len(W) - 1)) + j]
    <2>1. j + 1 \in 1 .. Len(W) /\ (Len(I) - (Len(W) - 1)) + j = (Len(I) - Len(W)) + (j + 1)
      BY <1>1
    <2>2. W[j + 1] = I[(Len(I) - Len(W)) + (j + 1)]
      BY <1>3, <2>1 DEF Wired
    <2> QED BY <1>1, <2>1, <2>2
  <1>6. Len(W) - 1 <= Len(I)
    BY <1>1, <1>3 DEF Wired
  <1>7. Wired(I, Tail(W), Append(E, Head(W)))
    BY <1>1, <1>4, <1>5, <1>6 DEF Wired
  <1> QED BY <1>2, <1>7 DEF Holds

\* A publish is written: it comes from what was set aside or from the requests.
LEMMA TransmitHolds ==
  ASSUME NEW Q \in Seq(SinkS!Message), NEW R \in Seq(SinkS!Message), NEW I \in Seq(SinkS!Message),
         NEW W \in Seq(SinkS!Message), NEW E, NEW k \in Nat, NEW n,
         NEW q \in Seq(SinkS!Message), NEW r \in Seq(SinkS!Message), NEW m \in SinkS!Message,
         RequestCap \in Nat, MaxInflight \in Nat,
         Holds(Q, R, I, W, k, E, n), Len(I) < MaxInflight,
         \/ R # <<>> /\ m = Head(R) /\ r = Tail(R) /\ q = Q
         \/ R = <<>> /\ r = R /\ Q # <<>> /\ m = Head(Q) /\ q = Tail(Q)
  PROVE  Holds(q, r, Append(I, m), Append(W, m), k, E, n)
  <1>1. /\ Len(Append(I, m)) = Len(I) + 1 /\ Len(Append(W, m)) = Len(W) + 1
        /\ Len(I) \in Nat /\ Len(W) \in Nat /\ Len(R) \in Nat /\ Len(Q) \in Nat
        /\ \A i \in 1 .. Len(I) : Append(I, m)[i] = I[i]
        /\ \A j \in 1 .. Len(W) : Append(W, m)[j] = W[j]
        /\ Append(I, m)[Len(I) + 1] = m /\ Append(W, m)[Len(W) + 1] = m
    OBVIOUS
  <1>2. ToSet(Append(I, m)) = ToSet(I) \cup {m}
    BY ArrivalSet
  <1>3. Wired(I, W, E)
    BY DEF Holds
  <1>4. Wired(Append(I, m), Append(W, m), E)
    <2>1. Len(W) <= Len(I)
      BY <1>3 DEF Wired
    <2>2. (Len(I) + 1) - (Len(W) + 1) = Len(I) - Len(W)
      BY <1>1
    <2>3. ASSUME NEW i \in 1 .. Len(I) - Len(W) PROVE Append(I, m)[i] \in ToSet(E)
      <3>1. i \in 1 .. Len(I) /\ I[i] \in ToSet(E)
        BY <1>1, <1>3 DEF Wired
      <3> QED BY <1>1, <3>1
    <2>4. ASSUME NEW j \in 1 .. Len(W) + 1
          PROVE  Append(W, m)[j] = Append(I, m)[(Len(I) - Len(W)) + j]
      <3>1. CASE j \in 1 .. Len(W)
        <4>1. W[j] = I[(Len(I) - Len(W)) + j] /\ (Len(I) - Len(W)) + j \in 1 .. Len(I)
          BY <1>1, <1>3, <2>1, <3>1 DEF Wired
        <4> QED BY <1>1, <3>1, <4>1
      <3>2. CASE j = Len(W) + 1
        <4>1. (Len(I) - Len(W)) + (Len(W) + 1) = Len(I) + 1
          BY <1>1
        <4>2. Append(W, m)[Len(W) + 1] = Append(I, m)[(Len(I) - Len(W)) + (Len(W) + 1)]
          BY <1>1, <4>1
        <4> QED BY <3>2, <4>2, Zenon
      <3>3. j \in 1 .. Len(W) \/ j = Len(W) + 1
        BY <1>1
      <3> QED BY <3>1, <3>2, <3>3, Zenon
    <2>5. Len(W) + 1 <= Len(I) + 1
      BY <1>1, <2>1
    <2> QED BY <1>1, <2>2, <2>3, <2>4, <2>5 DEF Wired
  <1>5. CASE R # <<>> /\ m = Head(R) /\ r = Tail(R) /\ q = Q
    <2>1. ToSet(R) = {m} \cup ToSet(r) /\ Len(r) = Len(R) - 1
      BY <1>5, QueueSets
    <2>2. 1 .. n \subseteq ToSet(E) \cup ToSet(r) \cup ToSet(Append(I, m)) \cup ToSet(q)
      BY <1>2, <1>5, <2>1 DEF Holds
    <2>3. Len(r) + Len(Append(I, m)) = Len(R) + Len(I)
      BY <1>1, <2>1
    <2>4. Len(r) + Len(Append(I, m)) <= RequestCap * k + MaxInflight /\ Len(q) <= RequestCap
      BY <1>5, <2>3 DEF Holds
    <2> QED BY <1>4, <2>2, <2>4 DEF Holds
  <1>6. CASE R = <<>> /\ r = R /\ Q # <<>> /\ m = Head(Q) /\ q = Tail(Q)
    <2>1. ToSet(Q) = {m} \cup ToSet(q) /\ Len(q) = Len(Q) - 1 /\ Len(R) = 0
      BY <1>6, QueueSets, EmptySeq
    <2>2. 1 .. n \subseteq ToSet(E) \cup ToSet(r) \cup ToSet(Append(I, m)) \cup ToSet(q)
      BY <1>2, <1>6, <2>1 DEF Holds
    <2>3. Len(r) + Len(Append(I, m)) <= RequestCap * k + MaxInflight
      <3>1. PICK most \in Nat : most = RequestCap * k
        OBVIOUS
      <3>2. Len(r) = 0 /\ Len(I) + 1 <= MaxInflight
        BY <1>1, <1>6, <2>1
      <3>3. Len(r) + Len(Append(I, m)) <= most + MaxInflight
        BY <1>1, <3>2
      <3> QED BY <3>1, <3>3
    <2>4. Len(q) <= RequestCap
      BY <1>1, <2>1 DEF Holds
    <2> QED BY <1>4, <2>2, <2>3, <2>4 DEF Holds
  <1> QED BY <1>5, <1>6

\* One more message is handed to the client.
LEMMA PublishHolds ==
  ASSUME NEW Q \in Seq(SinkS!Message), NEW R, NEW I, NEW W, NEW E, NEW k, NEW n \in Nat,
         n + 1 \in SinkS!Message, RequestCap \in Nat, Len(Q) < RequestCap,
         Holds(Q, R, I, W, k, E, n)
  PROVE  Holds(Append(Q, n + 1), R, I, W, k, E, n + 1)
  <1>1. Len(Append(Q, n + 1)) = Len(Q) + 1 /\ Len(Q) \in Nat
    OBVIOUS
  <1>2. ToSet(Append(Q, n + 1)) = ToSet(Q) \cup {n + 1}
    BY ArrivalSet
  <1>3. 1 .. n + 1 = (1 .. n) \cup {n + 1}
    OBVIOUS
  <1>4. 1 .. n + 1 \subseteq ToSet(E) \cup ToSet(R) \cup ToSet(I) \cup ToSet(Append(Q, n + 1))
    BY <1>2, <1>3 DEF Holds
  <1>5. Len(Append(Q, n + 1)) <= RequestCap
    BY <1>1
  <1> QED BY <1>4, <1>5 DEF Holds

\* What is neither with the broker nor among the requests was set aside or
\* waits for an acknowledgement.
LEMMA HoldsCount ==
  ASSUME NEW Q \in Seq(SinkS!Message), NEW R \in Seq(SinkS!Message), NEW I \in Seq(SinkS!Message),
         NEW W, NEW E, NEW k \in Nat, NEW n, RequestCap \in Nat, MaxInflight \in Nat,
         Holds(Q, R, I, W, k, E, n), Len(Q) < RequestCap
  PROVE  /\ IsFiniteSet((1 .. n) \ ToSet(E))
         /\ Cardinality((1 .. n) \ ToSet(E)) < RequestCap * (k + 1) + MaxInflight
  <1>1. PICK RI \in Seq(SinkS!Message) : RI = R \o I
    BY ConcatProperties
  <1>2. PICK all \in Seq(SinkS!Message) : all = RI \o Q
    BY ConcatProperties
  <1>3. /\ ToSet(RI) = ToSet(R) \cup ToSet(I) /\ ToSet(all) = ToSet(RI) \cup ToSet(Q)
        /\ Len(RI) = Len(R) + Len(I) /\ Len(all) = Len(RI) + Len(Q)
        /\ Len(R) \in Nat /\ Len(I) \in Nat /\ Len(Q) \in Nat
    <2>1. ToSet(R \o I) = ToSet(R) \cup ToSet(I)
      BY ConcatSet
    <2>2. ToSet(RI \o Q) = ToSet(RI) \cup ToSet(Q)
      BY ConcatSet
    <2>3. Len(R \o I) = Len(R) + Len(I) /\ Len(RI \o Q) = Len(RI) + Len(Q)
      BY ConcatProperties
    <2> QED BY <1>1, <1>2, <2>1, <2>2, <2>3, LenProperties
  <1>4. PICK lost : lost = (1 .. n) \ ToSet(E)
    OBVIOUS
  <1>5. lost \subseteq ToSet(all)
    BY <1>3, <1>4 DEF Holds
  <1>6. IsFiniteSet(lost) /\ Cardinality(lost) <= Len(all)
    BY <1>5, QueueCount
  <1>7. Cardinality(lost) \in Nat
    BY <1>6, FS_CardinalityType
  <1>8. PICK most \in Nat : most = RequestCap * k
    OBVIOUS
  <1>9. Len(R) + Len(I) <= most + MaxInflight
    BY <1>8 DEF Holds
  <1>10. RequestCap * (k + 1) = most + RequestCap
    BY <1>8
  <1>11. Cardinality(lost) < (most + RequestCap) + MaxInflight
    BY <1>3, <1>6, <1>7, <1>9
  <1> QED BY <1>4, <1>6, <1>10, <1>11

\* What arrives after close() only makes the loss smaller.
LEMMA LateArrival ==
  ASSUME SinkTypes, SinkS!LossAtClose, Acknowledging, phase = "done",
         NEW m \in SinkS!Message, endpoint' = Append(endpoint, m), link'.broken = link.broken,
         UNCHANGED <<cfg, phase, taken>>
  PROVE  SinkS!LossAtClose'
  <1>1. PICK E \in Seq(SinkS!Message) : E = endpoint
    BY DEF SinkTypes
  <1>2. ToSet(Append(E, m)) = ToSet(E) \cup {m}
    BY ArrivalSet
  <1> DEFINE lost == (1 .. taken) \ ToSet(E)
             left == (1 .. taken) \ ToSet(Append(E, m))
             most == RequestCap * (link.broken + 1) + MaxInflight
  <1>3. left \in SUBSET lost
    BY <1>2
  <1>4. IsFiniteSet(lost)
    <2>1. taken \in Nat /\ 1 \in Int /\ taken \in Int
      BY ConfigFits
    <2>2. IsFiniteSet(1 .. taken)
      BY <2>1, FS_Interval
    <2> QED BY <2>2, FS_Subset
  <1>5. Cardinality(lost) < most
    BY <1>1, SinkSets DEF SinkS!LossAtClose, Acknowledging
  <1>6. most \in Nat
    <2>1. RequestCap \in Nat /\ MaxInflight \in Nat /\ link.broken \in Nat
      BY ConfigFits, LinkPieces
    <2> QED BY <2>1, SMTT(40)
  <1>7. /\ IsFiniteSet(left) /\ Cardinality(left) <= Cardinality(lost)
        /\ Cardinality(left) \in Nat /\ Cardinality(lost) \in Nat
    <2> HIDE DEF lost, left
    <2> QED BY <1>3, <1>4, FS_Subset, FS_CardinalityType
  <1>8. Cardinality(left) < most
    <2> HIDE DEF lost, left, most
    <2> QED BY <1>5, <1>6, <1>7
  <1>9. SinkS!Cardinality((1 .. taken') \ SinkS!ToSet(endpoint'))
            < RequestCap * (link'.broken + 1) + MaxInflight
    BY <1>1, <1>8, SinkSets
  <1> QED BY <1>9 DEF SinkS!LossAtClose

LinkOf(Q, R, I, W, u, a, k) ==
    [requests |-> Q, resend |-> R, inflight |-> I, wire |-> W, up |-> u, alive |-> a, broken |-> k]

LEMMA RequestsField ==
  ASSUME NEW Q, NEW R, NEW I, NEW W, NEW u, NEW a, NEW k, NEW s
  PROVE  [LinkOf(Q, R, I, W, u, a, k) EXCEPT !.requests = s] = LinkOf(s, R, I, W, u, a, k)
  BY DEF LinkOf

LEMMA ResendField ==
  ASSUME NEW Q, NEW R, NEW I, NEW W, NEW u, NEW a, NEW k, NEW s
  PROVE  [LinkOf(Q, R, I, W, u, a, k) EXCEPT !.resend = s] = LinkOf(Q, s, I, W, u, a, k)
  BY DEF LinkOf

\* A link that keeps Holds keeps all of the invariant.
LEMMA LinkTurn ==
  ASSUME SinkInv, UNCHANGED SinkS!LinkVars, cfg.kind = "mqtt",
         NEW Q \in Seq(SinkS!Message), NEW R \in Seq(SinkS!Message), NEW I \in Seq(SinkS!Message),
         NEW W \in Seq(SinkS!Message), NEW u \in BOOLEAN, NEW a \in BOOLEAN, NEW k \in Nat,
         link' = LinkOf(Q, R, I, W, u, a, k), NEW E \in Seq(SinkS!Message), endpoint' = E,
         Acknowledging => phase # "done" /\ Holds(Q, R, I, W, k, E, Handed)
  PROVE  SinkInv'
  <1>1. link' \in Links
    BY DEF LinkOf, Links
  <1>2. UNCHANGED <<phase, Handed>>
    BY DEF SinkS!LinkVars, Handed
  <1>3. /\ link'.requests = Q /\ link'.resend = R /\ link'.inflight = I /\ link'.wire = W
        /\ link'.broken = k
    BY DEF LinkOf
  <1>4. Acknowledging => BrokerTaken'
    BY <1>2, <1>3 DEF BrokerTaken
  <1> QED BY <1>1, <1>4, LinkKeeps

LEMMA LinkSteps == ASSUME SinkInv, SinkS!EventLoop PROVE SinkInv'
  <1>1. SinkTypes /\ (Acknowledging => BrokerTaken) /\ UNCHANGED SinkS!LinkVars /\ link \in Links
    BY DEF SinkInv, SinkTypes, SinkS!EventLoop, SinkS!Connect, SinkS!LinkBreaks, SinkS!Transmit,
           SinkS!Arrive, SinkS!Acknowledge
  <1>2. cfg.kind = "mqtt" /\ (~SinkS!Arrive => link.alive)
    BY DEF SinkInv, SinkS!EventLoop, SinkS!Connect, SinkS!LinkBreaks, SinkS!Transmit,
           SinkS!Arrive, SinkS!Acknowledge
  <1>3. PICK Q \in Seq(SinkS!Message), R \in Seq(SinkS!Message), I \in Seq(SinkS!Message),
             W \in Seq(SinkS!Message), E \in Seq(SinkS!Message),
             u \in BOOLEAN, a \in BOOLEAN, k \in Nat :
            /\ Q = link.requests /\ R = link.resend /\ I = link.inflight /\ W = link.wire
            /\ E = endpoint /\ u = link.up /\ a = link.alive /\ k = link.broken
    BY <1>1, LinkPieces
  <1>4. link = LinkOf(Q, R, I, W, u, a, k)
    BY <1>1, <1>3 DEF Links, LinkOf
  <1>5. RequestCap \in Nat /\ MaxInflight \in Nat
    BY <1>1, ConfigFits
  <1>6. Acknowledging /\ phase # "done" => Holds(Q, R, I, W, k, E, Handed)
    BY <1>1, <1>3 DEF BrokerTaken
  <1>7. Acknowledging /\ link.alive => phase # "done"
    BY <1>1 DEF BrokerTaken
  <1>8. CASE SinkS!Connect
    <2>1. endpoint' = E /\ link.alive /\ link' = [link EXCEPT !.up = TRUE]
      BY <1>3, <1>8 DEF SinkS!Connect
    <2>2. link' = LinkOf(Q, R, I, W, TRUE, a, k)
      BY <1>4, <2>1 DEF LinkOf
    <2>3. Acknowledging => phase # "done" /\ Holds(Q, R, I, W, k, E, Handed)
      BY <1>6, <1>7, <2>1
    <2>4. TRUE \in BOOLEAN
      OBVIOUS
    <2> QED BY <1>1, <1>2, <2>1, <2>2, <2>3, <2>4, LinkTurn, Zenon
  <1>9. CASE SinkS!LinkBreaks
    <2>1. endpoint' = E /\ link.alive /\ link' = SinkS!Broken(link)
      BY <1>3, <1>9 DEF SinkS!LinkBreaks
    <2>2. PICK all \in Seq(SinkS!Message) : all = R \o I \o Q
      BY ConcatProperties
    <2>3. link' = LinkOf(<<>>, all, <<>>, <<>>, FALSE, a, k + 1)
      BY <1>3, <1>4, <2>1, <2>2 DEF LinkOf, SinkS!Broken
    <2>4. Acknowledging => Holds(<<>>, all, <<>>, <<>>, k + 1, E, Handed)
      BY <1>5, <1>6, <1>7, <2>1, <2>2, BrokenHolds
    <2>5. <<>> \in Seq(SinkS!Message) /\ k + 1 \in Nat
      OBVIOUS
    <2> QED BY <1>1, <1>2, <1>7, <2>1, <2>3, <2>4, <2>5, LinkTurn
  <1>10. CASE SinkS!Acknowledge
    <2>1. endpoint' = E /\ link.alive /\ Len(I) > Len(W) /\ link' = [link EXCEPT !.inflight = Tail(@)]
      BY <1>3, <1>10 DEF SinkS!Acknowledge
    <2>2. Tail(I) \in Seq(SinkS!Message)
      <3>1. I # <<>>
        BY <2>1, EmptySeq
      <3> QED BY <3>1
    <2>3. PICK T \in Seq(SinkS!Message) : T = Tail(I)
      BY <2>2
    <2>4. link' = LinkOf(Q, R, T, W, u, a, k)
      BY <1>3, <1>4, <2>1, <2>3 DEF LinkOf
    <2>5. Acknowledging => Holds(Q, R, T, W, k, E, Handed)
      BY <1>5, <1>6, <1>7, <2>1, <2>3, AckHolds
    <2>6. Acknowledging => phase # "done" /\ Holds(Q, R, T, W, k, E, Handed)
      BY <1>7, <2>1, <2>5
    <2> QED BY <1>1, <1>2, <2>1, <2>4, <2>6, LinkTurn, Zenon
  <1>11. CASE SinkS!Transmit
    <2>1. /\ R \o Q # <<>> /\ Len(I) < MaxInflight /\ link.alive /\ endpoint' = E
      BY <1>3, <1>11 DEF SinkS!Transmit
    <2>2. PICK m \in SinkS!Message, r \in Seq(SinkS!Message), q \in Seq(SinkS!Message) :
              /\ m = Head(R \o Q)
              /\ \/ R # <<>> /\ m = Head(R) /\ r = Tail(R) /\ q = Q
                 \/ R = <<>> /\ r = R /\ Q # <<>> /\ m = Head(Q) /\ q = Tail(Q)
      <3>1. CASE R # <<>>
        <4>1. Head(R) \in SinkS!Message /\ Tail(R) \in Seq(SinkS!Message) /\ Head(R \o Q) = Head(R)
          BY <3>1, HeadTailProperties
        <4> QED BY <3>1, <4>1
      <3>2. CASE R = <<>>
        <4>1. Q # <<>> /\ Head(R \o Q) = Head(Q)
          BY <2>1, <3>2, ConcatEmptySeq
        <4>2. Head(Q) \in SinkS!Message /\ Tail(Q) \in Seq(SinkS!Message)
          BY <4>1
        <4> QED BY <3>2, <4>1, <4>2
      <3> QED BY <3>1, <3>2
    <2>3. PICK V \in Seq(SinkS!Message) : V = Append(W, m)
      BY Zenon, AppendProperties
    <2>4. PICK J \in Seq(SinkS!Message) : J = IF cfg.qos = 0 THEN I ELSE Append(I, m)
      BY Zenon, AppendProperties
    <2>5. link' = LinkOf(q, r, J, V, u, a, k)
      <3> DEFINE rested == LinkOf(q, r, I, W, u, a, k)
      <3>1. rested = IF link.resend # <<>> THEN [link EXCEPT !.resend = Tail(@)]
                     ELSE [link EXCEPT !.requests = Tail(@)]
        <4>1. CASE R # <<>>
          <5>1. r = Tail(link.resend) /\ link.resend # <<>> /\ q = Q
            BY <1>3, <2>2, <4>1
          <5>2. [LinkOf(Q, R, I, W, u, a, k) EXCEPT !.resend = r] = LinkOf(Q, r, I, W, u, a, k)
            BY RequestsField, ResendField
          <5> QED BY <1>4, <5>1, <5>2
        <4>2. CASE R = <<>>
          <5>1. q = Tail(link.requests) /\ link.resend = <<>> /\ r = R
            BY <1>3, <2>2, <4>2
          <5>2. [LinkOf(Q, R, I, W, u, a, k) EXCEPT !.requests = q] = LinkOf(q, R, I, W, u, a, k)
            BY RequestsField, ResendField
          <5> QED BY <1>4, <5>1, <5>2
        <4> QED BY <4>1, <4>2
      <3>2. m = Head(link.resend \o link.requests)
        BY <1>3, <2>2
      <3>3. link' = [rested EXCEPT !.wire = Append(rested.wire, m),
                         !.inflight = IF cfg.qos = 0 THEN rested.inflight ELSE Append(rested.inflight, m)]
        <4> HIDE DEF rested
        <4> QED BY <1>11, <3>1, <3>2, Zenon DEF SinkS!Transmit
      <3>4. rested.wire = W /\ rested.inflight = I
        BY DEF LinkOf
      <3>5. link' = [rested EXCEPT !.wire = V, !.inflight = J]
        <4> HIDE DEF rested
        <4> QED BY <2>3, <2>4, <3>3, <3>4, Zenon
      <3>6. PICK l : l = link'
        OBVIOUS
      <3>7. PICK from : from = rested
        OBVIOUS
      <3>8. l = [from EXCEPT !.wire = V, !.inflight = J] /\ from = LinkOf(q, r, I, W, u, a, k)
        BY <3>5, <3>6, <3>7
      <3>9. l = LinkOf(q, r, J, V, u, a, k)
        BY <3>8 DEF LinkOf
      <3> QED BY <3>6, <3>9, Zenon
    <2>6. Acknowledging => J = Append(I, m)
      <3>0. cfg.qos \in 0 .. 2
        BY <1>1, ConfigFits
      <3>1. cfg.qos \in Nat /\ (Acknowledging => cfg.qos > 0)
        BY <3>0 DEF Acknowledging
      <3>2. Acknowledging => cfg.qos # 0
        BY <3>1
      <3> QED BY <2>4, <3>2
    <2>7. ASSUME Acknowledging PROVE Holds(q, r, J, V, k, E, Handed)
      <3>1. Holds(Q, R, I, W, k, E, Handed)
        BY <1>6, <1>7, <2>1, <2>7
      <3>2. Holds(q, r, Append(I, m), Append(W, m), k, E, Handed)
        BY <1>5, <2>1, <2>2, <3>1, TransmitHolds
      <3> QED BY <2>3, <2>6, <2>7, <3>2
    <2> QED BY <1>1, <1>2, <1>7, <2>1, <2>5, <2>7, LinkTurn
  <1>12. CASE SinkS!Arrive
    <2>1. /\ W # <<>> /\ endpoint' = Append(E, Head(W)) /\ link' = [link EXCEPT !.wire = Tail(@)]
      BY <1>3, <1>12 DEF SinkS!Arrive
    <2>2. Head(W) \in SinkS!Message /\ Tail(W) \in Seq(SinkS!Message)
      BY <2>1
    <2>3. PICK V \in Seq(SinkS!Message) : V = Tail(W)
      BY <2>2
    <2>4. link' = LinkOf(Q, R, I, V, u, a, k)
      BY <1>3, <1>4, <2>1, <2>3 DEF LinkOf
    <2>5. PICK F \in Seq(SinkS!Message) : F = Append(E, Head(W))
      BY <2>2, Zenon, AppendProperties
    <2>6. CASE Acknowledging => phase # "done"
      <3>1. Acknowledging => phase # "done" /\ Holds(Q, R, I, V, k, F, Handed)
        BY <1>6, <2>1, <2>3, <2>5, <2>6, ArriveHolds
      <3>2. endpoint' = F
        BY <2>1, <2>5
      <3> QED BY <1>1, <1>2, <2>4, <3>1, <3>2, LinkTurn, Zenon
    <2>7. CASE Acknowledging /\ phase = "done"
      <3>1. link' \in Links /\ link'.broken = link.broken /\ link'.alive = link.alive
        BY <1>3, <2>4 DEF LinkOf, Links
      <3>2. ~link.alive /\ SinkS!LossAtClose
        BY <1>1, <2>7 DEF BrokerTaken
      <3>3. UNCHANGED <<cfg, phase, taken>>
        BY <1>1 DEF SinkS!LinkVars
      <3>4. SinkS!LossAtClose'
        BY <1>1, <1>3, <2>1, <2>2, <2>7, <3>1, <3>2, <3>3, LateArrival
      <3>5. BrokerTaken'
        BY <2>7, <3>1, <3>2, <3>3, <3>4 DEF BrokerTaken
      <3>6. endpoint' \in Seq(SinkS!Message)
        BY <2>1, <2>5
      <3> QED BY <1>1, <1>2, <3>1, <3>5, <3>6, LinkKeeps
    <2> QED BY <2>6, <2>7
  <1> QED BY <1>8, <1>9, <1>10, <1>11, <1>12 DEF SinkS!EventLoop

\* A message is handed to the client: it is one of its requests then.
LEMMA PublishKeeps == ASSUME SinkInv, SinkS!Publish PROVE SinkInv'
  <1>1. /\ SinkTypes /\ SinkControl /\ BatchWaits /\ cfg.kind = "mqtt" /\ op # "none"
        /\ pending # <<>> /\ UNCHANGED <<cfg, sent, upstream, cancelled, taken, batch, age, file, endpoint>>
        /\ file = SinkS!ClosedFile /\ ~Local
    BY DEF SinkInv, SinkS!Publish, SinkS!inVars, Local
  <1>2. UNCHANGED <<Local, Acknowledging>>
    BY <1>1 DEF Local, Acknowledging
  <1>3. PICK p \in Seq(SinkS!Message) : p = pending
    BY <1>1 DEF SinkTypes
  <1>4. /\ p # <<>> /\ Head(p) \in SinkS!Message /\ Tail(p) \in Seq(SinkS!Message)
        /\ Len(Tail(p)) = Len(p) - 1 /\ Len(p) \in Nat \ {0} /\ Head(p) = p[1]
        /\ \A i \in 1 .. Len(p) - 1 : Tail(p)[i] = p[i + 1]
    BY <1>1, <1>3
  <1>5. op # "close" /\ phase \notin {"close", "done"} /\ batch = <<>> /\ Len(batch) = 0
    BY <1>1 DEF SinkControl, SinkTypes
  <1>6. taken \in Nat /\ Handed = taken - Len(p) /\ Handed \in Nat /\ Head(p) = Handed + 1
        /\ Follows(p, taken - Len(p))
    <2>1. taken \in Nat
      BY <1>1, ConfigFits
    <2>2. Follows(p, taken - Len(p)) /\ Len(batch) + Len(p) <= taken
      BY <1>1, <1>3 DEF SinkControl
    <2>3. Handed = taken - Len(p) /\ Handed \in Nat
      BY <1>3, <1>4, <1>5, <2>1, <2>2 DEF Handed
    <2>4. p[1] = (taken - Len(p)) + 1
      BY <1>4, <2>2 DEF Follows
    <2> QED BY <1>4, <2>1, <2>2, <2>3, <2>4
  <1>7. CASE ~cfg.topic
    <2>1. SinkS!Returned(op, FALSE) /\ link' = link
      BY <1>7 DEF SinkS!Publish
    <2>2. endpoint' \in Seq(SinkS!Message) /\ link' \in Links /\ FALSE \in BOOLEAN
      BY <1>1, <2>1 DEF SinkTypes
    <2>3. SinkTypes' /\ SinkControl' /\ BatchWaits'
      BY <1>1, <2>1, <2>2, ReturnKeeps
    <2>4. ~Acknowledging
      BY <1>7 DEF Acknowledging
    <2> QED BY <1>1, <1>2, <2>1, <2>3, <2>4 DEF SinkInv, Local, Acknowledging
  <1>8. CASE cfg.topic
    <2>1. /\ Len(link.requests) < RequestCap
          /\ link' = [link EXCEPT !.requests = Append(@, Head(pending))]
          /\ \/ Len(pending) = 1 /\ SinkS!Returned(op, TRUE)
             \/ /\ pending' = Tail(pending)
                /\ UNCHANGED <<phase, idle, op, processed, failed, erred, flushed, result>>
      BY <1>8 DEF SinkS!Publish
    <2>2. PICK Q \in Seq(SinkS!Message) : Q = link.requests
      BY <1>1, LinkPieces
    <2>3. PICK more \in Seq(SinkS!Message) : more = Append(Q, Head(p))
      BY <1>4, Zenon, AppendProperties
    <2>4. ToSet(more) = ToSet(Q) \cup {Head(p)} /\ Len(more) = Len(Q) + 1
      <3>1. ToSet(Append(Q, Head(p))) = ToSet(Q) \cup {Head(p)}
        BY <1>4, ArrivalSet
      <3>2. Len(Append(Q, Head(p))) = Len(Q) + 1
        OBVIOUS
      <3> QED BY <2>3, <3>1, <3>2
    <2>5. link' = [link EXCEPT !.requests = more]
      BY <1>3, <2>1, <2>2, <2>3
    <2>6. /\ link' \in Links /\ link'.requests = more /\ link'.resend = link.resend
          /\ link'.inflight = link.inflight /\ link'.wire = link.wire
          /\ link'.broken = link.broken /\ link'.alive = link.alive
      <3>1. link \in Links
        BY <1>1 DEF SinkTypes
      <3> QED BY <2>5, <3>1 DEF Links
    <2>7. /\ SinkTypes' /\ SinkControl' /\ BatchWaits' /\ Handed' = Handed + 1 /\ phase' # "done"
      <3>1. CASE Len(pending) = 1 /\ SinkS!Returned(op, TRUE)
        <4>1. endpoint' \in Seq(SinkS!Message) /\ TRUE \in BOOLEAN
          BY <1>1 DEF SinkTypes
        <4>2. /\ SinkTypes' /\ SinkControl' /\ BatchWaits' /\ Handed' = Handed + Len(pending)
              /\ (phase' = "done" => op = "close")
          BY <1>1, <2>6, <3>1, <4>1, ReturnKeeps
        <4> QED BY <1>5, <3>1, <4>2
      <3>2. CASE /\ pending' = Tail(pending)
                 /\ UNCHANGED <<phase, idle, op, processed, failed, erred, flushed, result>>
        <4>1. SinkTypes'
          BY <1>1, <1>3, <1>4, <2>6, <3>2 DEF SinkTypes
        <4>2. BatchWaits'
          BY <1>1, <3>2 DEF BatchWaits
        <4>3. Len(batch') + Len(pending') <= taken' /\ Handed' = Handed + 1
          BY <1>1, <1>3, <1>4, <1>5, <1>6, <3>2 DEF Handed
        <4>4. Follows(pending', taken' - Len(pending'))
          <5>1. ASSUME NEW i \in 1 .. Len(p) - 1 PROVE Tail(p)[i] = (taken - (Len(p) - 1)) + i
            <6>1. i + 1 \in 1 .. Len(p)
              BY <1>4
            <6>2. p[i + 1] = (taken - Len(p)) + (i + 1)
              BY <1>6, <6>1 DEF Follows
            <6> QED BY <1>4, <1>6, <6>2
          <5>2. Follows(Tail(p), taken - Len(Tail(p)))
            BY <1>4, <5>1 DEF Follows
          <5> QED BY <1>1, <1>3, <3>2, <5>2
        <4>5. SinkControl'
          BY <1>1, <1>2, <1>5, <3>2, <4>3, <4>4 DEF SinkControl
        <4> QED BY <1>5, <3>2, <4>1, <4>2, <4>3, <4>5
      <3> QED BY <2>1, <3>1, <3>2
    <2>8. ASSUME Acknowledging PROVE BrokerTaken'
      <3>1. phase # "done" /\ BrokerTaken
        BY <1>5, <2>8 DEF SinkInv
      <3>2. PICK n \in Nat : n = Handed
        BY <1>6
      <3>3. Holds(Q, link.resend, link.inflight, link.wire, link.broken, endpoint, n)
        BY <2>2, <3>1, <3>2 DEF BrokerTaken
      <3>4. n + 1 \in SinkS!Message /\ RequestCap \in Nat /\ Len(Q) < RequestCap /\ Head(p) = n + 1
        BY <1>1, <1>4, <1>6, <2>1, <2>2, <3>2, LinkPieces
      <3>5. Holds(Append(Q, n + 1), link.resend, link.inflight, link.wire, link.broken, endpoint,
                  n + 1)
        BY <3>3, <3>4, PublishHolds
      <3>6. Holds(more, link.resend, link.inflight, link.wire, link.broken, endpoint, Handed')
        BY <2>3, <2>7, <3>2, <3>4, <3>5
      <3> QED BY <1>1, <2>6, <2>7, <3>6 DEF BrokerTaken
    <2> QED BY <1>1, <1>2, <2>7, <2>8 DEF SinkInv, Local, Acknowledging
  <1> QED BY <1>7, <1>8

\* close() aborts the event loop: what is lost are requests, what waits for an
\* acknowledgement and what a broken link has set aside.
LEMMA DisconnectKeeps == ASSUME SinkInv, SinkS!MqttDisconnect PROVE SinkInv'
  <1>1. /\ SinkTypes /\ SinkControl /\ BatchWaits /\ cfg.kind = "mqtt" /\ op = "close"
        /\ pending = <<>> /\ Len(link.requests) < RequestCap
        /\ link' = [link EXCEPT !.alive = FALSE] /\ SinkS!Returned(op, TRUE)
        /\ UNCHANGED <<cfg, sent, upstream, cancelled, taken, batch, age, file, endpoint>>
        /\ file = SinkS!ClosedFile /\ ~Local
    BY DEF SinkInv, SinkS!MqttDisconnect, SinkS!inVars, Local
  <1>2. UNCHANGED <<Local, Acknowledging>>
    BY <1>1 DEF Local, Acknowledging
  <1>3. /\ link' \in Links /\ ~link'.alive /\ link'.requests = link.requests
        /\ link'.resend = link.resend /\ link'.inflight = link.inflight
        /\ link'.broken = link.broken
    BY <1>1 DEF SinkTypes, Links
  <1>4. /\ SinkTypes' /\ SinkControl' /\ BatchWaits' /\ Handed' = taken
        /\ Handed' = Handed + Len(pending) /\ Handed \in Nat /\ Handed = taken - Len(pending)
    <2>1. endpoint' \in Seq(SinkS!Message) /\ TRUE \in BOOLEAN /\ op # "none"
      BY <1>1 DEF SinkTypes
    <2> QED BY <1>1, <1>3, <2>1, ReturnKeeps
  <1>5. phase = "close" /\ Handed = taken
    <2>1. Len(<<>>) = 0
      BY EmptySeq
    <2> QED BY <1>1, <1>4, <2>1 DEF SinkControl
  <1>6. ASSUME Acknowledging PROVE BrokerTaken'
    <2>1. Holds(link.requests, link.resend, link.inflight, link.wire, link.broken, endpoint, taken)
      BY <1>1, <1>5, <1>6 DEF SinkInv, BrokerTaken
    <2>2. /\ link.requests \in Seq(SinkS!Message) /\ link.resend \in Seq(SinkS!Message)
          /\ link.inflight \in Seq(SinkS!Message) /\ link.broken \in Nat
          /\ RequestCap \in Nat /\ MaxInflight \in Nat
      BY <1>1, LinkPieces, ConfigFits
    <2>3. Cardinality((1 .. taken) \ ToSet(endpoint)) < RequestCap * (link.broken + 1) + MaxInflight
      BY <1>1, <2>1, <2>2, HoldsCount
    <2>4. SinkS!Cardinality((1 .. taken) \ SinkS!ToSet(endpoint))
              < RequestCap * (link.broken + 1) + MaxInflight
      BY <2>3, SinkSets
    <2>5. SinkS!LossAtClose'
      BY <1>1, <1>3, <2>4 DEF SinkS!LossAtClose
    <2>6. phase' = "done"
      BY <1>1, <1>5 DEF SinkS!Returned
    <2> QED BY <1>3, <2>5, <2>6 DEF BrokerTaken
  <1> QED BY <1>1, <1>2, <1>3, <1>4, <1>6 DEF SinkInv, Local, Acknowledging

-----------------------------------------------------------------------------
(***************************************************************************)
(* All of it.                                                              *)
(***************************************************************************)
LEMMA SinkInvStep == ASSUME SinkInv, SinkS!Next \/ UNCHANGED SinkS!vars PROVE SinkInv'
  <1>1. ASSUME SinkS!HttpMessage \/ SinkS!HttpBatch PROVE SinkInv'
    BY <1>1, HttpKeeps DEF SinkS!HttpMessage, SinkS!HttpBatch
  <1>2. SinkS!Over => UNCHANGED SinkS!vars
    BY DEF SinkS!Over
  <1> QED BY <1>1, <1>2, QuietSteps, CallSteps, TickKeeps, PublishKeeps, DisconnectKeeps, LinkSteps
          DEF SinkS!Next

LEMMA SinkInvInit == ASSUME SinkS!Init PROVE SinkInv
  <1>1. Len(<<>>) = 0 /\ <<>> \in Seq(SinkS!Message) /\ <<>> \in Seq(Token)
    BY EmptySeq
  <1>2. SinkTypes
    <2>1. Timeout \in Nat /\ MaxMessages \in Nat
      BY AdaptersFit DEF AdaptersFit, SinkS!SinkAssumption
    <2>2. file \in Writers /\ file.ok = TRUE /\ link \in Links
      BY <1>1 DEF SinkS!Init, SinkS!ClosedFile, SinkS!NoLink, Writers, Links
    <2>3. /\ sent = 0 /\ taken = 0 /\ idle = 0 /\ age = 0 /\ processed = 0 /\ failed = 0
          /\ 0 \in 0 .. 0 /\ 0 \in 0 .. MaxMessages /\ 0 \in 0 .. Timeout
      BY <2>1 DEF SinkS!Init
    <2>4. /\ cfg \in Configs /\ phase = "init" /\ op = "none" /\ result = "none"
          /\ upstream = TRUE /\ cancelled = FALSE /\ flushed = FALSE /\ erred = FALSE
          /\ batch = <<>> /\ pending = <<>> /\ endpoint = <<>>
      BY DEF SinkS!Init
    <2> QED BY <1>1, <2>2, <2>3, <2>4 DEF SinkTypes
  <1>3. SinkControl
    <2>1. Follows(<<>>, 0 - Len(<<>>))
      BY <1>1 DEF Follows
    <2> QED BY <1>1, <2>1 DEF SinkS!Init, SinkControl
  <1>4. BatchWaits
    BY DEF SinkS!Init, BatchWaits
  <1>5. Handed = 0
    <2>1. Handed = 0 - (0 + 0)
      BY <1>1 DEF Handed, SinkS!Init
    <2> QED BY <2>1
  <1>6. TextOf(file) = <<>> /\ file.buf = <<>> /\ file = SinkS!ClosedFile
    BY DEF TextOf, SinkS!Init, SinkS!ClosedFile
  <1>7. SinkS!Lines(0) = <<>> /\ Firsts(0) = <<>>
    BY DEF SinkS!Lines, Firsts
  <1>8. LocalWritten
    BY <1>1, <1>5, <1>6, <1>7 DEF LocalWritten, PaysTo
  <1>9. HttpTaken
    BY <1>1, <1>5, <1>7 DEF HttpTaken, RisingTo, SinkS!Init
  <1>10. BrokerTaken
    <2>1. /\ endpoint = <<>> /\ link.requests = <<>> /\ link.resend = <<>> /\ link.inflight = <<>>
          /\ link.wire = <<>> /\ link.broken = 0 /\ phase = "init"
      BY DEF SinkS!Init, SinkS!NoLink
    <2>2. RequestCap \in Nat /\ RequestCap * 0 = 0 /\ MaxInflight \in Nat
      BY <1>2, ConfigFits
    <2>3. Wired(<<>>, <<>>, <<>>)
      BY <1>1 DEF Wired
    <2>4. 1 .. Handed = {}
      BY <1>5
    <2>5. Holds(<<>>, <<>>, <<>>, <<>>, 0, <<>>, Handed)
      BY <1>1, <2>2, <2>3, <2>4 DEF Holds
    <2> QED BY <2>1, <2>5 DEF BrokerTaken
  <1>11. ~link.alive /\ link.wire = <<>>
    BY DEF SinkS!Init, SinkS!NoLink
  <1> QED BY <1>2, <1>3, <1>4, <1>6, <1>8, <1>9, <1>10, <1>11 DEF SinkInv

\* Only the messages that were handed to the client count as accepted.
LEMMA AcceptedAreHanded == ASSUME SinkInv PROVE SinkS!Accepted \subseteq 1 .. Handed
  <1>1. SinkTypes /\ SinkControl
    BY DEF SinkInv
  <1>2. taken \in Nat /\ Len(batch) \in Nat /\ Len(pending) \in Nat
    BY <1>1, ConfigFits
  <1>3. /\ ToSet(batch) = {batch[i] : i \in 1 .. Len(batch)}
        /\ ToSet(pending) = {pending[i] : i \in 1 .. Len(pending)}
    <2>1. DOMAIN batch = 1 .. Len(batch) /\ DOMAIN pending = 1 .. Len(pending)
      BY <1>1, LenProperties DEF SinkTypes
    <2> QED BY <2>1 DEF ToSet
  <1>4. Handed = taken - (Len(batch) + Len(pending)) /\ Handed \in Nat
    BY <1>1, <1>2 DEF Handed, SinkControl
  <1> SUFFICES ASSUME NEW m \in 1 .. taken, m \notin ToSet(batch), m \notin ToSet(pending),
                      ~(m <= Handed)
               PROVE  FALSE
    BY <1>2, <1>4, SinkSets DEF SinkS!Accepted
  <1>5. batch = <<>> \/ pending = <<>>
    BY <1>1 DEF SinkControl
  <1>6. Len(<<>>) = 0
    BY EmptySeq
  <1>7. CASE batch = <<>>
    <2>1. Handed = taken - Len(pending)
      BY <1>2, <1>4, <1>6, <1>7
    <2>2. m - (taken - Len(pending)) \in 1 .. Len(pending)
      BY <1>2, <2>1
    <2>3. pending[m - (taken - Len(pending))] = (taken - Len(pending)) + (m - (taken - Len(pending)))
      BY <1>1, <2>2 DEF SinkControl, Follows
    <2>4. pending[m - (taken - Len(pending))] = m
      BY <1>2, <2>3
    <2> QED BY <1>3, <2>2, <2>4
  <1>8. CASE pending = <<>>
    <2>1. Handed = taken - Len(batch)
      BY <1>2, <1>4, <1>6, <1>8
    <2>2. m - (taken - Len(batch)) \in 1 .. Len(batch)
      BY <1>2, <2>1
    <2>3. batch[m - (taken - Len(batch))] = (taken - Len(batch)) + (m - (taken - Len(batch)))
      BY <1>1, <2>2 DEF SinkControl, Follows
    <2>4. batch[m - (taken - Len(batch))] = m
      BY <1>2, <2>3
    <2> QED BY <1>3, <2>2, <2>4
  <1> QED BY <1>5, <1>7, <1>8

LEMMA SinkInvHolds ==
  ASSUME SinkInv
  PROVE  /\ SinkS!SinkTypeOK /\ SinkS!CleanEndIsComplete /\ SinkS!InOrder
         /\ SinkS!BufferAgeBounded /\ SinkS!AcceptedIsKept /\ SinkS!LossAtClose
  <1>1. SinkTypes /\ SinkControl /\ BatchWaits
    BY DEF SinkInv
  <1>2. /\ taken \in Nat /\ sent \in Nat /\ taken <= sent /\ sent <= MaxMessages
        /\ MaxMessages \in Nat /\ Timeout \in Nat /\ Len(batch) \in Nat /\ Len(pending) \in Nat
        /\ cfg.batch \in Nat \cup {SinkS!Unbatched}
    BY <1>1, ConfigFits
  <1>3. Len(<<>>) = 0
    BY EmptySeq
  <1>4. SinkS!SinkTypeOK
    <2>1. processed \in 0 .. MaxMessages /\ failed \in 0 .. MaxMessages
      <3>1. processed \in Nat /\ failed \in Nat
        BY <1>1 DEF SinkTypes
      <3>2. processed + failed + (IF op = "collect" THEN 1 ELSE 0) <= taken
        BY <1>1 DEF SinkControl
      <3>3. PICK k \in {0, 1} : k = IF op = "collect" THEN 1 ELSE 0
        OBVIOUS
      <3>4. processed + failed + k <= taken
        BY <3>2, <3>3
      <3> QED BY <1>2, <3>1, <3>4
    <2>2. taken \in 0 .. MaxMessages /\ sent \in 0 .. MaxMessages
      BY <1>2
    <2>3. file.buf \in Seq(Token) /\ file.out \in Seq(Token) /\ file.ok \in BOOLEAN
      BY <1>1 DEF SinkTypes, Writers
    <2>4. Token = SinkS!Message \cup {SinkS!LineEnd}
      BY DEF Token
    <2> QED BY <1>1, <1>2, <2>1, <2>2, <2>3, <2>4, LinkPieces DEF SinkTypes, SinkS!SinkTypeOK
  <1>5. SinkS!CleanEndIsComplete
    <2> SUFFICES ASSUME phase = "done", result = "ok", ~erred
                 PROVE  /\ taken = sent
                        /\ cfg.kind \in {"file", "stdout"} => file.out = SinkS!Lines(taken)
                        /\ cfg.kind = "http" => endpoint = [i \in 1 .. taken |-> i]
      BY DEF SinkS!CleanEndIsComplete
    <2>1. taken = sent /\ batch = <<>> /\ pending = <<>>
      BY <1>1 DEF SinkControl
    <2>2. Handed = taken
      BY <1>2, <1>3, <2>1 DEF Handed
    <2>3. ASSUME Local PROVE file.out = SinkS!Lines(taken)
      <3>1. TextOf(file) = SinkS!Lines(taken) /\ file.buf = <<>>
        BY <2>2, <2>3 DEF SinkInv, LocalWritten
      <3>2. file.out \in Seq(Token)
        BY <1>1 DEF SinkTypes, Writers
      <3>3. file.out \o <<>> = file.out
        BY <3>2, ConcatEmptySeq
      <3> QED BY <3>1, <3>3 DEF TextOf
    <2>4. ASSUME cfg.kind = "http" PROVE endpoint = [i \in 1 .. taken |-> i]
      BY <2>2, <2>4 DEF SinkInv, HttpTaken, Firsts
    <2> QED BY <2>1, <2>3, <2>4 DEF Local
  <1>6. SinkS!InOrder
    <2>1. SinkS!PayloadsRise(file.out \o file.buf)
      <3>1. CASE Local
        BY <3>1 DEF SinkInv, LocalWritten, PaysTo, TextOf, SinkS!PayloadsRise, SinkS!LineEnd
      <3>2. CASE ~Local
        <4>1. file = SinkS!ClosedFile
          BY <3>2 DEF SinkInv
        <4>2. file.out = <<>> /\ file.buf = <<>> /\ <<>> \o <<>> = <<>>
          BY <4>1 DEF SinkS!ClosedFile
        <4> QED BY <1>3, <4>2 DEF SinkS!PayloadsRise
      <3> QED BY <3>1, <3>2
    <2>2. cfg.kind = "http" => SinkS!Rising(endpoint)
      BY DEF SinkInv, HttpTaken, RisingTo, SinkS!Rising
    <2> QED BY <2>1, <2>2 DEF SinkS!InOrder
  <1>7. SinkS!BufferAgeBounded
    <2> SUFFICES ASSUME cfg.batch # SinkS!Unbatched PROVE age <= cfg.batch * Timeout
      BY DEF SinkS!BufferAgeBounded, SinkS!Batching
    <2>1. PICK n \in Nat : n = cfg.batch
      BY <1>2
    <2>2. n * Timeout \in Nat
      BY <1>2
    <2>3. CASE batch = <<>>
      BY <1>1, <2>1, <2>2, <2>3 DEF BatchWaits
    <2>4. CASE batch # <<>>
      <3>1. /\ Len(batch) < n /\ age <= (Len(batch) - 1) * Timeout + idle /\ idle \in 0 .. Timeout
            /\ age \in Nat
        BY <1>1, <2>1, <2>4 DEF BatchWaits, SinkTypes
      <3>2. PICK l \in Nat : l = Len(batch)
        BY <1>2
      <3>3. (l - 1) * Timeout + Timeout = l * Timeout
        BY <1>2
      <3>4. l * Timeout <= n * Timeout
        <4>1. n = l + (n - l) /\ n - l \in Nat
          BY <3>1, <3>2
        <4>2. n * Timeout = l * Timeout + (n - l) * Timeout /\ (n - l) * Timeout \in Nat
          BY <1>2, <4>1
        <4>3. l * Timeout \in Nat
          BY <1>2
        <4> QED BY <4>2, <4>3
      <3>5. PICK most \in Int : most = (l - 1) * Timeout
        BY <1>2
      <3>6. age <= most + Timeout
        BY <1>2, <3>1, <3>2, <3>5
      <3>7. age <= l * Timeout
        BY <3>3, <3>5, <3>6
      <3>8. l * Timeout \in Nat
        BY <1>2
      <3> QED BY <2>1, <2>2, <3>1, <3>4, <3>7, <3>8
    <2> QED BY <2>3, <2>4
  <1>8. SinkS!AcceptedIsKept
    <2> SUFFICES ASSUME Acknowledging, link.alive
                 PROVE  SinkS!Accepted \subseteq
                        SinkS!ToSet(endpoint \o link.requests \o link.resend \o link.inflight)
      BY DEF SinkS!AcceptedIsKept, Acknowledging
    <2>1. BrokerTaken /\ phase # "done"
      BY DEF SinkInv, BrokerTaken
    <2>2. PICK R \in Seq(SinkS!Message) : R = link.resend
      BY <1>1, LinkPieces
    <2>3. PICK Q \in Seq(SinkS!Message) : Q = link.requests
      BY <1>1, LinkPieces
    <2>4. PICK I \in Seq(SinkS!Message) : I = link.inflight
      BY <1>1, LinkPieces
    <2>5. PICK E \in Seq(SinkS!Message) : E = endpoint
      BY <1>1, LinkPieces
    <2>6. PICK EQ \in Seq(SinkS!Message) : EQ = E \o Q
      BY ConcatProperties
    <2>7. PICK EQR \in Seq(SinkS!Message) : EQR = EQ \o R
      BY ConcatProperties
    <2>8. ToSet(EQR \o I) = ToSet(E) \cup ToSet(Q) \cup ToSet(R) \cup ToSet(I)
      <3>1. ToSet(EQR \o I) = ToSet(EQR) \cup ToSet(I)
        BY ConcatSet
      <3>2. ToSet(EQ \o R) = ToSet(EQ) \cup ToSet(R)
        BY ConcatSet
      <3>3. ToSet(E \o Q) = ToSet(E) \cup ToSet(Q)
        BY ConcatSet
      <3> QED BY <2>6, <2>7, <3>1, <3>2, <3>3
    <2>9. 1 .. Handed \subseteq ToSet(E) \cup ToSet(R) \cup ToSet(I) \cup ToSet(Q)
      BY <2>1, <2>2, <2>3, <2>4, <2>5 DEF BrokerTaken, Holds
    <2>10. SinkS!Accepted \subseteq ToSet(EQR \o I)
      BY <2>8, <2>9, AcceptedAreHanded
    <2> QED BY <2>2, <2>3, <2>4, <2>5, <2>6, <2>7, <2>10, SinkSets
  <1>9. SinkS!LossAtClose
    <2>1. CASE Acknowledging /\ phase = "done"
      BY <2>1 DEF SinkInv, BrokerTaken
    <2>2. CASE ~(Acknowledging /\ phase = "done")
      BY <2>2 DEF SinkS!LossAtClose, Acknowledging
    <2> QED BY <2>1, <2>2
  <1> QED BY <1>4, <1>5, <1>6, <1>7, <1>8, <1>9

\* Whatever writes fail, requests time out and links break: a sink that ends
\* without an error has delivered all it took, none repeats or reorders, a
\* batch waits a bounded time, and an MQTT client keeps what it accepted until
\* close() loses a bounded number.
THEOREM SinksStayFaithful == Spec => []SinksFaithful
  <1> DEFINE Inv == part = "sink" => SinkInv
  <1>1. Init => Inv
    BY SinkInvInit DEF Init
  <1>2. Inv /\ [Next]_vars => Inv'
    <2> SUFFICES ASSUME Inv, [Next]_vars PROVE Inv'
      OBVIOUS
    <2>1. CASE SinkNext
      <3>1. part = "sink" /\ part' = "sink" /\ SinkS!Next
        BY <2>1 DEF SinkNext
      <3> QED BY <3>1, SinkInvStep
    <2>2. CASE LineNext \/ MqttNext \/ HttpNext
      BY <2>2 DEF LineNext, MqttNext, HttpNext
    <2>3. CASE UNCHANGED vars
      <3>1. part' = part /\ UNCHANGED SinkS!vars
        BY <2>3 DEF vars, sinkOwn, SinkS!vars
      <3> QED BY <3>1, SinkInvStep
    <2> QED BY <2>1, <2>2, <2>3 DEF Next
  <1>3. Inv => SinksFaithful
    BY SinkInvHolds DEF SinksFaithful
  <1> QED BY <1>1, <1>2, <1>3, PTL DEF Spec

============================================================================
