---------------------------- MODULE AdapterSink ----------------------------
(***************************************************************************)
(* run_sink_loop driving one of the file, stdout, HTTP and MQTT sinks, each *)
(* with or without a BatchBuffer.                                          *)
(*                                                                         *)
(* Messages are the numbers 1, 2, ... in the order of the input channel.   *)
(* What a BufWriter holds and what reaches a file is a sequence of tokens: *)
(* a message's payload is its number, the line end written after it is     *)
(* LineEnd.  What reaches an HTTP endpoint or a broker is a sequence of    *)
(* messages.  Time passes only while the loop waits for input; batch       *)
(* statistics, which nothing reads, are left out.                          *)
(***************************************************************************)
EXTENDS Integers, Sequences, FiniteSets, SequencesExt

CONSTANTS
    Configs,        \* the sinks: [kind, batch, target, topic, qos]
    MaxMessages,    \* bound: messages sent to the sink
    Timeout,        \* batch_timeout_ms, in ticks
    WriterCap,      \* tokens a BufWriter holds
    RequestCap,     \* AsyncClient::new(.., 10)
    MaxInflight,    \* max_inflight
    MaxBroken       \* bound: times the broker's link breaks

Unbatched == -1     \* batch_size: None
LineEnd == 0

\* What an instance has to give.
SinkAssumption ==
    /\ {MaxMessages, Timeout, WriterCap, RequestCap, MaxInflight} \subseteq Nat \ {0}
    /\ MaxBroken \in Nat
    /\ \A c \in Configs : /\ c.kind \in {"file", "stdout", "http", "mqtt"}
                          /\ c.batch \in Nat \cup {Unbatched}
                          /\ {c.target, c.topic} \subseteq BOOLEAN
                          /\ c.qos \in 0..2

VARIABLES
    cfg,        \* which sink it is
    phase,      \* where run_sink_loop is; "refused": validate() or init() failed
    sent, taken,    \* messages put into and taken from the input channel
    upstream,   \* is there a sender left?
    cancelled,
    idle,       \* how long the loop has waited for input
    op,         \* the sink call that awaits: "none", "collect", "flush", "close"
    batch,      \* BatchBuffer.buffer
    pending,    \* the messages that call still has to hand over
    age,        \* history: how long the first message of batch has waited
    file,       \* [buf, out, ok]: the BufWriter, what reached the file, did it fail
    endpoint,   \* what reached the HTTP endpoint or the broker
    link,       \* [requests, resend, inflight, wire, up, alive, broken]: rumqttc
    processed, failed,  \* NodeMetrics
    erred,      \* history: has a sink error been counted or logged?
    flushed,    \* did the final flush succeed?
    result      \* what the task returned

ioVars == <<file, endpoint, link>>
inVars == <<sent, upstream, cancelled>>
vars == <<cfg, phase, sent, taken, upstream, cancelled, idle, op, batch, pending, age,
          file, endpoint, link, processed, failed, erred, flushed, result>>

Batching == cfg.batch # Unbatched
QueueEmpty == taken = sent

AgeCap == cfg.batch * Timeout + 1     \* bound of age

-----------------------------------------------------------------------------
(***************************************************************************)
(* BatchBuffer.                                                            *)
(***************************************************************************)

\* What push() keeps, and the batch it returns: empty for None.
Push(m) ==
    LET grown == Append(batch, m)
    IN IF Len(grown) >= cfg.batch THEN [keep |-> <<>>, full |-> grown]
       ELSE [keep |-> grown, full |-> <<>>]

(***************************************************************************)
(* BufWriter (external): flush_buf() writes a prefix of the buffer when it *)
(* fails and keeps the rest; write_all() flushes first when there is no    *)
(* room, and its bytes are not in the buffer when that fails.  An operator *)
(* gives the set of possible outcomes.                                     *)
(***************************************************************************)
FlushWriter(w) ==
    {[buf |-> <<>>, out |-> w.out \o w.buf, ok |-> TRUE]}
    \cup {[buf |-> SubSeq(w.buf, n + 1, Len(w.buf)), out |-> w.out \o SubSeq(w.buf, 1, n),
           ok |-> FALSE] : n \in 0..(Len(w.buf) - 1)}

WriteAll(w, token) ==
    IF Len(w.buf) < WriterCap THEN {[w EXCEPT !.buf = Append(@, token)]}
    ELSE {IF x.ok THEN [x EXCEPT !.buf = <<token>>] ELSE x : x \in FlushWriter(w)}

\* The first error ends a function that uses ?.
Then(outcomes, Step(_)) == UNION {IF x.ok THEN Step(x) ELSE {x} : x \in outcomes}

\* A payload and its line end; the loop over the envelopes of a batch.
WriteLine(outcomes, m) ==
    Then(outcomes, LAMBDA w : Then(WriteAll(w, m), LAMBDA x : WriteAll(x, LineEnd)))

WriteLines(ms) ==
    LET after[i \in 0..Len(ms)] == IF i = 0 THEN {file} ELSE WriteLine(after[i - 1], ms[i])
    IN after[Len(ms)]

\* FileSink::write_batch.
WriteBatch(ms) == Then(WriteLines(ms), FlushWriter)

\* StdoutSink::write_batch, the same steps on another writer.
PrintBatch(ms) == Then(WriteLines(ms), FlushWriter)

-----------------------------------------------------------------------------
(***************************************************************************)
(* run_sink_loop: what follows a sink call that has returned.              *)
(***************************************************************************)
Opened(w) == [w EXCEPT !.ok = TRUE]

Returned(o, ok) ==
    /\ op' = "none"
    /\ pending' = <<>>
    /\ idle' = 0
    /\ erred' = (erred \/ ~ok)
    /\ processed' = processed + (IF phase = "run" /\ o = "collect" /\ ok THEN 1 ELSE 0)
    /\ failed' = failed + (IF phase = "run" /\ o = "collect" /\ ~ok THEN 1 ELSE 0)
    /\ flushed' = IF phase = "flush" THEN ok ELSE flushed
    /\ phase' = CASE phase = "flush" -> "close" [] phase = "close" -> "done" [] OTHER -> phase
    /\ result' = IF phase # "close" THEN result
                 ELSE IF flushed /\ ok THEN "ok" ELSE "failed"

\* A call that only touches memory or a local file returns at once.
Writes(o, kept, outcomes) ==
    /\ batch' = kept
    /\ age' = IF kept = <<>> THEN 0 ELSE age
    /\ \E w \in outcomes : file' = Opened(w) /\ Returned(o, w.ok)
    /\ UNCHANGED <<endpoint, link>>

\* A call that goes over the network awaits.
Starts(o, kept, ms) ==
    /\ batch' = kept
    /\ age' = IF kept = <<>> THEN 0 ELSE age
    /\ op' = o
    /\ pending' = ms
    /\ UNCHANGED <<phase, idle, processed, failed, erred, flushed, result, ioVars>>

Buffers(o, kept) == Writes(o, kept, {file})

(***************************************************************************)
(* The four sinks: collect().                                              *)
(***************************************************************************)
FileCollect(m) ==
    /\ cfg.kind = "file"
    /\ IF Batching
       THEN Writes("collect", Push(m).keep,
                   IF Push(m).full = <<>> THEN {file} ELSE WriteBatch(Push(m).full))
       ELSE Writes("collect", <<>>, WriteLines(<<m>>))

StdoutCollect(m) ==
    /\ cfg.kind = "stdout"
    /\ IF Batching
       THEN Writes("collect", Push(m).keep,
                   IF Push(m).full = <<>> THEN {file} ELSE PrintBatch(Push(m).full))
       ELSE Writes("collect", <<>>, Then(WriteLines(<<m>>), FlushWriter))

HttpCollect(m) ==
    /\ cfg.kind = "http"
    /\ IF ~Batching THEN Starts("collect", <<>>, <<m>>)
       ELSE IF Push(m).full = <<>> THEN Buffers("collect", Push(m).keep)
       ELSE Starts("collect", Push(m).keep, Push(m).full)

MqttCollect(m) ==
    /\ cfg.kind = "mqtt"
    /\ IF ~Batching THEN Starts("collect", <<>>, <<m>>)
       ELSE IF Push(m).full = <<>> THEN Buffers("collect", Push(m).keep)
       ELSE Starts("collect", Push(m).keep, Push(m).full)

CallCollect(m) == FileCollect(m) \/ StdoutCollect(m) \/ HttpCollect(m) \/ MqttCollect(m)

(***************************************************************************)
(* flush().                                                                *)
(***************************************************************************)
FileFlush ==
    /\ cfg.kind = "file"
    /\ Writes("flush", <<>>,
              Then(IF batch = <<>> THEN {file} ELSE WriteBatch(batch), FlushWriter))

StdoutFlush ==
    /\ cfg.kind = "stdout"
    /\ Writes("flush", <<>>,
              Then(IF batch = <<>> THEN {file} ELSE PrintBatch(batch), FlushWriter))

HttpFlush ==
    /\ cfg.kind = "http"
    /\ IF batch = <<>> THEN Buffers("flush", <<>>) ELSE Starts("flush", <<>>, batch)

MqttFlush ==
    /\ cfg.kind = "mqtt"
    /\ IF batch = <<>> THEN Buffers("flush", <<>>) ELSE Starts("flush", <<>>, batch)

CallFlush == FileFlush \/ StdoutFlush \/ HttpFlush \/ MqttFlush

(***************************************************************************)
(* close().  A sink whose close() fails is dropped with its writer, which  *)
(* tries to flush once more and tells nobody (external).                   *)
(***************************************************************************)
Dropped(outcomes) ==
    UNION {IF w.ok THEN {w} ELSE {[x EXCEPT !.ok = FALSE] : x \in FlushWriter(w)} : w \in outcomes}

FileClose ==
    /\ cfg.kind = "file"
    /\ Writes("close", <<>>,
              Dropped(Then(IF batch = <<>> THEN {file} ELSE WriteBatch(batch), FlushWriter)))

StdoutClose ==
    /\ cfg.kind = "stdout"
    /\ Writes("close", <<>>,
              Dropped(Then(IF batch = <<>> THEN {file} ELSE PrintBatch(batch), FlushWriter)))

HttpClose ==
    /\ cfg.kind = "http"
    /\ IF batch = <<>> THEN Buffers("close", <<>>) ELSE Starts("close", <<>>, batch)

\* What is left is published, then MqttDisconnect follows.
MqttClose ==
    /\ cfg.kind = "mqtt"
    /\ Starts("close", <<>>, batch)

CallClose == FileClose \/ StdoutClose \/ HttpClose \/ MqttClose

-----------------------------------------------------------------------------
(***************************************************************************)
(* validate() and init().                                                  *)
(***************************************************************************)

\* "target": what validate() asks of the destination.
StdoutValid(c) == c.batch # 0

FileValid(c) == c.target /\ c.batch # 0      \* the path's directory exists

HttpValid(c) == c.target /\ c.batch # 0      \* the URL has a scheme

MqttValid(c) == c.target /\ c.batch # 0      \* broker, topic, client id not empty

Validate(c) ==
    CASE c.kind = "stdout" -> StdoutValid(c)
      [] c.kind = "file" -> FileValid(c)
      [] c.kind = "http" -> HttpValid(c)
      [] c.kind = "mqtt" -> MqttValid(c)

ClosedFile == [buf |-> <<>>, out |-> <<>>, ok |-> TRUE]
NoLink == [requests |-> <<>>, resend |-> <<>>, inflight |-> <<>>, wire |-> <<>>, up |-> FALSE,
           alive |-> FALSE, broken |-> 0]

Init ==
    /\ cfg \in Configs
    /\ phase = "init"
    /\ sent = 0 /\ taken = 0 /\ upstream = TRUE /\ cancelled = FALSE
    /\ idle = 0 /\ op = "none" /\ batch = <<>> /\ pending = <<>> /\ age = 0
    /\ file = ClosedFile
    /\ endpoint = <<>>
    /\ link = NoLink
    /\ processed = 0 /\ failed = 0 /\ erred = FALSE
    /\ flushed = FALSE /\ result = "none"

\* init(): the file may not be created and the HTTP client not be built.
StdoutInit == cfg.kind = "stdout" /\ phase' = "run" /\ UNCHANGED link

FileInit == cfg.kind = "file" /\ phase' \in {"run", "refused"} /\ UNCHANGED link

HttpInit == cfg.kind = "http" /\ phase' \in {"run", "refused"} /\ UNCHANGED link

MqttInit == cfg.kind = "mqtt" /\ phase' = "run" /\ link' = [link EXCEPT !.alive = TRUE]

Refuse == ~Validate(cfg) /\ phase' = "refused" /\ UNCHANGED link

SinkInit ==
    /\ phase = "init"
    /\ \/ Refuse
       \/ Validate(cfg) /\ (StdoutInit \/ FileInit \/ HttpInit \/ MqttInit)
    /\ UNCHANGED <<cfg, inVars, taken, idle, op, batch, pending, age, file, endpoint,
                   processed, failed, erred, flushed, result>>

-----------------------------------------------------------------------------
(***************************************************************************)
(* The loop and its surroundings.                                          *)
(***************************************************************************)
Send ==
    /\ upstream
    /\ phase \in {"init", "run", "drain"}
    /\ sent < MaxMessages
    /\ sent' = sent + 1
    /\ UNCHANGED <<cfg, phase, taken, upstream, cancelled, idle, op, batch, pending, age,
                   ioVars, processed, failed, erred, flushed, result>>

SendersGone ==
    /\ upstream
    /\ upstream' = FALSE
    /\ UNCHANGED <<cfg, phase, sent, taken, cancelled, idle, op, batch, pending, age,
                   ioVars, processed, failed, erred, flushed, result>>

Cancel ==
    /\ ~cancelled
    /\ cancelled' = TRUE
    /\ UNCHANGED <<cfg, phase, sent, taken, upstream, idle, op, batch, pending, age,
                   ioVars, processed, failed, erred, flushed, result>>

\* recv() in the loop and try_recv() in the drain; input comes first.
Recv ==
    /\ phase \in {"run", "drain"}
    /\ op = "none"
    /\ ~QueueEmpty
    /\ taken' = taken + 1
    /\ CallCollect(taken + 1)
    /\ UNCHANGED <<cfg, inVars>>

LeaveLoop ==
    /\ phase = "run"
    /\ op = "none"
    /\ QueueEmpty
    /\ cancelled \/ ~upstream
    /\ phase' = "drain"
    /\ UNCHANGED <<cfg, inVars, taken, idle, op, batch, pending, age, ioVars,
                   processed, failed, erred, flushed, result>>

\* The timer of the batching select, which each turn of the loop restarts.
Tick ==
    /\ phase = "run"
    /\ op = "none"
    /\ Batching
    /\ QueueEmpty /\ upstream /\ ~cancelled
    /\ idle < Timeout
    /\ idle' = idle + 1
    /\ age' = IF batch = <<>> THEN 0 ELSE Min({age + 1, AgeCap})
    /\ UNCHANGED <<cfg, phase, inVars, taken, op, batch, pending, ioVars,
                   processed, failed, erred, flushed, result>>

IdleFlush ==
    /\ phase = "run"
    /\ op = "none"
    /\ QueueEmpty /\ upstream /\ ~cancelled
    /\ Batching /\ idle = Timeout
    /\ CallFlush
    /\ UNCHANGED <<cfg, inVars, taken>>

DrainEnds ==
    /\ phase = "drain"
    /\ op = "none"
    /\ QueueEmpty
    /\ phase' = "flush"
    /\ UNCHANGED <<cfg, inVars, taken, idle, op, batch, pending, age, ioVars,
                   processed, failed, erred, flushed, result>>

FinalFlush ==
    /\ phase = "flush"
    /\ op = "none"
    /\ CallFlush
    /\ UNCHANGED <<cfg, inVars, taken>>

Close ==
    /\ phase = "close"
    /\ op = "none"
    /\ CallClose
    /\ UNCHANGED <<cfg, inVars, taken>>

-----------------------------------------------------------------------------
(***************************************************************************)
(* HttpSink: one request per message or per batch.  A request that times   *)
(* out, or is answered with an error, may have been taken by the endpoint. *)
(***************************************************************************)
HttpAnswer(ok) ==
    /\ cfg.kind = "http"
    /\ op # "none"
    /\ \/ endpoint' = endpoint \o pending
       \/ ~ok /\ endpoint' = endpoint
    /\ Returned(op, ok)
    /\ UNCHANGED <<cfg, inVars, taken, batch, age, file, link>>

HttpMessage == ~Batching /\ \E ok \in BOOLEAN : HttpAnswer(ok)

HttpBatch == Batching /\ \E ok \in BOOLEAN : HttpAnswer(ok)

(***************************************************************************)
(* MqttSink: publish() waits for room among the client's requests; it      *)
(* fails on a topic that cannot be published to, and the rest of the batch *)
(* goes with it.                                                           *)
(***************************************************************************)
\* Fault: try_publish, and a full channel is not an error.
PublishIfRoom ==
    /\ cfg.kind = "mqtt"
    /\ op # "none" /\ pending # <<>>
    /\ link' = [link EXCEPT !.requests = IF Len(@) < RequestCap THEN Append(@, Head(pending)) ELSE @]
    /\ IF Len(pending) = 1 /\ op # "close"
       THEN Returned(op, TRUE)
       ELSE /\ pending' = Tail(pending)
            /\ UNCHANGED <<phase, idle, op, processed, failed, erred, flushed, result>>
    /\ UNCHANGED <<cfg, inVars, taken, batch, age, file, endpoint>>

Publish ==
    /\ cfg.kind = "mqtt"
    /\ op # "none" /\ pending # <<>>
    /\ IF ~cfg.topic
       THEN /\ Returned(op, FALSE)
            /\ UNCHANGED link
       ELSE /\ Len(link.requests) < RequestCap
            /\ link' = [link EXCEPT !.requests = Append(@, Head(pending))]
            /\ IF Len(pending) = 1 /\ op # "close"
               THEN Returned(op, TRUE)
               ELSE /\ pending' = Tail(pending)
                    /\ UNCHANGED <<phase, idle, op, processed, failed, erred, flushed, result>>
    /\ UNCHANGED <<cfg, inVars, taken, batch, age, file, endpoint>>

\* close() waits for room for its disconnect and then aborts the loop, with
\* whatever the client has not sent; what it has written may still arrive.
MqttDisconnect ==
    /\ cfg.kind = "mqtt"
    /\ op = "close" /\ pending = <<>>
    /\ Len(link.requests) < RequestCap
    /\ link' = [link EXCEPT !.alive = FALSE]
    /\ Returned(op, TRUE)
    /\ UNCHANGED <<cfg, inVars, taken, batch, age, file, endpoint>>

(***************************************************************************)
(* The event loop task: it polls until it is aborted and sleeps after an   *)
(* error.  rumqttc (external) writes in order while the link is up and     *)
(* fewer than max_inflight publishes wait for their acknowledgement.  What *)
(* is written arrives later, or never when the link breaks before: rumqttc *)
(* then sets aside what waits, and the requests, for the next connection.  *)
(***************************************************************************)
LinkVars == <<cfg, phase, inVars, taken, idle, op, batch, pending, age, file,
              processed, failed, erred, flushed, result>>

Connect ==
    /\ link.alive /\ ~link.up
    /\ link' = [link EXCEPT !.up = TRUE]
    /\ UNCHANGED <<LinkVars, endpoint>>

Broken(l) ==
    [l EXCEPT !.up = FALSE, !.broken = @ + 1, !.requests = <<>>, !.inflight = <<>>,
              !.wire = <<>>, !.resend = l.resend \o l.inflight \o l.requests]

LinkBreaks ==
    /\ link.alive /\ link.up
    /\ link.broken < MaxBroken
    /\ link' = Broken(link)
    /\ UNCHANGED <<LinkVars, endpoint>>

\* Written to the socket.
Transmit ==
    /\ link.alive /\ link.up
    /\ link.resend \o link.requests # <<>>
    /\ Len(link.inflight) < MaxInflight
    /\ LET m == Head(link.resend \o link.requests)
           rest == IF link.resend # <<>> THEN [link EXCEPT !.resend = Tail(@)]
                   ELSE [link EXCEPT !.requests = Tail(@)]
       IN link' = [rest EXCEPT !.wire = Append(@, m),
                               !.inflight = IF cfg.qos = 0 THEN @ ELSE Append(@, m)]
    /\ UNCHANGED <<LinkVars, endpoint>>

Arrive ==
    /\ link.wire # <<>>
    /\ endpoint' = Append(endpoint, Head(link.wire))
    /\ link' = [link EXCEPT !.wire = Tail(@)]
    /\ UNCHANGED LinkVars

\* The oldest publish that waits has arrived and its acknowledgement is back.
Acknowledge ==
    /\ link.alive /\ link.up
    /\ Len(link.inflight) > Len(link.wire)
    /\ link' = [link EXCEPT !.inflight = Tail(@)]
    /\ UNCHANGED <<LinkVars, endpoint>>

EventLoop == Connect \/ LinkBreaks \/ Transmit \/ Arrive \/ Acknowledge

Over == phase \in {"refused", "done"} /\ UNCHANGED vars

Next ==
    \/ SinkInit \/ Send \/ SendersGone \/ Cancel \/ Recv \/ LeaveLoop \/ Tick \/ IdleFlush
    \/ DrainEnds \/ FinalFlush \/ Close
    \/ HttpMessage \/ HttpBatch \/ Publish \/ MqttDisconnect \/ EventLoop
    \/ Over

Spec == Init /\ [][Next]_vars

(***************************************************************************)
(* Fairness: the task is polled, timers expire, the endpoint answers (the  *)
(* client has a timeout) and the broker can be reached in the end.         *)
(***************************************************************************)
SinkTask == LeaveLoop \/ Tick \/ IdleFlush \/ DrainEnds \/ FinalFlush \/ Close

FairSpec ==
    /\ Spec
    /\ WF_vars(SinkInit)
    /\ WF_vars(Recv)
    /\ WF_vars(SinkTask)
    /\ WF_vars(HttpMessage \/ HttpBatch)
    /\ WF_vars(Publish \/ MqttDisconnect)
    /\ WF_vars(Connect) /\ WF_vars(Transmit) /\ WF_vars(link.alive /\ Arrive) /\ WF_vars(Acknowledge)

-----------------------------------------------------------------------------
(***************************************************************************)
(* Properties.                                                             *)
(***************************************************************************)
Message == 1..MaxMessages

SinkTypeOK ==
    /\ cfg \in Configs
    /\ phase \in {"init", "refused", "run", "drain", "flush", "close", "done"}
    /\ {sent, taken, processed, failed} \subseteq 0..MaxMessages
    /\ taken <= sent
    /\ {upstream, cancelled, flushed, erred, file.ok, link.up, link.alive} \subseteq BOOLEAN
    /\ idle \in 0..Timeout
    /\ op \in {"none", "collect", "flush", "close"}
    /\ {batch, pending, endpoint, link.requests, link.resend, link.inflight, link.wire}
          \subseteq Seq(Message)
    /\ {file.buf, file.out} \subseteq Seq(Message \cup {LineEnd})
    /\ result \in {"none", "ok", "failed"}

Lines(n) == [i \in 1..(2 * n) |-> IF i % 2 = 1 THEN (i + 1) \div 2 ELSE LineEnd]

\* A file, stdout or HTTP sink that ends without any error counted or logged
\* has delivered every message it took, whole, once and in the order of the
\* channel: nothing is left in the batch, the writer or the channel.
CleanEndIsComplete ==
    phase = "done" /\ result = "ok" /\ ~erred =>
        /\ ~upstream /\ ~cancelled => taken = sent
        /\ cfg.kind \in {"file", "stdout"} => file.out = Lines(taken)
        /\ cfg.kind = "http" => endpoint = [i \in 1..taken |-> i]

\* Whatever fails, a sink repeats and reorders nothing: the payloads a file or
\* stdout gets rise strictly, and so do those of an HTTP endpoint.
Rising(s) == \A i, j \in 1..Len(s) : i < j => s[i] < s[j]

PayloadsRise(text) ==
    \A i, j \in 1..Len(text) :
        i < j /\ text[i] # LineEnd /\ text[j] # LineEnd => text[i] < text[j]

InOrder == PayloadsRise(file.out \o file.buf) /\ (cfg.kind = "http" => Rising(endpoint))

\* Until close() aborts the event loop, a message the client has accepted is
\* with the broker, on its way or still a request: a broken link loses none
\* when the broker acknowledges.
Accepted == {m \in 1..taken : m \notin ToSet(batch) \cup ToSet(pending)}

AcceptedIsKept ==
    cfg.kind = "mqtt" /\ cfg.topic /\ cfg.qos > 0 /\ link.alive =>
        Accepted \subseteq ToSet(endpoint \o link.requests \o link.resend \o link.inflight)

\* close() of the MQTT sink aborts a loop that may still hold messages: fewer
\* than a channel of them and those that wait for their acknowledgement, and
\* another channel for every time the link broke.
LossAtClose ==
    cfg.kind = "mqtt" /\ cfg.topic /\ cfg.qos > 0 /\ phase = "done" =>
        Cardinality((1..taken) \ ToSet(endpoint)) < RequestCap * (link.broken + 1) + MaxInflight

\* A buffered message leaves the batch within batch_size timeouts of waiting:
\* each message that restarts the timer also fills the batch.
BufferAgeBounded == Batching => age <= cfg.batch * Timeout

\* batch_timeout_ms as StdoutSinkBatchConfig states it.
FlushedByTimeout == Batching => age <= Timeout

\* Every payload a sink writes is followed by its line end, as "line-by-line"
\* and "one per line" promise.
OnePerLine ==
    LET text == file.out \o file.buf
    IN \A i \in 1..(Len(text) - 1) : text[i] # LineEnd => text[i + 1] = LineEnd

=============================================================================
