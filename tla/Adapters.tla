------------------------------ MODULE Adapters ------------------------------
(***************************************************************************)
(* The native sources and sinks side by side.                              *)
(*                                                                         *)
(* An adapter shares no state with another one: each is a task of its own  *)
(* between its outside and its channel.  So one behaviour is that of one   *)
(* adapter, the one Init picks, and the variables of the others stay Off;  *)
(* their product would repeat the states of each for every state of the    *)
(* others.                                                                 *)
(***************************************************************************)
EXTENDS Integers, Sequences

CONSTANTS
    MaxPollErrors,                          \* every source
    Inputs, MaxFaults,                      \* LineSource
    ChannelCap, Rejects, MaxBroken,         \* MqttSource
    Conn, BufferSize, MaxRequests,          \* HttpSource
    Configs, Timeout, WriterCap, MaxInflight, MaxSinkBroken,    \* AdapterSink
    RequestCap, MaxMessages                 \* MqttSource and AdapterSink

VARIABLES
    part,       \* which adapter this behaviour is about
    phase, cancelled, result,                   \* every adapter
    pollErrors, emitted, channel, held,         \* the sources
    kind, input, line, rest, faults, reader, fragments,
    eventloop, requests, up, session, subscribed, rejected, wire, published, broken,
    server, conn, request, receiver, arrived, answer,
    cfg, sent, taken, upstream, idle, op, batch, pending, age, file, endpoint, link,
    processed, failed, erred, flushed

Off == "off"

LineS == INSTANCE LineSource
MqttS == INSTANCE MqttSource
HttpS == INSTANCE HttpSource
SinkS == INSTANCE AdapterSink WITH MaxBroken <- MaxSinkBroken

\* The variables only one kind of adapter has.
lineOwn == <<kind, input, line, rest, faults, reader, fragments>>
mqttOwn == <<eventloop, requests, up, session, subscribed, rejected, wire, published, broken>>
httpOwn == <<server, conn, request, receiver, arrived, answer>>
sinkOwn == <<cfg, sent, taken, upstream, idle, op, batch, pending, age, file, endpoint, link,
             processed, failed, erred, flushed>>
sourceOwn == <<pollErrors, emitted, channel, held>>
vars == <<part, phase, cancelled, result, sourceOwn, lineOwn, mqttOwn, httpOwn, sinkOwn>>

ASSUME AdaptersFit ==
    /\ LineS!LoopAssumption /\ LineS!LineAssumption /\ MqttS!MqttAssumption
    /\ HttpS!HttpAssumption /\ SinkS!SinkAssumption

lineVars == LineS!vars
mqttVars == MqttS!vars
httpVars == HttpS!vars
sinkVars == SinkS!vars

LineOff ==
    /\ kind = Off /\ input = Off /\ line = Off /\ rest = Off /\ faults = Off
    /\ reader = Off /\ fragments = Off

MqttOff ==
    /\ eventloop = Off /\ requests = Off /\ up = Off /\ session = Off /\ subscribed = Off
    /\ rejected = Off /\ wire = Off /\ published = Off /\ broken = Off

HttpOff ==
    /\ server = Off /\ conn = Off /\ request = Off /\ receiver = Off /\ arrived = Off
    /\ answer = Off

SinkOff ==
    /\ cfg = Off /\ sent = Off /\ taken = Off /\ upstream = Off /\ idle = Off /\ op = Off
    /\ batch = Off /\ pending = Off /\ age = Off /\ file = Off /\ endpoint = Off
    /\ link = Off /\ processed = Off /\ failed = Off /\ erred = Off /\ flushed = Off

SourceOff == pollErrors = Off /\ emitted = Off /\ channel = Off /\ held = Off

Init ==
    \/ part = "line" /\ LineS!Init /\ MqttOff /\ HttpOff /\ SinkOff
    \/ part = "mqtt" /\ MqttS!Init /\ LineOff /\ HttpOff /\ SinkOff
    \/ part = "http" /\ HttpS!Init /\ held = Off /\ LineOff /\ MqttOff /\ SinkOff
    \/ part = "sink" /\ SinkS!Init /\ SourceOff /\ LineOff /\ MqttOff /\ HttpOff

LineNext == part = "line" /\ LineS!Next /\ UNCHANGED <<part, mqttOwn, httpOwn, sinkOwn>>

MqttNext == part = "mqtt" /\ MqttS!Next /\ UNCHANGED <<part, lineOwn, httpOwn, sinkOwn>>

HttpNext == part = "http" /\ HttpS!Next /\ UNCHANGED <<part, held, lineOwn, mqttOwn, sinkOwn>>

SinkNext ==
    part = "sink" /\ SinkS!Next /\ UNCHANGED <<part, sourceOwn, lineOwn, mqttOwn, httpOwn>>

Next == LineNext \/ MqttNext \/ HttpNext \/ SinkNext

\* The fairness of each adapter's own module.
Fairness ==
    /\ WF_lineVars(part = "line" /\ LineS!SourceTask)
    /\ WF_mqttVars(part = "mqtt" /\ MqttS!SourceTask) /\ WF_mqttVars(part = "mqtt" /\ MqttS!Works)
    /\ WF_httpVars(part = "http" /\ HttpS!SourceTask)
    /\ \A c \in Conn : /\ WF_httpVars(part = "http" /\ HttpS!Body(c))
                        /\ SF_httpVars(part = "http" /\ HttpS!SendMessage(c))
    /\ WF_sinkVars(part = "sink" /\ SinkS!SinkInit)
    /\ WF_sinkVars(part = "sink" /\ SinkS!Recv)
    /\ WF_sinkVars(part = "sink" /\ SinkS!SinkTask)
    /\ WF_sinkVars(part = "sink" /\ (SinkS!HttpMessage \/ SinkS!HttpBatch))
    /\ WF_sinkVars(part = "sink" /\ (SinkS!Publish \/ SinkS!MqttDisconnect))
    /\ WF_sinkVars(part = "sink" /\ SinkS!Connect)
    /\ WF_sinkVars(part = "sink" /\ SinkS!Transmit)
    /\ WF_sinkVars(part = "sink" /\ link.alive /\ SinkS!Arrive)
    /\ WF_sinkVars(part = "sink" /\ SinkS!Acknowledge)

Spec == Init /\ [][Next]_vars /\ Fairness

-----------------------------------------------------------------------------
\* Whatever reads fail and links break, a source passes on what it met in
\* order and once; a line source that came to its end of file has passed on
\* every line of text and no other, apart from one line for each read that
\* failed within it, and bad data never costs it its error budget; an HTTP source's answers tell each client what became of its
\* message, and when it closes at most buffer_size acknowledged ones are lost.
SourcesFaithful ==
    /\ part = "line" => LineS!LineTypeOK
    /\ part = "mqtt" => MqttS!MqttTypeOK
    /\ part = "http" => HttpS!HttpTypeOK
    /\ part \in {"line", "mqtt"} => LineS!EmittedInOrder
    /\ part = "line" => LineS!EofIsComplete /\ LineS!BadDataIsNoError
    /\ part = "http" => HttpS!AnswerIsTrue /\ HttpS!LossAtClose

\* A sink that ends without an error has delivered all it took; whatever
\* fails it repeats and reorders nothing, no message waits in a batch for
\* ever, and what the MQTT client accepted stays with it until close(), which
\* loses a bounded number.
SinksFaithful ==
    part = "sink" =>
        /\ SinkS!SinkTypeOK
        /\ SinkS!CleanEndIsComplete
        /\ SinkS!InOrder
        /\ SinkS!BufferAgeBounded
        /\ SinkS!AcceptedIsKept
        /\ SinkS!LossAtClose

\* A cancelled source ends although no input comes, a sink once its input is
\* closed, although its broker may have been away.
Ending == IF part = "sink" THEN ~upstream ELSE cancelled

AdaptersEnd == Ending ~> phase \in {"refused", "done"}

\* A link that broke is connected and subscribed again, a batch is handed
\* over although no message follows it, and every HTTP request is answered
\* unless its client hangs up, also one that waits for room when the source is
\* closed and one on a connection that outlives it.
Away(c) ==
    CASE part = "mqtt" -> ~rejected /\ ~(up /\ subscribed)
      [] part = "sink" -> phase = "run" /\ batch # <<>>
      [] part = "http" -> conn[c] \in {"body", "send"}
      [] OTHER -> FALSE

Back(c) ==
    CASE part = "mqtt" -> phase = "done" \/ rejected \/ (up /\ subscribed)
      [] part = "sink" -> batch = <<>>
      [] part = "http" -> conn[c] \in {"idle", "gone"}
      [] OTHER -> TRUE

AdaptersRecover == \A c \in Conn : Away(c) ~> Back(c)

-----------------------------------------------------------------------------
(***************************************************************************)
(* The inputs and sinks of the instance TLC checks.                        *)
(***************************************************************************)
SmallInputs == UNION {[1..n -> {"text", "binary"}] : n \in 0..3}

Sink(k, b, t, q) == [kind |-> k, batch |-> b, target |-> TRUE, topic |-> t, qos |-> q]

SmallSinks ==
    {Sink(k, b, TRUE, 0) : k \in {"file", "stdout"}, b \in {-1, 0, 2, 3}}
    \cup {[Sink("file", 2, TRUE, 0) EXCEPT !.target = FALSE]}
    \cup {Sink("http", b, TRUE, 0) : b \in {-1, 2}}
    \cup {Sink("mqtt", b, t, q) : b \in {-1, 2}, t \in BOOLEAN, q \in {0, 1}}
=============================================================================
