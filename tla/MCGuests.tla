------------------------------ MODULE MCGuests ------------------------------
(***************************************************************************)
(* What runs in or for a guest, on small instances: the lifecycle of a     *)
(* Wasm node, its outbound HTTP requests, and the plugins.                 *)
(*                                                                         *)
(* A plugin sees the node through its calls only, and a request belongs to *)
(* one guest: none of these shares state with another.  So one behaviour   *)
(* is that of one of them, the one Init picks, and the variables of the    *)
(* others stay Off.                                                        *)
(***************************************************************************)
EXTENDS JsonText, SequencesExt

CONSTANTS None, Garbled

VARIABLES
    part,       \* which of them this behaviour is about
    pc,                                                             \* node and HTTP
    kind, store, pre, config, op, saved, fresh, replacement, canary, used, ran,
    grants, request, dest, answer, address, left, frames, sent, error,
    table, last, native, payload, cfg, st,                          \* several plugins
    inForce, plugin, version,
    wasm,
    edges,
    frame, pos, sensors,
    next, best, out,
    acc, seen, severity, restarts

Off == "off"

-----------------------------------------------------------------------------
(***************************************************************************)
(* The node: a metered engine, in which only filters have a budget of      *)
(* their own, and one with an epoch deadline.                              *)
(***************************************************************************)
NoRoleFuel == [k \in {"transform", "filter", "router"} |-> None]

Metered == INSTANCE WasmNode WITH
    Components <- {"v1", "v2"}, Configs <- {"c1", "c2"}, Grants <- {"g", "h"}, Granted <- "g",
    Deadline <- None, LifecycleTicks <- 2, NodeFuel <- None,
    RoleFuel <- [NoRoleFuel EXCEPT !["filter"] = 2], OtherFuel <- TRUE, Most <- 2

Timed == INSTANCE WasmNode WITH
    Components <- {"v1", "v2"}, Configs <- {"c1"}, Grants <- {"g", "h"}, Granted <- "g",
    Deadline <- 2, LifecycleTicks <- 1, NodeFuel <- None,
    RoleFuel <- NoRoleFuel, OtherFuel <- FALSE, Most <- 0

(***************************************************************************)
(* Outbound HTTP: both sides of the edge of every special address block;   *)
(* grants and requests that differ in one component; and plain HTTP.       *)
(***************************************************************************)
V4(a, b, c, d) == [v |-> 4, octets |-> <<a, b, c, d>>]
V6(s0, s1, tail) == [v |-> 6, segments |-> <<s0, s1>>, tail |-> tail]
Public == V4(93, 184, 216, 34)
Loopback == V4(127, 0, 0, 1)
LocalV6 == V6(0, 0, "one")
PublicV6 == V6(9734, 10240, "other")

Name(n, up) == [form |-> "name", name |-> n, upper |-> up]
Ip(ip) == [form |-> "ip", ip |-> ip]
Dest(s, h, p) == [scheme |-> s, host |-> h, port |-> p]
Req(m, s, h, u, p) == [method |-> m, scheme |-> s, host |-> h, user |-> u, port |-> p]

EdgeAddresses ==
    {V4(a, b, c, 255) :
       a \in {0, 1, 10, 100, 127, 169, 172, 192, 198, 203, 223, 224, 255},
       b \in {0, 15, 16, 18, 20, 31, 32, 51, 63, 64, 128, 168, 254}, c \in {0, 2, 100, 113}}
    \cup {V6(8193, 3512, "other"), V6(8193, 3513, "other"), V6(16384, 0, "other"),
          V6(64512, 0, "other"), V6(0, 0, "one"), V6(0, 0, "mapped")}

Literals ==
    {V4(a, b, 0, 1) : a \in {0, 10, 100, 127, 169, 172, 192, 224, 255},
                      b \in {0, 16, 31, 64, 168, 254}}

HttpNames == INSTANCE OutboundHttp WITH
    GrantLists <- {<<Dest("https", Name("n", TRUE), None)>>}
                  \cup {<<Dest("http", Ip(ip), 8080)>> : ip \in Literals},
    Requests <- {Req("GET", "https", Name("n", FALSE), "none", None)}
                \cup {Req("GET", "http", Ip(ip), "none", 8080) : ip \in Literals},
    Answers <- {<<ip>> : ip \in EdgeAddresses}, Timeout <- 1, MaxFrames <- 0

MixedAnswers == {<<>>, <<Loopback>>, <<Public>>, <<Loopback, Public>>, <<Public, Loopback>>}

HttpPolicy == INSTANCE OutboundHttp WITH
    GrantLists <-
      {<<>>,
       <<Dest("https", Name("n", TRUE), None), Dest("http", Ip(Loopback), 8080)>>,
       <<Dest("http", Name("n", FALSE), None), Dest("http", Name("n", TRUE), 80)>>,
       <<Dest("http", Ip(LocalV6), 8080), Dest("https", Ip(PublicV6), None)>>,
       <<Dest("http", Ip(V6(65152, 0, "other")), 80)>>, <<Dest("http", Ip(Public), 0)>>, <<Dest("http", [form |-> "wildcard"], None)>>,
       <<Dest("https", Name("m", FALSE), 443), Dest("https", Name("n", FALSE), 80)>>},
    Requests <-
      {Req(m, s, h, u, p) :
         m \in {"GET", "CONNECT"}, s \in {"http", "https", "ftp"},
         h \in {Name("n", TRUE), Name("n", FALSE), Name("m", FALSE), Ip(Loopback), Ip(Public),
                Ip(LocalV6), Ip(PublicV6), [form |-> "malformed"]},
         u \in {"none", "user", "user:password"}, p \in {None, Garbled, 0, 80, 443, 8080}},
    Answers <- MixedAnswers, Timeout <- 1, MaxFrames <- 2

HttpPlain == INSTANCE OutboundHttp WITH
    GrantLists <- {<<Dest("http", Name("n", FALSE), None), Dest("http", Ip(Loopback), 8080)>>},
    Requests <- {Req("GET", "http", Name("n", FALSE), "none", 80),
                 Req("GET", "http", Ip(Loopback), "none", 8080)},
    Answers <- MixedAnswers, Timeout <- 2, MaxFrames <- 3

(***************************************************************************)
(* The plugins, and the tables and messages on which they are checked.     *)
(***************************************************************************)
(* threshold-filter *)

Table(f, lo, hi) == [field |-> f, min |-> lo, max |-> hi]

\* Tables on three fields, one of them called like a bound, with ranges on either
\* side of the floor, one of them negative and one empty; and one whose field is
\* no text.
FilterTables ==
    {Table(Str("temperature"), Plain(lo), Plain(90)) : lo \in {-5, 70}}
      \cup {Table(Str("temperature"), Plain(70), Plain(50)), Table(Str("seq"), Plain(0), Plain(90)),
            Table(Str("min"), Plain(0), Plain(90)), Table(Plain(1), Plain(50), Plain(90))}

Message(members, spaced, utf8) == [members |-> members, spaced |-> spaced, utf8 |-> utf8]

\* One or two members in either order, the field a number of any form, a text, a
\* word or missing; messages with the field's name for a text or at the end of
\* one, alone, before the field, at a distance from it or after it; spaced or
\* compact; and one payload that is not UTF-8.
FilterMessages ==
    LET numbers == {Plain(n) : n \in {-6, -5, 59, 60, 90, 91}}
                     \cup {Lit("", 6, 1, FALSE), Lit("-", 1, 1, FALSE), Lit("+", 60, 0, FALSE),
                           Lit("", 60, 0, TRUE), NaNLit}
        names == {Str("temperature"), StrEnding("not \"temperature", "temperature"), Str("min")}
        values == numbers \cup names \cup {Str("hot"), StrWithColon("12:30"), Word}
        t(v) == <<"temperature", v>>
        other == <<"seq", Plain(55)>>
        least == <<"min", Plain(90)>>
    IN {Message(<<t(v)>>, TRUE, TRUE) : v \in values}
       \cup {Message(ms, FALSE, TRUE) :
          ms \in UNION {{<<t(v)>>, <<other, t(v)>>, <<t(v), other>>} : v \in values}
                 \cup UNION {{<< <<"name", s>>, t(Plain(60))>>, << <<"name", s>>, other, t(Plain(91))>>,
                              <<t(Plain(60)), <<"name", s>> >>, << <<"name", s>> >>} : s \in names}
                 \cup {<<>>, <<other>>, <<least>>, <<t(Plain(60)), t(Plain(91))>>}}
       \cup {Message(<< <<"temperature", Plain(60)>> >>, FALSE, FALSE)}

(* json-parse: short texts, documents and their single edits *)

Tokens ==
    {Punct("{"), Punct("}"), Punct("["), Punct("]"), Punct(":"), Punct(","), Str("a"), Plain(1)}

\* Two literals side by side would be one.
Short(n) ==
    {s \in UNION {[1..i -> Tokens] : i \in 0..n} :
       \A i \in 2..Len(s) : ~(s[i - 1] = Plain(1) /\ s[i] = Plain(1))}

Documents ==
    LET o(ms) == <<Punct("{")>> \o ms \o <<Punct("}")>>
        a(es) == <<Punct("[")>> \o es \o <<Punct("]")>>
        m(v) == <<Str("a"), Punct(":")>> \o v
        and(x, y) == x \o <<Punct(",")>> \o y
        one == <<Plain(1)>>
    IN {<<Str("a")>>, o(<<Str("temperature"), Punct(":"), Plain(1)>>), o(and(m(one), m(o(<<>>)))), o(m(a(and(one, a(<<>>))))), a(and(o(m(one)), one)),
        a(a(a(one))), o(m(o(m(<<Word>>)))), a(and(a(<<>>), and(<<Str("a")>>, o(<<>>))))}

\* One token removed, replaced or added, a space, a number of any form and a
\* string of any content included; and texts cut in a string.
Edits(d) ==
    LET More == Tokens
                  \cup {Space, NewLine, Word, NaNLit, Lit("", 1, 0, TRUE), Lit("+", 1, 0, FALSE),
                        Lit("-", 1, 2, FALSE)}
                  \cup {Str(c) : c \in {"escaped", "bad escape", "control", "non-ASCII"}}
    IN {RemoveAt(d, i) : i \in 1..Len(d)}
         \cup {ReplaceAt(d, i, t) : i \in 1..Len(d), t \in More}
         \cup {InsertAt(d, i, t) : i \in 1..(Len(d) + 1), t \in More}
         \cup {SubSeq(d, 1, i) \o <<Unclosed>> : i \in 0..Len(d)}

JsonPayloads(n) ==
    {[utf8 |-> TRUE, tokens |-> s] :
       s \in Short(n) \cup Documents \cup UNION {Edits(d) : d \in Documents}}
      \cup {[utf8 |-> FALSE, tokens |-> <<Plain(1)>>]}

(* content-router *)

\* Zero to two routes, a default that is or is not one of their ports, a route
\* whose value is no text, and a table without one of its keys.
RouterTables ==
    LET r(k, p) == <<k, Str(p)>>
        lists == { <<>>, <<r("alert", "p1"), r("log", "p2")>>,
                   <<r("alert", "p2"), r("log", "p2")>>, << <<"alert", Plain(1)>> >>,
                   <<r("alert", "p1"), <<"log", Word>> >> }
    IN {[field |-> <<f>>, default |-> <<d>>, routes |-> <<l>>] :
          f \in {"type", "kind"}, d \in {"p1", "p2"}, l \in lists}
       \cup {[field |-> <<>>, default |-> <<"p1">>, routes |-> << <<>> >>],
             [field |-> <<"type">>, default |-> <<>>, routes |-> << <<r("log", "p2")>> >>],
             [field |-> <<"type">>, default |-> <<"p1">>, routes |-> <<>>]}

\* The route field in any place and with any value, missing, twice, and named by
\* a text that comes before it, after it or without it; spaced or compact; and one
\* payload that is not UTF-8.
RouterMessages ==
    LET values == {Str("alert"), Str("log"), Str("other"), StrWithColon("log:1"), Plain(1)}
        names == {Str("type"), StrEnding("a \"type", "type")}
        some == {Str("alert"), Str("log")}
        type(v) == <<"type", v>>
        tag(v) == <<"tag", v>>
    IN {[utf8 |-> TRUE, members |-> <<type(v)>>, spaced |-> TRUE] : v \in values}
       \cup {[utf8 |-> TRUE, members |-> ms, spaced |-> FALSE] :
               ms \in {<<>>}
                 \cup UNION {{<<type(v)>>, << <<"kind", v>>, type(w)>>} : v \in values, w \in values}
                 \cup UNION {{<<tag(n)>>, <<tag(n), type(w)>>, <<type(w), tag(n)>>,
                              <<tag(n), <<"kind", v>>, type(w)>>, <<type(v), type(w)>>} :
                                n \in names, v \in some, w \in some}}
       \cup {[utf8 |-> FALSE, members |-> <<type(Str("log"))>>, spaced |-> FALSE]}

(* cayenne-decoder *)

Reading(c, t, sizes, raw) == [channel |-> c, type |-> t, sizes |-> sizes, raw |-> raw]

\* Each kind of type, at the ends of its range and around zero; a channel with
\* the number of a type; a type nobody configured.
Readings ==
    {Reading(104, 104, <<1>>, <<v>>) : v \in {0, 127, 128, 255}}
      \cup {Reading(1, 103, <<2>>, <<v>>) : v \in {-32768, -1, 0, 255, 32767}}
      \cup {Reading(2, 101, <<2>>, <<v>>) : v \in {0, 32768, 65535}}
      \cup {Reading(3, 113, <<2, 2, 2>>, <<v, 0, 1>>) : v \in {-32768, -1, 256}}
      \cup {Reading(4, 136, <<3, 3, 3>>, <<v, -1, 8388607>>) : v \in {-8388608, 65536}}
      \cup {Reading(5, 200, <<4>>, <<v>>) : v \in {-1, 0, 127}}
      \cup {Reading(6, 254, <<1>>, <<9>>)}

\* Up to two readings, cut anywhere.
Bytes(r) == 2 + FoldLeft(LAMBDA a, n : a + n, 0, r.sizes)

Frames ==
    {[readings |-> <<r>>, cut |-> n] : <<r, n>> \in UNION {{r} \X (0..Bytes(r)) : r \in Readings}}
      \cup UNION {{[readings |-> <<r, q>>, cut |-> n] : n \in 0..(Bytes(r) + Bytes(q))} :
                    r \in Readings, q \in Readings}

(* result-format *)

Bracket(ls) ==
    <<Punct("[")>>
      \o FlattenSeq([i \in 1..Len(ls) |-> (IF i = 1 THEN <<>> ELSE <<Punct(",")>>) \o <<Str(ls[i])>>])
      \o <<Punct("]")>>

\* One or two labels, a threshold at a score, the default and one of the wrong
\* type; and tables that are refused.
ResultTables ==
    {[labels |-> l, threshold |-> t] :
       l \in {Bracket(<<"normal">>), Bracket(<<"normal", "threshold">>), Bracket(<<>>), <<Word>>, <<>>},
       t \in {<<Plain(92000)>>, <<>>, <<Str("0.9")>>}}

\* Around the threshold and the boundaries of rounding, negative, and not finite.
Scores ==
    {Num(n) : n \in {0, 4, 5, 91999, 92000, 99994, 99995, 123456, 199999, -30004, -99996}}
      \cup {NaN, [is |-> "-inf", n |-> 0], [is |-> "inf", n |-> 0]}

Tensors ==
    {[aligned |-> TRUE, scores |-> s] : s \in UNION {[1..n -> Scores] : n \in 0..2}}
      \cup {[aligned |-> FALSE, scores |-> <<Num(0)>>]}

-----------------------------------------------------------------------------
Filter == INSTANCE ThresholdFilter WITH
    Tables <- FilterTables, Messages <- FilterMessages, MinFloor <- 60

Json == INSTANCE JsonParse WITH
    Payloads <- JsonPayloads(4), NonAscii <- {"non-ASCII"}, Mangled <- "mangled",
    BadStrings <- {"bad escape", "control"}

Router == INSTANCE ContentRouter WITH
    Tables <- RouterTables, Messages <- RouterMessages,
    Wirings <- {{"p1"}, {"p2"}, {"p1", "p2"}}

Cayenne == INSTANCE CayenneDecoder WITH Frames <- Frames, Extra <- [t \in {200} |-> 4]

Result == INSTANCE ResultFormat WITH Tables <- ResultTables, Payloads <- Tensors

Anomaly == INSTANCE AnomalyDetector WITH
    Fields <- {"temperature", "pressure"}, Values <- {0, 4, 11}, WarmupSamples <- 2,
    ZThreshold <- 1, MaxSamples <- 3

ASSUME GuestsFit ==
    /\ Metered!WasmNodeAssumption /\ Timed!WasmNodeAssumption
    /\ HttpNames!HttpAssumption /\ HttpPolicy!HttpAssumption /\ HttpPlain!HttpAssumption

-----------------------------------------------------------------------------
(***************************************************************************)
(* The specification.                                                      *)
(***************************************************************************)
nodeOwn == <<kind, store, pre, config, op, saved, fresh, replacement, canary, used, ran>>
httpOwn == <<grants, request, dest, answer, address, left, frames, sent, error>>
pluginVars == <<table, last, native, payload, cfg, st, inForce, plugin, version, wasm, edges,
                frame, pos, sensors, next, best, out, acc, seen, severity, restarts>>
vars == <<part, pc, nodeOwn, httpOwn, pluginVars>>

nodeVars == Metered!vars
httpVars == HttpNames!vars

NodeOff ==
    /\ kind = Off /\ store = Off /\ pre = Off /\ config = Off /\ op = Off /\ saved = Off
    /\ fresh = Off /\ replacement = Off /\ canary = Off /\ used = Off /\ ran = Off

HttpOff ==
    /\ grants = Off /\ request = Off /\ dest = Off /\ answer = Off /\ address = Off
    /\ left = Off /\ frames = Off /\ sent = Off /\ error = Off

FilterOff == inForce = Off /\ plugin = Off /\ version = Off
CayenneOff == frame = Off /\ pos = Off /\ sensors = Off
ResultOff == next = Off /\ best = Off /\ out = Off
AnomalyOff == acc = Off /\ seen = Off /\ severity = Off /\ restarts = Off
SharedOff == table = Off /\ last = Off /\ native = Off /\ payload = Off /\ cfg = Off /\ st = Off

OwnOff == FilterOff /\ CayenneOff /\ ResultOff /\ wasm = Off /\ edges = Off

Init ==
    \/ /\ HttpOff /\ OwnOff /\ AnomalyOff /\ SharedOff
       /\ \/ part = "metered" /\ Metered!Init
          \/ part = "timed" /\ Timed!Init
    \/ /\ NodeOff /\ OwnOff /\ AnomalyOff /\ SharedOff
       /\ \/ part = "names" /\ HttpNames!Init
          \/ part = "policy" /\ HttpPolicy!Init
          \/ part = "plain" /\ HttpPlain!Init
    \/ /\ pc = Off /\ NodeOff /\ HttpOff
       /\ \/ /\ part = "filter" /\ Filter!Init
             /\ CayenneOff /\ ResultOff /\ AnomalyOff
             /\ payload = Off /\ cfg = Off /\ st = Off /\ wasm = Off /\ edges = Off
          \/ /\ part = "json" /\ Json!Init
             /\ FilterOff /\ CayenneOff /\ ResultOff /\ AnomalyOff
             /\ table = Off /\ last = Off /\ cfg = Off /\ st = Off /\ edges = Off
          \/ /\ part = "router" /\ Router!Init
             /\ FilterOff /\ CayenneOff /\ ResultOff /\ AnomalyOff
             /\ native = Off /\ payload = Off /\ wasm = Off
          \/ /\ part = "cayenne" /\ Cayenne!Init
             /\ FilterOff /\ ResultOff /\ AnomalyOff /\ wasm = Off /\ edges = Off
             /\ table = Off /\ last = Off /\ native = Off /\ payload = Off /\ cfg = Off
          \/ /\ part = "result" /\ Result!Init
             /\ FilterOff /\ CayenneOff /\ AnomalyOff /\ wasm = Off /\ edges = Off
             /\ last = Off /\ native = Off /\ st = Off
          \/ part = "anomaly" /\ Anomaly!Init /\ OwnOff /\ SharedOff

NodeNext ==
    /\ \/ part = "metered" /\ Metered!Next
       \/ part = "timed" /\ Timed!Next
    /\ UNCHANGED <<part, httpOwn, pluginVars>>

HttpNext ==
    /\ \/ part = "names" /\ HttpNames!Next
       \/ part = "policy" /\ HttpPolicy!Next
       \/ part = "plain" /\ HttpPlain!Next
    /\ UNCHANGED <<part, nodeOwn, pluginVars>>

PluginNext ==
    /\ \/ /\ part = "filter" /\ Filter!Next
          /\ UNCHANGED <<payload, cfg, st, wasm, edges, frame, pos, sensors, next, best, out,
                         acc, seen, severity, restarts>>
       \/ /\ part = "json" /\ Json!Next
          /\ UNCHANGED <<table, last, cfg, st, inForce, plugin, version, edges, frame, pos,
                         sensors, next, best, out, acc, seen, severity, restarts>>
       \/ /\ part = "router" /\ Router!Next
          /\ UNCHANGED <<native, payload, inForce, plugin, version, wasm, frame, pos, sensors,
                         next, best, out, acc, seen, severity, restarts>>
       \/ /\ part = "cayenne" /\ Cayenne!Next
          /\ UNCHANGED <<table, last, native, payload, cfg, inForce, plugin, version, wasm,
                         edges, next, best, out, acc, seen, severity, restarts>>
       \/ /\ part = "result" /\ Result!Next
          /\ UNCHANGED <<last, native, st, inForce, plugin, version, wasm, edges, frame, pos,
                         sensors, acc, seen, severity, restarts>>
       \/ /\ part = "anomaly" /\ Anomaly!Next
          /\ UNCHANGED <<table, last, native, payload, cfg, st, inForce, plugin, version, wasm,
                         edges, frame, pos, sensors, next, best, out>>
    /\ UNCHANGED <<part, pc, nodeOwn, httpOwn>>

Next == NodeNext \/ HttpNext \/ PluginNext

\* The fairness of the modules themselves; plugins only ever answer a call.
Fairness ==
    /\ WF_nodeVars(part = "timed" /\ Timed!Tick)
    /\ WF_nodeVars(part = "timed" /\ Timed!OverBudget)
    /\ WF_nodeVars(part = "timed" /\ Timed!Recover)
    /\ WF_nodeVars(part = "timed" /\ Timed!Install)
    /\ WF_nodeVars(part = "timed" /\ Timed!ArmLifecycle)
    /\ WF_nodeVars(part = "timed" /\ Timed!AskOutputPorts)
    /\ WF_httpVars(part = "plain" /\ HttpPlain!Tick)
    /\ WF_httpVars(part = "plain" /\ HttpPlain!TimesOut)
    /\ WF_httpVars(part = "plain" /\ HttpPlain!PollFrame)
    /\ WF_httpVars(part = "plain" /\ HttpPlain!SocketAddrLiteral)
    /\ WF_httpVars(part = "plain" /\ HttpPlain!SocketAddrDns)

Spec == Init /\ [][Next]_vars /\ Fairness

-----------------------------------------------------------------------------
\* The host contains the guest and is fair to it: a call is stopped only when
\* it used up its own budget, a message is processed by an instance that was
\* never trapped and has the node's current component, configuration and
\* grant, a payload is in the resource table during its call only, and
\* whatever the resolver answers the guest reaches exactly what the operator
\* granted, no name leading to an address that is not globally routable.
GuestContained ==
    /\ part = "metered" => Metered!GuestContained
    /\ part = "timed" => Timed!GuestContained
    /\ part = "names" => HttpNames!ReachesPermitted
    /\ part = "policy" =>
         /\ HttpPolicy!HttpTypeOK /\ HttpPolicy!ReachesPermitted
         /\ HttpPolicy!ConnectsAsGranted /\ HttpPolicy!GrantUsable

\* What a plugin emits is what its input says: json-parse emits the document
\* and only JSON (plugins/json-parse/src/lib.rs:63), the decoder a prefix of what
\* the device sent and no cut frame, result-format the label of the best score and
\* its value, and the anomaly detector keeps the weighted mean and variance of the
\* samples it has seen.  Where a plugin does otherwise, for the contents of JSON
\* strings and for a score whose fraction rounds up to a whole, the conjunct says
\* for which inputs, and that it does so for no other.
PluginOutputExact ==
    /\ part = "json" => Json!AcceptsExactlyJson /\ Json!OutputIsTheDocument
    /\ part = "cayenne" => Cayenne!DecodedIsPrefix /\ Cayenne!EmittedIsComplete
    /\ part = "result" => Result!NamesTheBest /\ Result!PrintedClose
    /\ part = "anomaly" => Anomaly!BaselineExact

\* What a plugin decides on a message follows from the table in force, after
\* any reconfigurations and swaps: the filters' verdicts and the router's
\* port, which delivers when it is wired; an alarm has a cause in the past;
\* and a read of a response body times out only while none of it waits.  The
\* plugins look for a key in the text (plugins/threshold-filter/src/lib.rs:119), so
\* a key that stands first as a value decides by the member after it, and the
\* native filter cuts exponents off: the conjuncts say so, and of no other message.
VerdictExact ==
    [][/\ part = "filter" => Filter!WasmVerdictExact /\ Filter!NativeVerdictExact
       /\ part = "router" => Router!PortExact /\ Router!WiredDelivers
       /\ part = "anomaly" => Anomaly!Caused
       /\ part = "policy" => HttpPolicy!ReadTimeoutMeansSilence]_vars

\* With an epoch deadline no guest holds its node for ever, and over plain
\* HTTP a peer that falls silent costs the guest its timeouts and no more.
GuestWaits ==
    \/ part = "timed" /\ pc # "idle"
    \/ part = "plain" /\ pc = "address"

GuestsEnd == GuestWaits ~> pc \in {"idle", "dead", "done", "failed"}
=============================================================================
