---------------------------- MODULE OutboundHttp ----------------------------
(***************************************************************************)
(* Outbound wasi:http of one Wasm node: the canonical destinations of      *)
(* wafer-types (config/engine.rs), the frozen grant of                     *)
(* engine/capabilities.rs, and the policy hook and connector of            *)
(* engine/http.rs, against a resolver and a peer that do what they like.   *)
(*                                                                         *)
(* A host text is a record of what it parses to: an IP literal, a DNS name *)
(* (with its case), or something malformed.  An IPv4 address is its four   *)
(* octets; an IPv6 address its first two segments and what follows them.   *)
(* Time is the ticks left to the timeout that is running.                  *)
(***************************************************************************)
EXTENDS Integers, Sequences, FiniteSets

CONSTANTS None, Garbled, \* no port; a port that is not a number
          GrantLists,   \* sequences of configured destinations
          Requests,     \* requests the guest may make
          Answers,      \* sequences of addresses a lookup may return
          Timeout,      \* ticks of each of the three timeouts
          MaxFrames     \* bound: frames of a response body

Errors == {"HttpRequestDenied", "DestinationNotFound", "DestinationIpProhibited", "DnsError",
           "Transport", "ConnectionTimeout", "ConnectionReadTimeout"}

IsAddress(ip) == ip.v = 6 \/ (ip.v = 4 /\ ip.octets \in [1 .. 4 -> 0 .. 255])
IsHost(h) == h.form = "ip" => IsAddress(h.ip)

\* What an instance has to give.
HttpAssumption ==
    /\ Timeout \in Nat \ {0} /\ MaxFrames \in Nat
    /\ None \notin Nat /\ None # Garbled /\ None \notin Errors
    /\ \A list \in GrantLists : \A i \in DOMAIN list :
          list[i].scheme \in {"http", "https"} /\ IsHost(list[i].host)
    /\ \A r \in Requests : r.port \in Nat \cup {None, Garbled}
    /\ \A a \in Answers :
          /\ a \in Seq({a[i] : i \in DOMAIN a})
          /\ \A i \in DOMAIN a : IsAddress(a[i])

VARIABLES grants,     \* the canonical destinations, or None: node refused
          request, pc, dest, answer, address, left,
          frames,     \* body frames the peer has sent and the guest not read
          sent, error

vars == <<grants, request, pc, dest, answer, address, left, frames, sent, error>>

V4(a, b, c, d) == [v |-> 4, octets |-> <<a, b, c, d>>]
V6(s0, s1, tail) == [v |-> 6, segments |-> <<s0, s1>>, tail |-> tail]

-----------------------------------------------------------------------------
(* Which addresses may be connected to. *)

GlobalV4(o) ==
  ~ \/ o[1] \in {0, 10, 127}
    \/ o[1] = 169 /\ o[2] = 254
    \/ o[1] = 172 /\ o[2] >= 16 /\ o[2] <= 31
    \/ o[1] = 192 /\ o[2] = 168
    \/ o[1] = 100 /\ o[2] >= 64 /\ o[2] <= 127
    \/ o[1] = 192 /\ o[2] = 0 /\ o[3] \in {0, 2}
    \/ o[1] = 198 /\ o[2] \in {18, 19}
    \/ o[1] = 198 /\ o[2] = 51 /\ o[3] = 100
    \/ o[1] = 203 /\ o[2] = 0 /\ o[3] = 113
    \/ o[1] >= 224
    \/ o = <<255, 255, 255, 255>>

GlobalV6(ip) ==
  /\ ip.segments[1] \div 8192 = 1                        \* & 0xe000 == 0x2000
  /\ ip.segments # <<8193, 3512>>                        \* 2001:0db8
  /\ ip.tail # "mapped"

PermittedDns(ip) == IF ip.v = 4 THEN GlobalV4(ip.octets) ELSE GlobalV6(ip)

\* std's is_loopback and is_private.
LoopbackV4(o) == o[1] = 127
PrivateV4(o) == o[1] = 10 \/ (o[1] = 172 /\ o[2] \in 16 .. 31) \/ (o[1] = 192 /\ o[2] = 168)

PermittedLiteral(ip) ==
  IF ip.v = 4 THEN LoopbackV4(ip.octets) \/ PrivateV4(ip.octets) \/ GlobalV4(ip.octets)
  ELSE \/ ip.segments = <<0, 0>> /\ ip.tail = "one"
       \/ ip.segments[1] \div 512 = 126                  \* & 0xfe00 == 0xfc00
       \/ GlobalV6(ip)

(* Destinations. *)

DefaultPort(scheme) == IF scheme = "http" THEN 80 ELSE 443

\* The canonical host: an address, or a name without its case.
CanonicalHost(h) ==
  CASE h.form = "ip" /\ PermittedLiteral(h.ip) -> [ip |-> h.ip]
    [] h.form = "name" -> [dns |-> h.name]
    [] OTHER -> None      \* empty, wildcard, malformed, or a prohibited literal

Canonicalize(d) ==
  LET host == CanonicalHost(d.host)
      port == IF d.port = None THEN DefaultPort(d.scheme) ELSE d.port
  IN  IF host = None \/ port = 0 THEN None
      ELSE [scheme |-> d.scheme, host |-> host, port |-> port]

\* The grant frozen for the node, or None: malformed or duplicate after
\* normalisation.
FrozenGrant(list) ==
  LET canonical == {Canonicalize(list[i]) : i \in DOMAIN list}
  IN  IF None \in canonical \/ Cardinality(canonical) # Len(list) THEN None ELSE canonical

\* What the authority of a URI gives: an IPv6 literal keeps its brackets, and
\* a host in brackets parses neither as an address nor as a DNS name.
AuthorityHost(a) ==
  IF a.host.form = "ip" /\ a.host.ip.v = 6 THEN [form |-> "bracketed"] ELSE a.host

ExplicitPort(a) ==
  \/ a.port # None
  \/ a.user = "user:password" /\ AuthorityHost(a).form # "bracketed"

Authorize(r) ==
  LET port == IF r.port \in Nat THEN r.port ELSE None
      requested == Canonicalize([scheme |-> r.scheme, host |-> AuthorityHost(r),
                                 port |-> IF port = None THEN DefaultPort(r.scheme) ELSE port])
  IN  IF \/ r.method = "CONNECT"
         \/ r.scheme \notin {"http", "https"}
         \/ ExplicitPort(r) /\ port = None
         \/ requested \notin grants
      THEN None ELSE requested

\* The first answer that is permitted.
SelectPermitted(addresses) ==
  addresses[CHOOSE i \in DOMAIN addresses :
              /\ PermittedDns(addresses[i])
              /\ \A j \in 1 .. i - 1 : ~PermittedDns(addresses[j])]

-----------------------------------------------------------------------------
Init ==
  /\ \E list \in GrantLists : grants = FrozenGrant(list)
  /\ request = None /\ pc = "idle" /\ dest = None /\ answer = <<>> /\ address = None
  /\ left = 0 /\ frames = 0 /\ sent = 0 /\ error = None

Fail(e) ==
  /\ pc' = "failed" /\ error' = e
  /\ UNCHANGED <<grants, request, dest, answer, address, left, frames, sent>>

\* The next phase, with its timer.
Enter(phase) ==
  /\ pc' = phase /\ left' = Timeout
  /\ UNCHANGED <<grants, request, dest, answer, address, frames, sent, error>>

\* The hook: everything is decided before any network access.
SendRequest ==
  /\ pc = "idle" /\ grants # None
  /\ \E r \in Requests :
       /\ request' = r
       /\ dest' = Authorize(r)
       /\ IF dest' = None
          THEN pc' = "failed" /\ error' = "HttpRequestDenied"
          ELSE pc' = "address" /\ UNCHANGED error
  /\ UNCHANGED <<grants, answer, address, left, frames, sent>>

SocketAddrLiteral ==
  /\ pc = "address" /\ "ip" \in DOMAIN dest.host
  /\ address' = dest.host.ip
  /\ pc' = "connect" /\ left' = Timeout
  /\ UNCHANGED <<grants, request, dest, answer, frames, sent, error>>

\* One lookup per request; the address is taken from that answer.
SocketAddrDns ==
  /\ pc = "address" /\ "dns" \in DOMAIN dest.host
  /\ \E a \in Answers :
       /\ answer' = a
       /\ IF \E i \in DOMAIN a : PermittedDns(a[i])
          THEN /\ address' = SelectPermitted(a)
               /\ pc' = "connect" /\ left' = Timeout /\ UNCHANGED error
          ELSE /\ pc' = "failed"
               /\ error' = IF a = <<>> THEN "DestinationNotFound" ELSE "DestinationIpProhibited"
               /\ UNCHANGED <<address, left>>
  /\ UNCHANGED <<grants, request, dest, frames, sent>>

DnsError == pc = "address" /\ "dns" \in DOMAIN dest.host /\ Fail("DnsError")

Connected ==
  /\ pc = "connect"
  /\ Enter(IF dest.scheme = "https" THEN "tls" ELSE "handshake")

TlsDone == pc = "tls" /\ Enter("handshake")
HandshakeDone == pc = "handshake" /\ Enter("send")

\* The response head; the interval between frames starts here.
ResponseHead == pc = "send" /\ Enter("body")

\* The peer or the transport fails, or closes before the response.
TransportFails == pc \in {"connect", "tls", "handshake", "send", "body"} /\ Fail("Transport")

Tick ==
  /\ pc \in {"connect", "handshake", "send", "body"} /\ left > 0
  /\ left' = left - 1
  /\ UNCHANGED <<grants, request, pc, dest, answer, address, frames, sent, error>>

\* Fault: only the connection has a timeout.
TimesOutConnecting ==
  /\ pc \in {"connect", "handshake"} /\ left = 0
  /\ Fail("ConnectionTimeout")

TimesOut ==
  /\ pc \in {"connect", "handshake", "send"} /\ left = 0
  /\ Fail(IF pc = "send" THEN "ConnectionReadTimeout" ELSE "ConnectionTimeout")

PeerSends ==
  /\ pc = "body" /\ sent < MaxFrames
  /\ sent' = sent + 1 /\ frames' = frames + 1
  /\ UNCHANGED <<grants, request, pc, dest, answer, address, left, error>>

\* poll_frame: a frame that is there is read, even after the interval ended.
PollFrame ==
  /\ pc = "body"
  /\ IF frames > 0
     THEN /\ frames' = frames - 1 /\ left' = Timeout
          /\ UNCHANGED <<grants, request, pc, dest, answer, address, sent, error>>
     ELSE left = 0 /\ Fail("ConnectionReadTimeout")

BodyEnds ==
  /\ pc = "body" /\ frames = 0
  /\ pc' = "done"
  /\ UNCHANGED <<grants, request, dest, answer, address, left, frames, sent, error>>

\* The guest's next request starts from nothing.
Forget ==
  /\ pc \in {"done", "failed"}
  /\ pc' = "idle" /\ request' = None /\ dest' = None /\ answer' = <<>> /\ address' = None
  /\ left' = 0 /\ frames' = 0 /\ sent' = 0 /\ error' = None
  /\ UNCHANGED grants

Next ==
  \/ SendRequest \/ SocketAddrLiteral \/ SocketAddrDns \/ DnsError
  \/ Connected \/ TlsDone \/ HandshakeDone \/ ResponseHead \/ TransportFails
  \/ Tick \/ TimesOut \/ PeerSends \/ PollFrame \/ BodyEnds \/ Forget

Spec == Init /\ [][Next]_vars

\* Time passes, the resolver comes back, and the guest that waits for the body
\* polls it.  The peer owes nothing.
Fairness ==
  /\ WF_vars(Tick) /\ WF_vars(TimesOut) /\ WF_vars(PollFrame)
  /\ WF_vars(SocketAddrLiteral) /\ WF_vars(SocketAddrDns)

FairSpec == Spec /\ Fairness

-----------------------------------------------------------------------------
HttpTypeOK ==
  /\ pc \in {"idle", "address", "connect", "tls", "handshake", "send", "body", "done", "failed"}
  /\ left \in 0 .. Timeout /\ sent \in 0 .. MaxFrames /\ frames \in 0 .. sent
  /\ (error # None) <=> (pc = "failed")

(* Reference definitions: prefixes, independent of the comparisons above. *)

Block(net, bits) == [net |-> net, bits |-> bits]

InBlock(o, b) ==
  \A i \in 1 .. 4 :
    LET k == IF b.bits >= 8 * i THEN 8 ELSE IF b.bits <= 8 * (i - 1) THEN 0 ELSE b.bits - 8 * (i - 1)
        unit == 2 ^ (8 - k)
    IN  o[i] \div unit = b.net[i] \div unit

PrivateBlocks == {Block(<<10, 0, 0, 0>>, 8), Block(<<172, 16, 0, 0>>, 12), Block(<<192, 168, 0, 0>>, 16)}
LoopbackBlock == Block(<<127, 0, 0, 0>>, 8)
NeverBlocks ==      \* unspecified, link-local, shared, documentation, benchmarking,
  {Block(<<0, 0, 0, 0>>, 8), Block(<<169, 254, 0, 0>>, 16), Block(<<100, 64, 0, 0>>, 10),
   Block(<<192, 0, 0, 0>>, 24), Block(<<192, 0, 2, 0>>, 24), Block(<<198, 18, 0, 0>>, 15),
   Block(<<198, 51, 100, 0>>, 24), Block(<<203, 0, 113, 0>>, 24),
   Block(<<224, 0, 0, 0>>, 4), Block(<<240, 0, 0, 0>>, 4)}   \* multicast, reserved

\* Whatever the resolver answers, a name leads to a globally routable address
\* only; a literal may also be loopback or private, and never a link-local,
\* multicast, unspecified or documentation address.
ReachesPermitted ==
  (address # None /\ address.v = 4) =>
    /\ ~\E b \in NeverBlocks : InBlock(address.octets, b)
    /\ "dns" \in DOMAIN dest.host =>
         ~\E b \in PrivateBlocks \cup {LoopbackBlock} : InBlock(address.octets, b)

\* The request is for exactly the granted scheme, host and effective port; the
\* case of a name does not count.
Named(r, g) ==
  /\ g.scheme = r.scheme
  /\ g.port = IF r.port \in Nat THEN r.port ELSE DefaultPort(r.scheme)
  /\ IF "dns" \in DOMAIN g.host
     THEN r.host.form = "name" /\ r.host.name = g.host.dns
     ELSE r.host.form = "ip" /\ r.host.ip = g.host.ip

\* Nothing is resolved or connected unless the operator granted exactly that
\* destination; a literal is connected as written, and a name at an address of
\* this request's one answer.
ConnectsAsGranted ==
  (pc \notin {"idle", "failed"}) =>
    /\ request.method # "CONNECT"
    /\ \E g \in grants :
         /\ Named(request, g)
         /\ address # None =>
              IF "dns" \in DOMAIN g.host THEN \E i \in DOMAIN answer : answer[i] = address
              ELSE address = g.host.ip

IsV6Literal(h) == h.form = "ip" /\ h.ip.v = 6

\* A request with nothing else to object to.
WellFormed(r) == r.method # "CONNECT" /\ r.user # "user:password" /\ r.port # Garbled

\* A well-formed request is let through exactly when the operator granted the
\* destination it names, with one exception: an IPv6 literal is denied although it
\* may be granted (engine/http.rs:57 leaves it its brackets).
GrantUsable ==
  pc # "idle" /\ WellFormed(request) =>
    (error = "HttpRequestDenied" <=>
       IsV6Literal(request.host) \/ ~\E g \in grants : Named(request, g))

\* A body that is late by the reader's fault is not a timeout: no read times
\* out while a frame waits to be read.
ReadTimeoutMeansSilence ==
  (pc = "body" /\ error' = "ConnectionReadTimeout") => frames = 0

=============================================================================
