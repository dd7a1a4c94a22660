------------------------------ MODULE Launcher ------------------------------
(***************************************************************************)
(* From a configuration to running tasks: validate, then                   *)
(* launch_pipeline_timed (orchestrator/launcher.rs) with the builder's     *)
(* wiring, the per-node plugin loading and its phase clock, and the        *)
(* accounting of startup.json (wafer-runtime/src/startup.rs).              *)
(***************************************************************************)
EXTENDS Naturals, Sequences, FiniteSets, SequencesExt

CONSTANTS
  None,        \* a model value: an option that is not set
  Configs,     \* the configurations a launch may be given
  MayFail,     \* the launch steps that may fail in this instance
  Ports,       \* output ports a router plugin may declare
  MaxStep      \* longest time one step takes, in clock units

-----------------------------------------------------------------------------
(***************************************************************************)
(* A pipeline configuration and what the code computes from it: the        *)
(* semantic checks of wafer-config/src/validation.rs, the DAG of           *)
(* dag/graph.rs and the receiver-keyed queue wiring of                     *)
(* orchestrator/builder.rs.                                                *)
(*                                                                         *)
(* A configuration is a record                                             *)
(*   nodes   a function from node names to node definitions                *)
(*   edges   a sequence of edges [from, to, port, capacity, overflow]      *)
(*   deadLetter, policy, defaultCapacity, epochTick                        *)
(* An absent option is None.                                               *)
(***************************************************************************)
Categories == {"source", "sink", "transform", "filter", "router"}
Processing == {"transform", "filter", "router"}

Names(c) == DOMAIN c.nodes
Edges(c) == ToSet(c.edges)
Inbound(c) == {e.to : e \in Edges(c)}
Outbound(c) == {e.from : e \in Edges(c)}
OfKind(c, k) == {n \in Names(c) : c.nodes[n].kind = k}
FanIn(c, n) == Cardinality({i \in DOMAIN c.edges : c.edges[i].to = n})

\* What the deserialised configuration is.
LauncherAssumption ==
  /\ MaxStep \in Nat
  /\ \A c \in Configs : IsFiniteSet(Names(c)) /\ \A n \in Names(c) : c.nodes[n].kind \in Categories

-----------------------------------------------------------------------------
(* validation.rs: one predicate per check; every check runs. *)

EdgeNodesKnown(c) == Inbound(c) \cup Outbound(c) \subseteq Names(c)
SourceNoInbound(c) == OfKind(c, "source") \cap Inbound(c) = {}
SinkNoOutbound(c) == OfKind(c, "sink") \cap Outbound(c) = {}
FilterSingleInbound(c) == \A n \in OfKind(c, "filter") : FanIn(c, n) <= 1
RouterSingleInbound(c) == \A n \in OfKind(c, "router") : FanIn(c, n) <= 1

RouterEdgesHavePort(c) ==
  \A e \in Edges(c) : e.from \in OfKind(c, "router") => e.port # None

PortOnlyOnRouterEdges(c) ==
  \A e \in Edges(c) : e.from \in Names(c) /\ e.port # None => c.nodes[e.from].kind = "router"

SameEdge(e, f) == <<e.from, e.to, e.port>> = <<f.from, f.to, f.port>>

\* Fault: edges without a port are not compared.
NoDuplicateEdgesNamed(c) ==
  \A i, j \in DOMAIN c.edges : i # j /\ c.edges[i].port # None =>
    ~SameEdge(c.edges[i], c.edges[j])

NoDuplicateEdges(c) ==
  \A i, j \in DOMAIN c.edges : i # j => ~SameEdge(c.edges[i], c.edges[j])

OneSided(c, n) == (n \in Inbound(c)) # (n \in Outbound(c))

ProcessingHasInputAndOutput(c) ==
  \A n \in Names(c) : c.nodes[n].kind \in Processing => ~OneSided(c, n)

StdinSingleton(c) == Cardinality({n \in Names(c) : c.nodes[n].io = "stdin"}) <= 1
StdoutSingleton(c) == Cardinality({n \in Names(c) : c.nodes[n].io = "stdout"}) <= 1

\* Config::effective_error_policy: the node's own table beats the pipeline's.
EffectivePolicy(c, n) ==
  IF c.nodes[n].policy # None THEN c.nodes[n].policy ELSE c.policy

DlqActions(p) == {a \in DOMAIN p.actions : p.actions[a] = "dlq"}

DeadLetterForPolicy(c) ==
  c.deadLetter = None =>
    \A n \in Names(c) :
      c.nodes[n].kind \in Processing => DlqActions(EffectivePolicy(c, n)) = {}

DeadLetterForOverflow(c) ==
  (\E e \in Edges(c) : e.overflow = "dead-letter") => c.deadLetter # None

\* validate_channel_capacities: a zero would make mpsc::channel panic.
CapacitiesAccepted(c) ==
  /\ c.defaultCapacity > 0 /\ c.deadLetter # 0
  /\ \A e \in Edges(c) : e.capacity # 0

QueueCapacities(c) ==
  /\ CapacitiesAccepted(c) /\ c.policy.buffer > 0
  /\ \A n \in Names(c) : c.nodes[n].policy # None => c.nodes[n].policy.buffer > 0

EpochTick(c) == c.epochTick > 0

\* Capabilities::try_from: every destination canonicalizes, none twice. A
\* destination stands for its canonical form, "malformed" for one without.
CapabilitiesAccepted(d) ==
  /\ \A i \in DOMAIN d.http : d.http[i] # "malformed"
  /\ \A i, j \in DOMAIN d.http : i # j => d.http[i] # d.http[j]

OutboundHttpOk(c) ==
  \A n \in Names(c) : LET d == c.nodes[n] IN
    IF d.native THEN d.http = <<>> ELSE CapabilitiesAccepted(d)

RouterIsWasm(c) == \A n \in OfKind(c, "router") : ~c.nodes[n].native

InferenceSupported(c) ==
  \A n \in Names(c) : LET d == c.nodes[n] IN d.inference => d.kind = "transform" /\ ~d.native

NoOrphans(c) == Cardinality(Names(c)) <= 1 \/ Names(c) \subseteq Inbound(c) \cup Outbound(c)

-----------------------------------------------------------------------------
(* petgraph's toposort, as both validate and DagGraph::from_config use it:  *)
(* peel the nodes that no remaining node points to.                         *)

Known(c) == {e \in Edges(c) : {e.from, e.to} \subseteq Names(c)}

Peel(c, left) == {n \in left : \A e \in Known(c) : e.to = n => e.from \notin left}

Toposort(c) ==
  LET left[i \in Nat] == IF i = 0 THEN Names(c)
                         ELSE left[i - 1] \ Peel(c, left[i - 1])
  IN  left[Cardinality(Names(c))] = {}

\* validate: Ok when no check reported an error.
Valid(c) ==
  /\ EdgeNodesKnown(c) /\ SourceNoInbound(c) /\ SinkNoOutbound(c)
  /\ FilterSingleInbound(c) /\ RouterSingleInbound(c)
  /\ RouterEdgesHavePort(c) /\ PortOnlyOnRouterEdges(c)
  /\ NoDuplicateEdges(c) /\ ProcessingHasInputAndOutput(c) /\ StdinSingleton(c)
  /\ StdoutSingleton(c)
  /\ DeadLetterForPolicy(c) /\ DeadLetterForOverflow(c)
  /\ QueueCapacities(c) /\ EpochTick(c) /\ OutboundHttpOk(c)
  /\ RouterIsWasm(c) /\ InferenceSupported(c)
  /\ NoOrphans(c) /\ Toposort(c)

\* DagGraph::from_config.
DagAccepts(c) ==
  /\ Names(c) # {} /\ Toposort(c)
  /\ \A e \in Edges(c) : e.from \in Names(c) /\ e.to \in Names(c)

-----------------------------------------------------------------------------
(* builder.rs: one queue per destination, one sender per edge. *)

Destinations(c) == Inbound(c)

SetMax(S) == CHOOSE x \in S : \A y \in S : y <= x

\* wire_queues: the largest configured capacity of the edges that merge.
Capacity(c, d) ==
  LET set == {e.capacity : e \in {f \in Edges(c) : f.to = d}} \ {None}
  IN  IF set = {} THEN c.defaultCapacity ELSE SetMax(set)

\* EdgeSender: the port defaults to "default", the overflow policy to blocking.
SenderOf(e) ==
  [from |-> e.from, to |-> e.to,
   port |-> IF e.port = None THEN "default" ELSE e.port,
   overflow |-> IF e.overflow = None THEN "block" ELSE e.overflow]

\* collect_downstream_senders: one per edge that leaves n, at the edge's place.
Senders(c, n) ==
  [i \in {j \in DOMAIN c.edges : c.edges[j].from = n} |-> SenderOf(c.edges[i])]

\* check_router_edge_ports: the ports used are among those declared.
UndeclaredPorts(c, n, declared) ==
  {Senders(c, n)[i].port : i \in DOMAIN Senders(c, n)} \ declared

-----------------------------------------------------------------------------
(* The launch. *)

VARIABLES
  cfg,         \* the configuration
  pc,          \* where the launch stands
  todo,        \* nodes not built or loaded yet, in the order of a HashMap
  node,        \* the node being loaded
  impl,        \* what stands behind each node
  declared,    \* output ports the loaded routers declare
  hashes,      \* nodes with a recorded plugin hash
  eligible,    \* nodes marked replacement-eligible
  tasks,       \* node tasks spawned
  outcome,     \* "none", "ok", "config" (exit 2) or "error" (exit 1)
  now,         \* the monotonic clock
  time,        \* stamps and accumulated durations of the launch
  startup      \* what write_startup made of them

vars == <<cfg, pc, todo, node, impl, declared, hashes, eligible, tasks, outcome, now,
          time, startup>>

Loading == <<impl, declared, hashes, eligible, tasks>>

Init ==
  /\ cfg \in Configs /\ pc = "validate" /\ todo = {} /\ node = None
  /\ impl = [n \in Names(cfg) |-> "none"]
  /\ declared = [n \in Names(cfg) |-> {}]
  /\ hashes = {} /\ eligible = {} /\ tasks = {} /\ outcome = "none"
  /\ now = 0
  /\ time = [launch |-> 0, load |-> 0, inst |-> 0, phase |-> 0, active |-> 0, first |-> 0]
  /\ startup = "none"

Fail(o) == pc' = "done" /\ outcome' = o

Fails(step) == step \in MayFail

Tick == \E d \in 0 .. MaxStep : now' = now + d

Validate ==
  /\ pc = "validate" /\ Tick
  /\ IF Valid(cfg)
     THEN /\ pc' = "engine" /\ time' = [time EXCEPT !.launch = now'] /\ UNCHANGED outcome
     ELSE Fail("config") /\ UNCHANGED time
  /\ UNCHANGED <<cfg, todo, node, Loading, startup>>

\* WaferEngine::for_pipeline, the epoch ticker and the registry.
CreateEngine ==
  /\ pc = "engine" /\ Tick
  /\ \/ /\ pc' = "io" /\ todo' = OfKind(cfg, "source") \cup OfKind(cfg, "sink")
        /\ UNCHANGED outcome
     \/ Fails("engine") /\ Fail("error") /\ UNCHANGED todo
  /\ UNCHANGED <<cfg, node, Loading, time, startup>>

\* create_source and create_sink, each with its validate().
CreateIo ==
  /\ pc = "io" /\ Tick
  /\ \/ /\ todo = {} /\ pc' = "build" /\ UNCHANGED <<todo, impl, outcome>>
     \/ \E n \in todo :
          \/ /\ todo' = todo \ {n} /\ impl' = [impl EXCEPT ![n] = "io"]
             /\ UNCHANGED <<pc, outcome>>
          \/ Fails("io") /\ Fail("config") /\ UNCHANGED <<todo, impl>>
  /\ UNCHANGED <<cfg, node, declared, hashes, eligible, tasks, time, startup>>

\* build_pipeline_inner.
Build ==
  /\ pc = "build" /\ Tick
  /\ IF DagAccepts(cfg) /\ CapacitiesAccepted(cfg)
     THEN /\ pc' = "load" /\ todo' = {n \in Names(cfg) : cfg.nodes[n].kind \in Processing}
          /\ UNCHANGED outcome
     ELSE Fail("config") /\ UNCHANGED todo
  /\ UNCHANGED <<cfg, node, Loading, time, startup>>

-----------------------------------------------------------------------------
(* Loading one node; time.phase is phase_started. *)

StartNode ==
  /\ pc = "load" /\ todo # {} /\ UNCHANGED now
  /\ \E n \in todo :
       /\ node' = n /\ todo' = todo \ {n}
       /\ pc' = IF cfg.nodes[n].native THEN "native" ELSE "component"
       /\ time' = [time EXCEPT !.phase = now]
  /\ UNCHANGED <<cfg, Loading, outcome, startup>>

\* A native node is built by name; this time counts as pipeline set-up.
BuildNative(k) ==
  /\ pc = "native" /\ cfg.nodes[node].kind = k /\ Tick
  /\ \/ impl' = [impl EXCEPT ![node] = "native"] /\ pc' = "load" /\ UNCHANGED outcome
     \/ Fails("native") /\ Fail("config") /\ UNCHANGED impl
  /\ UNCHANGED <<cfg, todo, node, declared, hashes, eligible, tasks, time, startup>>

\* Fails for an unknown function name.
BuildNativeTransform == BuildNative("transform")

\* Fails also for a threshold range with min > max.
BuildNativeFilter == BuildNative("filter")

\* resolve_and_load_component: resolve, hash, compile through the cache.
LoadComponent ==
  /\ pc = "component" /\ Tick
  /\ \/ /\ hashes' = hashes \cup {node} /\ pc' = "instance"
        /\ time' = [time EXCEPT !.load = @ + (now' - time.phase), !.phase = now']
        /\ UNCHANGED outcome
     \/ Fails("component") /\ Fail("error") /\ UNCHANGED <<hashes, time>>
  /\ UNCHANGED <<cfg, todo, node, impl, declared, eligible, tasks, startup>>

\* Capabilities, Store limits, instantiate_async, validate_and_init, for a node
\* of kind k; then the launch goes on at next.
Instantiated(k, ports, next) ==
  /\ pc = "instance" /\ cfg.nodes[node].kind = k /\ Tick
  /\ \/ /\ CapabilitiesAccepted(cfg.nodes[node])
        /\ impl' = [impl EXCEPT ![node] = "wasm"]
        /\ declared' = [declared EXCEPT ![node] = ports]
        /\ time' = [time EXCEPT !.inst = @ + (now' - time.phase)]
        /\ pc' = next /\ UNCHANGED outcome
     \/ /\ \/ ~CapabilitiesAccepted(cfg.nodes[node]) /\ Fail("config")
           \/ Fails("instance") /\ Fail("error")
        /\ UNCHANGED <<impl, declared, time>>
  /\ UNCHANGED <<cfg, todo, node, hashes, eligible, tasks, startup>>

LoadTransformNode == Instantiated("transform", {}, "load")

LoadFilterNode == Instantiated("filter", {}, "load")

LoadRouterNode == \E ports \in SUBSET Ports : Instantiated("router", ports, "ports")

CheckRouterPorts ==
  /\ pc = "ports" /\ Tick
  /\ IF UndeclaredPorts(cfg, node, declared[node]) = {}
     THEN pc' = "load" /\ UNCHANGED outcome
     ELSE Fail("config")
  /\ UNCHANGED <<cfg, todo, node, Loading, time, startup>>

-----------------------------------------------------------------------------
\* mark_replacement_eligible.
Replaceable == {n \in Names(cfg) : impl[n] = "wasm"}

\* PipelineOrchestrator::from_build_output spawns one task per bundle.
Activate ==
  /\ pc = "load" /\ todo = {} /\ Tick
  /\ eligible' = Replaceable /\ tasks' = Names(cfg)
  /\ time' = [time EXCEPT !.active = now] /\ pc' = "return" /\ node' = None
  /\ UNCHANGED <<cfg, todo, impl, declared, hashes, outcome, startup>>

\* The hashes are recorded on the handle after the tasks have started.
Return ==
  /\ pc = "return" /\ Tick
  /\ pc' = "running" /\ outcome' = "ok"
  /\ UNCHANGED <<cfg, todo, node, Loading, time, startup>>

\* LaunchTimings::pipeline_setup, with its saturating subtractions.
Monus(a, b) == IF b <= a THEN a - b ELSE 0

PipelineSetup == Monus(Monus(time.active - time.launch, time.load), time.inst)

PhaseTotal(first) ==
  LET setup == time.active - time.launch - time.load - time.inst
  IN  time.launch + time.load + time.inst + setup + (first - time.active)

Tolerance == 5   \* HARNESS_OVERHEAD_TOLERANCE_NS, in clock units

\* write_startup: exactly one message, at least one plugin, and phases that
\* neither overlap nor leave more than the tolerance.
StartupVerdict(first, messages) ==
  IF messages # 1 THEN "messages"
  ELSE IF first < time.active THEN "accounting"
  ELSE IF hashes = {} THEN "noPlugin"
  ELSE IF time.load + time.inst > time.active - time.launch THEN "accounting"
  ELSE IF PhaseTotal(first) > first THEN "overlap"
  ELSE IF first - PhaseTotal(first) > Tolerance THEN "overhead"
  ELSE "written"

\* A sink processes its first message after the tasks were activated.
WriteStartup ==
  /\ pc = "running" /\ OfKind(cfg, "sink") # {} /\ Tick
  /\ time' = [time EXCEPT !.first = now']
  /\ \E messages \in 1 .. 2 : startup' = StartupVerdict(now', messages)
  /\ pc' = "done"
  /\ UNCHANGED <<cfg, todo, node, Loading, outcome>>

Next == \/ Validate \/ CreateEngine \/ CreateIo \/ Build \/ StartNode
        \/ BuildNativeTransform \/ BuildNativeFilter \/ LoadComponent
        \/ LoadTransformNode \/ LoadFilterNode \/ LoadRouterNode \/ CheckRouterPorts \/ Activate \/ Return
        \/ WriteStartup

Spec == Init /\ [][Next]_vars

-----------------------------------------------------------------------------
(* Properties. *)

LaunchTypeOK ==
  /\ outcome \in {"none", "ok", "config", "error"}
  /\ todo \subseteq Names(cfg) /\ tasks \in {{}, Names(cfg)}
  /\ hashes \subseteq Names(cfg) /\ eligible \subseteq Names(cfg)
  /\ time.load + time.inst <= now /\ time.launch <= now

\* launch_pipeline_timed returns an error only with no task running, and starts
\* the tasks only when every node has its source, sink or loaded plugin: the
\* runner of a bundle without one would end at once and close its queues.
AllOrNothing ==
  /\ outcome \in {"config", "error"} => tasks = {}
  /\ tasks # {} => \A n \in Names(cfg) : impl[n] # "none"

\* The path of the data: what validate accepts and launch starts has every node
\* of a multi-node pipeline on a path from a source to a sink. Said of sets: one
\* with all sources that no edge leaves, or with all sinks that none enters, is
\* the whole pipeline.
RunningMeansConnected ==
  tasks # {} /\ Cardinality(Names(cfg)) > 1 =>
    \A S \in SUBSET Names(cfg) : S # Names(cfg) =>
      /\ OfKind(cfg, "source") \subseteq S => \E e \in Edges(cfg) : e.from \in S /\ e.to \notin S
      /\ OfKind(cfg, "sink") \subseteq S => \E e \in Edges(cfg) : e.to \in S /\ e.from \notin S

\* No output of a running node is delivered twice to a consumer, or to a port
\* the router never names (such records "would otherwise match no queue").
DeliversOnce ==
  tasks # {} =>
    /\ \A n \in Names(cfg) : \A i, j \in DOMAIN Senders(cfg, n) :
         i # j => \/ Senders(cfg, n)[i].to # Senders(cfg, n)[j].to
                  \/ Senders(cfg, n)[i].port # Senders(cfg, n)[j].port
    /\ \A n \in OfKind(cfg, "router") : UndeclaredPorts(cfg, n, declared[n]) = {}

\* A message an accepted pipeline sends to the dead-letter queue has one: no
\* effective error policy and no overflow policy names a DLQ that is not there.
DeadLettersKept ==
  tasks # {} /\ cfg.deadLetter = None =>
    /\ \A n \in Names(cfg) : cfg.nodes[n].kind \in Processing =>
         DlqActions(EffectivePolicy(cfg, n)) = {}
    /\ \A n \in Names(cfg) : \A i \in DOMAIN Senders(cfg, n) :
         Senders(cfg, n)[i].overflow # "dead-letter"

\* The hash guard, the provenance and the swap check agree on the nodes they
\* know: those running a Wasm plugin.
HashesAreEligible == outcome = "ok" => hashes = eligible /\ eligible = Replaceable

\* What validate accepts, the builder accepts: the launch never stops half way
\* for a reason validate should have reported.
BuilderAgrees ==
  /\ pc = "build" /\ Names(cfg) # {} => DagAccepts(cfg) /\ CapacitiesAccepted(cfg)
  /\ pc = "instance" => CapabilitiesAccepted(cfg.nodes[node])

\* The launch clock accounts for every instant up to the activation once: the
\* checks of startup.json never refuse a probe that loaded a plugin, and the
\* saturating subtraction of the launcher never saturates.
PhasesTile ==
  /\ startup \in {"none", "written", "noPlugin", "messages"}
  /\ startup = "written" => PhaseTotal(time.first) = time.first
  /\ tasks # {} => PipelineSetup + time.load + time.inst = time.active - time.launch

\* What validate accepts and launch starts is a working pipeline.
LaunchSound ==
  /\ LaunchTypeOK /\ AllOrNothing /\ RunningMeansConnected /\ DeliversOnce /\ DeadLettersKept
  /\ HashesAreEligible /\ BuilderAgrees /\ PhasesTile
=============================================================================
