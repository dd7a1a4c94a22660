----------------------------- MODULE MCStartup -----------------------------
(***************************************************************************)
(* From a configuration to a running process on small instances: the       *)
(* compile cache, the plugin registry, the launcher and the process around *)
(* them.                                                                   *)
(*                                                                         *)
(* What one of them hands to the next is a value (component bytes, a       *)
(* component, a pipeline handle): none writes the state of another.  So    *)
(* one behaviour is that of one of them, the one SuiteInit picks; the      *)
(* cache of the others is idle and their variables stay Off.               *)
(***************************************************************************)
EXTENDS ComponentCache, Sequences, SequencesExt

CONSTANTS t1, t2, b1, r1, r2, None

VARIABLES
    part,       \* which of them this behaviour is about
    remote, pushed, job,                                \* the registry
    now, files, pc,                                     \* shared names
    cfg, todo, node, impl, declared, hashes, eligible, tasks, outcome, time, startup,
    opt, code, nodes, cancelled, signals, handler, control, guard, trigger, oneshot,
    target, live, replaced, adoption, runDone, result, sampler, taken, provenance, startupErr

Off == "off"

-----------------------------------------------------------------------------
(***************************************************************************)
(* The compile cache: with a directory that others use and a process that  *)
(* dies (from the cfg), one that nobody disturbs, and one that is asked    *)
(* for a binary which does not compile.                                    *)
(***************************************************************************)
Quiet == INSTANCE ComponentCache WITH Others <- FALSE, Restarts <- FALSE
Broken == INSTANCE ComponentCache WITH Others <- FALSE, Restarts <- FALSE, Bad <- Binary

(***************************************************************************)
(* The registry: one runtime with two references, one of them with a       *)
(* repository of two segments, a local file and a missing one; and two     *)
(* runtimes that share the cache directory and may be killed.              *)
(***************************************************************************)
FlatRef == <<"h", "/", "p", ":", "t">>
DeepRef == <<"h", "/", "p", "/", "q", ":", "t">>
FilePath == <<"p", "/", "t">>
MissingRef == <<"h", ":", "t">>

RegOwn == INSTANCE PluginRegistry WITH
    Resolver <- {r1}, PluginText <- {FlatRef, DeepRef, FilePath, MissingRef},
    LocalFile <- {FilePath}, Ttl <- 1, OpTime <- 1, MaxTime <- 3, MaxVersion <- 1,
    Crashes <- FALSE, Sweeps <- TRUE, NoCache <- FALSE

RegShared == INSTANCE PluginRegistry WITH
    Resolver <- {r1, r2}, PluginText <- {FlatRef}, LocalFile <- {}, Ttl <- 1, OpTime <- 1,
    MaxTime <- 3, MaxVersion <- 2, Crashes <- TRUE, Sweeps <- TRUE, NoCache <- FALSE

(***************************************************************************)
(* The launcher: every small topology, every feature of one path with      *)
(* every step failing, and the clock.                                      *)
(***************************************************************************)
Skip == [actions |-> [badInput |-> "skip", exhausted |-> "skip"], buffer |-> 1]
Dlq == [actions |-> [badInput |-> "skip", exhausted |-> "dlq"], buffer |-> 1]

Def(k) == [kind |-> k, native |-> FALSE, io |-> "other", policy |-> None,
           http |-> <<>>, inference |-> FALSE]

Edge(f, t, p) == [from |-> f, to |-> t, port |-> p, capacity |-> None, overflow |-> None]

Config(ns, edges) ==
    [nodes |-> ns, edges |-> edges, deadLetter |-> 1, policy |-> Skip,
     defaultCapacity |-> 1, epochTick |-> 1]

Processing == {"transform", "filter", "router"}
Categories == Processing \cup {"source", "sink"}

\* Up to two nodes of every kind with any two edges, an unknown node included.
SmallTopologies ==
    {Config([n \in N |-> Def(k[n])], es) :
       <<N, k>> \in UNION {{<<M, f>> : f \in [M -> Categories]} : M \in {{}, {"a"}, {"a", "b"}}},
       es \in UNION {[1..n -> {Edge(f, t, p) : f \in {"a", "b"}, t \in {"a", "b", "z"},
                                               p \in {None, "p"}}] : n \in 0..2}}

\* A source, two processing nodes and a sink, with up to four distinct edges;
\* a router's edges carry one of two ports.
PortsOf(k) == IF k = "router" THEN {"p", "q"} ELSE {None}

FourNodes ==
    UNION {LET def == [a |-> Def("source"), b |-> Def(x), c |-> Def(y), d |-> Def("sink")]
               all == UNION {{Edge(f, t, p) : t \in {"b", "c", "d"}, p \in PortsOf(def[f].kind)} :
                               f \in {"a", "b", "c"}}
           IN  {Config(def, SetToSeq(es)) : es \in UNION {kSubset(n, all) : n \in 1..4}} :
           x \in {"transform", "router"}, y \in {"transform", "filter"}}

\* Options, on one path a -> b -> c.
Features ==
    {[Config([a |-> [Def("source") EXCEPT !.io = i],
              b |-> [Def(k) EXCEPT !.native = n, !.policy = p, !.http = h, !.inference = m],
              c |-> Def("sink")],
             <<[Edge("a", "b", None) EXCEPT !.capacity = q],
               [Edge("b", "c", IF k = "router" THEN "p" ELSE None) EXCEPT !.overflow = o]>>)
        EXCEPT !.deadLetter = l, !.policy = g] :
       k \in Processing, i \in {"stdin", "other"}, n, m \in BOOLEAN,
       h \in {<<>>, <<"h">>, <<"h", "h">>, <<"malformed">>},
       p \in {None, Dlq, [Skip EXCEPT !.buffer = 0]}, g \in {Skip, Dlq},
       q \in {None, 0, 2}, o \in {None, "dead-letter"}, l \in {None, 0, 1}}

\* Two Wasm nodes, one native and one Wasm.
ClockConfigs ==
    {Config([a |-> Def("source"), b |-> Def("transform"),
             c |-> [Def("filter") EXCEPT !.native = n], d |-> Def("sink")],
            <<Edge("a", "b", None), Edge("b", "c", None), Edge("c", "d", None)>>) : n \in BOOLEAN}

LaunchTopology == INSTANCE Launcher WITH
    Configs <- SmallTopologies \cup FourNodes, MayFail <- {}, Ports <- {"p", "q"}, MaxStep <- 0

LaunchFeatures == INSTANCE Launcher WITH
    Configs <- Features, MayFail <- {"engine", "io", "native", "component", "instance"},
    Ports <- {"p"}, MaxStep <- 0

LaunchClock == INSTANCE Launcher WITH
    Configs <- ClockConfigs, MayFail <- {}, Ports <- {"p"}, MaxStep <- 2

(***************************************************************************)
(* The process: plain runs and runs with a timed swap, with and without    *)
(* the API, and every step failing.                                        *)
(***************************************************************************)
Opt(b, q, m, st, sw, a, t) ==
    [bench |-> b, queue |-> q, metadata |-> m, startup |-> st, swap |-> sw, api |-> a,
     timeline |-> t]

PlainRun == INSTANCE Runtime WITH
    Options <- {Opt(b, b, m, TRUE, FALSE, a, FALSE) : b, m, a \in BOOLEAN},
    MayFail <- {"config", "launch", "bind", "signals", "startup", "binary", "provenance"},
    MaxSignals <- 1, MaxSamples <- 1

SwapRun == INSTANCE Runtime WITH
    Options <- {Opt(TRUE, TRUE, TRUE, FALSE, TRUE, a, ~a) : a \in BOOLEAN},
    MayFail <- {"plan", "target", "timeline", "prepare", "panic", "artifacts", "binary"},
    MaxSignals <- 1, MaxSamples <- 1

ASSUME StartupFits ==
    /\ RegOwn!RegistryAssumption /\ RegOwn!PlainTags
    /\ RegShared!RegistryAssumption /\ RegShared!PlainTags
    /\ LaunchTopology!LauncherAssumption /\ LaunchFeatures!LauncherAssumption
    /\ LaunchClock!LauncherAssumption
    /\ PlainRun!RuntimeAssumption /\ SwapRun!RuntimeAssumption

-----------------------------------------------------------------------------
(***************************************************************************)
(* The variables only one of them has, and the specification.              *)
(***************************************************************************)
cacheOwn == vars
registryOwn == <<remote, pushed, job>>
launchOwn == <<cfg, todo, node, impl, declared, hashes, eligible, tasks, outcome, time, startup>>
runOwn == <<opt, code, nodes, cancelled, signals, handler, control, guard, trigger, oneshot,
            target, live, replaced, adoption, runDone, result, sampler, taken, provenance,
            startupErr>>
suiteVars == <<part, cacheOwn, registryOwn, now, files, pc, launchOwn, runOwn>>

registryVars == RegOwn!vars
runVars == PlainRun!vars

CacheIdle == Init /\ bin = [t \in Thread |-> b1]

RegistryOff == remote = Off /\ pushed = Off /\ job = Off

LaunchOff ==
    /\ cfg = Off /\ todo = Off /\ node = Off /\ impl = Off /\ declared = Off /\ hashes = Off
    /\ eligible = Off /\ tasks = Off /\ outcome = Off /\ time = Off /\ startup = Off

RunOff ==
    /\ opt = Off /\ code = Off /\ nodes = Off /\ cancelled = Off /\ signals = Off
    /\ handler = Off /\ control = Off /\ guard = Off /\ trigger = Off /\ oneshot = Off
    /\ target = Off /\ live = Off /\ replaced = Off /\ adoption = Off /\ runDone = Off
    /\ result = Off /\ sampler = Off /\ taken = Off /\ provenance = Off /\ startupErr = Off

SuiteInit ==
    \/ /\ part \in {"cache", "quiet", "broken"} /\ Init
       /\ RegistryOff /\ LaunchOff /\ RunOff /\ now = Off /\ files = Off /\ pc = Off
    \/ /\ CacheIdle /\ LaunchOff /\ RunOff /\ pc = Off
       /\ \/ part = "own" /\ RegOwn!Init
          \/ part = "shared" /\ RegShared!Init
    \/ /\ CacheIdle /\ RegistryOff /\ RunOff /\ files = Off
       /\ \/ part = "topology" /\ LaunchTopology!Init
          \/ part = "features" /\ LaunchFeatures!Init
          \/ part = "clock" /\ LaunchClock!Init
    \/ /\ CacheIdle /\ RegistryOff /\ LaunchOff /\ now = Off
       /\ \/ part = "plain" /\ PlainRun!Init
          \/ part = "swap" /\ SwapRun!Init

CacheNext ==
    /\ \/ part = "cache" /\ Next
       \/ part = "quiet" /\ Quiet!Next
       \/ part = "broken" /\ Broken!Next
    /\ UNCHANGED <<part, registryOwn, launchOwn, runOwn, now, files, pc>>

RegistryNext ==
    /\ \/ part = "own" /\ RegOwn!Next
       \/ part = "shared" /\ RegShared!Next
    /\ UNCHANGED <<part, cacheOwn, launchOwn, runOwn, pc>>

LaunchNext ==
    /\ \/ part = "topology" /\ LaunchTopology!Next
       \/ part = "features" /\ LaunchFeatures!Next
       \/ part = "clock" /\ LaunchClock!Next
    /\ UNCHANGED <<part, cacheOwn, registryOwn, runOwn, files>>

RunNext ==
    /\ \/ part = "plain" /\ PlainRun!Next
       \/ part = "swap" /\ SwapRun!Next
    /\ UNCHANGED <<part, cacheOwn, registryOwn, launchOwn, now>>

SuiteNext == CacheNext \/ RegistryNext \/ LaunchNext \/ RunNext

\* The fairness of the modules themselves.
Fairness ==
    /\ \A t \in Thread : /\ WF_vars(part = "quiet" /\ Quiet!Step(t))
                          /\ WF_vars(part = "broken" /\ Broken!Step(t))
    /\ WF_registryVars(part = "own" /\ RegOwn!Step(r1))
    /\ WF_runVars(part = "plain" /\ PlainRun!Main)
    /\ WF_runVars(part = "swap" /\ SwapRun!Main)
    /\ WF_runVars(part = "swap" /\ SwapRun!Trigger)
    /\ WF_runVars(part = "swap" /\ SwapRun!RecordAdoptedSwap)
    /\ \A s \in PlainRun!Samplers :
         /\ WF_runVars(part = "plain" /\ sampler[s] = "cancelled" /\ PlainRun!Sample(s))
         /\ WF_runVars(part = "swap" /\ sampler[s] = "cancelled" /\ SwapRun!Sample(s))
    /\ WF_runVars(part = "plain" /\ cancelled /\ PlainRun!NodesEnd)
    /\ WF_runVars(part = "swap" /\ cancelled /\ SwapRun!NodesEnd)
    /\ WF_runVars(part = "plain" /\ PlainRun!ControlStops)
    /\ WF_runVars(part = "swap" /\ SwapRun!ControlStops)
    /\ WF_runVars(part = "plain" /\ PlainRun!ApiAnswered)
    /\ WF_runVars(part = "swap" /\ SwapRun!ApiAnswered)

SuiteSpec == SuiteInit /\ [][SuiteNext]_suiteVars /\ Fairness

-----------------------------------------------------------------------------
\* What validate accepts and launch starts is a working pipeline: every node
\* has its implementation and lies on a path from a source to a sink, outputs
\* are delivered once and to declared ports, no policy names a dead-letter
\* queue that is not there, and the hash registry covers the swappable nodes.
\* A launch that fails leaves no task, never for a reason validate should have
\* reported, and its clock accounts for every instant once.
LaunchSound ==
    /\ part = "topology" => LaunchTopology!LaunchSound
    /\ part = "features" => LaunchFeatures!LaunchSound
    /\ part = "clock" => LaunchClock!LaunchSound

\* The bytes a node is loaded from are its own reference's or file's, not staler
\* than the time to live, and whole unless a write of the cached file was under
\* way, failed, was killed or met another, however runtimes share the cache.
BytesAreRight ==
    /\ part = "own" => RegOwn!BytesAreRight
    /\ part = "shared" => RegShared!BytesAreRight

\* The exit code never claims success for a run that failed, the artifacts of
\* a run that came to its end are written whole, and its provenance names the
\* plugin that was live at the end.
RunReported ==
    /\ part = "plain" => PlainRun!RunReported
    /\ part = "swap" => SwapRun!RunReported

\* clear_expired leaves exactly the entries a lookup accepts, but for those of
\* repositories with several segments, which it never touches; and from the dispatch of a timed swap
\* to its outcome no API request replaces the plugin under it.
StepsKeep ==
    [][/\ part = "own" => RegOwn!SweepExact
       /\ part = "swap" => SwapRun!TimedSwapKept]_suiteVars

\* A request for a component and the resolution of a plugin are answered, and
\* once its signal thread is up a process that is cancelled, whose pipeline
\* has ended or one of whose nodes has failed exits.
Awaited(t) ==
    CASE part \in {"quiet", "broken"} -> at[t] = "lookup"
      [] part = "own" -> job[r1].at = "lookup"
      [] part \in {"plain", "swap"} ->
           handler /\ (cancelled \/ nodes \in {"clean", "failed", "failing"})
      [] OTHER -> FALSE

Ended(t) ==
    CASE part \in {"quiet", "broken"} -> at[t] = "done"
      [] part = "own" -> job[r1].at \in {"done", "idle"}
      [] part \in {"plain", "swap"} -> pc = "exited"
      [] OTHER -> TRUE

StartupEnds == \A t \in Thread : Awaited(t) ~> Ended(t)
=============================================================================
