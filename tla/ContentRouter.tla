---------------------------- MODULE ContentRouter ---------------------------
(***************************************************************************)
(* The content-router plugin in a router node: its hand-written reading of *)
(* the configuration, the ports it declares, the launch check of the       *)
(* node's edges against them, and the routing of messages, across          *)
(* reconfigurations.                                                       *)
(*                                                                         *)
(* A table is [field, default, routes]: optional texts, and an optional    *)
(* sequence of entries, each a key and a value token, in the order of the  *)
(* keys.  A message is [utf8, members, spaced] as in ThresholdFilter.      *)
(***************************************************************************)
EXTENDS JsonText, SequencesExt

CONSTANTS
    Tables,
    Messages,
    Wirings         \* the sets of ports a pipeline file may wire

VARIABLES
    table,          \* the table the instance in force was initialised with
    cfg,            \* the plugin's RouterConfig, none yet or a refusal
    edges,          \* the ports the pipeline file wires
    st,             \* "launching", "running" or "failed"
    last            \* the last message, its result and the edges it was sent on

vars == <<table, cfg, edges, st, last>>

NoConfig == [ok |-> FALSE]
NoMessage == [of |-> <<>>, port |-> <<>>, sent |-> {}]

-----------------------------------------------------------------------------
Comma(i) == IF i = 1 THEN <<>> ELSE <<Punct(",")>>
Object(members, spaced) ==
    LET Colon == IF spaced THEN <<Punct(":"), Space>> ELSE <<Punct(":")>>
    IN <<Punct("{")>>
         \o FlattenSeq([i \in 1..Len(members) |->
                          Comma(i) \o <<Str(members[i][1])>> \o Colon \o members[i][2]])
         \o <<Punct("}")>>

\* serde_json's text of a table: the keys sorted, no space.
NodeConfigJson(t) ==
    Object(  (IF t.default = <<>> THEN <<>> ELSE << <<"default_port", <<Str(t.default[1])>> >> >>)
          \o (IF t.field = <<>> THEN <<>> ELSE << <<"route_field", <<Str(t.field[1])>> >> >>)
          \o (IF t.routes = <<>> THEN <<>>
              ELSE << <<"routes", Object([i \in 1..Len(t.routes[1]) |->
                                            <<t.routes[1][i][1], <<t.routes[1][i][2]>> >>],
                                         FALSE)>> >>), FALSE)

Text(m) == Object([i \in 1..Len(m.members) |-> <<m.members[i][1], <<m.members[i][2]>> >>], m.spaced)

-----------------------------------------------------------------------------
(* The plugin. *)

\* The loop of extract_routes_object over the text from position from up to the
\* closing brace: the pairs read, or nothing when an entry is not a text.
RouteEntries(s, from, close) ==
    LET E[p \in from..(close + 1)] ==
          LET k == SkipSpace(s, p)
              v == SkipSpace(s, FindColon(s, k + 1) + 1)
              after == SkipSpace(s, v + 1)
              rest == E[IF Kind(s, after) = "," THEN after + 1 ELSE after]
          IN CASE k >= close \/ Kind(s, k) # "str" -> << <<>> >>
               [] Kind(s, v) # "str" -> <<>>
               [] OTHER -> IF rest = <<>> THEN <<>>
                           ELSE << << <<s[k].v, s[v].v>> >> \o rest[1] >>
    IN E[from]

\* extract_routes_object, as an optional sequence of pairs
ExtractRoutesObject(s) ==
    LET at == FindKey(s, "routes")
        colon == FindColon(s, at + 1)
        open == SkipSpace(s, colon + 1)
        close == MatchingBrace(s, open + 1)
    IN IF at = 0 \/ colon = 0 \/ Kind(s, open) # "{" \/ close = 0 THEN <<>>
       ELSE RouteEntries(s, open + 1, close)

\* all_ports: the ports of the routes and the default, sorted and without
\* duplicates.
AllPorts(routes, default) == {routes[i][2] : i \in 1..Len(routes)} \cup {default}

\* parse_router_config; validate and init of the plugin
ParseRouterConfig(s) ==
    LET field == ExtractString(s, "route_field")
        default == ExtractString(s, "default_port")
        routes == ExtractRoutesObject(s)
    IN IF field = <<>> \/ default = <<>> \/ routes = <<>> THEN NoConfig
       ELSE [ok |-> TRUE, field |-> field[1], default |-> default[1], routes |-> routes[1],
             ports |-> AllPorts(routes[1], default[1])]

\* route, as an optional port: nothing is a bad input
RoutePort(m) ==
    LET value == ExtractString(Text(m), cfg.field)
        hits == {i \in 1..Len(cfg.routes) : <<cfg.routes[i][1]>> = value}
    IN IF ~m.utf8 THEN <<>>
       ELSE <<IF hits = {} THEN cfg.default ELSE cfg.routes[Min(hits)][2]>>

-----------------------------------------------------------------------------
(* The node. *)

Init ==
    /\ table \in Tables
    /\ edges \in Wirings
    /\ cfg = NoConfig
    /\ st = "launching"
    /\ last = NoMessage

\* Instantiation, then check_router_edge_ports: every wired port is declared.
Launch ==
    /\ st = "launching"
    /\ cfg' = ParseRouterConfig(NodeConfigJson(table))
    /\ st' = IF cfg'.ok THEN IF edges \subseteq cfg'.ports THEN "running" ELSE "failed"
             ELSE "failed"
    /\ UNCHANGED <<table, edges, last>>

\* Fault: the field of the old table stays in force.
FieldKept(t) ==
    /\ st = "running"
    /\ LET new == ParseRouterConfig(NodeConfigJson(t))
       IN IF new.ok THEN cfg' = [new EXCEPT !.field = cfg.field] /\ table' = t
          ELSE UNCHANGED <<cfg, table>>
    /\ UNCHANGED <<edges, st, last>>

\* try_reconfigure: the new instance replaces the old one when it initialises.
\* Nothing looks at the edges.
Reconfigure(t) ==
    /\ st = "running"
    /\ LET new == ParseRouterConfig(NodeConfigJson(t))
       IN IF new.ok THEN cfg' = new /\ table' = t ELSE UNCHANGED <<cfg, table>>
    /\ UNCHANGED <<edges, st, last>>

\* route, then fan_out to the edges with the port's name
Route(m) ==
    /\ st = "running"
    /\ last' = [of |-> <<m>>, port |-> RoutePort(m),
                sent |-> {e \in edges : <<e>> = RoutePort(m)}]
    /\ UNCHANGED <<table, cfg, edges, st>>

Next ==
    \/ Launch
    \/ \E t \in Tables : Reconfigure(t)
    \/ \E m \in Messages : Route(m)
    \/ st = "failed" /\ UNCHANGED vars

Spec == Init /\ [][Next]_vars

-----------------------------------------------------------------------------
(* Properties. *)

\* The value a message is routed by: that of the first member that has the route
\* field for a key; or, when an earlier member has it for a text or at the end of
\* one, that of the member after it, of whatever key.
RoutedBy(m, field) ==
    LET I == {i \in 1..Len(m.members) :
                \/ m.members[i][1] = field
                \/ m.members[i][2].k = "str" /\ m.members[i][2].ends = field}
        i == Min(I)
    IN IF I = {} THEN <<>>
       ELSE IF m.members[i][1] = field THEN <<m.members[i][2]>>
       ELSE IF i < Len(m.members) THEN <<m.members[i + 1][2]>> ELSE <<>>

\* The port a table names for a message: that of the first route for the text it
\* is routed by, or the default.
Expected(t, m) ==
    LET v == RoutedBy(m, t.field[1])
        R == {i \in 1..Len(t.routes[1]) :
                v # <<>> /\ v[1].k = "str" /\ v[1].v = t.routes[1][i][1]}
    IN IF R = {} THEN t.default[1] ELSE t.routes[1][Min(R)][2].v

\* A message goes to the port the table in force names for it, after any
\* reconfigurations, and only a payload that is not UTF-8 has none
\* (plugins/content-router/src/lib.rs:68); whatever member the name of the route
\* field is found in first (lib.rs:126) decides.
PortExact ==
    last' # last =>
        LET m == last'.of[1] IN
        last'.port = IF m.utf8 THEN <<Expected(table, m)>> ELSE <<>>

\* A message is dropped for want of an edge only when the pipeline file wires no
\* edge for the port: as long as every port of the table in force is wired, every
\* message that is UTF-8 is sent on an edge (plugins/content-router/src/lib.rs:97
\* with launcher.rs:219).
WiredDelivers ==
    last' # last /\ last'.of[1].utf8 /\ cfg.ports \subseteq edges => last'.sent # {}

\* Every edge of a running router has a port its instance declares.  "Reject a
\* router edge whose port the router does not declare: records routed to the
\* declared name would otherwise match no queue and be dropped" (launcher.rs:219).
EdgesDeclared == st = "running" => edges \subseteq cfg.ports

=============================================================================
