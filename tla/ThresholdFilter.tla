--------------------------- MODULE ThresholdFilter --------------------------
(***************************************************************************)
(* A filter node built twice from one configuration table: the             *)
(* threshold-filter plugin, which may be hot-swapped for threshold-filter  *)
(* v2 and reconfigured, and the native baseline it is measured against.    *)
(* Every message is given to both.                                         *)
(*                                                                         *)
(* A message is [utf8, members, spaced]: its members in order, each a key  *)
(* and a value token, and whether the writer puts a space after a colon.   *)
(***************************************************************************)
EXTENDS JsonText, SequencesExt

CONSTANTS
    Tables,     \* configuration tables: [field, min, max], each a token or Absent
    Messages,
    MinFloor    \* threshold-filter v2's MIN_FLOOR

VARIABLES
    table,      \* the table in the pipeline file
    inForce,    \* the table the plugin's instance was initialised with
    plugin,     \* the plugin's state: its FilterConfig, none yet, or a refusal
    version,    \* 1 or 2: which plugin binary the node runs
    native,     \* the native filter: its field and bounds, none yet, or a refusal
    last        \* the last message and the two verdicts

vars == <<table, inForce, plugin, version, native, last>>

Absent == [k |-> "absent"]
Inf == [is |-> "inf", n |-> 0]
NoFilter == [st |-> "none"]
Rejected == [st |-> "rejected"]
Built(field, min, max) == [st |-> "on", field |-> field, min |-> min, max |-> max]
NoVerdict == [of |-> <<>>, wasm |-> "none", native |-> "none"]

-----------------------------------------------------------------------------
\* serde_json writes a table with its keys sorted and no space, and a number
\* that is not finite as null.
JsonToken(t) == IF t.k \in {"inf", "nan"} THEN Word ELSE t
Member(key, t, spaced) ==
    <<Str(key), Punct(":")>> \o (IF spaced THEN <<Space>> ELSE <<>>) \o <<t>>
Object(members, spaced) ==
    LET Each(i) == (IF i = 1 THEN <<>> ELSE <<Punct(",")>>)
                     \o Member(members[i][1], members[i][2], spaced)
    IN <<Punct("{")>> \o FlattenSeq([i \in 1..Len(members) |-> Each(i)]) \o <<Punct("}")>>

NodeConfigJson(t) ==
    Object(SelectSeq(<< <<"field", JsonToken(t.field)>>, <<"max", JsonToken(t.max)>>,
                        <<"min", JsonToken(t.min)>> >>,
                     LAMBDA m : m[2] # Absent), FALSE)

\* f64 comparisons: every one that involves NaN is false.
AtMost(a, b) ==
    \/ a.is = "num" /\ b.is = "num" /\ a.n <= b.n
    \/ a.is \in {"num", "inf"} /\ b.is = "inf"
Above(a, b) ==
    \/ a.is = "num" /\ b.is = "num" /\ a.n > b.n
    \/ a.is = "inf" /\ b.is = "num"

-----------------------------------------------------------------------------
(* The plugin. *)

ParseFilterConfig(json) ==
    LET field == ExtractStringNear(json, "field")
        min == ExtractNumber(json, "min")
        max == ExtractNumber(json, "max")
    IN IF field = <<>> \/ min = Nothing \/ max = Nothing \/ Above(min, max)
         THEN Rejected ELSE Built(field[1], min, max)

Text(m) == Object(m.members, m.spaced)

\* evaluate of threshold-filter
WasmEvaluate(m, cfg) ==
    LET v == ExtractNumber(Text(m), cfg.field)
    IN IF ~m.utf8 \/ v = Nothing THEN "bad_input"
       ELSE IF AtMost(cfg.min, v) /\ AtMost(v, cfg.max) THEN "forward" ELSE "drop"

\* evaluate of threshold-filter v2: f64::max takes the other operand of a NaN.
WasmEvaluateV2(m, cfg) ==
    LET v == ExtractNumber(Text(m), cfg.field)
        min == IF Above(cfg.min, Num(MinFloor)) THEN cfg.min ELSE Num(MinFloor)
    IN IF ~m.utf8 \/ v = Nothing THEN "bad_input"
       ELSE IF AtMost(min, v) /\ AtMost(v, cfg.max) THEN "forward" ELSE "drop"

-----------------------------------------------------------------------------
(* The native baseline. *)

\* as_f64 of a TOML value, as an optional number
AsF64(t) ==
    CASE t.k = "inf" -> Inf
      [] t.k = "lit" -> Num(Signed(t) * 10 ^ t.exp)
      [] t.k = "nan" -> NaN
      [] OTHER -> Nothing

OrElse(v, default) == IF v = Nothing THEN default ELSE v

\* threshold_native_config
ThresholdNativeConfig(t) ==
    LET field == IF t.field.k = "str" THEN t.field.v ELSE "temperature"
        min == OrElse(AsF64(t.min), Num(0))
        max == OrElse(AsF64(t.max), Inf)
    IN IF Above(min, max) THEN Rejected ELSE Built(field, min, max)

\* range_filter: the predicate; the node's outcome has no third value.
NativeEvaluate(m, cfg) ==
    LET v == ExtractJsonNumber(Text(m), cfg.field)
    IN IF m.utf8 /\ AtMost(cfg.min, v) /\ AtMost(v, cfg.max) THEN "forward" ELSE "drop"

-----------------------------------------------------------------------------
(* The two nodes. *)

Init ==
    /\ table \in Tables
    /\ inForce = table
    /\ plugin = NoFilter
    /\ version = 1
    /\ native = NoFilter
    /\ last = NoVerdict

\* Launch: both builds read the same table; the plugin sees its JSON text and
\* validates it before init stores it.
Launch ==
    /\ plugin = NoFilter
    /\ plugin' = ParseFilterConfig(NodeConfigJson(table))
    /\ native' = ThresholdNativeConfig(table)
    /\ UNCHANGED <<table, inForce, version, last>>

Running == plugin.st = "on"

\* try_reconfigure: a new instance of the plugin is validated and initialised
\* with the new table, or the old one stays; the native filter refuses.
Reconfigure(t) ==
    /\ Running
    /\ LET cfg == ParseFilterConfig(NodeConfigJson(t))
       IN IF cfg = Rejected THEN UNCHANGED <<inForce, plugin>>
          ELSE inForce' = t /\ plugin' = cfg
    /\ UNCHANGED <<table, version, native, last>>

\* A hot-swap between the two binaries keeps the configuration in force; only
\* the Wasm node can take one.
HotSwap ==
    /\ Running
    /\ version' = 3 - version
    /\ plugin' = ParseFilterConfig(NodeConfigJson(inForce))
    /\ UNCHANGED <<table, inForce, native, last>>

Evaluate(m) ==
    /\ Running \/ native.st = "on"
    /\ last' = [of |-> <<m>>,
                wasm |-> IF ~Running THEN "none"
                         ELSE IF version = 1 THEN WasmEvaluate(m, plugin)
                         ELSE WasmEvaluateV2(m, plugin),
                native |-> IF native.st # "on" THEN "none" ELSE NativeEvaluate(m, native)]
    /\ UNCHANGED <<table, inForce, plugin, version, native>>

Next ==
    \/ Launch
    \/ \E t \in Tables : Reconfigure(t)
    \/ HotSwap
    \/ \E m \in Messages : Evaluate(m)
    \/ plugin = Rejected /\ native = Rejected /\ UNCHANGED vars

Spec == Init /\ [][Next]_vars

-----------------------------------------------------------------------------
(* Properties. *)

\* The first member that has the key, or whose text ends in it.
NamedAt(m, key) ==
    LET I == {i \in 1..Len(m.members) :
                \/ m.members[i][1] = key
                \/ m.members[i][2].k = "str" /\ m.members[i][2].ends = key}
    IN IF I = {} THEN 0 ELSE Min(I)

\* The value a message has for a key.  A member with the key has it; a member that
\* only has the key for a text passes it on: the plugins take the member after it,
\* of whatever key, and the native baseline takes none.
Held(m, key) ==
    LET i == NamedAt(m, key)
    IN IF i = 0 THEN <<>>
       ELSE IF m.members[i][1] = key THEN <<m.members[i][2]>>
       ELSE IF i < Len(m.members) THEN <<m.members[i + 1][2]>> ELSE <<>>

HeldByKey(m, key) ==
    LET i == NamedAt(m, key)
    IN IF i # 0 /\ m.members[i][1] = key THEN <<m.members[i][2]>> ELSE <<>>

\* The numbers of JSON: no "+", no letter after the digits, no NaN.
IsJsonNumber(t) == t.k = "lit" /\ t.sign # "+" /\ ~t.junk

\* What a value counts for: a number of JSON for itself, to the native baseline
\* only without an exponent (node/native/mod.rs:469); anything else for what the
\* parser makes of it.
JsonValue(t) == Num(Signed(t) * 10 ^ t.exp)
PluginNumber(t) == IF IsJsonNumber(t) THEN JsonValue(t) ELSE ParseF64(t)
NativeNumber(t) == IF IsJsonNumber(t) /\ t.exp = 0 THEN JsonValue(t) ELSE ParsePrefix(t)

\* A verdict on a value; threshold-filter has no floor: every number is its own.
Verdict(v, t, floor) ==
    IF v = Nothing THEN "bad_input"
    ELSE IF AtMost(AsF64(t.min), v) /\ AtMost(floor, v) /\ AtMost(v, AsF64(t.max))
      THEN "forward" ELSE "drop"

\* The range the plugin keeps.  A field called "min" hides the minimum, which is
\* looked for in the table's text: what is read for it is the maximum, the number
\* after the next colon.
Kept(t) == IF t.field.v = "min" THEN [t EXCEPT !.min = t.max] ELSE t

\* What the plugin answers, after any reconfigurations and swaps: it forwards a
\* message exactly when the value of the configured field is in the range of the
\* table in force (plugins/threshold-filter/src/lib.rs:57), cut at the floor when
\* the node runs version 2, and reports every message without such a number.  When
\* the field's name stands first in a member's text (lib.rs:119), the message is
\* judged by the member after it.
WasmVerdictExact ==
    last' # last /\ Running =>
        LET m == last'.of[1]
            held == Held(m, inForce.field.v)
            v == IF ~m.utf8 \/ held = <<>> THEN Nothing ELSE PluginNumber(held[1])
        IN last'.wasm = Verdict(v, Kept(inForce), IF version = 2 THEN Num(MinFloor) ELSE v)

Complete(t) == t.field.k = "str" /\ AsF64(t.min) # Nothing /\ AsF64(t.max) # Nothing

\* What the native filter answers: it forwards a message exactly when the value of
\* the configured field is in the range of the table in the pipeline file, whatever
\* the Wasm node was reconfigured to or swapped for meanwhile
\* (node/native/mod.rs:440); an exponent is cut off the value, and a message with
\* the field's name in an earlier text is dropped (:466).
NativeVerdictExact ==
    last' # last /\ native # Rejected /\ Complete(table) =>
        LET m == last'.of[1]
            held == HeldByKey(m, table.field.v)
            v == IF ~m.utf8 \/ held = <<>> THEN Nothing ELSE NativeNumber(held[1])
        IN last'.native = "forward" <=> Verdict(v, table, v) = "forward"

\* The native filter and the plugin forward the same messages as long as both
\* are configured by the pipeline file.  "`NativeFilter::range` must stay
\* bit-identical to the WIT plugin" (tests/native_threshold_filter.rs:13).
TwinsAgree ==
    [][last' # last /\ inForce = table /\ version = 1 /\ Running /\ native # Rejected =>
         (last'.wasm = "forward" <=> last'.native = "forward")]_vars

\* A table the one build accepts the other accepts too.  "Matches the
\* `plugins/threshold-filter` schema exactly so a `plugin.kind` swap is a
\* one-line config edit" (launcher.rs:510).
SchemaShared == plugin # NoFilter => (plugin = Rejected <=> native = Rejected)

\* A message without the field is a drop in both builds.  "Malformed inputs are
\* indistinguishable from a false predicate at the `FilterOutcome` layer"
\* (tests/native_threshold_filter.rs:117).
MalformedDrops == last.native = "drop" => last.wasm # "bad_input"

=============================================================================
