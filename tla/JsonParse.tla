------------------------------ MODULE JsonParse -----------------------------
(***************************************************************************)
(* The json-parse plugin, a hand-written validator and pretty-printer, and *)
(* the native transform it is compared with.  Texts are token sequences as *)
(* in JsonText; the layout of the output is left out, so what is printed   *)
(* is the sequence of its tokens.                                          *)
(***************************************************************************)
EXTENDS JsonText, SequencesExt

CONSTANTS
    Payloads,       \* [utf8, tokens]
    NonAscii,       \* string contents with a character beyond ASCII
    Mangled,        \* such a content, its UTF-8 bytes printed one by one
    BadStrings      \* contents JSON has no string for: an unknown escape, a raw control

VARIABLES
    payload,
    wasm,           \* the plugin's result: none yet, an error or the output
    native          \* the native transform's

vars == <<payload, wasm, native>>

NoResult == [is |-> "none", tokens |-> <<>>]
Failed(kind) == [is |-> kind, tokens |-> <<>>]
Emit(tokens) == [is |-> "emit", tokens |-> tokens]

-----------------------------------------------------------------------------
(* The plugin. *)

\* format_number and format_literal: a token they read to its end.
Scalar(t) == (t.k = "lit" /\ ~t.junk /\ t.sign # "+") \/ t.k \in {"word", "str"}

ValueEnds(s, p) == IF Kind(s, p) \in {"lit", "nan", "word", "str"} /\ Scalar(s[p]) THEN p + 1 ELSE 0

\* format_value, and the loops of format_object and format_array: the position
\* after the value, member list or element list that starts at p; 0 for an error.
FormatValue(s) ==
    LET F[w \in {"value", "member", "element"}, p \in 1..(Len(s) + 2)] ==
          LET q == SkipSpace(s, p)
              inner == SkipSpace(s, q + 1)
              close == IF w = "member" THEN "}" ELSE "]"
              v == IF w = "element" THEN F["value", q]
                   ELSE IF Kind(s, q) = "str" /\ Kind(s, inner) = ":"
                          THEN F["value", inner + 1] ELSE 0
              d == SkipSpace(s, v)
          IN CASE w = "value" /\ Kind(s, q) = "{" ->
                      IF Kind(s, inner) = "}" THEN inner + 1 ELSE F["member", q + 1]
               [] w = "value" /\ Kind(s, q) = "[" ->
                      IF Kind(s, inner) = "]" THEN inner + 1 ELSE F["element", q + 1]
               [] w = "value" -> ValueEnds(s, q)
               [] w # "value" /\ v = 0 -> 0
               [] OTHER -> IF Kind(s, d) = "," THEN F[w, d + 1]
                           ELSE IF Kind(s, d) = close THEN d + 1 ELSE 0
    IN F["value", 1]

\* format_string pushes every byte of a string as a character of its own.
FormatString(t) ==
    IF t.k = "str" /\ t.v \in NonAscii THEN [t EXCEPT !.v = Mangled] ELSE t

Content(s) == SelectSeq(s, LAMBDA t : t.k \notin {"ws", "nl"})

\* json_pretty_print, as an optional output
JsonPrettyPrint(s) ==
    LET end == FormatValue(s)
        out == Content(s)
    IN IF end = 0 \/ SkipSpace(s, end) # Len(s) + 1 THEN <<>>
       ELSE <<[i \in 1..Len(out) |-> FormatString(out[i])]>>

\* process
PluginResult(p) ==
    LET out == JsonPrettyPrint(p.tokens)
    IN IF ~p.utf8 \/ p.tokens = <<>> \/ out = <<>> THEN Failed("bad_input") ELSE Emit(out[1])

-----------------------------------------------------------------------------
(* The native transform: json_parse, and ProcessNode::process, which makes a  *)
(* retriable error a failed processing and any other a bad input.             *)

NativeResult(p) ==
    LET v == ExtractJsonNumber(p.tokens, "temperature")
    IN IF ~p.utf8 THEN Failed("bad_input")
       ELSE IF v = Nothing THEN Failed("processing_failed")
       ELSE Emit(<<Punct("{"), Str("temperature"), Punct(":"), Plain(v.n), Punct("}")>>)

-----------------------------------------------------------------------------
Init == payload \in Payloads /\ wasm = NoResult /\ native = NoResult

WasmProcess ==
    wasm = NoResult /\ wasm' = PluginResult(payload) /\ UNCHANGED <<payload, native>>

NativeProcess ==
    native = NoResult /\ native' = NativeResult(payload) /\ UNCHANGED <<payload, wasm>>

\* Both have answered for this payload.
Done == wasm # NoResult /\ native # NoResult /\ UNCHANGED vars

Next == WasmProcess \/ NativeProcess \/ Done

Spec == Init /\ [][Next]_vars

-----------------------------------------------------------------------------
(* Properties. *)

\* JSON's grammar on a text without space, whatever its strings hold, by spans:
\* the tokens from i to j are a value, or a comma-separated list of members or
\* of elements.
HasJsonForm(s) ==
    LET G[w \in {"value", "member", "element"}, i \in 1..(Len(s) + 1), j \in 0..Len(s)] ==
          CASE w = "value" /\ i = j -> Scalar(s[i])
            [] w = "value" /\ i < j ->
                 \/ s[i].k = "{" /\ s[j].k = "}" /\ (j = i + 1 \/ G["member", i + 1, j - 1])
                 \/ s[i].k = "[" /\ s[j].k = "]" /\ (j = i + 1 \/ G["element", i + 1, j - 1])
            [] w # "value" /\ i <= j ->
                 \E m \in i..j :
                    /\ IF w = "element" THEN G["value", i, m]
                       ELSE /\ m >= i + 2 /\ s[i].k = "str" /\ s[i + 1].k = ":"
                            /\ G["value", i + 2, m]
                    /\ m = j \/ (s[m + 1].k = "," /\ m + 1 < j /\ G[w, m + 2, j])
            [] OTHER -> FALSE
    IN G["value", 1, Len(s)]

Holding(s, contents) == {i \in 1..Len(s) : s[i].k = "str" /\ s[i].v \in contents}

IsJson(s) == HasJsonForm(s) /\ Holding(s, BadStrings) = {}

\* The plugin emits exactly the payloads that have the form of JSON.  It does not
\* look into a string, so its promise to return "Err(()) if the input is not
\* valid JSON" (plugins/json-parse/src/lib.rs:63) has one exception: a string with
\* an escape JSON does not have or with a raw control character goes through, and
\* only then is the output no JSON.
AcceptsExactlyJson ==
    /\ wasm # NoResult =>
         (wasm.is = "emit" <=> payload.utf8 /\ HasJsonForm(Content(payload.tokens)))
    /\ wasm.is = "emit" => (IsJson(wasm.tokens) <=> IsJson(Content(payload.tokens)))

\* What the plugin emits is the document it was given (lib.rs:3): token by token
\* the same, except for the strings with a character beyond ASCII, whose bytes it
\* prints as characters of their own (lib.rs:243).  Every such string comes out as
\* another one, so the document is unchanged exactly when it has none.
OutputIsTheDocument ==
    LET in == Content(payload.tokens)
        beyond == Holding(in, NonAscii)
    IN wasm.is = "emit" =>
         /\ DOMAIN wasm.tokens = DOMAIN in
         /\ \A i \in DOMAIN in : wasm.tokens[i] # in[i] <=> i \in beyond
         /\ \A i \in beyond : wasm.tokens[i].k = "str"

\* The native transform does what the plugin does.  "matches the canonical
\* Pipeline A json-parse Wasm plugin" (node/native/mod.rs:64).
NativeMatchesPlugin ==
    wasm # NoResult /\ native # NoResult => native = wasm

=============================================================================
