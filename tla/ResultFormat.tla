---------------------------- MODULE ResultFormat ----------------------------
(***************************************************************************)
(* The result-format plugin: it reads a tensor of scores, finds the best,  *)
(* names it, compares it with a threshold and prints both and every score  *)
(* with four decimal places.                                               *)
(*                                                                         *)
(* A score is a number of Unit-ths, NaN or an infinity; the rounding of    *)
(* f32 and f64 is left out.  A printed number is what a reader of the text *)
(* gets, in ten-thousandths.                                               *)
(***************************************************************************)
EXTENDS JsonText, SequencesExt

CONSTANTS
    Tables,     \* [labels, threshold]: tokens, see NodeConfigJson
    Payloads    \* [aligned, scores]

Unit == 100000          \* a score's resolution
NegInf == [is |-> "-inf", n |-> 0]
PosInf == [is |-> "inf", n |-> 0]
Half == Unit \div 2     \* the default threshold

VARIABLES
    table,
    cfg,        \* the plugin's configuration, or a refusal
    payload,
    next,       \* the score the fold looks at next
    best,       \* the fold's pair: index and value of the best so far
    out         \* none yet, a bad input, or what the output says

vars == <<table, cfg, payload, next, best, out>>

NoOutput == [is |-> "none"]

-----------------------------------------------------------------------------
(* Configuration. *)

Optional(key, tokens) == IF tokens = <<>> THEN <<>> ELSE <<Str(key), Punct(":")>> \o tokens

\* serde_json's text of a table.  Both entries are optional token sequences.
NodeConfigJson(t) ==
    <<Punct("{")>> \o Optional("labels", t.labels)
      \o (IF t.labels # <<>> /\ t.threshold # <<>> THEN <<Punct(",")>> ELSE <<>>)
      \o Optional("threshold", t.threshold) \o <<Punct("}")>>

\* extract_string_array: the strings from the bracket on, up to the first
\* element that is none; the matching bracket has to be there.
ExtractStringArray(s, key) ==
    LET at == FindKey(s, key)
        open == SkipSpace(s, FindColon(s, at + 1) + 1)
        S[p \in 1..(Len(s) + 2)] ==
            LET q == SkipSpace(s, p)
                after == SkipSpace(s, q + 1)
            IN IF Kind(s, q) # "str" THEN <<>>
               ELSE <<s[q].v>> \o S[IF Kind(s, after) = "," THEN after + 1 ELSE after]
    IN IF at = 0 \/ FindColon(s, at + 1) = 0 \/ Kind(s, open) # "["
             \/ ~\E i \in open..Len(s) : s[i].k = "]"
         THEN <<>> ELSE <<S[open + 1]>>

\* parse_result_config
ParseResultConfig(s) ==
    LET labels == ExtractStringArray(s, "labels")
        t == ExtractNumber(s, "threshold")
    IN IF labels = <<>> THEN [ok |-> FALSE]
       ELSE IF labels[1] = <<>> THEN [ok |-> FALSE]
       ELSE [ok |-> TRUE, labels |-> labels[1],
             threshold |-> IF t.is = "num" THEN t.n ELSE Half]

-----------------------------------------------------------------------------
(* The fold and the output. *)

\* v > best of two f32
Greater(v, b) ==
    \/ v.is = "num" /\ (b = NegInf \/ (b.is = "num" /\ v.n > b.n))
    \/ v = PosInf /\ b # PosInf

Magnitude(n) == IF n < 0 THEN 0 - n ELSE n

\* format_f32_fixed: the integer part, and the fraction rounded on its own and
\* printed without its trailing zeros; ten thousand prints as a one.  An infinity
\* saturates both parts and prints some number.
FormatF32Fixed(v) ==
    LET n == Magnitude(v.n)
        frac == ((n % Unit) + 5) \div 10
        read == (n \div Unit) * 10000 + (IF frac = 10000 THEN 1000 ELSE frac)
    IN CASE v.is = "nan" -> [is |-> "num", n |-> 0]
         [] v.is \in {"inf", "-inf"} -> [is |-> "garbage", n |-> 0]
         [] OTHER -> [is |-> "num", n |-> IF v.n < 0 THEN 0 - read ELSE read]

\* max_idx counts from zero, the labels of the model from one.
Prediction(i) == IF i < Len(cfg.labels) THEN cfg.labels[i + 1] ELSE "unknown"

Init ==
    /\ table \in Tables
    /\ cfg = ParseResultConfig(NodeConfigJson(table))
    /\ payload \in Payloads
    /\ next = 1
    /\ best = [i |-> 0, v |-> NegInf]
    /\ out = NoOutput

\* An empty payload, or one that is not a whole number of scores
Refuse ==
    /\ cfg.ok /\ out = NoOutput /\ next = 1
    /\ payload.scores = <<>> \/ ~payload.aligned
    /\ out' = [is |-> "bad_input"]
    /\ UNCHANGED <<table, cfg, payload, next, best>>

Usable == cfg.ok /\ out = NoOutput /\ payload.scores # <<>> /\ payload.aligned

Scan ==
    /\ Usable /\ next <= Len(payload.scores)
    /\ best' = IF Greater(payload.scores[next], best.v)
                 THEN [i |-> next - 1, v |-> payload.scores[next]] ELSE best
    /\ next' = next + 1
    /\ UNCHANGED <<table, cfg, payload, out>>

\* build_json_output
Build ==
    /\ Usable /\ next = Len(payload.scores) + 1
    /\ out' = [is |-> "emit",
               prediction |-> Prediction(best.i),
               above |-> best.v = PosInf \/ (best.v.is = "num" /\ best.v.n >= cfg.threshold),
               confidence |-> FormatF32Fixed(best.v),
               scores |-> [i \in 1..Len(payload.scores) |-> FormatF32Fixed(payload.scores[i])]]
    /\ UNCHANGED <<table, cfg, payload, next, best>>

Next == Refuse \/ Scan \/ Build \/ ((~cfg.ok \/ out # NoOutput) /\ UNCHANGED vars)

Spec == Init /\ [][Next]_vars

-----------------------------------------------------------------------------
(* Properties. *)

Indices == 1..Len(payload.scores)

\* The indices of the scores there is something to compare of, and the first of
\* them that no other exceeds; NaN and minus infinity never win.
Ranked == {i \in Indices : payload.scores[i].is \in {"num", "inf"}}

AtLeast(v, n) == v = PosInf \/ (v.is = "num" /\ v.n >= n)

Winner == CHOOSE i \in Ranked :
            \A j \in Ranked :
               /\ payload.scores[i] # PosInf => ~AtLeast(payload.scores[j], payload.scores[i].n + 1)
               /\ j < i => payload.scores[i] # payload.scores[j]

\* The output names the label of the first of the best scores, and says it is
\* above the threshold exactly when some score is; a tensor of NaN and minus
\* infinity is above no threshold (plugins/result-format/src/lib.rs:75).
NamesTheBest ==
    out.is = "emit" =>
        /\ Ranked # {} => out.prediction = IF Winner <= Len(cfg.labels) THEN cfg.labels[Winner]
                                           ELSE "unknown"
        /\ out.above <=> \E i \in Ranked : AtLeast(payload.scores[i], cfg.threshold)

\* The fraction of a score that comes to a whole when it is rounded.
RoundsUp(n) == Magnitude(n) % Unit >= Unit - 5

\* A finite score reads back as itself to four decimal places, as "write f32 with
\* up to 4 decimal places, trimming trailing zeros"
\* (plugins/result-format/src/lib.rs:132) says, with one exception: a fraction that
\* rounds up to a whole is not carried but printed as one tenth, so that 0.99996
\* reads 0.1.
PrintedClose ==
    out.is = "emit" =>
        \A i \in Indices : payload.scores[i].is = "num" =>
            LET n == payload.scores[i].n
                read == out.scores[i].n * 10
                whole == Magnitude(n) \div Unit
            IN IF RoundsUp(n)
                 THEN Magnitude(read) = whole * Unit + Unit \div 10 /\ (read < 0 <=> n < 0)
                 ELSE Magnitude(read - n) <= 5

\* Every index has a name of its own.  "Map index to label (use index string if
\* out of range)" (plugins/result-format/src/lib.rs:82).
IndexNamed == out.is = "emit" => out.prediction # "unknown"

=============================================================================
