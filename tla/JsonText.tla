------------------------------ MODULE JsonText ------------------------------
(***************************************************************************)
(* The hand-written JSON scanners of the plugins and of the native         *)
(* baseline.  None of them parses JSON: they search the text for a quoted  *)
(* key and read on from there.                                             *)
(*                                                                         *)
(* A text is a sequence of tokens.  A quoted string is one token, a key or *)
(* a value; it keeps what the searches can find in it: what stands between *)
(* its last two quotes, of which the former may be escaped, and whether it *)
(* holds a colon, followed by no number and no quote.  A number is one     *)
(* token that keeps what parsers disagree on: its sign, its digits, its    *)
(* exponent and whether something unparsable follows.  A text ends where a *)
(* string lacks its closing quote.                                         *)
(***************************************************************************)
EXTENDS Integers, Sequences, FiniteSets, FiniteSetsExt

Punct(c) == [k |-> c]
Str(s) == [k |-> "str", v |-> s, ends |-> s, colon |-> FALSE]
StrWithColon(s) == [Str(s) EXCEPT !.colon = TRUE]
StrEnding(s, end) == [Str(s) EXCEPT !.ends = end]
Unclosed == [k |-> "quote"]
Space == [k |-> "ws"]
NewLine == [k |-> "nl"]

\* Number literals: sign "", "-" or "+"; digits; exponent, 0 when there is
\* none; and a trailing unit or letter.  "NaN" is a literal of its own.
Lit(sign, digits, exp, junk) ==
    [k |-> "lit", sign |-> sign, digits |-> digits, exp |-> exp, junk |-> junk]
Plain(n) == Lit(IF n < 0 THEN "-" ELSE "", IF n < 0 THEN 0 - n ELSE n, 0, FALSE)
NaNLit == [k |-> "nan"]
Word == [k |-> "word"]     \* null, true, false

\* The result of a scan: a number, NaN, or nothing.
Num(n) == [is |-> "num", n |-> n]
NaN == [is |-> "nan", n |-> 0]
Nothing == [is |-> "none", n |-> 0]

Signed(t) == IF t.sign = "-" THEN 0 - t.digits ELSE t.digits

\* str::parse::<f64> of one whole token.
ParseF64(t) ==
    CASE t.k = "lit" /\ ~t.junk -> Num(Signed(t) * 10 ^ t.exp)
      [] t.k = "nan" -> NaN
      [] OTHER -> Nothing

\* The same of the token's longest prefix of digits, points and minus signs.
ParsePrefix(t) ==
    IF t.k = "lit" /\ t.sign # "+" THEN Num(Signed(t)) ELSE Nothing

-----------------------------------------------------------------------------
Kind(s, i) == IF i \in 1..Len(s) THEN s[i].k ELSE "end"

\* str::find of the quoted key: its first occurrence, as a key, as a value or
\* as the end of either; 0 when it does not occur.
FindKey(s, key) ==
    LET P == {i \in 1..Len(s) : s[i].k = "str" /\ s[i].ends = key}
    IN IF P = {} THEN 0 ELSE Min(P)

\* trim_start
SkipSpace(s, i) == Min({j \in i..(Len(s) + 1) : Kind(s, j) \notin {"ws", "nl"}})

\* find(':') from position i on: a colon, or a string that holds one; 0 when
\* there is none.
FindColon(s, i) ==
    LET P == {j \in i..Len(s) : s[j].k = ":" \/ (s[j].k = "str" /\ s[j].colon)}
    IN IF P = {} THEN 0 ELSE Min(P)

\* Where a number ends for the plugins: at "," "}" "]" or a line end.
NumberEnd(s, i) ==
    Min({j \in i..(Len(s) + 1) : Kind(s, j) \in {",", "}", "]", "nl", "end"}})

\* extract_number of the plugins: the token between the next colon, wherever
\* it is, and the next delimiter.
ExtractNumber(s, key) ==
    LET at == FindKey(s, key)
        colon == FindColon(s, at + 1)
        from == SkipSpace(s, colon + 1)
        upto == NumberEnd(s, from) - 1
        tokens == {i \in from..upto : s[i].k # "ws"}
    IN IF at = 0 \/ colon = 0 \/ s[colon].k = "str" \/ Cardinality(tokens) # 1
         THEN Nothing ELSE ParseF64(s[from])

\* extract_json_number of the native baseline: the colon has to follow the key,
\* and the number is its leading digits.
ExtractJsonNumber(s, key) ==
    LET at == FindKey(s, key)
        colon == SkipSpace(s, at + 1)
        from == SkipSpace(s, colon + 1)
    IN IF at = 0 \/ Kind(s, colon) # ":" \/ Kind(s, from) = "end"
         THEN Nothing ELSE ParsePrefix(s[from])

\* The string token at position i, as an optional value.
StringAt(s, i) == IF Kind(s, i) = "str" THEN <<s[i].v>> ELSE <<>>

\* extract_string_value of the threshold filters: one character, white space or
\* a colon, is taken off after the key.
ExtractStringNear(s, key) ==
    LET at == FindKey(s, key)
    IN IF at = 0 \/ Kind(s, at + 1) \notin {"ws", "nl", ":"}
         THEN <<>> ELSE StringAt(s, SkipSpace(s, at + 2))

\* extract_string_value of the content router: from the next colon on.
ExtractString(s, key) ==
    LET at == FindKey(s, key)
        colon == FindColon(s, at + 1)
    IN IF at = 0 \/ colon = 0 \/ s[colon].k = "str"
         THEN <<>> ELSE StringAt(s, SkipSpace(s, colon + 1))

\* find_matching_brace from position i on: the first "}" that closes no "{"
\* opened on the way; 0 when there is none.
MatchingBrace(s, i) ==
    LET Count(c, j) == Cardinality({n \in i..(j - 1) : s[n].k = c})
        P == {j \in i..Len(s) : s[j].k = "}" /\ Count("{", j) = Count("}", j)}
    IN IF P = {} THEN 0 ELSE Min(P)

=============================================================================
