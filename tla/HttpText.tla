------------------------------ MODULE HttpText ------------------------------
(***************************************************************************)
(* Text as the HTTP library takes it apart and puts it together: split     *)
(* and trim, percent encoding, and queries.  A text is a sequence of       *)
(* characters; which ones there are, and how they are written in hex, is   *)
(* left to constants.                                                      *)
(***************************************************************************)
EXTENDS Naturals, Texts

CONSTANTS
  Hex,     \* the hexadecimal digits among the characters
  Byte,    \* Byte[<<h, l>>], the character whose code these two digits are
  Unicode, \* Unicode[<<a, b, c, d>>], the bytes that to_utf8 makes of a code
  Safe     \* the characters that encode_query_param leaves as they are

Space     == " "
Quote     == "\""
Semicolon == ";"
Blanks    == {Space, "\t"}

\* isalnum decides on both, besides a few signs that separate nothing.
ASSUME TextAssumption ==
  /\ (Safe \cup Hex) \cap ({"%", "&", "=", "+"} \cup Blanks) = {}
  /\ "u" \notin Hex /\ DOMAIN Byte \subseteq [1..2 -> Hex]

\* The text between its first and its last character that is no blank.
Trim(s) ==
  LET Solid == {i \in DOMAIN s : s[i] \notin Blanks}
  IN  IF Solid = {} THEN << >> ELSE SubSeq(s, Min(Solid), Max(Solid))

TrimDoubleQuotes(s) ==
  IF Len(s) >= 2 /\ s[1] = Quote /\ Last(s) = Quote THEN SubSeq(s, 2, Len(s) - 1) ELSE s

NonEmpty(piece) == IF piece = << >> THEN << >> ELSE <<piece>>

\* The pieces between separators, trimmed, without the empty ones.
Split(s, d) ==
  LET from[i \in 1..Len(s) + 1] ==
        LET end == FindFrom(s, d, i)
        IN  NonEmpty(Trim(Slice(s, i, end))) \o IF end > Len(s) THEN << >> ELSE from[end + 1]
  IN  from[1]

-----------------------------------------------------------------------------
(* Percent encoding.                                                       *)

HexAt(s, i, n) == i + n - 1 <= Len(s) /\ \A k \in i..i + n - 1 : s[k] \in Hex

\* What stands at i: the text it is read as, and how many characters it takes.
\* A percent sign that no digits follow stands for itself.
Unit(s, i, plusIsSpace) ==
  CASE s[i] = "%" /\ i < Len(s) /\ s[i + 1] = "u" /\ HexAt(s, i + 2, 4) ->
         [text |-> Unicode[SubSeq(s, i + 2, i + 5)], taken |-> 6]
    [] s[i] = "%" /\ HexAt(s, i + 1, 2) ->
         [text |-> <<Byte[SubSeq(s, i + 1, i + 2)]>>, taken |-> 3]
    [] s[i] = "+" /\ plusIsSpace -> [text |-> <<Space>>, taken |-> 1]
    [] OTHER -> [text |-> <<s[i]>>, taken |-> 1]

DecodeUrl(s, plusIsSpace) ==
  LET from[i \in 1..Len(s) + 1] ==
        IF i > Len(s) THEN << >>
        ELSE LET unit == Unit(s, i, plusIsSpace) IN unit.text \o from[i + unit.taken]
  IN  from[1]

\* Plausible bug: a plus sign is taken for a safe character.
SafeWithPlus(c) == c \in Safe \/ c = "+"

IsSafe(c) == c \in Safe

Encoded(c) == IF IsSafe(c) THEN <<c>> ELSE <<"%">> \o CHOOSE p \in DOMAIN Byte : Byte[p] = c

EncodeQueryParam(value) ==
  LET from[i \in 1..Len(value) + 1] ==
        IF i > Len(value) THEN << >> ELSE Encoded(value[i]) \o from[i + 1]
  IN  from[1]

-----------------------------------------------------------------------------
(* Queries: sequences of a key and a value each.  Params is a multimap,    *)
(* and what comes of it is compared as a set.                              *)

Written(param) == param.key \o <<"=">> \o EncodeQueryParam(param.value)

ParamsToQueryStr(params) ==
  LET from[i \in 1..Len(params) + 1] ==
        IF i > Len(params) THEN << >>
        ELSE (IF i = 1 THEN << >> ELSE <<"&">>) \o Written(params[i]) \o from[i + 1]
  IN  from[1]

\* The first piece is the key; of several values the last one counts.
KeyValue(kv) ==
  LET pieces == Split(kv, "=")
  IN  [key   |-> IF pieces = << >> THEN << >> ELSE pieces[1],
       value |-> IF Len(pieces) < 2 THEN << >> ELSE Last(pieces)]

ParseParams(s, d) ==
  {KeyValue(kv) : kv \in {p \in ToSet(Split(s, d)) : KeyValue(p).key # << >>}}

ParseQueryText(s) ==
  {[key |-> DecodeUrl(p.key, TRUE), value |-> DecodeUrl(p.value, TRUE)] :
     p \in ParseParams(s, "&")}

ParseDispositionParams(s) ==
  {[key |-> TrimDoubleQuotes(p.key), value |-> TrimDoubleQuotes(p.value)] :
     p \in ParseParams(s, Semicolon)}

-----------------------------------------------------------------------------
Quoted(text) == <<Quote>> \o text \o <<Quote>>

Quoting(key, text) == <<key>> \o <<"=">> \o Quoted(text)

Disposition(name, filename) ==
  Quoting("n", name) \o <<Semicolon>> \o (<<Space>> \o Quoting("f", filename))

(* Whatever characters the values of a query hold (separators, percent and  *)
(* plus signs, blanks at either end), reading the query gives them back; in *)
(* the parameters of a form's part, which are quoted and not encoded, the   *)
(* separators are the only characters that do not survive.                  *)
ParametersSurvive(params) ==
  /\ (\A i \in DOMAIN params : params[i].key # << >> /\ ToSet(params[i].key) \subseteq Safe) =>
       ParseQueryText(ParamsToQueryStr(params)) = ToSet(params)
  /\ \A i, j \in DOMAIN params :
       (ToSet(params[i].value) \cup ToSet(params[j].value)) \cap {Semicolon, "=", Quote} = {} =>
         ParseDispositionParams(Disposition(params[i].value, params[j].value)) =
           {[key |-> <<"n">>, value |-> params[i].value],
            [key |-> <<"f">>, value |-> params[j].value]}
=============================================================================
