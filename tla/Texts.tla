------------------------------- MODULE Texts --------------------------------
(***************************************************************************)
(* Searching and cutting texts, sequences of characters, as the parsers of *)
(* the HTTP library do with find and substr.                               *)
(***************************************************************************)
EXTENDS Naturals, Sequences, SequencesExt

\* The first position of c in s from position i on, or one past its end.
FindFrom(s, c, i) ==
  LET At == {k \in i..Len(s) : s[k] = c} IN IF At = {} THEN Len(s) + 1 ELSE Min(At)

\* The text from position i up to, and without, position j.
Slice(s, i, j) == SubSeq(s, i, j - 1)
=============================================================================
