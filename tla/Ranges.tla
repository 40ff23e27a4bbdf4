------------------------------- MODULE Ranges -------------------------------
(***************************************************************************)
(* A Range header from the request to the parts of the response:           *)
(* parse_range_header, range_error, which also puts numbers in the place of *)
(* those the client left out, and apply_ranges.  A header is a sequence of *)
(* ranges [first, last] with Absent for a number left out.                 *)
(***************************************************************************)
EXTENDS Integers, Sequences, FiniteSets

CONSTANTS
  RangeMax,  \* CPPHTTPLIB_RANGE_MAX_COUNT, 1024
  IntMax     \* the largest number that std::stoll takes, 2^63 - 1

ASSUME RangesAssumption == RangeMax \in Nat /\ IntMax \in Nat

Absent == -1

\* Numbers that do not fit, and a range that ends before it begins, spoil the
\* whole header: 416 before the request is routed.
Backwards(r) == r.first # Absent /\ r.last # Absent /\ r.first > r.last
ParseRangeHeader(header) ==
  \A i \in DOMAIN header :
    header[i].first <= IntMax /\ header[i].last <= IntMax /\ ~Backwards(header[i])

\* The last n bytes, all from a byte on; "-" alone is made to fail.
Filled(r, length) ==
  CASE r.first = Absent /\ r.last = Absent -> [first |-> 0, last |-> length]
    [] r.first = Absent /\ r.last # Absent -> [first |-> length - r.last, last |-> length - 1]
    [] r.first # Absent /\ r.last = Absent -> [r EXCEPT !.last = length - 1]
    [] OTHER -> r

Within(r, length) == 0 <= r.first /\ r.first <= r.last /\ r.last <= length - 1

Fill(header, length) == [i \in DOMAIN header |-> Filled(header[i], length)]

\* Ranges that begin inside one before them.
Overlapping(ranges) ==
  {i \in DOMAIN ranges : \E j \in DOMAIN ranges : j < i /\ ranges[i].first <= ranges[j].last}

\* Plausible bug: the count is tested before it is raised.
FewOverlapsLate(ranges) == Cardinality(Overlapping(ranges)) <= 3

FewOverlaps(ranges) == Cardinality(Overlapping(ranges)) <= 2

Acceptable(ranges, length) ==
  /\ \A i \in DOMAIN ranges : Within(ranges[i], length)
  /\ \A i \in DOMAIN ranges : \A j \in DOMAIN ranges :
       j < i => ranges[j].first < ranges[i].first
  /\ FewOverlaps(ranges)

\* Only a success is examined, and only its ranges are filled in.
Examined(status) == 200 <= status /\ status < 300

RangeError(header, status, length) ==
  /\ header # << >> /\ Examined(status)
  /\ Len(header) > RangeMax \/ ~Acceptable(Fill(header, length), length)

OffsetAndLength(r) == [offset |-> r.first, length |-> r.last - r.first + 1]

\* The parts that apply_ranges, or the provider, writes of content of this
\* length: the whole of it, one range, or all of them with a boundary before
\* each.
PartsOf(header, status, length) ==
  LET ranges == IF Examined(status) THEN Fill(header, length) ELSE header
  IN  IF header = << >> THEN <<[offset |-> 0, length |-> length]>>
      ELSE [i \in DOMAIN ranges |-> OffsetAndLength(ranges[i])]

-----------------------------------------------------------------------------
\* What RFC 9110 14.1.2, which the code names, says that a range asks for.
Asked(r, length) ==
  IF r.first = Absent THEN {b \in 0..length - 1 : b >= length - r.last}
  ELSE {b \in 0..length - 1 : b >= r.first /\ (r.last = Absent \/ b <= r.last)}

Sent(part) == part.offset..part.offset + part.length - 1

TotalOf(parts) ==
  LET total[n \in 0..Len(parts)] == IF n = 0 THEN 0 ELSE total[n - 1] + parts[n].length
  IN  total[Len(parts)]

(* A success sends, for each range, exactly the bytes that it asks for, at  *)
(* least one and all of them in the content; and however many ranges there  *)
(* are, at most three times the content, since the others do not overlap.   *)
RangesAreHonoured(header, status, length) ==
  header # << >> /\ ParseRangeHeader(header) /\ Examined(status)
    /\ ~RangeError(header, status, length) =>
  LET parts == PartsOf(header, status, length) IN
  /\ Len(parts) = Len(header)
  /\ \A i \in DOMAIN header : Sent(parts[i]) = Asked(header[i], length) /\ parts[i].length > 0
  /\ TotalOf(parts) <= 3 * length
=============================================================================
