-------------------------- MODULE MultipartParser --------------------------
(***************************************************************************)
(* MultipartFormDataParser as Server::read_content_core feeds it: content  *)
(* comes in pieces of any length, and what a piece leaves undecided stays  *)
(* in the buffer for the next.  A header line is one symbol, named by what *)
(* the parser finds in it; other bytes are symbols of their own.           *)
(***************************************************************************)
EXTENDS Naturals, Sequences, SequencesExt

CONSTANTS
  Bytes,     \* what contents and the boundary are made of
  Names,     \* names of parts, each its own Content-Disposition line
  Boundary,  \* the boundary
  MaxFiles   \* CPPHTTPLIB_MULTIPART_FORM_DATA_FILE_MAX_COUNT, 1024

Crlf == <<"CR", "LF">>
Dash == <<"-", "-">>
DashBoundaryCrlf == Dash \o Boundary \o Crlf
CrlfDashBoundary == Crlf \o Dash \o Boundary

\* Header lines beside those that name a part: one with a Content-Type, one of a
\* field the parser ignores; a disposition without a name, or with a file name
\* in an encoding it does not take, and a line that is no header.
HarmlessLines == {"type", "other"}
BadLines == {"nameless", "encoding", "no header"}

\* A field the parser ignores, longer than CPPHTTPLIB_HEADER_MAX_LENGTH.
LongLines == {"long"}

TakenLines == Names \cup HarmlessLines \cup LongLines
Lines == TakenLines \cup BadLines

NoName == "unnamed"

ASSUME MultipartAssumption ==
  /\ Boundary \in Seq(Bytes) /\ Boundary # << >> /\ MaxFiles \in Nat
  /\ {"CR", "LF", "-"} \subseteq Bytes /\ Bytes \cap Lines = {}
  /\ Names \cap (HarmlessLines \cup LongLines \cup BadLines) = {}

\* What a client sends for a list of parts: of a part's head from the i-th line
\* on, and of the list from the i-th part on.
HeadFrom(head) ==
  LET from[i \in 1..Len(head) + 1] ==
        IF i > Len(head) THEN Crlf ELSE <<head[i]>> \o Crlf \o from[i + 1]
  IN  from

PartsFrom(items) ==
  LET from[i \in 1..Len(items) + 1] ==
        IF i > Len(items) THEN Dash \o Boundary \o Dash \o Crlf
        ELSE DashBoundaryCrlf \o HeadFrom(items[i].head)[1] \o items[i].content \o Crlf \o from[i + 1]
  IN  from

Serialize(items) == PartsFrom(items)[1]

VARIABLES
  rest,     \* content not yet delivered
  buf,      \* the parser's buffer
  state,    \* state_, the case of parse's switch
  parsing,  \* is a call of parse under way?
  looping,  \* has it read a header line and looks for the next?
  refused,  \* has it returned false, which ends the reading?
  valid,    \* is_valid_
  named,    \* the name in file_
  files,    \* req.files, in the order of their arrival
  cut       \* history: a piece ended inside the first boundary line

parser == <<buf, state, parsing, looping, refused, valid, named, files, cut>>
multipartVars == <<rest, parser>>

MultipartInit(content) ==
  /\ rest = content /\ buf = << >> /\ state = 0 /\ parsing = FALSE /\ looping = FALSE
  /\ refused = FALSE /\ valid = FALSE /\ named = NoName /\ files = << >>
  /\ cut = FALSE

-----------------------------------------------------------------------------
From(n) == SubSeq(buf, n + 1, Len(buf))

\* The first position of s in the buffer, or the buffer's size.
Find(s) ==
  LET At == {i \in 0..Len(buf) - Len(s) : IsPrefix(s, From(i))}
  IN  IF At = {} THEN Len(buf) ELSE CHOOSE i \in At : \A j \in At : i <= j

Found(s) == Find(s) < Len(buf)

\* parse is called with the next piece.
Deliver ==
  /\ ~parsing /\ ~refused /\ rest # << >>
  /\ \E n \in 1..Len(rest) : /\ buf' = buf \o SubSeq(rest, 1, n)
                             /\ rest' = SubSeq(rest, n + 1, Len(rest))
  /\ parsing' = TRUE /\ looping' = FALSE
  /\ UNCHANGED <<state, refused, valid, named, files, cut>>

At(s) == parsing /\ buf # << >> /\ state = s /\ UNCHANGED rest

\* parse returns true: it waits for more content.
Return(left) ==
  /\ buf' = left /\ parsing' = FALSE
  /\ UNCHANGED <<state, looping, refused, valid, named, files>>

Wait(left) == Return(left) /\ UNCHANGED cut

\* It returns false.
Quit ==
  /\ refused' = TRUE /\ parsing' = FALSE
  /\ UNCHANGED <<buf, state, looping, named, files, cut>>

Refuse == Quit /\ valid' = FALSE

Go(s, n) ==
  /\ state' = s /\ buf' = From(n) /\ looping' = (state = 2)
  /\ UNCHANGED <<parsing, refused>>

Emptied == parsing /\ buf = << >> /\ UNCHANGED rest /\ Wait(buf)

\* What comes before the first boundary is erased: all of the buffer, when that
\* boundary is not complete in it.
Preamble ==
  /\ At(0)
  /\ \/ /\ ~Found(DashBoundaryCrlf) /\ Return(<< >>)
        /\ cut' = (cut \/ \E n \in 0..Len(buf) - 1 : IsPrefix(From(n), DashBoundaryCrlf))
     \/ /\ Found(DashBoundaryCrlf)
        /\ Go(1, Find(DashBoundaryCrlf) + Len(DashBoundaryCrlf))
        /\ UNCHANGED <<valid, named, files, cut>>

NewEntry == At(1) /\ Go(2, 0) /\ named' = NoName /\ UNCHANGED <<valid, files, cut>>

\* The empty line: the entry is made, unless there are too many.
EndOfHeaders ==
  IF Len(files) = MaxFiles
  THEN Refuse
  ELSE /\ files' = Append(files, [name |-> named, content |-> << >>])
       /\ Go(3, Len(Crlf))
       /\ UNCHANGED <<valid, named, cut>>

\* The length of a line is looked at when a call, or an entry, begins with it, and
\* not when it follows another.
TooLong == ~looping /\ ToSet(SubSeq(buf, 1, Find(Crlf))) \cap LongLines # {}

Headers ==
  /\ At(2)
  /\ LET line == SubSeq(buf, 1, Find(Crlf)) IN
     \/ TooLong /\ Quit /\ UNCHANGED valid
     \/ ~TooLong /\ ~Found(Crlf) /\ Wait(buf)
     \/ line = << >> /\ EndOfHeaders
     \/ /\ ~TooLong /\ Found(Crlf) /\ line \in {<<l>> : l \in TakenLines}
        /\ named' = IF line[1] \in Names THEN line[1] ELSE named
        /\ Go(2, Len(line) + Len(Crlf))
        /\ UNCHANGED <<valid, files, cut>>
     \/ /\ ~TooLong /\ Found(Crlf) /\ line # << >>
        /\ line \notin {<<l>> : l \in TakenLines}
        /\ Refuse

Received(n) == files' = [files EXCEPT ![Len(files)].content = @ \o SubSeq(buf, 1, n)]

\* Plausible bug: the part of a boundary that is kept is too short.
KeptTooLittle == Len(CrlfDashBoundary) - 2

\* As long as no boundary is seen, the end of the buffer may be the beginning of
\* one and is kept.
Kept == Len(CrlfDashBoundary)

Body ==
  /\ At(3)
  /\ \/ Len(buf) < Len(CrlfDashBoundary) /\ Wait(buf)
     \/ /\ Found(CrlfDashBoundary)
        /\ Received(Find(CrlfDashBoundary))
        /\ Go(4, Find(CrlfDashBoundary) + Len(CrlfDashBoundary))
        /\ UNCHANGED <<valid, named, cut>>
     \/ /\ Len(buf) >= Len(CrlfDashBoundary) /\ ~Found(CrlfDashBoundary)
        /\ Received(Len(buf) - Kept)
        /\ buf' = From(Len(buf) - Kept) /\ parsing' = FALSE
        /\ UNCHANGED <<state, looping, refused, valid, named, cut>>

\* A line end goes on to the next entry; two dashes end the content, and what
\* follows them is dropped.
BoundaryEnd ==
  /\ At(4)
  /\ \/ /\ IsPrefix(Crlf, buf)
        /\ Go(1, Len(Crlf)) /\ UNCHANGED <<valid, named, files, cut>>
     \/ /\ IsPrefix(Dash, buf)
        /\ valid' = TRUE /\ Go(4, Len(buf)) /\ UNCHANGED <<named, files, cut>>
     \/ ~IsPrefix(Crlf, buf) /\ ~IsPrefix(Dash, buf) /\ Wait(buf)

MultipartNext == \/ Deliver \/ Emptied
                 \/ Preamble \/ NewEntry \/ Headers \/ Body \/ BoundaryEnd

-----------------------------------------------------------------------------
\* The content has been read.
Read == ~parsing /\ (refused \/ rest = << >>)

Good(item) == ToSet(item.head) \cap BadLines = {}

\* May the parts from the first-th on have been taken up to the next-th, which is
\* refused if there is one?  One with a long line may be.
MayTake(items, first, next) ==
  /\ \A k \in first..next - 1 : Good(items[k])
  /\ next - first <= MaxFiles
  /\ next <= Len(items) =>
       \/ next - first = MaxFiles
       \/ ~Good(items[next]) \/ ToSet(items[next].head) \cap LongLines # {}

\* The last name among the first n lines of a head.
NameAmong(head, n) ==
  LET naming == {i \in 1..n : head[i] \in Names}
  IN  IF naming = {} THEN NoName ELSE head[Max(naming)]

Parts(items) ==
  [i \in DOMAIN items |-> [name    |-> NameAmong(items[i].head, Len(items[i].head)),
                           content |-> items[i].content]]

(* Parts of a form arrive whole and in order, whatever pieces the content   *)
(* comes in, up to one that is refused, and the form is valid if none is.   *)
(* Parts are lost in one case only, and only the leading ones: if a piece   *)
(* ends inside the first boundary line.  What follows then arrives as if it *)
(* were the form, which is valid all the same, unless all parts are lost.   *)
PartsArrive(items) ==
  Read => \E first \in 1..Len(items) + 1 : \E next \in first..Len(items) + 1 :
            /\ cut \/ first = 1
            /\ MayTake(items, first, next)
            /\ files = Parts(SubSeq(items, first, next - 1))
            /\ valid <=> first <= Len(items) /\ next = Len(items) + 1

\* Does s stand in a text behind its first n symbols?
StandsAt(s, text, n) ==
  n + Len(s) <= Len(text) /\ \A k \in 1..Len(s) : text[n + k] = s[k]

\* A form that can be sent with this boundary: it has a part, no content has the
\* boundary in it, and nothing but the beginning of a part looks like one.
Sendable(items) ==
  /\ items # << >> /\ items \in Seq([head : Seq(Lines), content : Seq(Bytes)])
  /\ \A i \in DOMAIN items : \A n \in 0..Len(items[i].content) :
       StandsAt(CrlfDashBoundary, items[i].content \o CrlfDashBoundary, n)
         => n = Len(items[i].content)
  /\ \A n \in 0..Len(Serialize(items)) :
       StandsAt(DashBoundaryCrlf, Serialize(items), n)
         => \E i \in DOMAIN items : n = Len(Serialize(items)) - Len(PartsFrom(items)[i])
=============================================================================
