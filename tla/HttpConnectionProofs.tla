------------------------ MODULE HttpConnectionProofs ------------------------
(***************************************************************************)
(* Theorems about HttpConnection, for any messages that clients may send,  *)
(* and for any limits on requests and payloads: that it keeps its types    *)
(* and serves as ServedConnection says; and then what it reads, that a     *)
(* handler gets whole content and responses stay in step with the          *)
(* requests, however the messages arrive.                                  *)
(***************************************************************************)
EXTENDS HttpConnection, FiniteSetTheorems, TLAPS

-----------------------------------------------------------------------------
(***************************************************************************)
(* The types.  Requests are counted against the limit, a read of content   *)
(* has something left to read, and whatever travels belongs to a message   *)
(* that the client has begun.                                              *)
(***************************************************************************)
Points == Reading \cup {"loop", "poll", "checks", "expect", "route", "content", "dispatch",
                        "handler", "routed", "error", "reply", "body", "done", "failed", "closed"}

Statuses == {0, 200, 206, 400, 404, 413, 414, 415, 416, 500}
              \cup {a.status : a \in ExpectAnswers}

Pieces    == [what : Words, of : Nat]
Locals    == [of : Nat, heads : SUBSET Words, close : BOOLEAN, late : BOOLEAN,
              body : Seq(Pieces), left : 0..2, reader : BOOLEAN, status : Statuses,
              content : Contents]
Responses == [of : Nat, status : Nat, close : BOOLEAN, late : BOOLEAN, head : BOOLEAN,
              content : Contents, framing : {"length", "chunked", "none"}, whole : BOOLEAN]

Fits(p, c) == /\ p \in Points /\ c \in Locals /\ c.of <= sent
              /\ p \in {"data", "skip"} => c.left > 0
              /\ p \notin {"loop", "poll", "line", "failed", "closed"} => c.of # 0

Typed ==
  /\ script \in Scripts /\ sent \in 0..Len(script)
  /\ pending \in Seq(Pieces) /\ \A i \in 1..Len(pending) : pending[i].of \in 1..sent
  /\ wire \in Seq(Pieces) /\ \A i \in 1..Len(wire) : wire[i].of \in 1..sent
  /\ eof \in BOOLEAN /\ apart \in BOOLEAN /\ stopping \in BOOLEAN
  /\ count \in 0..KeepAliveMax /\ begun \in 0..KeepAliveMax
  /\ pos \in 0..Len(wire) /\ taken \in 0..Len(wire)
  /\ Fits(pc, cur)
  /\ answers \in Seq(Responses)

\* What is left of the limit.
Counted ==
  /\ pc \in {"loop", "poll"} => count + begun = KeepAliveMax
  /\ pc \notin {"loop", "poll", "closed"} => count + begun = KeepAliveMax + 1
  /\ pc \notin {"loop", "closed"} => count > 0

\* A header's or a trailer's part is a string, a message's parts are its own.
LEMMA PartsType ==
  ASSUME NEW m \in Messages, NEW k \in Nat
  PROVE  /\ Parts(m, k) \in Seq(Pieces)
         /\ \A i \in 1..Len(Parts(m, k)) : Parts(m, k)[i].of = k
<1> DEFINE whats == <<m.line>> \o m.heads \o <<"blank">> \o m.content
<1>1. whats \in Seq(Words)
  <2>1. m.line \in {"good", "bad", "long"} /\ m.heads \in Seq(Heads) /\ m.content \in Seq(Words)
    BY DEF Messages
  <2>3. \A S : \A w \in S : <<w>> \in Seq(S)
    OBVIOUS
  <2>4. /\ Heads \subseteq Words /\ "blank" \in Words
        /\ \A w \in {"good", "bad", "long"} : w \in Words
    BY DEF Words
  <2>5. <<m.line>> \in Seq(Words) /\ <<"blank">> \in Seq(Words) /\ m.heads \in Seq(Words)
    BY <2>1, <2>3, <2>4
  <2>2. \A s, t \in Seq(Words) : s \o t \in Seq(Words)
    OBVIOUS
  <2> QED BY <2>1, <2>2, <2>5
<1> HIDE DEF whats
<1>2. Parts(m, k) = [i \in DOMAIN whats |-> [what |-> whats[i], of |-> k]]
  BY DEF Parts, Part, whats
<1>3. Len(whats) \in Nat /\ DOMAIN whats = 1..Len(whats)
      /\ \A i \in 1..Len(whats) : whats[i] \in Words
  BY <1>1
<1>4. [i \in 1..Len(whats) |-> [what |-> whats[i], of |-> k]] \in Seq(Pieces)
  BY <1>3 DEF Pieces
<1> QED BY <1>2, <1>3, <1>4

\* A fresh connection is typed, and nothing of it has been counted.
LEMMA InitTyped == Init => Typed /\ Counted
<1> SUFFICES ASSUME Init PROVE Typed /\ Counted
  OBVIOUS
<1>1. /\ script \in Seq(Messages) /\ Len(script) \in Nat
      /\ << >> \in Seq(Pieces) /\ << >> \in Seq(Responses) /\ Len(<< >>) = 0
      /\ KeepAliveMax \in Nat
  BY ConnectionAssumption DEF Init
<1>2. NoRequest \in Locals /\ NoRequest.of = 0
  <2>1. << >> \in Seq(Pieces) /\ {} \in SUBSET Words
    BY <1>1
  <2> HIDE DEF Pieces
  <2> QED BY <2>1 DEF NoRequest, Locals, Statuses, Contents
<1>3. Fits(pc, cur)
  BY <1>2 DEF Fits, Points, Init
<1>4. sent = 0 /\ pos = 0 /\ taken = 0 /\ begun = 0 /\ count = KeepAliveMax
      /\ pending = << >> /\ wire = << >> /\ answers = << >> /\ pc = "loop" /\ script \in Scripts
      /\ eof \in BOOLEAN /\ apart \in BOOLEAN /\ stopping \in BOOLEAN
  BY DEF Init
<1>5. Counted
  BY <1>1, <1>4 DEF Counted
<1> QED BY <1>1, <1>3, <1>4, <1>5 DEF Typed

-----------------------------------------------------------------------------
(***************************************************************************)
(* The steps inside a request that answer nothing.  Each moves the worker  *)
(* to a point p with locals c; what it knows there of Connection: close is *)
(* what Checks has put into connection_closed, except for a header that    *)
(* came too late for it.                                                   *)
(***************************************************************************)
Processing == Reading \cup {"checks", "expect", "route", "content", "dispatch", "handler",
                            "routed", "error", "reply"}
After == Processing \ {"line", "headers", "skim", "checks", "error"}

Known(p, c) ==
  /\ p \in {"loop", "poll", "line", "skim"} => c.heads = {}
  /\ p \in After \cup {"error"} => ("close" \in c.heads => c.close \/ c.late)

Moved(p, c) ==
  /\ pc' = p /\ cur' = c
  /\ UNCHANGED <<script, sent, pending, wire, eof, stopping, count, begun, answers>>
  /\ apart' \in BOOLEAN /\ pos' \in 0..Len(wire) /\ taken' \in 0..Len(wire)

Processed == \E p \in Processing \cup {"failed"}, c \in Locals :
               Moved(p, c) /\ Fits(p, c) /\ Known(p, c)

\* All that has arrived is complete, but for a last part that does not end.
LEMMA CompleteIs ==
  ASSUME Typed PROVE Complete \in Nat /\ Complete <= Len(wire)
<1>1. Len(wire) \in Nat /\ (Unending => Len(wire) > 0)
  BY DEF Typed, Unending
<1> QED BY <1>1 DEF Complete

\* A read, a read that fails, and a step without one move the worker.
LEMMA Reads ==
  ASSUME Typed, NEW p, NEW c, Read(p, c) \/ Dry(p, c) \/ Go(p, c)
  PROVE  Moved(p, c)
<1>1. pos \in Nat /\ Len(wire) \in Nat
  BY DEF Typed
<1>2. CASE Read(p, c)
  BY <1>1, <1>2, CompleteIs DEF Read, Moved, Typed, clientVars, loopVars
<1>3. CASE Dry(p, c)
  BY <1>1, <1>3 DEF Dry, Moved, Typed, clientVars, loopVars, streamVars
<1>4. CASE Go(p, c)
  BY <1>1, <1>4 DEF Go, Moved, Typed, clientVars, loopVars, streamVars
<1> QED BY <1>2, <1>3, <1>4

\* The part that is read is a piece of a message that has been begun.
LEMMA HereType ==
  ASSUME Typed, pos < Len(wire) \/ pos < Complete
  PROVE  Here \in Pieces /\ Here.of \in 1..sent /\ Here.what \in Words
<1>1. pos + 1 \in 1..Len(wire)
  BY CompleteIs DEF Typed
<1>2. Here \in Pieces /\ Here.of \in 1..sent
  BY <1>1 DEF Typed, Here
<1> QED BY <1>2 DEF Pieces

\* Reading a request line takes the connection to a known point of its work.
LEMMA RequestLineStep == ASSUME Typed, Known(pc, cur), RequestLine PROVE Processed
<1>1. cur.heads = {} /\ cur \in Locals /\ cur.of <= sent /\ sent \in Nat
  BY ConnectionAssumption DEF RequestLine, Known, Typed, Fits
<1>2. CASE Dry("failed", cur)
  BY <1>1, <1>2, Reads DEF Processed, Fits, Known, Points, After, Processing, Reading
<1>3. ASSUME NEW p \in {"headers", "skim", "error"}, NEW s \in Statuses,
             Read(p, [cur EXCEPT !.of = Here.of, !.status = s])
      PROVE  Processed
  <2> DEFINE c == [cur EXCEPT !.of = Here.of, !.status = s]
  <2>1. Here.of \in Nat /\ Here.of <= sent /\ Here.of # 0
    <3>1. Here.of \in 1..sent
      BY <1>3, HereType DEF Read
    <3> QED BY <1>1, <3>1
  <2>2. c \in Locals /\ c.of <= sent /\ c.of # 0 /\ c.heads = {}
    <3>1. cur \in Locals /\ Here.of \in Nat
      BY <1>1, <2>1
    <3>2. c \in Locals /\ c.of = Here.of /\ c.heads = cur.heads
      BY ONLY <3>1, s \in Statuses DEF Locals, c
    <3> QED BY <1>1, <2>1, <3>2
  <2>3. Moved(p, c)
    BY <1>3, Reads
  <2> HIDE DEF c
  <2> QED BY <2>2, <2>3 DEF Processed, Fits, Known, Points, After, Processing, Reading
<1>4. ASSUME Read("headers", [cur EXCEPT !.of = Here.of]) PROVE Processed
  <2> DEFINE c == [cur EXCEPT !.of = Here.of]
  <2>1. Here.of \in Nat /\ Here.of <= sent /\ Here.of # 0
    <3>1. Here.of \in 1..sent
      BY <1>4, HereType DEF Read
    <3> QED BY <1>1, <3>1
  <2>2. c \in Locals /\ c.of = Here.of /\ c.heads = cur.heads
    BY ONLY <1>1, <2>1 DEF Locals, c
  <2>3. Moved("headers", c)
    BY <1>4, Reads
  <2> HIDE DEF c
  <2> QED BY <1>1, <2>1, <2>2, <2>3
          DEF Processed, Fits, Known, Points, After, Processing, Reading
<1>5. 414 \in Statuses /\ 400 \in Statuses
  BY DEF Statuses
<1> QED BY ZenonT(40), <1>2, <1>3, <1>4, <1>5 DEF RequestLine

\* What a change of locals leaves alone.
Kin(c) == /\ c \in Locals /\ c.of = cur.of /\ c.heads = cur.heads
          /\ c.close = cur.close /\ c.late = cur.late

\* Setting the status leaves the rest of the locals alone.
LEMMA StatusKin ==
  ASSUME cur \in Locals, NEW s \in Statuses
  PROVE  Kin(Status(s)) /\ Status(s).status = s /\ Status(s).left = cur.left
BY DEF Locals, Kin, Status

\* A header that is added to those read leaves a set of known headers.
LEMMA AddType ==
  ASSUME cur \in Locals, NEW h \in Words
  PROVE  /\ Add(h) \in Locals /\ Add(h).of = cur.of /\ Add(h).heads = cur.heads \cup {h}
         /\ Add(h).close = cur.close /\ Add(h).late = cur.late
BY DEF Locals, Add

\* So does reading one header,
LEMMA HeaderStep == ASSUME Typed, Header PROVE Processed
<1>1. cur \in Locals /\ cur.of <= sent /\ cur.of # 0
  BY DEF Typed, Fits, Header
<1>2. ASSUME \/ Dry("error", [Status(400) EXCEPT !.late = Has("close")])
             \/ Read("error", [Status(400) EXCEPT !.late = Has("close")])
      PROVE  Processed
  <2> DEFINE c == [Status(400) EXCEPT !.late = Has("close")]
  <2>1. 400 \in Statuses
    BY DEF Statuses
  <2>2. Status(400) \in Locals /\ Status(400).of = cur.of /\ Status(400).heads = cur.heads
    BY <1>1, <2>1, StatusKin DEF Kin
  <2>3. Moved("error", c)
    BY <1>2, Reads
  <2>5. PICK b \in BOOLEAN : b = Has("close")
    <3>1. Has("close") \in BOOLEAN
      BY DEF Has
    <3> QED BY <3>1, Zenon
  <2>6. c = [Status(400) EXCEPT !.late = b]
    BY <2>5
  <2> HIDE DEF c
  <2>4. /\ c \in Locals /\ c.of = cur.of /\ c.heads = cur.heads
        /\ c.late = b
    BY ONLY <2>2, <2>6, b \in BOOLEAN DEF Locals
  <2>7. "close" \in c.heads => c.late
    BY <2>4, <2>5 DEF Has
  <2> QED BY <1>1, <2>3, <2>4, <2>7 DEF Processed, Fits, Known, Points, After, Processing, Reading
<1>3. ASSUME Read("checks", cur) PROVE Processed
  BY <1>1, <1>3, Reads DEF Processed, Fits, Known, Points, After, Processing, Reading
<1>4. ASSUME Read("headers", Add(Here.what)) PROVE Processed
  <2>1. Here.what \in Words
    BY <1>4, HereType DEF Read
  <2>2. Add(Here.what) \in Locals /\ Add(Here.what).of = cur.of
    BY <1>1, <2>1, AddType
  <2>3. Moved("headers", Add(Here.what))
    BY <1>4, Reads
  <2> QED BY <1>1, <2>2, <2>3 DEF Processed, Fits, Known, Points, After, Processing, Reading
<1> QED BY <1>2, <1>3, <1>4 DEF Header

\* skimming the headers of a request line that was refused,
LEMMA SkimStep == ASSUME Typed, Known(pc, cur), Skim PROVE Processed
<1>1. cur \in Locals /\ cur.of <= sent /\ cur.of # 0 /\ cur.heads = {}
  BY DEF Typed, Fits, Skim, Known
<1>2. \E p \in {"error", "skim"} : Moved(p, cur)
  BY Reads DEF Skim
<1> QED BY <1>1, <1>2 DEF Processed, Fits, Known, Points, After, Processing, Reading

\* checking the head that was read,
LEMMA ChecksStep == ASSUME Typed, Checks PROVE Processed
<1> DEFINE c == [cur EXCEPT !.close = Closing]
           d == [c EXCEPT !.status = 416]
<1>1. cur \in Locals /\ cur.of <= sent /\ cur.of # 0
  BY DEF Typed, Fits, Checks
<1>2. Closing \in BOOLEAN /\ ("close" \in cur.heads => Closing)
  BY DEF Closing, Has
<1>3. 416 \in Statuses
  BY DEF Statuses
<1>4. Moved("error", d) \/ Moved("expect", c) \/ Moved("route", c)
  BY Reads DEF Checks
<1>5. c \in Locals /\ c.of = cur.of /\ c.heads = cur.heads /\ c.close = Closing
  BY ONLY <1>1, <1>2 DEF Locals, c
<1> HIDE DEF c
<1>6. d \in Locals /\ d.of = cur.of /\ d.heads = cur.heads /\ d.close = Closing
  BY ONLY <1>3, <1>5 DEF Locals, d
<1> HIDE DEF d
<1> QED BY <1>1, <1>2, <1>4, <1>5, <1>6
        DEF Processed, Fits, Known, Points, After, Processing, Reading

\* After the checks, a step to any later point is right as long as it keeps what the
\* checks have found.
LEMMA LaterStep ==
  ASSUME Typed, Known(pc, cur), pc \in After,
         NEW p \in After \cup {"error"}, NEW c, Kin(c),
         p \in {"data", "skip"} => c.left > 0, Moved(p, c)
  PROVE  Processed
<1>1. cur.of <= sent /\ cur.of # 0 /\ p \in Points /\ p \in Processing
  BY DEF Typed, Fits, After, Processing, Points, Reading
<1>2. Fits(p, c)
  BY <1>1 DEF Fits, Kin
<1>3. Known(p, c)
  BY DEF Known, Kin, After, Processing, Reading
<1> QED BY <1>1, <1>2, <1>3 DEF Processed, Kin

\* The record of the locals with one field changed.
LEMMA FieldKin ==
  ASSUME cur \in Locals
  PROVE  /\ Kin(cur)
         /\ Kin([cur EXCEPT !.reader = TRUE])
         /\ \A k \in Contents : Kin([cur EXCEPT !.content = k])
         /\ \A n \in 0..2 : Kin([cur EXCEPT !.left = n]) /\ [cur EXCEPT !.left = n].left = n
BY DEF Locals, Kin

\* looking for a handler,
LEMMA RouteStep == ASSUME Typed, Known(pc, cur), Route PROVE Processed
<1>1. cur \in Locals /\ pc \in After /\ "sized" \in Contents
  BY DEF Typed, Fits, Route, After, Processing, Reading, Contents
<1>2. \E p \in {"handler", "routed", "content", "dispatch"} :
        \/ Moved(p, cur)
        \/ Moved(p, [cur EXCEPT !.reader = TRUE])
        \/ Moved(p, [cur EXCEPT !.content = "sized"])
  BY Reads DEF Route
<1>3. \A p \in {"handler", "routed", "content", "dispatch"} :
        p \in After /\ p \notin {"data", "skip"}
  BY DEF After, Processing, Reading
<1> QED BY <1>1, <1>2, <1>3, FieldKin, LaterStep

\* deciding how the content is framed,
LEMMA ContentStep == ASSUME Typed, Known(pc, cur), Content PROVE Processed
<1>1. cur \in Locals /\ pc \in After
  BY DEF Typed, Fits, Content, After, Processing, Reading
<1>2. \A p \in {Got, NotGot, "size", "rest"} :
        p \in After \cup {"error"} /\ p \notin {"data", "skip"}
  BY DEF Got, NotGot, After, Processing, Reading
<1>3. 400 \in Statuses /\ 415 \in Statuses
  BY DEF Statuses
<1>4. Length \in 1..2 /\ Length > 0
  BY DEF Length
<1>5. ASSUME NEW s \in {400, 415}, Go(NotGot, Status(s)) PROVE Processed
  BY <1>1, <1>2, <1>3, <1>5, Reads, StatusKin, LaterStep
<1>6. ASSUME NEW p \in {Got, "size", "rest"}, Go(p, cur) PROVE Processed
  BY <1>1, <1>2, <1>6, Reads, FieldKin, LaterStep
<1>7. ASSUME NEW p \in {"data", "skip"}, Go(p, [cur EXCEPT !.left = Length])
      PROVE  Processed
  <2>1. p \in After
    BY DEF After, Processing, Reading
  <2>2. Kin([cur EXCEPT !.left = Length]) /\ [cur EXCEPT !.left = Length].left > 0
    BY ONLY <1>1, <1>4 DEF Kin, Locals
  <2> QED BY <1>1, <1>7, <2>1, <2>2, Reads, LaterStep
<1> QED BY <1>5, <1>6, <1>7 DEF Content

\* A piece that is kept, or skipped, leaves less to read.
LEMMA PieceKin ==
  ASSUME Typed, pos < Complete, cur.left > 0
  PROVE  Kin(Kept) /\ Kin(Skipped)
<1>1. cur \in Locals /\ Here \in Pieces /\ Piece \in 0..1
  BY HereType DEF Typed, Fits, Piece
<1>2. cur.left \in 0..2 /\ cur.body \in Seq(Pieces)
  BY <1>1 DEF Locals
<1>3. cur.left - Piece \in 0..2 /\ Append(cur.body, Here) \in Seq(Pieces)
  BY <1>1, <1>2
<1>4. 413 \in Statuses
  BY DEF Statuses
<1>5. Kin(Kept)
  BY ONLY <1>1, <1>3 DEF Kin, Locals, Kept
<1>6. Kin(Skipped)
  BY ONLY ZenonT(40), <1>1, <1>3, <1>4 DEF Kin, Locals, Skipped
<1> QED BY <1>5, <1>6

\* reading a piece of it,
LEMMA DataStep == ASSUME Typed, Known(pc, cur), Data PROVE Processed
<1>1. cur \in Locals /\ pc \in After /\ cur.left > 0
  BY DEF Typed, Fits, Data, After, Processing, Reading
<1>2. 400 \in Statuses
  BY DEF Statuses
<1>3. \A p \in {Got, NotGot, "crlf"} : p \in After \cup {"error"} /\ p \notin {"data", "skip"}
  BY DEF Got, NotGot, After, Processing, Reading
<1>4. CASE Dry(NotGot, Status(400))
  BY <1>1, <1>2, <1>3, <1>4, Reads, StatusKin, LaterStep
<1>5. CASE Read(IF Kept.left > 0 THEN "data" ELSE IF Has("chunked") THEN "crlf" ELSE Got, Kept)
  <2> DEFINE p == IF Kept.left > 0 THEN "data" ELSE IF Has("chunked") THEN "crlf" ELSE Got
  <2>1. Kin(Kept) /\ Moved(p, Kept)
    BY <1>1, <1>5, PieceKin, Reads DEF Read
  <2>2. p \in After \cup {"error"} /\ (p \in {"data", "skip"} => Kept.left > 0)
    BY <1>3 DEF After, Processing, Reading
  <2> HIDE DEF p
  <2> QED BY <1>1, <2>1, <2>2, LaterStep
<1> QED BY <1>4, <1>5 DEF Data

\* passing over a piece that nobody wants,
LEMMA SkipStep == ASSUME Typed, Known(pc, cur), Skip PROVE Processed
<1>1. cur \in Locals /\ pc \in After /\ cur.left > 0
  BY DEF Typed, Fits, Skip, After, Processing, Reading
<1>2. 413 \in Statuses
  BY DEF Statuses
<1>3. NotGot \in After \cup {"error"} /\ NotGot \notin {"data", "skip"}
  BY DEF NotGot, After, Processing, Reading
<1>4. CASE Dry(NotGot, Status(413))
  BY <1>1, <1>2, <1>3, <1>4, Reads, StatusKin, LaterStep
<1>5. CASE Read(IF Skipped.left > 0 THEN "skip" ELSE NotGot, Skipped)
  <2> DEFINE p == IF Skipped.left > 0 THEN "skip" ELSE NotGot
  <2>1. Kin(Skipped) /\ Moved(p, Skipped)
    BY <1>1, <1>5, PieceKin, Reads DEF Read
  <2>2. p \in After \cup {"error"} /\ (p \in {"data", "skip"} => Skipped.left > 0)
    BY <1>3 DEF After, Processing, Reading
  <2> HIDE DEF p
  <2> QED BY <1>1, <2>1, <2>2, LaterStep
<1> QED BY <1>4, <1>5 DEF Skip

\* reading what is left until the client closes,
LEMMA RestStep == ASSUME Typed, Known(pc, cur), Rest PROVE Processed
<1>1. cur \in Locals /\ pc \in After
  BY DEF Typed, Fits, Rest, After, Processing, Reading
<1>2. Got \in After /\ "rest" \in After /\ Got \notin {"data", "skip"}
  BY DEF Got, After, Processing, Reading
<1>3. CASE Dry(Got, cur)
  BY <1>1, <1>2, <1>3, Reads, FieldKin, LaterStep
<1>4. CASE Read("rest", [cur EXCEPT !.body = Append(@, Here)])
  <2>1. Append(cur.body, Here) \in Seq(Pieces)
    BY <1>1, <1>4, HereType DEF Read, Locals
  <2>2. Kin([cur EXCEPT !.body = Append(@, Here)])
    BY ONLY <1>1, <2>1 DEF Kin, Locals
  <2> QED BY <1>1, <1>2, <1>4, <2>2, Reads, LaterStep
<1> QED BY <1>3, <1>4 DEF Rest

\* reading a chunk and what follows it,
LEMMA ChunkStep == ASSUME Typed, Known(pc, cur), Chunk PROVE Processed
<1>1. cur \in Locals /\ cur.of <= sent /\ cur.of # 0 /\ pc \in After
  BY DEF Typed, Fits, Chunk, After, Processing, Reading
<1>2. 400 \in Statuses
  BY DEF Statuses
<1>3. \A p \in {Got, NotGot, "size", "crlf", "trailer"} :
        p \in After \cup {"error"} /\ p \notin {"data", "skip"}
  BY DEF Got, NotGot, After, Processing, Reading
<1>4. ASSUME Dry(NotGot, Status(400)) \/ Read(NotGot, Status(400)) PROVE Processed
  BY <1>1, <1>2, <1>3, <1>4, Reads, StatusKin, LaterStep
<1>5. ASSUME NEW p \in {Got, "size"}, Read(p, cur) PROVE Processed
  BY <1>1, <1>3, <1>5, Reads, FieldKin, LaterStep
<1>6. ASSUME NEW n \in 0..2,
             Read(IF n = 0 THEN "trailer" ELSE "data", [cur EXCEPT !.left = n])
      PROVE  Processed
  <2> DEFINE p == IF n = 0 THEN "trailer" ELSE "data"
  <2>1. Kin([cur EXCEPT !.left = n]) /\ [cur EXCEPT !.left = n].left = n
    BY ONLY <1>1, n \in 0..2 DEF Kin, Locals
  <2>2. p \in After \cup {"error"} /\ (p \in {"data", "skip"} => n > 0)
    BY <1>3 DEF After, Processing, Reading
  <2>3. Moved(p, [cur EXCEPT !.left = n])
    BY <1>6, Reads
  <2> HIDE DEF p
  <2> QED BY <1>1, <2>1, <2>2, <2>3, LaterStep
<1>7. ASSUME pc = "trailer",
             Read("trailer", [Add(Here.what) EXCEPT !.late = @ \/ (Here.what = "close" /\ ~Has("close"))])
      PROVE  Processed
  <2> DEFINE a == Add(Here.what)
             c == [a EXCEPT !.late = @ \/ (Here.what = "close" /\ ~Has("close"))]
  <2>1. Here.what \in Words
    BY <1>7, HereType DEF Read
  <2>2. /\ a \in Locals /\ a.of = cur.of /\ a.heads = cur.heads \cup {Here.what}
        /\ a.close = cur.close /\ a.late = cur.late
    BY <1>1, <2>1, AddType
  <2>3. Moved("trailer", c)
    BY <1>7, Reads
  <2> HIDE DEF a
  <2>4. /\ c \in Locals /\ c.of = a.of /\ c.heads = a.heads /\ c.close = a.close
        /\ c.late = (a.late \/ (Here.what = "close" /\ ~("close" \in cur.heads)))
    BY ONLY <2>2 DEF Locals, Has
  <2> HIDE DEF c
  <2>5. "close" \in cur.heads => cur.close \/ cur.late
    BY <1>1 DEF Known
  <2>6. Fits("trailer", c) /\ Known("trailer", c)
    BY <1>1, <2>2, <2>4, <2>5 DEF Fits, Known, Points, After, Processing, Reading
  <2> QED BY <2>3, <2>4, <2>6 DEF Processed, Processing, Reading
<1>8. \A w \in DOMAIN Sizes : Sizes[w] \in 0..2
  BY DEF Sizes
<1> QED BY <1>4, <1>5, <1>6, <1>7, <1>8 DEF Chunk, Ahead

\* handing the request to its handler,
LEMMA DispatchStep == ASSUME Typed, Known(pc, cur), Dispatch PROVE Processed
<1>1. cur \in Locals /\ pc \in After /\ 400 \in Statuses /\ 404 \in Statuses
  BY DEF Typed, Fits, Dispatch, After, Processing, Reading, Statuses
<1>2. \/ \E s \in {400, 404} : Moved("error", Status(s))
      \/ \E p \in {"handler", "error"} : Moved(p, cur)
  BY Reads DEF Dispatch
<1>3. "handler" \in After
  BY DEF After, Processing, Reading
<1> QED BY <1>1, <1>2, <1>3, StatusKin, FieldKin, LaterStep

\* The message that is being answered.
LEMMA MsgType ==
  ASSUME Typed, cur.of # 0 PROVE Msg \in Messages
<1>1. script \in Seq(Messages) /\ sent \in 0..Len(script) /\ cur.of \in Nat /\ cur.of <= sent
  BY ConnectionAssumption DEF Typed, Fits, Locals
<1>2. cur.of \in 1..Len(script)
  BY <1>1
<1> QED BY <1>1, <1>2 DEF Msg

\* the handler's return or exception,
LEMMA HandlerStep == ASSUME Typed, Known(pc, cur), Handler PROVE Processed
<1> DEFINE c == [cur EXCEPT !.content = Msg.answer]
           d == [c EXCEPT !.status = 500]
<1>1. cur \in Locals /\ pc \in After /\ cur.of # 0 /\ 500 \in Statuses
  BY DEF Typed, Fits, Handler, After, Processing, Reading, Statuses
<1>2. Msg.answer \in Contents
  BY <1>1, MsgType DEF Messages
<1>3. Moved("error", d) \/ Moved("routed", c)
  BY Reads DEF Handler, c, d
<1>4. Kin(c)
  BY ONLY <1>1, <1>2 DEF Kin, Locals, c
<1> HIDE DEF c
<1>5. d \in Locals /\ d.of = c.of /\ d.heads = c.heads /\ d.close = c.close
      /\ d.late = c.late
  <2>1. c \in Locals /\ 500 \in Statuses
    BY <1>1, <1>4 DEF Kin
  <2> QED BY ONLY <2>1 DEF Locals, d
<1> HIDE DEF d
<1>7. Kin(d)
  BY <1>4, <1>5 DEF Kin
<1>6. "routed" \in After
  BY DEF After, Processing, Reading
<1> QED BY <1>1, <1>3, <1>4, <1>6, <1>7, LaterStep

\* and the decision about what is answered.
LEMMA RoutedStep == ASSUME Typed, Known(pc, cur), Routed PROVE Processed
<1>1. cur \in Locals /\ pc \in After /\ "reply" \in After
      /\ 200 \in Statuses /\ 206 \in Statuses /\ 416 \in Statuses /\ "empty" \in Contents
  BY DEF Typed, Fits, Routed, After, Processing, Reading, Statuses, Contents
<1>2. cur.status \in Statuses
  BY <1>1 DEF Locals
<1>3. \/ \E s \in Statuses : Go("reply", Status(s))
      \/ Go("error", [cur EXCEPT !.content = "empty", !.status = 416])
  <2> DEFINE s == IF cur.status # 0 THEN cur.status
                  ELSE IF Has("range") \/ Has("outrange") THEN 206 ELSE 200
  <2>1. s \in Statuses
    BY <1>1, <1>2
  <2>2. Status(s) = [cur EXCEPT !.status = s]
    BY DEF Status
  <2>3. \/ Go("reply", [cur EXCEPT !.status = s])
        \/ Go("error", [cur EXCEPT !.content = "empty", !.status = 416])
    BY DEF Routed
  <2> HIDE DEF s
  <2> QED BY <2>1, <2>2, <2>3
<1>4. ASSUME NEW s \in Statuses, Go("reply", Status(s)) PROVE Processed
  BY <1>1, <1>4, Reads, StatusKin, LaterStep
<1>5. ASSUME Go("error", [cur EXCEPT !.content = "empty", !.status = 416]) PROVE Processed
  <2> DEFINE c == [cur EXCEPT !.content = "empty", !.status = 416]
  <2>1. cur \in Locals /\ 416 \in Statuses /\ "empty" \in Contents
    BY <1>1
  <2>2. c \in Locals
    BY ONLY ZenonT(40), <2>1 DEF Locals, c
  <2>3. c.of = cur.of /\ c.heads = cur.heads /\ c.close = cur.close /\ c.late = cur.late
    BY ONLY <2>1 DEF Locals, c
  <2>4. Moved("error", c)
    BY <1>5, Reads
  <2> HIDE DEF c
  <2> QED BY <1>1, <2>2, <2>3, <2>4, LaterStep DEF Kin
<1> QED BY <1>3, <1>4, <1>5

\* The final answers of the Expect handler end the request.
LEMMA RefusalStep ==
  ASSUME Typed, Known(pc, cur), pc = "expect",
         \E a \in ExpectAnswers : Go("error", Status(a.status))
  PROVE  Processed
<1>1. cur \in Locals /\ pc \in After /\ \A a \in ExpectAnswers : a.status \in Statuses
  BY DEF Typed, Fits, After, Processing, Reading, Statuses
<1> QED BY <1>1, Reads, StatusKin, LaterStep

-----------------------------------------------------------------------------
(***************************************************************************)
(* The responses.  One that announces a close, by a Connection: close that *)
(* Checks has seen or because the limit is reached, is the last, and the   *)
(* worker is on its way to the close.  One whose body was not written to   *)
(* the end is the last as well: the worker has failed, or it is shutting   *)
(* down, and then the loop does not go on.                                 *)
(***************************************************************************)
Says(a) == a.close /\ ~a.late
Fine(a) == a.whole \/ a.content = "hollow"
Last    == answers[Len(answers)]

Announced ==
  /\ \A i \in 1 .. Len(answers) - 1 : ~Says(answers[i])
  /\ answers # << >> /\ Says(Last) =>
       \/ pc \in {"failed", "closed"}
       \/ pc \in {"body", "done"} /\ (cur.close \/ count = 1)
       \/ pc = "loop" /\ count = 0

Found ==
  /\ \A i \in 1 .. Len(answers) - 1 : Fine(answers[i])
  /\ answers # << >> /\ ~Fine(Last) =>
       \/ pc \in {"body", "failed", "closed"}
       \/ pc \in {"done", "loop"} /\ stopping
  /\ pc = "body" => answers # << >> /\ Last.content = cur.content

IInv == Typed /\ Counted /\ Known(pc, cur) /\ Announced /\ Found

\* The invariant holds of a fresh connection.
LEMMA InitIInv == Init => IInv
<1> SUFFICES ASSUME Init PROVE IInv
  OBVIOUS
<1>1. Typed /\ Counted
  BY InitTyped
<1>2. Known(pc, cur)
  BY DEF Init, NoRequest, Known, After, Processing, Reading
<1>3. answers = << >> /\ pc # "body" /\ Len(answers) = 0
  BY DEF Init
<1> QED BY <1>1, <1>2, <1>3 DEF IInv, Announced, Found

\* A step inside a request answers nothing and keeps what is known.
LEMMA ProcessedKeeps == ASSUME IInv, pc \in Processing, Processed PROVE IInv'
<1>1. PICK p \in Processing \cup {"failed"}, c \in Locals : Moved(p, c) /\ Fits(p, c) /\ Known(p, c)
  BY DEF Processed
<1>2. Fits(pc, cur)' /\ Known(pc, cur)'
  BY <1>1 DEF Moved, Fits, Known
<1>3. Typed'
  BY <1>1, <1>2 DEF IInv, Typed, Moved
<1>4. Counted'
  BY <1>1 DEF IInv, Counted, Moved, Processing, Reading
<1>5. answers' = answers /\ stopping' = stopping /\ count' = count
      /\ pc \notin {"failed", "closed", "body", "done", "loop"} /\ pc' # "body"
  BY <1>1 DEF Moved, Processing, Reading
<1>6. /\ answers # << >> => ~Says(Last) /\ Fine(Last)
      /\ \A i \in 1 .. Len(answers) - 1 : ~Says(answers[i]) /\ Fine(answers[i])
  BY <1>5 DEF IInv, Announced, Found
<1>7. Last' = Last
  BY <1>5 DEF Last
<1>8. Announced' /\ Found'
  BY <1>5, <1>6, <1>7 DEF Announced, Found
<1> QED BY <1>2, <1>3, <1>4, <1>8 DEF IInv

\* What the client and stop() do.
LEMMA OutsideKeeps == ASSUME IInv, Send \/ Arrive \/ Hangup \/ Stop PROVE IInv'
<1>1. /\ UNCHANGED <<script, pc, count, begun, pos, taken, cur, answers>>
      /\ stopping => stopping'
  BY DEF Send, Arrive, Hangup, Stop, clientVars, loopVars, streamVars
<1>2. /\ script \in Seq(Messages) /\ sent \in Nat /\ Len(script) \in Nat /\ sent <= Len(script)
      /\ pending \in Seq(Pieces) /\ wire \in Seq(Pieces)
  BY ConnectionAssumption DEF IInv, Typed
<1>3. Counted' /\ Known(pc, cur)' /\ Announced' /\ Found'
  <2>1. Last' = Last
    BY <1>1 DEF Last
  <2> QED BY <1>1, <2>1 DEF IInv, Counted, Known, Announced, Found
<1>4. ASSUME /\ sent' \in sent..Len(script) /\ eof' \in BOOLEAN /\ apart' \in BOOLEAN
             /\ stopping' \in BOOLEAN /\ Len(wire) <= Len(wire')
             /\ pending' \in Seq(Pieces) /\ \A i \in 1..Len(pending') : pending'[i].of \in 1..sent'
             /\ wire' \in Seq(Pieces) /\ \A i \in 1..Len(wire') : wire'[i].of \in 1..sent'
      PROVE  Typed'
  <2>1. Fits(pc, cur)'
    BY <1>1, <1>2, <1>4 DEF IInv, Typed, Fits, Locals
  <2> QED BY <1>1, <1>2, <1>4, <2>1 DEF IInv, Typed
<1>5. CASE Send
  <2>1. /\ sent + 1 \in 1..Len(script) /\ sent' = sent + 1 /\ script[sent + 1] \in Messages
        /\ pending' = Parts(script[sent + 1], sent + 1)
        /\ UNCHANGED <<wire, eof, stopping>> /\ apart' \in BOOLEAN
    BY <1>2, <1>5 DEF Send
  <2>2. pending' \in Seq(Pieces) /\ \A i \in 1..Len(pending') : pending'[i].of = sent + 1
    BY <2>1, PartsType
  <2>3. \A i \in 1..Len(wire) : wire[i].of \in 1..sent + 1
    BY <1>2 DEF IInv, Typed
  <2>4. eof' \in BOOLEAN /\ stopping' \in BOOLEAN /\ Len(wire) \in Nat
    BY <1>2, <2>1 DEF IInv, Typed
  <2>5. \A i \in 1..Len(pending') : pending'[i].of \in 1..sent + 1
    BY <1>2, <2>2
  <2>6. Typed'
    BY <1>2, <1>4, <2>1, <2>2, <2>3, <2>4, <2>5
  <2> QED BY <1>3, <2>6 DEF IInv
<1>6. CASE Arrive
  <2>1. /\ pending # << >> /\ wire' = Append(wire, Head(pending)) /\ pending' = Tail(pending)
        /\ UNCHANGED <<sent, eof, apart, stopping>>
    BY <1>6 DEF Arrive
  <2>2. /\ Head(pending) = pending[1] /\ Head(pending) \in Pieces /\ 1 \in 1..Len(pending)
        /\ Tail(pending) \in Seq(Pieces) /\ Len(Tail(pending)) = Len(pending) - 1
        /\ \A i \in 1..Len(Tail(pending)) : Tail(pending)[i] = pending[i + 1]
    BY <1>2, <2>1
  <2>3. /\ wire' \in Seq(Pieces) /\ Len(wire') = Len(wire) + 1
        /\ \A i \in 1..Len(wire) : wire'[i] = wire[i]
        /\ wire'[Len(wire) + 1] = Head(pending)
    BY <1>2, <2>1, <2>2
  <2>4. /\ \A i \in 1..Len(pending) : pending[i].of \in 1..sent
        /\ \A i \in 1..Len(wire) : wire[i].of \in 1..sent
    BY DEF IInv, Typed
  <2>5. \A i \in 1..Len(pending') : pending'[i].of \in 1..sent
    <3> TAKE i \in 1..Len(pending')
    <3>1. i + 1 \in 1..Len(pending) /\ pending'[i] = pending[i + 1]
      BY <1>2, <2>1, <2>2
    <3> QED BY <2>4, <3>1
  <2>6. \A i \in 1..Len(wire') : wire'[i].of \in 1..sent
    <3> TAKE i \in 1..Len(wire')
    <3>1. i \in 1..Len(wire) \/ i = Len(wire) + 1
      BY <1>2, <2>3
    <3> QED BY <2>2, <2>3, <2>4, <3>1
  <2>7. eof' \in BOOLEAN /\ apart' \in BOOLEAN /\ stopping' \in BOOLEAN
        /\ sent' \in sent..Len(script) /\ Len(wire) <= Len(wire')
    BY <1>2, <2>1, <2>3 DEF IInv, Typed
  <2>8. Typed'
    BY <1>4, <2>1, <2>2, <2>3, <2>5, <2>6, <2>7
  <2> QED BY <1>3, <2>8 DEF IInv
<1>7. CASE Hangup
  <2>1. eof' = TRUE /\ UNCHANGED <<sent, pending, apart, stopping>>
        /\ \/ wire' = wire
           \/ pending # << >> /\ wire' = Append(wire, Part("cut", sent))
    BY <1>7 DEF Hangup
  <2>2. Part("cut", sent) \in Pieces /\ Part("cut", sent).of = sent
    <3>1. "cut" \in Words
      BY DEF Words
    <3> QED BY ONLY <1>2, <3>1 DEF Part, Pieces
  <2>3. /\ \A i \in 1..Len(pending) : pending[i].of \in 1..sent
        /\ \A i \in 1..Len(wire) : wire[i].of \in 1..sent
    BY DEF IInv, Typed
  <2>4. pending # << >> => sent \in 1..sent
    BY <1>2, <2>3
  <2>5. wire' \in Seq(Pieces) /\ Len(wire) <= Len(wire')
    BY SMTT(30), <1>2, <2>1, <2>2
  <2>6. \A i \in 1..Len(wire') : wire'[i].of \in 1..sent
    <3>1. CASE wire' = wire
      BY <2>3, <3>1
    <3>2. CASE pending # << >> /\ wire' = Append(wire, Part("cut", sent))
      <4> TAKE i \in 1..Len(wire')
      <4>1. \/ i \in 1..Len(wire) /\ wire'[i] = wire[i]
            \/ wire'[i] = Part("cut", sent)
        BY <1>2, <2>2, <3>2
      <4> QED BY <2>2, <2>3, <2>4, <3>2, <4>1
    <3> QED BY <2>1, <3>1, <3>2
  <2>7. apart' \in BOOLEAN /\ stopping' \in BOOLEAN /\ sent' \in sent..Len(script)
    BY <1>2, <2>1 DEF IInv, Typed
  <2>8. Typed'
    BY <1>2, <1>4, <2>1, <2>3, <2>5, <2>6, <2>7
  <2> QED BY <1>3, <2>8 DEF IInv
<1>8. CASE Stop
  <2>1. Typed'
    <3>1. stopping' = TRUE /\ UNCHANGED <<sent, pending, wire, eof, apart>>
      BY <1>8 DEF Stop, clientVars
    <3> QED BY <1>2, <1>4, <3>1 DEF IInv, Typed
  <2> QED BY <1>3, <2>1 DEF IInv
<1> QED BY <1>5, <1>6, <1>7, <1>8

\* The loop around the requests.
LEMMA LoopKeeps == ASSUME IInv, Loop \/ Poll \/ GiveUp \/ Done PROVE IInv'
<1>1. /\ UNCHANGED <<script, sent, pending, wire, eof, apart, stopping, taken, answers>>
      /\ pos' \in {pos, taken} /\ cur' \in {cur, NoRequest}
  BY DEF Loop, Poll, GiveUp, Done, clientVars, loopVars, streamVars
<1>2. Last' = Last
  BY <1>1 DEF Last
<1>3. /\ count \in Nat /\ begun \in Nat /\ KeepAliveMax \in Nat /\ sent \in Nat
      /\ count <= KeepAliveMax /\ begun <= KeepAliveMax
      /\ cur \in Locals /\ cur.of <= sent
  BY ConnectionAssumption DEF IInv, Typed, Fits
<1>4. NoRequest \in Locals /\ NoRequest.of = 0 /\ NoRequest.heads = {}
  <2>1. << >> \in Seq(Pieces) /\ {} \in SUBSET Words
    OBVIOUS
  <2> HIDE DEF Pieces
  <2> QED BY <2>1 DEF NoRequest, Locals, Statuses, Contents
<1>5. ASSUME count' \in 0..KeepAliveMax, begun' \in 0..KeepAliveMax,
             pc' \in {"loop", "poll", "line", "closed"}
      PROVE  Typed'
  <2>1. Fits(pc, cur)'
    BY <1>1, <1>3, <1>4, <1>5 DEF Fits, Points, Reading
  <2> QED BY <1>1, <1>5, <2>1 DEF IInv, Typed
<1>6. CASE Loop
  <2>1. UNCHANGED <<count, begun, cur>> /\ pc = "loop"
        /\ pc' = IF ~stopping /\ count > 0 THEN "poll" ELSE "closed"
    BY <1>6 DEF Loop, loopVars
  <2>2. Typed' /\ Counted'
    BY <1>3, <1>5, <2>1 DEF IInv, Counted
  <2>3. Known(pc, cur)'
    BY <2>1 DEF IInv, Known, After, Processing, Reading
  <2>4. Announced' /\ Found'
    BY <1>1, <1>2, <1>3, <2>1 DEF IInv, Announced, Found
  <2> QED BY <2>2, <2>3, <2>4 DEF IInv
<1>7. CASE Poll
  <2>1. UNCHANGED <<count, cur>> /\ begun' = begun + 1 /\ pc = "poll" /\ pc' = "line"
    BY <1>7 DEF Poll
  <2>2. Typed' /\ Counted'
    BY <1>3, <1>5, <2>1 DEF IInv, Counted
  <2>3. Known(pc, cur)'
    BY <2>1 DEF IInv, Known, After, Processing, Reading
  <2>4. Announced' /\ Found'
    BY <1>1, <1>2, <1>3, <2>1 DEF IInv, Announced, Found
  <2> QED BY <2>2, <2>3, <2>4 DEF IInv
<1>8. CASE GiveUp
  <2>1. UNCHANGED <<count, begun, cur>> /\ pc = "poll" /\ pc' = "closed"
    BY <1>8 DEF GiveUp, loopVars
  <2>2. Typed' /\ Counted'
    BY <1>3, <1>5, <2>1 DEF IInv, Counted
  <2>3. Known(pc, cur)'
    BY <2>1 DEF Known, After, Processing, Reading
  <2>4. Announced' /\ Found'
    BY <1>1, <1>2, <1>3, <2>1 DEF IInv, Announced, Found
  <2> QED BY <2>2, <2>3, <2>4 DEF IInv
<1>9. CASE Done
  <2>1. /\ begun' = begun /\ cur' = NoRequest /\ pc \in {"done", "failed"}
        /\ \/ (pc = "failed" \/ cur.close) /\ pc' = "closed" /\ count' = count
           \/ pc = "done" /\ ~cur.close /\ pc' = "loop" /\ count' = count - 1
    BY <1>9 DEF Done
  <2>2. count > 0 /\ count + begun = KeepAliveMax + 1
    BY <2>1 DEF IInv, Counted
  <2>3. Typed' /\ Counted'
    BY <1>3, <1>5, <2>1, <2>2 DEF Counted
  <2>4. Known(pc, cur)'
    BY <1>4, <2>1 DEF Known, After, Processing, Reading
  <2>5. Announced' /\ Found'
    BY <1>1, <1>2, <1>3, <2>1 DEF IInv, Announced, Found
  <2> QED BY <2>3, <2>4, <2>5 DEF IInv
<1> QED BY <1>6, <1>7, <1>8, <1>9

\* 100 and 417 leave the request where it was.
LEMMA ExpectKeeps == ASSUME IInv, Expect PROVE IInv'
<1>1. pc = "expect" /\ Typed /\ Known(pc, cur) /\ pc \in Processing /\ pc \in After
  BY DEF Expect, IInv, After, Processing, Reading
<1>2. CASE \E a \in ExpectAnswers : Go("error", Status(a.status))
  BY <1>1, <1>2, RefusalStep, ProcessedKeeps
<1>4. CASE Go("closed", cur)
  <2>1. /\ pc' = "closed" /\ Last' = Last
        /\ UNCHANGED <<script, sent, pending, wire, eof, apart, stopping, count, begun, pos,
                       taken, cur, answers>>
    BY <1>4 DEF Go, Last, clientVars, loopVars, streamVars
  <2>2. Fits(pc, cur)' /\ Known(pc, cur)'
    BY <1>1, <2>1 DEF Typed, Fits, Known, Points, After, Processing, Reading
  <2>3. Typed' /\ Counted'
    BY <1>1, <2>1, <2>2 DEF IInv, Typed, Counted
  <2> QED BY <2>1, <2>2, <2>3 DEF IInv, Announced, Found
<1>3. ASSUME NEW e \in ExpectAnswers, e.returned \in {100, 417}, pc' = "route",
             cur' = Status(e.status),
             answers' = Append(answers,
               [of |-> cur.of, status |-> e.returned, close |-> FALSE, late |-> FALSE,
                head |-> TRUE, content |-> "empty", framing |-> "length", whole |-> TRUE]),
             UNCHANGED <<clientVars, apart, stopping, loopVars, streamVars>>
      PROVE  IInv'
  <2> DEFINE a == [of |-> cur.of, status |-> e.returned, close |-> FALSE, late |-> FALSE,
                   head |-> TRUE, content |-> "empty", framing |-> "length", whole |-> TRUE]
  <2>1. UNCHANGED <<script, sent, pending, wire, eof, apart, stopping, count, begun, pos, taken>>
    BY <1>3 DEF clientVars, loopVars, streamVars
  <2>9. Kin(cur')
    <3>1. cur \in Locals /\ e.status \in Statuses
      BY <1>1 DEF Typed, Fits, Statuses
    <3> QED BY <1>3, <3>1, StatusKin
  <2>2. a \in Responses /\ ~Says(a) /\ Fine(a)
    <3>1. cur.of \in Nat /\ e.returned \in Nat /\ "empty" \in Contents
      BY <1>1, <1>3, ConnectionAssumption DEF Typed, Fits, Locals, Contents
    <3> QED BY ONLY <3>1 DEF Responses, Says, Fine
  <2> HIDE DEF a
  <2>3. answers \in Seq(Responses) /\ answers' = Append(answers, a)
    BY <1>1, <1>3 DEF Typed, a
  <2>4. /\ answers' \in Seq(Responses) /\ Len(answers') = Len(answers) + 1
        /\ answers' # << >> /\ Last' = a /\ Len(answers) \in Nat
        /\ \A i \in 1..Len(answers) : answers'[i] = answers[i]
    BY <2>2, <2>3 DEF Last
  <2>5. Fits(pc, cur)' /\ Known(pc, cur)'
    BY <1>1, <1>3, <2>1, <2>9 DEF Typed, Fits, Kin, Known, Points, After, Processing, Reading
  <2>6. Typed' /\ Counted'
    BY <1>1, <1>3, <2>1, <2>4, <2>5 DEF IInv, Typed, Counted
  <2>7. \A i \in 1..Len(answers) : ~Says(answers[i]) /\ Fine(answers[i])
    BY <1>1, <2>4 DEF IInv, Announced, Found, Last
  <2>8. Announced' /\ Found'
    BY <1>3, <2>2, <2>4, <2>7 DEF Announced, Found
  <2> QED BY <2>5, <2>6, <2>8 DEF IInv
<1> QED BY <1>2, <1>3, <1>4 DEF Expect

\* The response is begun: what it says of the connection is what the worker will do.
LEMMA ReplyKeeps == ASSUME IInv, Reply PROVE IInv'
<1>1. /\ pc \in {"error", "reply"} /\ Typed /\ Known(pc, cur) /\ pc \in Processing
      /\ cur \in Locals /\ cur.of <= sent /\ cur.of # 0 /\ answers \in Seq(Responses)
  BY DEF Reply, IInv, Typed, Fits, Processing, Reading
<1> DEFINE bare == cur.content = "empty" \/ Msg.method = "HEAD"
           n == IF cur.content = "sized" THEN 2 ELSE 1
           A(ok) == [of |-> cur.of, status |-> cur.status, close |-> count = 1 \/ Has("close"),
                     late |-> cur.late, head |-> ok, content |-> cur.content,
                     framing |-> Delimited, whole |-> bare]
<1>2. PICK ok \in BOOLEAN :
        /\ answers' = Append(answers, A(ok))
        /\ pc' = IF bare THEN "done" ELSE "body"
        /\ cur' = [cur EXCEPT !.left = n]
        /\ UNCHANGED <<clientVars, apart, stopping, loopVars, streamVars>>
  BY DEF Reply
<1>3. UNCHANGED <<script, sent, pending, wire, eof, apart, stopping, count, begun, pos, taken>>
  BY <1>2 DEF clientVars, loopVars, streamVars
<1>4. /\ A(ok) \in Responses /\ A(ok).whole = bare /\ A(ok).content = cur.content
      /\ Says(A(ok)) => cur.close \/ count = 1
  <2>1. cur.of \in Nat /\ cur.status \in Nat /\ cur.late \in BOOLEAN /\ cur.content \in Contents
    <3>1. \A s \in Statuses : s \in Nat
      BY ConnectionAssumption DEF Statuses
    <3>2. /\ cur.of \in Nat /\ cur.status \in Statuses /\ cur.late \in BOOLEAN
          /\ cur.content \in Contents
      BY <1>1 DEF Locals
    <3> QED BY <3>1, <3>2
  <2>2. Delimited \in {"length", "chunked", "none"}
    BY <1>1, <2>1 DEF Delimited, Contents
  <2>3. Has("close") => cur.close \/ cur.late
    BY <1>1, <2>1 DEF Known, After, Processing, Reading, Has
  <2> HIDE DEF bare
  <2>4. bare \in BOOLEAN
    BY DEF bare
  <2>5. A(ok) \in Responses
    BY ONLY <2>1, <2>2, <2>4, ok \in BOOLEAN DEF Responses, Has
  <2>6. /\ A(ok).whole = bare /\ A(ok).content = cur.content /\ A(ok).status = cur.status
        /\ A(ok).late = cur.late /\ A(ok).close = (count = 1 \/ Has("close"))
    OBVIOUS
  <2> HIDE DEF A
  <2> QED BY <2>3, <2>5, <2>6 DEF Says
<1> HIDE DEF A
<1>5. /\ answers' \in Seq(Responses) /\ Len(answers') = Len(answers) + 1
      /\ answers' # << >> /\ Last' = A(ok) /\ Len(answers) \in Nat
      /\ \A i \in 1..Len(answers) : answers'[i] = answers[i]
  BY <1>1, <1>2, <1>4 DEF Last
<1>6. /\ cur' \in Locals /\ cur'.of = cur.of /\ cur'.close = cur.close
      /\ cur'.content = cur.content
  <2>1. n \in 0..2
    OBVIOUS
  <2> HIDE DEF n
  <2>2. cur \in Locals /\ n \in 0..2 /\ cur' = [cur EXCEPT !.left = n]
    BY <1>1, <1>2, <2>1
  <2> QED BY ONLY <2>2 DEF Locals
<1> HIDE DEF n
<1>7. Fits(pc, cur)' /\ Known(pc, cur)' /\ pc' \in {"done", "body"}
  BY <1>1, <1>2, <1>3, <1>6 DEF Fits, Known, Points, After, Processing, Reading
<1>8. Typed' /\ Counted'
  BY <1>1, <1>3, <1>5, <1>7 DEF IInv, Typed, Counted
<1>9. \A i \in 1..Len(answers) : ~Says(answers[i]) /\ Fine(answers[i])
  BY <1>1, <1>5 DEF IInv, Announced, Found, Last
<1>10. Announced'
  BY <1>3, <1>4, <1>5, <1>6, <1>7, <1>9 DEF Announced
<1>11. Found'
  <2>1. pc' = "done" => bare
    BY <1>2
  <2> HIDE DEF bare
  <2> QED BY <1>4, <1>5, <1>6, <1>7, <1>9, <2>1 DEF Found, Fine
<1> QED BY <1>7, <1>8, <1>10, <1>11 DEF IInv

\* The body ends in success only when all of it is written, when its provider has ended it
\* by an empty piece, or in a shutdown.
LEMMA BodyKeeps == ASSUME IInv, Body PROVE IInv'
<1>1. /\ pc = "body" /\ Typed /\ cur \in Locals /\ cur.of <= sent /\ cur.of # 0
      /\ answers # << >> /\ answers \in Seq(Responses) /\ Last.content = cur.content
  BY DEF Body, IInv, Typed, Fits, Found
<1>2. CASE Go("body", [cur EXCEPT !.left = @ - 1]) /\ cur.left > 1
  <2> DEFINE c == [cur EXCEPT !.left = @ - 1]
  <2>1. /\ pc' = "body" /\ cur' = c
        /\ UNCHANGED <<script, sent, pending, wire, eof, apart, stopping, count, begun, pos,
                       taken, answers>>
    BY <1>2 DEF Go, clientVars, loopVars, streamVars
  <2>2. cur.left \in 0..2 /\ cur.left > 1
    BY <1>1, <1>2 DEF Locals
  <2>3. cur.left - 1 \in 0..2
    BY <2>2
  <2>4. /\ c \in Locals /\ c.of = cur.of /\ c.close = cur.close /\ c.content = cur.content
    BY ONLY <1>1, <2>3 DEF Locals
  <2> HIDE DEF c
  <2>5. Fits(pc, cur)' /\ Known(pc, cur)' /\ Last' = Last
    BY <1>1, <2>1, <2>4 DEF Fits, Known, Points, After, Processing, Reading, Last
  <2>6. Typed' /\ Counted'
    BY <1>1, <2>1, <2>5 DEF IInv, Typed, Counted
  <2>7. Announced' /\ Found'
    BY <1>1, <2>1, <2>4, <2>5 DEF IInv, Announced, Found
  <2> QED BY <2>5, <2>6, <2>7 DEF IInv
<1>3. ASSUME NEW p \in {"done", "failed"}, NEW w \in BOOLEAN, Ends(p, w),
             p = "failed" \/ w \/ cur.content = "hollow" \/ stopping
      PROVE  IInv'
  <2> DEFINE l == Len(answers)
             a == [answers[l] EXCEPT !.whole = w]
  <2>1. /\ pc' = p /\ answers' = [answers EXCEPT ![l] = a]
        /\ UNCHANGED <<script, sent, pending, wire, eof, apart, stopping, count, begun, pos,
                       taken, cur>>
    BY <1>3 DEF Ends, clientVars, loopVars, streamVars
  <2>2. l \in 1..l /\ l \in Nat /\ answers[l] \in Responses
    BY <1>1
  <2>3. /\ a \in Responses /\ a.whole = w /\ a.content = answers[l].content
        /\ a.close = answers[l].close /\ a.status = answers[l].status
        /\ a.late = answers[l].late
    BY ONLY <2>2, w \in BOOLEAN DEF Responses
  <2> HIDE DEF a
  <2>4. /\ answers' \in Seq(Responses) /\ Len(answers') = l /\ answers'[l] = a
        /\ \A i \in 1 .. l - 1 : answers'[i] = answers[i]
    BY <1>1, <2>1, <2>2, <2>3
  <2>5. answers' # << >> /\ Last' = a /\ answers[l] = Last
    BY <2>2, <2>4 DEF Last
  <2> HIDE DEF l
  <2>6. Fits(pc, cur)' /\ Known(pc, cur)'
    BY <1>1, <2>1 DEF Fits, Known, Points, After, Processing, Reading
  <2>7. Typed' /\ Counted'
    BY SMTT(30), <1>1, <2>1, <2>4, <2>6 DEF IInv, Typed, Counted
  <2>8. Says(Last') <=> Says(Last)
    BY <2>3, <2>5 DEF Says
  <2>9. Announced'
    BY <1>1, <2>1, <2>4, <2>5, <2>8 DEF IInv, Announced, l
  <2>10. Found'
    BY ZenonT(40), <1>1, <1>3, <2>1, <2>3, <2>4, <2>5 DEF IInv, Found, Fine, l
  <2> QED BY <2>6, <2>7, <2>9, <2>10 DEF IInv
<1> QED
  <2>1. \/ \E p \in {"done", "failed"}, w \in BOOLEAN :
             Ends(p, w) /\ (p = "failed" \/ w \/ cur.content = "hollow" \/ stopping)
        \/ Go("body", [cur EXCEPT !.left = @ - 1]) /\ cur.left > 1
    <3>1. CASE Chunks
      <4>1. (cur.content = "chunked") \in BOOLEAN /\ Ends("done", cur.content = "chunked")
            /\ (cur.content = "chunked" \/ cur.content = "hollow")
        BY <3>1 DEF Chunks
      <4> QED BY <4>1
    <3> QED BY <3>1 DEF Body, Sized, Endless
  <2> QED BY <1>2, <1>3, <2>1

\* The steps that read and process a request.
Process == \/ RequestLine \/ Header \/ Skim \/ Checks \/ Route \/ Content \/ Data \/ Skip
           \/ Rest \/ Chunk \/ Dispatch \/ Handler \/ Routed

\* Together: every step of processing a request keeps to the known points.
LEMMA ProcessSteps == ASSUME IInv, Process PROVE pc \in Processing /\ Processed
<1>1. Typed /\ Known(pc, cur)
  BY DEF IInv
<1>2. pc \in Processing
  BY DEF Process, Processing, Reading, RequestLine, Header, Skim, Checks, Route, Content,
     Data, Skip, Rest, Chunk, Dispatch, Handler, Routed
<1>3. Processed
  BY <1>1, RequestLineStep, HeaderStep, SkimStep, ChecksStep, RouteStep, ContentStep,
     DataStep, SkipStep, RestStep, ChunkStep, DispatchStep, HandlerStep, RoutedStep DEF Process
<1> QED BY <1>2, <1>3

\* No step of server or client breaks the invariant.
LEMMA NextIInv == ASSUME IInv, [Next]_vars PROVE IInv'
<1>1. CASE Process
  BY <1>1, ProcessSteps, ProcessedKeeps
<1>2. CASE Expect
  BY <1>2, ExpectKeeps
<1>3. CASE Send \/ Arrive \/ Hangup \/ Stop
  BY <1>3, OutsideKeeps
<1>4. CASE Loop \/ Poll \/ GiveUp \/ Done
  BY <1>4, LoopKeeps
<1>5. CASE Reply
  BY <1>5, ReplyKeeps
<1>6. CASE Body
  BY <1>6, BodyKeeps
<1>7. CASE UNCHANGED vars
  <2>1. UNCHANGED <<script, sent, pending, wire, eof, apart, stopping, pc, count, begun, pos,
                    taken, cur, answers>>
    BY <1>7 DEF vars, clientVars, loopVars, streamVars
  <2> QED BY <2>1 DEF IInv, Typed, Fits, Counted, Known, Announced, Found, Last
<1> QED BY <1>1, <1>2, <1>3, <1>4, <1>5, <1>6, <1>7 DEF Next, Worker, Process

-----------------------------------------------------------------------------
\* The inductive invariant holds in every state of a connection.
THEOREM Invariance == Spec => []IInv
<1>1. Init => IInv
  BY InitIInv
<1>2. IInv /\ [Next]_vars => IInv'
  BY NextIInv
<1> QED BY <1>1, <1>2, PTL DEF Spec

\* The types: the worker is at one of its points, has begun no more requests than it may, and
\* never hands out more than has arrived.
THEOREM TypeCorrect == Spec => []TypeOK
<1>1. IInv => TypeOK
  <2> SUFFICES ASSUME IInv PROVE TypeOK
    OBVIOUS
  <2>1. cur \in Locals /\ cur.of <= sent /\ pc \in Points /\ sent \in Nat
    BY ConnectionAssumption DEF IInv, Typed, Fits
  <2>2. cur.of \in 0..sent /\ cur.left \in 0..2 /\ cur.status \in Statuses
    BY <2>1 DEF Locals
  <2> QED BY <2>1, <2>2 DEF IInv, Typed, TypeOK, Points, Statuses
<1> QED BY <1>1, Invariance, PTL

\* After a response that announces it the connection is closed, whatever clients send and
\* handlers answer: its close comes from what the worker looks at, except for headers
\* that broke off and for trailers.
THEOREM AnnouncedClose == Spec => []CloseIsLast
<1>1. IInv => CloseIsLast
  <2> SUFFICES ASSUME IInv, NEW i \in DOMAIN answers, Says(answers[i]) PROVE i = Len(answers)
    BY DEF CloseIsLast, Says
  <2>1. i \in 1..Len(answers) /\ Len(answers) \in Nat
    BY DEF IInv, Typed
  <2> QED BY <2>1 DEF IInv, Announced
<1> QED BY <1>1, Invariance, PTL

\* A step of the connection is a step, or none, of a connection that is served request by
\* request: the requests begun and the count of the loop make up the limit.
LEMMA StepServes == ASSUME IInv, [Next]_vars PROVE [Connection!Next]_(Connection!vars)
<1> USE DEF Connection!vars
<1>1. ASSUME begun' = begun, stopping' = stopping, Phase' = Phase
      PROVE  UNCHANGED Connection!vars
  BY <1>1
<1>2. CASE Process
  <2>1. begun' = begun /\ stopping' = stopping /\ pc \in Processing
        /\ pc' \in Processing \cup {"failed"}
    BY <1>2, ProcessSteps DEF Processed, Moved
  <2>2. Phase = "busy" /\ Phase' = "busy"
    BY <2>1 DEF Phase, Processing, Reading
  <2> QED BY <1>1, <2>1, <2>2
<1>3. CASE Expect \/ Reply \/ Body
  <2>1. begun' = begun /\ stopping' = stopping /\ pc \in {"expect", "error", "reply", "body"}
        /\ pc' \in {"error", "route", "done", "body", "failed", "closed"}
    BY <1>3 DEF Expect, Reply, Body, Go, Ends, Sized, Chunks, Endless, loopVars
  <2>2. Phase = "busy" /\ Phase' \in {"busy", "closed"}
    BY <2>1 DEF Phase
  <2> QED BY <1>1, <2>1, <2>2 DEF Connection!Next, Connection!Respond, Connection!To
<1>4. CASE Send \/ Arrive \/ Hangup \/ UNCHANGED vars
  <2>1. begun' = begun /\ stopping' = stopping /\ pc' = pc
    BY <1>4 DEF Send, Arrive, Hangup, vars, loopVars
  <2> QED BY <1>1, <2>1 DEF Phase
<1>5. CASE Stop
  <2>1. ~stopping /\ stopping' = TRUE /\ begun' = begun /\ pc' = pc
    BY <1>5 DEF Stop, loopVars
  <2>2. Phase' = Phase
    BY <2>1 DEF Phase
  <2> QED BY <2>1, <2>2 DEF Connection!Next, Connection!Stop
<1>6. CASE Loop
  <2>1. /\ pc = "loop" /\ pc' = IF ~stopping /\ count > 0 THEN "poll" ELSE "closed"
        /\ begun' = begun /\ stopping' = stopping
    BY <1>6 DEF Loop, loopVars
  <2>2. count + begun = KeepAliveMax /\ count \in Nat /\ begun \in Nat /\ KeepAliveMax \in Nat
    BY <2>1, ConnectionAssumption DEF IInv, Counted, Typed
  <2>3. count > 0 <=> begun < KeepAliveMax
    BY <2>2
  <2>4. /\ Phase = "taken"
        /\ Phase' = IF ~stopping /\ begun < KeepAliveMax THEN "idle" ELSE "closed"
    BY <2>1, <2>3 DEF Phase
  <2> QED BY <2>1, <2>4 DEF Connection!Next, Connection!KeepAlive, Connection!To
<1>7. CASE Poll
  <2>1. Phase = "idle" /\ Phase' = "busy" /\ begun' = begun + 1 /\ stopping' = stopping
    BY <1>7 DEF Poll, Phase
  <2> QED BY <2>1 DEF Connection!Next, Connection!Request, Connection!To
<1>8. CASE GiveUp
  <2>1. Phase = "idle" /\ Phase' = "closed" /\ begun' = begun /\ stopping' = stopping
    BY <1>8 DEF GiveUp, Phase, loopVars
  <2> QED BY <2>1 DEF Connection!Next, Connection!GiveUp, Connection!To
<1>9. CASE Done
  <2>1. Phase = "busy" /\ Phase' \in {"taken", "closed"} /\ begun' = begun /\ stopping' = stopping
    BY <1>9 DEF Done, Phase
  <2> QED BY <2>1 DEF Connection!Next, Connection!Respond, Connection!To
<1> QED BY <1>2, <1>3, <1>4, <1>5, <1>6, <1>7, <1>8, <1>9 DEF Next, Worker, Process

\* Seen from outside the connection is what ExampleServer takes it for: requests are served one
\* after the other, KeepAliveMax at most, and a shutdown is noticed between two of them.
THEOREM Serves == Spec => ServesConnection
<1>1. Init => Connection!Init
  BY DEF Init, Connection!Init, Phase
<1>2. IInv /\ [Next]_vars => [Connection!Next]_(Connection!vars)
  BY StepServes
<1> QED BY <1>1, <1>2, Invariance, PTL DEF Spec, ServesConnection, Connection!Spec

-----------------------------------------------------------------------------
(***************************************************************************)
(* Where the parts of a message are on the wire.  The k-th one begins after *)
(* b other parts; what the client has not sent of the last one is pending,  *)
(* and a close may have cut the part that was on its way.                   *)
(***************************************************************************)
Size(k) == Len(Parts(script[k], k))

Cut(k, i) == k = sent /\ eof /\ i = Len(wire) /\ wire[i] = Part("cut", k)

Placed(k, b) ==
  /\ b \in 0..Len(wire)
  /\ \A i \in 1..Len(wire) : wire[i].of = k => i - b \in 1..Size(k)
  /\ \A j \in 1..Size(k) :
       b + j <= Len(wire) => wire[b + j] = Parts(script[k], k)[j] \/ Cut(k, b + j)
  /\ k < sent => b + Size(k) <= Len(wire)
  /\ k = sent => /\ Len(wire) <= b + Size(k) /\ b + Size(k) <= Len(wire) + Len(pending)
                 /\ ~eof => b + Size(k) = Len(wire) + Len(pending)

EachPlaced == \A k \in 1..sent : \E b \in Nat : Placed(k, b)

Coming ==
  sent > 0 => /\ Len(pending) <= Size(sent)
              /\ \A i \in 1..Len(pending) :
                   pending[i] = Parts(script[sent], sent)[Size(sent) - Len(pending) + i]

(***************************************************************************)
(* How far a request has been read.  Of an honest message the server has   *)
(* read j parts: with its head it knows the headers, and in its content it *)
(* stands at one of few stations, where it has read n parts of the content *)
(* and d pieces of data.                                                   *)
(***************************************************************************)
OneChunk  == <<"size1", "data", "blank", "size0", "blank">>
TwoPieces == <<"size2", "data", "data", "blank", "size0", "plain", "blank">>

Station(x, p, n, d) ==
  \/ x = <<"data">> /\ p = "data" /\ n = 0 /\ d = 0
  \/ x = <<"data", "data">> /\ p = "data" /\ n \in {0, 1} /\ d = n
  \/ x = OneChunk /\ <<p, n, d>> \in
       {<<"size", 0, 0>>, <<"data", 1, 0>>, <<"crlf", 2, 1>>, <<"size", 3, 1>>, <<"trailer", 4, 1>>}
  \/ x = TwoPieces /\ <<p, n, d>> \in
       {<<"size", 0, 0>>, <<"data", 1, 0>>, <<"data", 2, 1>>, <<"crlf", 3, 2>>, <<"size", 4, 2>>,
        <<"trailer", 5, 2>>, <<"trailer", 6, 2>>}

Total(x) == IF x = << >> THEN 0 ELSE IF x \in {<<"data">>, OneChunk} THEN 1 ELSE 2

Datas(k, d) == [i \in 1..d |-> Part("data", k)]

HeadSize(m) == Len(m.heads) + 2
AsSent(heads, m) == heads = HeadsOf(m) \/ heads = HeadsOf(m) \cup {"plain"}

Where(p, c, m, j) ==
  /\ p \in {"headers", "skim"} => j \in 1 .. Len(m.heads) + 1
  /\ p = "skim" => m.line = "long"
  /\ p = "expect" => "expect" \in c.heads
  /\ p = "headers" => c.heads = {m.heads[i] : i \in 1 .. j - 1} /\ c.body = << >>
  /\ p \in {"checks", "expect", "route", "content"} =>
       j = HeadSize(m) /\ c.heads = HeadsOf(m) /\ c.body = << >>
  /\ p \in {"data", "size", "crlf", "trailer"} =>
       /\ Framing(HeadsOf(m), m.method) \in {"length", "chunked"} /\ AsSent(c.heads, m)
       /\ \E d \in 0..2 : /\ Station(m.content, p, j - HeadSize(m), d)
                          /\ c.body = Datas(c.of, d)
                          /\ p = "data" => c.left = Total(m.content) - d
  /\ p = "skip" =>
       /\ Framing(HeadsOf(m), m.method) = "length" /\ c.heads = HeadsOf(m)
       /\ j - HeadSize(m) \in 0 .. Len(m.content) - 1
       /\ c.left = Len(m.content) - (j - HeadSize(m))

Following == {"headers", "skim", "checks", "expect", "route", "content",
              "data", "size", "crlf", "trailer", "skip"}

Broken == pc \in Reading /\ eof /\ pos = Len(wire)

At(j) == Placed(cur.of, pos - j) /\ Where(pc, cur, Msg, j)

Followed == pc \in Following /\ Honest(Msg) => Broken \/ \E j \in Nat : At(j)

\* What a handler that the content was read for has been given.
Given ==
  /\ cur.reader => Msg.route = "reader"
  /\ pc = "rest" => Framing(cur.heads, Msg.method) = "rest"
  /\ pc \in {"dispatch", "handler"} /\ Msg.route = "handler" /\ ExpectContent(Msg) /\ Honest(Msg)
       /\ Framing(cur.heads, Msg.method) \in {"length", "chunked"} =>
         cur.body = Datas(cur.of, Total(Msg.content))

\* Each request begins with locals of its own.
Fresh == pc \in {"loop", "poll", "line"} => cur = NoRequest

WholeInv == EachPlaced /\ Coming /\ Fresh /\ Followed /\ Given

-----------------------------------------------------------------------------
(***************************************************************************)
(* Who is ahead.  To a client that waits, and is read in full, every       *)
(* message before the last one has been answered; the last one is being    *)
(* read, or it has been read and all that arrived has been consumed.       *)
(***************************************************************************)
Consumed == pos = Len(wire) /\ (pending = << >> \/ eof)

Waits == ~apart /\ \A i \in 1..sent : ReadInFull(script[i])

Numbered ==
  \A i \in 1..Len(answers) :
    answers[i].status # 100 /\ answers[i].head => answers[i].of = Cardinality(Final(i))

Behind == sent = Answered + 1

Abreast ==
  /\ pc \in {"loop", "poll", "line"} =>
       (sent = Answered /\ Consumed) \/ (Behind /\ Placed(sent, pos))
  /\ pc \in Following => Behind /\ cur.of = sent
  /\ pc \in {"rest", "dispatch", "handler", "routed", "error", "reply"} =>
       Behind /\ cur.of = sent /\ Consumed
  /\ pc \in {"body", "done"} => sent = Answered /\ Consumed

StepInv ==
  /\ pos <= taken
  /\ cur.status # 100
  /\ Waits => Numbered /\ Abreast

-----------------------------------------------------------------------------
(***************************************************************************)
(* The parts of a message.                                                 *)
(***************************************************************************)
\* A message's line comes first, then its headers, a blank line and the content.
LEMMA PartsAre ==
  ASSUME NEW m \in Messages, NEW k \in Nat
  PROVE  /\ Len(m.heads) \in Nat /\ Len(m.content) \in Nat /\ HeadSize(m) \in Nat
         /\ Len(Parts(m, k)) \in Nat
         /\ Len(Parts(m, k)) = HeadSize(m) + Len(m.content)
         /\ Parts(m, k)[1] = Part(m.line, k)
         /\ \A i \in 1..Len(m.heads) : Parts(m, k)[1 + i] = Part(m.heads[i], k)
         /\ Parts(m, k)[HeadSize(m)] = Part("blank", k)
         /\ \A i \in 1..Len(m.content) : Parts(m, k)[HeadSize(m) + i] = Part(m.content[i], k)
<1> DEFINE h == m.heads
           x == m.content
           whats == <<m.line>> \o h \o <<"blank">> \o x
<1>1. h \in Seq(Words) /\ x \in Seq(Words) /\ m.line \in Words /\ "blank" \in Words
  <2>1. m.line \in {"good", "bad", "long"} /\ h \in Seq(Heads) /\ x \in Seq(Words)
    BY DEF Messages
  <2>2. Heads \subseteq Words
    BY DEF Words
  <2> QED BY <2>1, <2>2 DEF Words
<1>2. Parts(m, k) = [i \in DOMAIN whats |-> Part(whats[i], k)]
  BY DEF Parts
<1> HIDE DEF h, x
<1>3. /\ Len(h) \in Nat /\ Len(x) \in Nat /\ Len(whats) \in Nat /\ Len(h) + 2 \in Nat
      /\ whats \in Seq(Words) /\ Len(whats) = Len(h) + 2 + Len(x)
      /\ whats[1] = m.line
      /\ \A i \in 1..Len(h) : whats[1 + i] = h[i]
      /\ whats[Len(h) + 2] = "blank"
      /\ \A i \in 1..Len(x) : whats[Len(h) + 2 + i] = x[i]
  BY <1>1
<1> HIDE DEF whats
<1>4. /\ Len(Parts(m, k)) = Len(whats) /\ DOMAIN whats = 1..Len(whats)
      /\ \A i \in 1..Len(whats) : Parts(m, k)[i] = Part(whats[i], k)
  BY <1>2, <1>3
<1>5. /\ 1 \in 1..Len(whats) /\ Len(h) + 2 \in 1..Len(whats)
      /\ \A i \in 1..Len(h) : 1 + i \in 1..Len(whats)
      /\ \A i \in 1..Len(x) : Len(h) + 2 + i \in 1..Len(whats)
  BY <1>3
<1>6. HeadSize(m) = Len(h) + 2 /\ m.content = x /\ m.heads = h
  BY DEF HeadSize, h, x
<1>7. /\ Parts(m, k)[1] = Part(m.line, k)
      /\ \A i \in 1..Len(h) : Parts(m, k)[1 + i] = Part(h[i], k)
      /\ Parts(m, k)[Len(h) + 2] = Part("blank", k)
      /\ \A i \in 1..Len(x) : Parts(m, k)[Len(h) + 2 + i] = Part(x[i], k)
  BY <1>3, <1>4, <1>5
<1>8. Len(Parts(m, k)) = Len(h) + 2 + Len(x) /\ Len(Parts(m, k)) \in Nat
  BY <1>3, <1>4
<1> QED BY <1>3, <1>6, <1>7, <1>8

\* The k-th message, once it has been begun.
LEMMA ScriptType ==
  ASSUME Typed, NEW k \in 1..sent
  PROVE  script[k] \in Messages /\ k \in Nat /\ sent \in Nat /\ Size(k) \in Nat
<1>1. script \in Seq(Messages) /\ sent \in 0..Len(script) /\ Len(script) \in Nat
  BY ConnectionAssumption DEF Typed
<1>2. k \in 1..Len(script) /\ k \in Nat /\ sent \in Nat
  BY <1>1
<1>3. script[k] \in Messages
  BY <1>1, <1>2
<1>4. Parts(script[k], k) \in Seq(Pieces)
  BY <1>2, <1>3, PartsType
<1> QED BY <1>2, <1>3, <1>4 DEF Size

-----------------------------------------------------------------------------
(***************************************************************************)
(* Honest content.                                                         *)
(***************************************************************************)
\* The content of an honest message is one of five.
LEMMA HonestContent ==
  ASSUME NEW m, Honest(m)
  PROVE  m.content \in {<< >>, <<"data">>, <<"data", "data">>, OneChunk, TwoPieces}
BY DEF Honest, ChunkedContents, OneChunk, TwoPieces

\* What Framing makes of the headers fits it.
LEMMA HonestFraming ==
  ASSUME NEW m, Honest(m), NEW method
  PROVE  /\ Framing(HeadsOf(m), method) = "chunked" =>
              "chunked" \in HeadsOf(m) /\ m.content \in {OneChunk, TwoPieces}
         /\ Framing(HeadsOf(m), method) = "length" =>
              /\ "chunked" \notin HeadsOf(m)
              /\ m.content = IF "length1" \in HeadsOf(m) THEN <<"data">> ELSE <<"data", "data">>
         /\ Framing(HeadsOf(m), method) = "rest" => m.content = << >>
BY DEF Honest, ChunkedContents, OneChunk, TwoPieces, Framing, HasLength, IsChunked, Encoded

\* A trailer that is a plain header changes nothing of this.
LEMMA PlainFraming ==
  ASSUME NEW m, NEW heads, AsSent(heads, m), NEW method
  PROVE  /\ Framing(heads, method) = Framing(HeadsOf(m), method)
         /\ \A h : h # "plain" => (h \in heads <=> h \in HeadsOf(m))
BY DEF AsSent, Framing, HasLength, IsChunked, Encoded

\* Nothing in it looks like a request line or a part that was cut short.
LEMMA HonestParts ==
  ASSUME NEW m \in Messages, NEW k \in Nat, Honest(m), NEW j \in 1..Len(Parts(m, k))
  PROVE  /\ Parts(m, k)[j].of = k
         /\ Parts(m, k)[j].what # "cut"
         /\ Parts(m, k)[j].what \in {"good", "long"} => j = 1
<1>1. /\ Len(m.heads) \in Nat /\ Len(m.content) \in Nat
      /\ Len(Parts(m, k)) \in Nat /\ HeadSize(m) \in Nat
      /\ Len(Parts(m, k)) = HeadSize(m) + Len(m.content) /\ HeadSize(m) = Len(m.heads) + 2
  BY PartsAre DEF HeadSize
<1>2. CASE j = 1
  <2>1. Parts(m, k)[j] = Part(m.line, k) /\ m.line # "cut"
    BY <1>2, PartsAre DEF Messages
  <2> QED BY <1>2, <2>1 DEF Part
<1>3. CASE j \in 2 .. Len(m.heads) + 1
  <2>1. j - 1 \in 1..Len(m.heads) /\ j = 1 + (j - 1)
    BY <1>1, <1>3
  <2> PICK i \in 1..Len(m.heads) : j = 1 + i
    BY <2>1
  <2>2. Parts(m, k)[1 + i] = Part(m.heads[i], k)
    BY PartsAre
  <2>3. m.heads[i] \in Heads
    <3>1. m.heads \in Seq(Heads)
      BY DEF Messages
    <3> QED BY <3>1
  <2> QED BY <1>3, <2>2, <2>3 DEF Part, Heads
<1>4. CASE j = HeadSize(m)
  <2>1. Parts(m, k)[j] = Part("blank", k)
    BY <1>4, PartsAre
  <2> QED BY <1>1, <1>4, <2>1 DEF Part
<1>5. CASE j > HeadSize(m)
  <2> DEFINE i == j - HeadSize(m)
  <2>1. i \in 1..Len(m.content) /\ j = HeadSize(m) + i
    <3> DEFINE l == Len(Parts(m, k))
               h == HeadSize(m)
               x == Len(m.content)
    <3>1. l \in Nat /\ h \in Nat /\ x \in Nat /\ l = h + x /\ j \in 1..l /\ j > h
      BY <1>1, <1>5
    <3> HIDE DEF l, h, x
    <3>2. j - h \in 1..x /\ j = h + (j - h)
      BY <3>1
    <3> QED BY <3>2 DEF h, x
  <2> HIDE DEF i
  <2>2. Parts(m, k)[HeadSize(m) + i] = Part(m.content[i], k)
    BY <2>1, PartsAre
  <2>3. m.content[i] \in {"data", "size0", "size1", "size2", "blank", "plain"}
    BY <2>1, HonestContent DEF OneChunk, TwoPieces
  <2> QED BY <2>1, <2>2, <2>3 DEF Part
<1> QED BY <1>1, <1>2, <1>3, <1>4, <1>5

\* The data in it is counted.
LEMMA TotalIsData ==
  ASSUME NEW m, m.content \in {<< >>, <<"data">>, <<"data", "data">>, OneChunk, TwoPieces}
  PROVE  DataIn(m) = Total(m.content)
<1>1. \A i : IsFiniteSet({i}) /\ Cardinality({i}) = 1
  BY FS_Singleton
<1>2. Cardinality({1, 2}) = 2 /\ Cardinality({2, 3}) = 2
  <2>1. ASSUME NEW a \in Nat, NEW b \in Nat, a # b PROVE Cardinality({a, b}) = 2
    <3> PICK S : S = {a}
      OBVIOUS
    <3>1. IsFiniteSet(S) /\ Cardinality(S) = 1
      BY <1>1
    <3>2. b \notin S
      BY <2>1
    <3>3. Cardinality(S \cup {b}) = Cardinality(S) + 1
      BY <3>1, <3>2, FS_AddElement
    <3>4. {a, b} = S \cup {b}
      BY Zenon
    <3>5. Cardinality({a, b}) = Cardinality(S \cup {b})
      BY <3>4, Zenon
    <3> QED BY <3>1, <3>3, <3>5
  <2>2. 1 \in Nat /\ 2 \in Nat /\ 3 \in Nat /\ 1 # 2 /\ 2 # 3
    OBVIOUS
  <2> QED BY <2>1, <2>2, Zenon
<1>3. CASE m.content = <<"data">>
  <2>1. {i \in DOMAIN m.content : m.content[i] = "data"} = {1}
    BY <1>3
  <2> QED BY <1>1, <1>3, <2>1 DEF DataIn, Total
<1>4. CASE m.content = <<"data", "data">>
  <2>1. {i \in DOMAIN m.content : m.content[i] = "data"} = {1, 2}
    BY <1>4
  <2>2. <<"data", "data">> # <<"data">> /\ <<"data", "data">> # OneChunk
    BY DEF OneChunk
  <2> QED BY <1>2, <1>4, <2>1, <2>2 DEF DataIn, Total
<1>5. CASE m.content = OneChunk
  <2>1. {i \in DOMAIN m.content : m.content[i] = "data"} = {2}
    BY <1>5 DEF OneChunk
  <2>2. OneChunk # << >>
    BY DEF OneChunk
  <2> QED BY <1>1, <1>5, <2>1, <2>2 DEF DataIn, Total
<1>6. CASE m.content = TwoPieces
  <2>1. {i \in DOMAIN m.content : m.content[i] = "data"} = {2, 3}
    BY <1>6 DEF TwoPieces
  <2>2. TwoPieces # << >> /\ TwoPieces # <<"data">> /\ TwoPieces # OneChunk
    BY DEF OneChunk, TwoPieces
  <2> QED BY <1>2, <1>6, <2>1, <2>2 DEF DataIn, Total
<1>7. CASE m.content = << >>
  <2>1. {i \in DOMAIN m.content : m.content[i] = "data"} = {}
    BY <1>7
  <2>2. Cardinality({}) = 0
    BY FS_EmptySet
  <2> QED BY <1>7, <2>1, <2>2 DEF DataIn, Total
<1> QED BY <1>3, <1>4, <1>5, <1>6, <1>7

\* From each station what is read next leads to the next station, or to the end.
LEMMA StationNext ==
  ASSUME NEW x, NEW p, NEW n \in Nat, NEW d \in 0..2, Station(x, p, n, d)
  PROVE  /\ n < Len(x)
         /\ p = "data" =>
              /\ x[n + 1] = "data" /\ d < Total(x)
              /\ d + 1 < Total(x) => Station(x, "data", n + 1, d + 1)
              /\ d + 1 = Total(x) =>
                   \/ x \in {OneChunk, TwoPieces} /\ Station(x, "crlf", n + 1, d + 1)
                   \/ x \in {<<"data">>, <<"data", "data">>} /\ n + 1 = Len(x)
         /\ p = "size" =>
              \/ x[n + 1] = "size0" /\ Station(x, "trailer", n + 1, d)
              \/ x[n + 1] = "size1" /\ Station(x, "data", n + 1, d) /\ Total(x) - d = 1
              \/ x[n + 1] = "size2" /\ Station(x, "data", n + 1, d) /\ Total(x) - d = 2
         /\ p = "crlf" => x[n + 1] = "blank" /\ Station(x, "size", n + 1, d)
         /\ p = "trailer" =>
              /\ d = Total(x)
              /\ \/ x[n + 1] = "blank" /\ n + 1 = Len(x)
                 \/ x[n + 1] = "plain" /\ Station(x, "trailer", n + 1, d)
<1>1. CASE x = <<"data">>
  BY <1>1 DEF Station, Total, OneChunk, TwoPieces
<1>2. CASE x = <<"data", "data">>
  BY <1>2 DEF Station, Total, OneChunk, TwoPieces
<1>3. CASE x = OneChunk
  BY <1>3 DEF Station, Total, OneChunk, TwoPieces
<1>4. CASE x = TwoPieces
  BY <1>4 DEF Station, Total, OneChunk, TwoPieces
<1> QED BY <1>1, <1>2, <1>3, <1>4 DEF Station

-----------------------------------------------------------------------------
(***************************************************************************)
(* Steps that follow a message.  A step of the worker leads onward when it *)
(* keeps to the message and either follows it further or has come to its   *)
(* end, if it is one that the server reads in full.                        *)
(***************************************************************************)
Ended ==
  \/ pos = Len(wire) /\ (eof \/ pending = << >> \/ apart)
  \/ Placed(cur.of, pos - Size(cur.of))

Onward ==
  /\ cur'.of = cur.of
  /\ pc' \in Following => Broken' \/ \E j \in Nat : At(j)'
  /\ pc' \notin Following /\ ReadInFull(Msg) => Ended'

Held == UNCHANGED <<script, sent, pending, wire, eof>>

\* Nothing but client and network changes where a message is.
LEMMA PlacedHeld == ASSUME Held, NEW k, NEW b PROVE Placed(k, b)' <=> Placed(k, b)
<1>1. Size(k)' = Size(k) /\ \A i : Cut(k, i)' <=> Cut(k, i)
  BY DEF Held, Size, Cut
<1> QED BY <1>1 DEF Held, Placed

\* The worker is still at a known place of its message.
LEMMA AtKept ==
  ASSUME Held, cur'.of = cur.of, NEW j \in Nat, NEW i \in Nat, pos \in Nat,
         Placed(cur.of, pos - j), pos' - i = pos - j, Where(pc', cur', Msg, i)
  PROVE  At(i)'
<1>1. PICK k : k = cur.of
  OBVIOUS
<1>2. PICK b : b = pos - j
  OBVIOUS
<1>3. Placed(k, b)'
  BY <1>1, <1>2, PlacedHeld
<1>4. Msg' = Msg
  BY DEF Msg, Held
<1>5. Where(pc, cur, Msg, i)'
  BY <1>4
<1>6. Placed(cur.of, pos - i)'
  BY <1>1, <1>2, <1>3
<1> QED BY <1>5, <1>6 DEF At

\* What is known of the message that is followed.
LEMMA WhichMessage ==
  ASSUME Typed, pc \in Following
  PROVE  /\ Msg \in Messages /\ cur.of \in 1..sent /\ cur.of \in Nat /\ Size(cur.of) \in Nat
         /\ cur \in Locals /\ pos \in Nat /\ Len(wire) \in Nat
         /\ Size(cur.of) = HeadSize(Msg) + Len(Msg.content)
<1>1. cur.of \in Nat /\ cur.of <= sent /\ cur.of # 0 /\ cur \in Locals
  BY DEF Typed, Fits, Following, Locals
<1>2. sent \in Nat
  BY ConnectionAssumption DEF Typed
<1>3. cur.of \in 1..sent
  BY <1>1, <1>2
<1>4. Msg \in Messages /\ Size(cur.of) \in Nat
  BY <1>3, ScriptType DEF Msg
<1>5. Size(cur.of) = HeadSize(Msg) + Len(Msg.content)
  <2>1. Len(Parts(Msg, cur.of)) = HeadSize(Msg) + Len(Msg.content)
    BY <1>1, <1>4, PartsAre
  <2> QED BY <2>1 DEF Size, Msg
<1>6. pos \in Nat /\ Len(wire) \in Nat
  BY DEF Typed
<1> QED BY <1>1, <1>3, <1>4, <1>5, <1>6

\* The next part of a message is the one that was sent, unless it was cut short.
LEMMA NextPart ==
  ASSUME Typed, pc \in Following, NEW j \in Nat, Placed(cur.of, pos - j),
         j < Size(cur.of), pos < Len(wire)
  PROVE  Here = Parts(Msg, cur.of)[j + 1] \/ Cut(cur.of, pos + 1)
<1>1. Size(cur.of) \in Nat /\ pos \in Nat /\ Len(wire) \in Nat
  BY WhichMessage
<1>2. j + 1 \in 1..Size(cur.of) /\ (pos - j) + (j + 1) <= Len(wire)
      /\ (pos - j) + (j + 1) = pos + 1
  BY <1>1
<1>3. wire[(pos - j) + (j + 1)] = Parts(Msg, cur.of)[j + 1] \/ Cut(cur.of, (pos - j) + (j + 1))
  BY <1>2 DEF Placed, Msg
<1> QED BY <1>2, <1>3 DEF Here

\* A read leads onward when the part that was read, not cut short, does.
LEMMA ReadOn ==
  ASSUME Typed, pc \in Following, NEW j \in Nat, At(j), j < Size(cur.of),
         NEW p, NEW c, Read(p, c), c.of = cur.of,
         Cut(cur.of, pos + 1) /\ p \in Following => p \in Reading,
         Here = Parts(Msg, cur.of)[j + 1] /\ p \in Following => Where(p, c, Msg, j + 1),
         Here = Parts(Msg, cur.of)[j + 1] /\ p \notin Following /\ ReadInFull(Msg) =>
           j + 1 = Size(cur.of)
  PROVE  Onward
<1>1. /\ Held /\ pos < Len(wire) /\ pos' = pos + 1 /\ pc' = p /\ cur' = c /\ apart' = apart
      /\ cur'.of = cur.of
  BY CompleteIs DEF Read, Held, clientVars, Typed
<1>2. Placed(cur.of, pos - j) /\ pos \in Nat /\ Size(cur.of) \in Nat /\ j + 1 \in Nat
  BY WhichMessage DEF At
<1>3. CASE Cut(cur.of, pos + 1)
  <2>1. eof' /\ pos' = Len(wire)'
    BY <1>1, <1>3 DEF Cut, Held
  <2>2. p \in Following => Broken'
    BY <1>1, <1>3, <2>1 DEF Broken
  <2>3. Ended'
    BY <2>1 DEF Ended
  <2> QED BY <1>1, <2>2, <2>3 DEF Onward
<1>4. CASE Here = Parts(Msg, cur.of)[j + 1]
  <2>1. ASSUME p \in Following PROVE At(j + 1)'
    <3>1. Where(pc', cur', Msg, j + 1) /\ pos' - (j + 1) = pos - j
      BY <1>1, <1>2, <1>4, <2>1
    <3> QED BY <1>1, <1>2, <3>1, AtKept
  <2>2. ASSUME p \notin Following, ReadInFull(Msg) PROVE Ended'
    <3>1. pos' - Size(cur.of) = pos - j
      BY <1>1, <1>2, <1>4, <2>2
    <3>2. PICK k : k = cur.of
      OBVIOUS
    <3>3. PICK b : b = pos - j
      OBVIOUS
    <3>4. Placed(k, b)' /\ Size(k)' = Size(k)
      BY <1>1, <1>2, <3>2, <3>3, PlacedHeld DEF Held, Size
    <3>5. Placed(cur.of, pos - Size(cur.of))'
      BY <1>1, <3>1, <3>2, <3>3, <3>4
    <3> QED BY <3>5 DEF Ended
  <2> QED BY <1>1, <2>1, <2>2 DEF Onward
<1>5. Here = Parts(Msg, cur.of)[j + 1] \/ Cut(cur.of, pos + 1)
  BY <1>1, <1>2, NextPart
<1> QED BY <1>3, <1>4, <1>5

\* A read that fails ends all reading: what has not arrived is given up on.
LEMMA DryOn ==
  ASSUME Typed, pc \in Following, NEW p, NEW c, Dry(p, c), c.of = cur.of, p \notin Following
  PROVE  Onward
<1>1. /\ pos' = Len(wire)' /\ pc' = p /\ cur'.of = cur.of
      /\ pending' = << >> \/ apart'
  BY DEF Dry, clientVars, streamVars
<1> QED BY <1>1 DEF Onward, Ended

\* A step without a read stays where it is.
LEMMA GoOn ==
  ASSUME Typed, pc \in Following, NEW j \in Nat, At(j), NEW p, NEW c, Go(p, c), c.of = cur.of,
         p \in Following => Where(p, c, Msg, j),
         p \notin Following /\ ReadInFull(Msg) => j = Size(cur.of)
  PROVE  Onward
<1>0. Held /\ pos' = pos /\ pc' = p /\ cur' = c /\ cur'.of = cur.of
  BY DEF Go, Held, clientVars, streamVars
<1>1. Held /\ pos' = pos /\ pc' = p /\ cur' = c /\ cur'.of = cur.of /\ pos \in Nat
      /\ Placed(cur.of, pos - j)
  BY <1>0, WhichMessage DEF At
<1>2. ASSUME p \in Following PROVE At(j)'
  <2>1. Where(pc', cur', Msg, j) /\ pos' - j = pos - j
    BY <1>1, <1>2
  <2> QED BY <1>1, <2>1, AtKept
<1>3. ASSUME p \notin Following, ReadInFull(Msg) PROVE Ended'
  <2>1. PICK k : k = cur.of
    OBVIOUS
  <2>2. PICK b : b = pos - j
    OBVIOUS
  <2>3. Placed(k, b)' /\ Size(k)' = Size(k)
    BY <1>1, <2>1, <2>2, PlacedHeld DEF Held, Size
  <2>4. pos' - Size(cur.of) = b
    BY <1>1, <1>3, <2>2
  <2>5. Placed(cur.of, pos - Size(cur.of))'
    BY <1>1, <2>1, <2>3, <2>4
  <2> QED BY <2>5 DEF Ended
<1> QED BY <1>1, <1>2, <1>3 DEF Onward

-----------------------------------------------------------------------------
(***************************************************************************)
(* The head of a message.                                                  *)
(***************************************************************************)
\* After the line come the headers, and after them the blank line.
LEMMA HeadPart ==
  ASSUME Typed, pc \in Following, NEW j \in 1 .. Len(Msg.heads) + 1
  PROVE  /\ j \in Nat /\ j < Size(cur.of) /\ Len(Msg.heads) \in Nat
         /\ HeadSize(Msg) = Len(Msg.heads) + 2 /\ DOMAIN Msg.heads = 1..Len(Msg.heads)
         /\ \/ /\ j \in 1..Len(Msg.heads) /\ Msg.heads[j] \in Heads
               /\ Parts(Msg, cur.of)[j + 1].what = Msg.heads[j]
            \/ /\ j = Len(Msg.heads) + 1
               /\ Parts(Msg, cur.of)[j + 1].what = "blank"
<1>1. /\ Msg \in Messages /\ cur.of \in Nat /\ Size(cur.of) \in Nat
      /\ Size(cur.of) = HeadSize(Msg) + Len(Msg.content)
  BY WhichMessage
<1>2. Msg.heads \in Seq(Heads) /\ Len(Msg.heads) \in Nat /\ DOMAIN Msg.heads = 1..Len(Msg.heads)
  BY <1>1 DEF Messages
<1>3. HeadSize(Msg) = Len(Msg.heads) + 2 /\ Len(Msg.content) \in Nat
  BY <1>1, PartsAre DEF HeadSize
<1>4. j \in Nat /\ j < Size(cur.of)
  <2> DEFINE l == Len(Msg.heads)
             s == Size(cur.of)
             x == Len(Msg.content)
  <2>1. l \in Nat /\ x \in Nat /\ s = l + 2 + x /\ j \in 1 .. l + 1
    BY <1>1, <1>2, <1>3
  <2> HIDE DEF l, s, x
  <2>2. j \in Nat /\ j < s
    BY <2>1
  <2> QED BY <2>2 DEF s
<1>5. CASE j \in 1..Len(Msg.heads)
  <2>1. Parts(Msg, cur.of)[1 + j] = Part(Msg.heads[j], cur.of)
    BY <1>1, <1>5, PartsAre
  <2>3. 1 + j = j + 1
    BY <1>4
  <2>2. Msg.heads[j] \in Heads
    BY <1>2, <1>5
  <2> QED BY <1>2, <1>3, <1>4, <1>5, <2>1, <2>2, <2>3 DEF Part
<1>6. CASE j = Len(Msg.heads) + 1
  <2>1. Parts(Msg, cur.of)[HeadSize(Msg)] = Part("blank", cur.of)
    BY <1>1, PartsAre
  <2>2. HeadSize(Msg) = j + 1
    BY <1>2, <1>3, <1>6
  <2> QED BY <1>2, <1>3, <1>4, <1>6, <2>1, <2>2 DEF Part
<1> QED BY <1>2, <1>5, <1>6

\* A part that was cut short is no header and no blank line.
LEMMA CutPart ==
  ASSUME Cut(cur.of, pos + 1)
  PROVE  Here.what = "cut" /\ eof /\ pos + 1 = Len(wire)
BY DEF Cut, Here, Part

\* Each header is read after the one before it, and the blank line after the last.
LEMMA HeaderOn ==
  ASSUME Typed, Followed, Honest(Msg), Header
  PROVE  Onward
<1>1. pc = "headers" /\ pc \in Following /\ cur \in Locals
  BY DEF Header, Following, Typed, Fits
<1> DEFINE f == [Status(400) EXCEPT !.late = Has("close")]
<1>2. f.of = cur.of
  <2>1. 400 \in Statuses
    BY DEF Statuses
  <2>2. Status(400) \in Locals /\ Status(400).of = cur.of
    BY <1>1, <2>1, StatusKin DEF Kin
  <2> QED BY <2>2 DEF Locals
<1> HIDE DEF f
<1>3. CASE Dry("error", f)
  BY <1>1, <1>2, <1>3, DryOn DEF Following
<1>4. CASE ~Dry("error", f)
  <2>1. pos < Len(wire)
    BY <1>4, CompleteIs DEF Header, Ahead, Read, Typed, f
  <2>2. PICK j \in Nat : At(j)
    BY <1>1, <2>1 DEF Followed, Broken
  <2>3. /\ j \in 1 .. Len(Msg.heads) + 1 /\ cur.body = << >>
        /\ cur.heads = {Msg.heads[i] : i \in 1 .. j - 1}
    BY <1>1, <2>2 DEF At, Where
  <2>4. /\ j < Size(cur.of) /\ Len(Msg.heads) \in Nat /\ HeadSize(Msg) = Len(Msg.heads) + 2
        /\ HeadsOf(Msg) = {Msg.heads[i] : i \in 1..Len(Msg.heads)}
    BY <1>1, <2>3, HeadPart DEF HeadsOf
  <2> DEFINE w == Parts(Msg, cur.of)[j + 1].what
  <2>5. \/ j \in 1..Len(Msg.heads) /\ w = Msg.heads[j] /\ w \in Heads
        \/ j = Len(Msg.heads) + 1 /\ w = "blank"
    BY <1>1, <2>3, HeadPart
  <2>6. Here = Parts(Msg, cur.of)[j + 1] => Here.what = w
    OBVIOUS
  <2> HIDE DEF w
  <2>7. CASE Ahead({"oversized"}) /\ Read("error", f)
    <3>1. Here = Parts(Msg, cur.of)[j + 1] => "oversized" \in HeadsOf(Msg)
      BY <2>4, <2>5, <2>6, <2>7 DEF Ahead
    <3>2. Here = Parts(Msg, cur.of)[j + 1] => ~ReadInFull(Msg)
      BY <3>1 DEF ReadInFull
    <3>3. "error" \notin Following
      BY DEF Following
    <3> QED BY <1>1, <1>2, <2>2, <2>4, <2>7, <3>2, <3>3, ReadOn
  <2>8. CASE Ahead({"blank"}) /\ Read("checks", cur)
    <3>1. ~Cut(cur.of, pos + 1)
      BY <2>8, CutPart DEF Ahead
    <3>2. Here = Parts(Msg, cur.of)[j + 1] => Where("checks", cur, Msg, j + 1)
      <4>1. Here = Parts(Msg, cur.of)[j + 1] => j = Len(Msg.heads) + 1
        BY <2>5, <2>6, <2>8 DEF Ahead, Heads
      <4>2. j = Len(Msg.heads) + 1 => cur.heads = HeadsOf(Msg) /\ j + 1 = HeadSize(Msg)
        BY <2>3, <2>4
      <4> QED BY <2>3, <4>1, <4>2 DEF Where
    <3> QED BY <1>1, <2>2, <2>4, <2>8, <3>1, <3>2, ReadOn DEF Following
  <2>9. CASE ~Ahead({"oversized", "blank"}) /\ Read("headers", Add(Here.what))
    <3> DEFINE c == Add(Here.what)
    <3>1. c.of = cur.of /\ c.heads = cur.heads \cup {Here.what} /\ c.body = cur.body
      BY <1>1 DEF Locals, Add
    <3> HIDE DEF c
    <3>2. Here = Parts(Msg, cur.of)[j + 1] => Where("headers", c, Msg, j + 1)
      <4>1. Here = Parts(Msg, cur.of)[j + 1] => j \in 1..Len(Msg.heads) /\ Here.what = Msg.heads[j]
        BY <2>1, <2>5, <2>6, <2>9 DEF Ahead
      <4>2. j \in 1..Len(Msg.heads) =>
              /\ j + 1 \in 1 .. Len(Msg.heads) + 1 /\ (j + 1) - 1 = j
              /\ 1..j = (1 .. j - 1) \cup {j}
        BY <2>4
      <4>3. j \in 1..Len(Msg.heads) =>
              {Msg.heads[i] : i \in 1..j} = cur.heads \cup {Msg.heads[j]}
        BY <2>3, <4>2
      <4> QED BY <2>3, <3>1, <4>1, <4>2, <4>3 DEF Where
    <3>3. "headers" \in Reading /\ "headers" \in Following
      BY DEF Reading, Following
    <3> QED BY <1>1, <2>2, <2>4, <2>9, <3>1, <3>2, <3>3, ReadOn DEF c
  <2> QED BY <1>4, <2>7, <2>8, <2>9 DEF Header, f
<1> QED BY <1>3, <1>4

\* The headers of a line that is too long are skimmed to the blank line.
LEMMA SkimOn ==
  ASSUME Typed, Followed, Honest(Msg), Skim
  PROVE  Onward
<1>1. pc = "skim" /\ pc \in Following
  BY DEF Skim, Following
<1>2. CASE Dry("error", cur)
  BY <1>1, <1>2, DryOn DEF Following
<1>3. CASE ~Dry("error", cur)
  <2>1. pos < Len(wire)
    BY <1>3, CompleteIs DEF Skim, Read, Typed
  <2>2. PICK j \in Nat : At(j)
    BY <1>1, <2>1 DEF Followed, Broken
  <2>3. j \in 1 .. Len(Msg.heads) + 1 /\ Msg.line = "long"
    BY <1>1, <2>2 DEF At, Where
  <2>4. /\ j < Size(cur.of) /\ Len(Msg.heads) \in Nat /\ HeadSize(Msg) = Len(Msg.heads) + 2
        /\ HeadsOf(Msg) = {Msg.heads[i] : i \in 1..Len(Msg.heads)}
    BY <1>1, <2>3, HeadPart DEF HeadsOf
  <2> DEFINE w == Parts(Msg, cur.of)[j + 1].what
  <2>5. \/ j \in 1..Len(Msg.heads) /\ w = Msg.heads[j] /\ w \in Heads
        \/ j = Len(Msg.heads) + 1 /\ w = "blank"
    BY <1>1, <2>3, HeadPart
  <2>6. Here = Parts(Msg, cur.of)[j + 1] => Here.what = w
    OBVIOUS
  <2> HIDE DEF w
  <2>7. CASE Ahead({"oversized", "blank"}) /\ Read("error", cur)
    <3>1. ASSUME Here = Parts(Msg, cur.of)[j + 1], ReadInFull(Msg) PROVE j + 1 = Size(cur.of)
      <4>1. j = Len(Msg.heads) + 1
        <5>1. j \in 1..Len(Msg.heads) => "oversized" \in HeadsOf(Msg)
          BY <2>4, <2>5, <2>6, <2>7, <3>1 DEF Ahead, Heads
        <5> QED BY <2>5, <3>1, <5>1 DEF ReadInFull
      <4>2. Msg.content = << >>
        BY <2>3, <3>1 DEF ReadInFull
      <4>3. Len(Msg.content) = 0 /\ Size(cur.of) = HeadSize(Msg) + Len(Msg.content)
        BY <1>1, <4>2, WhichMessage
      <4> QED BY <2>4, <4>1, <4>3
    <3>2. "error" \notin Following
      BY DEF Following
    <3> QED BY <1>1, <2>2, <2>4, <2>7, <3>1, <3>2, ReadOn
  <2>8. CASE ~Ahead({"oversized", "blank"}) /\ Read("skim", cur)
    <3>1. Here = Parts(Msg, cur.of)[j + 1] => Where("skim", cur, Msg, j + 1)
      <4>1. Here = Parts(Msg, cur.of)[j + 1] => j \in 1..Len(Msg.heads)
        BY <2>1, <2>5, <2>6, <2>8 DEF Ahead
      <4>2. j \in 1..Len(Msg.heads) => j + 1 \in 1 .. Len(Msg.heads) + 1
        BY <2>4
      <4> QED BY <2>3, <4>1, <4>2 DEF Where
    <3>2. "skim" \in Reading /\ "skim" \in Following
      BY DEF Reading, Following
    <3> QED BY <1>1, <2>2, <2>4, <2>8, <3>1, <3>2, ReadOn
  <2> QED BY <1>3, <2>7, <2>8 DEF Skim
<1> QED BY <1>2, <1>3

\* A step between head and content: where the worker stands then.
LEMMA HeadRead ==
  ASSUME Typed, Followed, Honest(Msg), pc \in {"checks", "expect", "route", "content"}
  PROVE  /\ pc \in Following /\ cur \in Locals
         /\ At(HeadSize(Msg)) /\ HeadSize(Msg) \in Nat
         /\ cur.heads = HeadsOf(Msg) /\ cur.body = << >>
         /\ pc = "expect" => "expect" \in cur.heads
         /\ Msg.content = << >> => HeadSize(Msg) = Size(cur.of)
<1>1. pc \in Following /\ pc \notin Reading
  BY DEF Following, Reading
<1>2. PICK j \in Nat : At(j)
  BY <1>1 DEF Followed, Broken
<1>3. j = HeadSize(Msg) /\ cur.heads = HeadsOf(Msg) /\ cur.body = << >>
      /\ (pc = "expect" => "expect" \in cur.heads)
  BY <1>2 DEF At, Where
<1>4. Size(cur.of) = HeadSize(Msg) + Len(Msg.content) /\ cur \in Locals
  BY <1>1, WhichMessage
<1>5. Msg.content = << >> => Len(Msg.content) = 0
  OBVIOUS
<1> QED BY <1>1, <1>2, <1>3, <1>4, <1>5

\* The checks leave the worker there, or refuse a message that is not read in full.
LEMMA ChecksOn ==
  ASSUME Typed, Followed, Honest(Msg), Checks
  PROVE  Onward
<1> DEFINE c == [cur EXCEPT !.close = Closing]
           d == [c EXCEPT !.status = 416]
           j == HeadSize(Msg)
<1>1. pc = "checks"
  BY DEF Checks
<1>2. /\ pc \in Following /\ cur \in Locals /\ At(j) /\ j \in Nat
      /\ cur.heads = HeadsOf(Msg) /\ cur.body = << >>
  BY <1>1, HeadRead
<1>3. c.of = cur.of /\ c.heads = cur.heads /\ c.body = cur.body /\ d.of = cur.of
  BY <1>2 DEF Locals
<1>4. \/ Has("badrange") /\ Go("error", d)
      \/ Has("expect") /\ Go("expect", c)
      \/ Go("route", c)
  BY DEF Checks
<1> HIDE DEF d, c
<1>5. CASE Has("badrange") /\ Go("error", d)
  <2>1. ~ReadInFull(Msg) /\ "error" \notin Following
    BY <1>2, <1>5 DEF Has, ReadInFull, Following
  <2> QED BY <1>2, <1>3, <1>5, <2>1, GoOn
<1>6. Where("route", c, Msg, j) /\ (Has("expect") => Where("expect", c, Msg, j))
  BY <1>2, <1>3 DEF Where, Has
<1>7. "route" \in Following /\ "expect" \in Following
  BY DEF Following
<1> HIDE DEF j
<1> QED BY <1>2, <1>3, <1>4, <1>5, <1>6, <1>7, GoOn

\* So does an answer to Expect.
LEMMA ExpectOn ==
  ASSUME Typed, Followed, Honest(Msg), Expect
  PROVE  Onward
<1> DEFINE j == HeadSize(Msg)
<1>1. pc = "expect"
  BY DEF Expect
<1>2. /\ pc \in Following /\ cur \in Locals /\ At(j) /\ j \in Nat
      /\ cur.heads = HeadsOf(Msg) /\ cur.body = << >> /\ "expect" \in cur.heads
  BY <1>1, HeadRead
<1>5. \A s : LET c == Status(s) IN c.of = cur.of /\ c.heads = cur.heads /\ c.body = cur.body
  BY <1>2 DEF Locals, Status
<1>3. ASSUME NEW e \in ExpectAnswers, e.returned \notin {100, 417},
             Go("error", Status(e.status)) \/ Go("closed", cur)
      PROVE  Onward
  <2>1. ~ReadInFull(Msg) /\ "error" \notin Following /\ "closed" \notin Following
    BY <1>2, <1>3 DEF ReadInFull, Following
  <2> HIDE DEF j
  <2> QED BY <1>2, <1>3, <1>5, <2>1, GoOn
<1>4. ASSUME NEW s, pc' = "route", cur' = Status(s), UNCHANGED <<clientVars, streamVars>>
      PROVE  Onward
  <2> PICK c : c = Status(s)
    OBVIOUS
  <2>1. Held /\ pos' = pos /\ cur' = c /\ cur'.of = cur.of
    BY <1>4, <1>5 DEF Held, clientVars, streamVars
  <2>2. Where("route", c, Msg, j) /\ Placed(cur.of, pos - j) /\ pos \in Nat
    BY <1>2, <1>5, WhichMessage DEF Where, At
  <2> PICK i \in Nat : i = j
    BY <1>2
  <2>3. At(i)'
    <3>1. Placed(cur.of, pos - i) /\ pos' - i = pos - i /\ Where(pc', cur', Msg, i)
      BY <1>4, <2>1, <2>2
    <3> QED BY <2>1, <2>2, <3>1, AtKept
  <2>4. pc' \in Following
    BY <1>4 DEF Following
  <2> QED BY <2>1, <2>3, <2>4 DEF Onward
<1> QED BY <1>3, <1>4 DEF Expect

\* What is routed without its content being read has none, if it is read in full.
LEMMA RouteOn ==
  ASSUME Typed, Followed, Honest(Msg), Route
  PROVE  Onward
<1> DEFINE j == HeadSize(Msg)
           c == [cur EXCEPT !.content = "sized"]
           d == [cur EXCEPT !.reader = TRUE]
<1>1. pc = "route"
  BY DEF Route
<1>2. /\ pc \in Following /\ cur \in Locals /\ At(j) /\ j \in Nat
      /\ cur.heads = HeadsOf(Msg) /\ cur.body = << >>
      /\ Msg.content = << >> => j = Size(cur.of)
  BY <1>1, HeadRead
<1>3. c.of = cur.of /\ d.of = cur.of /\ d.heads = cur.heads /\ d.body = cur.body
  BY <1>2 DEF Locals
<1> HIDE DEF c, d
<1>4. Where("content", cur, Msg, j) /\ Where("content", d, Msg, j)
  BY <1>2, <1>3 DEF Where
<1>5. /\ "content" \in Following
      /\ "handler" \notin Following /\ "routed" \notin Following /\ "dispatch" \notin Following
  BY DEF Following
<1>6. \/ Go("content", cur)
      \/ Go("content", d)
      \/ /\ Go("handler", cur) \/ Go("routed", c) \/ Go("dispatch", cur)
         /\ Msg.route \in {"early", "reader"} \/ ~ExpectContent(Msg)
  <2> DEFINE bare == Msg.route \in {"early", "reader"} \/ ~ExpectContent(Msg)
  <2>1. \/ bare /\ Go("handler", cur)
        \/ IsFile(Msg) /\ Go("routed", c)
        \/ HasReader(Msg) /\ (Go("content", d) \/ Go("handler", cur))
        \/ ExpectContent(Msg) /\ Go("content", cur)
        \/ bare /\ Go("dispatch", cur)
    BY DEF Route, c, d
  <2>2. (IsFile(Msg) => bare) /\ (HasReader(Msg) => bare)
    BY DEF IsFile, HasReader, ExpectContent
  <2> QED BY <2>1, <2>2
<1>7. Msg.route \in {"early", "reader"} \/ ~ExpectContent(Msg) =>
        (ReadInFull(Msg) => j = Size(cur.of))
  BY <1>2 DEF ReadInFull
<1> HIDE DEF j
<1> QED BY <1>2, <1>3, <1>4, <1>5, <1>6, <1>7, GoOn

\* No data have been read before the content.
LEMMA NoDatas == \A k : Datas(k, 0) = << >>
BY DEF Datas

\* The content is read as the headers say, and then it is as they say; what is not read is
\* empty, if the message is read in full.
LEMMA ContentOn ==
  ASSUME Typed, Followed, Honest(Msg), Content
  PROVE  Onward
<1> DEFINE j == HeadSize(Msg)
           f == Framing(HeadsOf(Msg), Msg.method)
           c == [cur EXCEPT !.left = Length]
<1>1. pc = "content"
  BY DEF Content
<1>2. /\ pc \in Following /\ cur \in Locals /\ At(j) /\ j \in Nat
      /\ cur.heads = HeadsOf(Msg) /\ cur.body = << >>
      /\ Msg.content = << >> => j = Size(cur.of)
  BY <1>1, HeadRead
<1>3. /\ \A s : Status(s).of = cur.of
      /\ c.of = cur.of /\ c.heads = cur.heads /\ c.body = cur.body /\ c.left = Length
  BY <1>2 DEF Locals, Status
<1> HIDE DEF c
<1>4. ASSUME f \notin {"length", "chunked"}, NEW p \in {Got, NotGot, "rest"}, NEW e,
             e.of = cur.of, Go(p, e)
      PROVE  Onward
  <2>1. ReadInFull(Msg) => j = Size(cur.of)
    BY <1>2, <1>4 DEF ReadInFull
  <2>2. p \notin Following
    BY <1>4 DEF Got, NotGot, Following
  <2> HIDE DEF j
  <2> QED BY <1>2, <1>4, <2>1, <2>2, GoOn
<1>5. AsSent(HeadsOf(Msg), Msg) /\ j - HeadSize(Msg) = 0 /\ Datas(cur.of, 0) = << >>
      /\ Datas(c.of, 0) = << >>
  BY <1>2, NoDatas DEF AsSent
<1>6. ASSUME f = "chunked", Go("size", cur) PROVE Onward
  <2>1. Msg.content \in {OneChunk, TwoPieces}
    BY <1>6, HonestFraming
  <2>2. Station(Msg.content, "size", 0, 0)
    BY <2>1 DEF Station
  <2>3. Where("size", cur, Msg, j)
    <3>1. \E d \in 0..2 : Station(Msg.content, "size", j - HeadSize(Msg), d) /\ cur.body = Datas(cur.of, d)
      BY <1>2, <1>5, <2>2
    <3> QED BY <1>2, <1>5, <1>6, <3>1 DEF Where
  <2>4. "size" \in Following
    BY DEF Following
  <2> HIDE DEF j
  <2> QED BY <1>2, <1>6, <2>3, <2>4, GoOn
<1>7. ASSUME f = "length", NEW p \in {"data", "skip"}, Go(p, c) PROVE Onward
  <2>1. \/ Length = 1 /\ Msg.content = <<"data">>
        \/ Length = 2 /\ Msg.content = <<"data", "data">>
    BY <1>2, <1>7, HonestFraming DEF Length, Has
  <2>2. /\ Station(Msg.content, "data", 0, 0) /\ Length = Len(Msg.content) /\ Length > 0
        /\ Length = Total(Msg.content) - 0
    <3>1. CASE Length = 1 /\ Msg.content = <<"data">>
      BY <3>1 DEF Station, Total
    <3>2. CASE Length = 2 /\ Msg.content = <<"data", "data">>
      <4>1. Msg.content # << >> /\ Msg.content # <<"data">> /\ Msg.content # OneChunk
        BY <3>2 DEF OneChunk
      <4>2. Total(Msg.content) = 2
        BY <4>1 DEF Total
      <4> QED BY <3>2, <4>2 DEF Station
    <3> QED BY <2>1, <3>1, <3>2
  <2>3. Where("data", c, Msg, j)
    <3>1. \E d \in 0..2 : /\ Station(Msg.content, "data", j - HeadSize(Msg), d)
                          /\ c.body = Datas(c.of, d) /\ c.left = Total(Msg.content) - d
      BY <1>2, <1>3, <1>5, <2>2
    <3> QED BY <1>2, <1>3, <1>5, <1>7, <3>1 DEF Where
  <2>4. Where("skip", c, Msg, j)
    <3>1. j - HeadSize(Msg) \in 0 .. Len(Msg.content) - 1
          /\ c.left = Len(Msg.content) - (j - HeadSize(Msg))
      BY <1>3, <1>5, <2>1, <2>2
    <3> QED BY <1>2, <1>3, <1>7, <3>1 DEF Where
  <2>5. p \in Following
    BY DEF Following
  <2> HIDE DEF j
  <2> QED BY <1>2, <1>3, <1>7, <2>3, <2>4, <2>5, GoOn
<1>8. \/ f \notin {"length", "chunked"} /\ \E s : Go(NotGot, Status(s))
      \/ f \notin {"length", "chunked"} /\ (Go(Got, cur) \/ Go("rest", cur))
      \/ f = "chunked" /\ Go("size", cur)
      \/ f = "length" /\ \E p \in {"data", "skip"} : Go(p, c)
  BY <1>2 DEF Content, c
<1> QED BY <1>3, <1>4, <1>6, <1>7, <1>8

-----------------------------------------------------------------------------
(***************************************************************************)
(* The content of a message, which is given to the handler whole.          *)
(***************************************************************************)
Told ==
  pc' \in {"dispatch", "handler"} /\ ~cur'.reader =>
    cur'.body = Datas(cur.of, Total(Msg.content))

\* A part of the content follows the head.
LEMMA ContentPart ==
  ASSUME Typed, pc \in Following, NEW j \in Nat, NEW n \in Nat, n = j - HeadSize(Msg),
         n < Len(Msg.content)
  PROVE  /\ j < Size(cur.of) /\ (j + 1) - HeadSize(Msg) = n + 1
         /\ Parts(Msg, cur.of)[j + 1] = Part(Msg.content[n + 1], cur.of)
         /\ n + 1 = Len(Msg.content) => j + 1 = Size(cur.of)
<1> DEFINE h == HeadSize(Msg)
           x == Len(Msg.content)
           s == Size(cur.of)
<1>1. Msg \in Messages /\ cur.of \in Nat /\ s \in Nat /\ s = h + x
  BY WhichMessage
<1>2. h \in Nat /\ x \in Nat /\ \A i \in 1..x : Parts(Msg, cur.of)[h + i] = Part(Msg.content[i], cur.of)
  BY <1>1, PartsAre
<1>3. n = j - h /\ n < x
  OBVIOUS
<1> HIDE DEF h, x, s
<1>4. n + 1 \in 1..x /\ j + 1 = h + (n + 1) /\ j < s /\ (n + 1 = x => j + 1 = s)
      /\ (j + 1) - h = n + 1
  BY <1>1, <1>2, <1>3
<1>5. Parts(Msg, cur.of)[j + 1] = Part(Msg.content[n + 1], cur.of)
  <2> PICK i \in 1..x : i = n + 1
    BY <1>4
  <2>1. Parts(Msg, cur.of)[h + i] = Part(Msg.content[i], cur.of)
    BY <1>2
  <2> QED BY <1>4, <2>1
<1> QED BY <1>4, <1>5 DEF h, x, s

\* Where the worker stands in the content.
LEMMA InContent ==
  ASSUME Typed, pc \in {"data", "size", "crlf", "trailer"}, NEW j \in Nat, At(j)
  PROVE  /\ pc \in Following /\ cur \in Locals /\ pos \in Nat
         /\ Framing(HeadsOf(Msg), Msg.method) \in {"length", "chunked"} /\ AsSent(cur.heads, Msg)
         /\ \E n \in Nat, d \in 0..2 :
              /\ n = j - HeadSize(Msg) /\ Station(Msg.content, pc, n, d)
              /\ cur.body = Datas(cur.of, d)
              /\ pc = "data" => cur.left = Total(Msg.content) - d
<1>1. pc \in Following
  BY DEF Following
<1>2. /\ Framing(HeadsOf(Msg), Msg.method) \in {"length", "chunked"} /\ AsSent(cur.heads, Msg)
      /\ \E d \in 0..2 : /\ Station(Msg.content, pc, j - HeadSize(Msg), d)
                         /\ cur.body = Datas(cur.of, d)
                         /\ pc = "data" => cur.left = Total(Msg.content) - d
  BY DEF At, Where
<1>3. PICK d \in 0..2 : /\ Station(Msg.content, pc, j - HeadSize(Msg), d)
                        /\ cur.body = Datas(cur.of, d)
                        /\ pc = "data" => cur.left = Total(Msg.content) - d
  BY <1>2
<1>4. PICK n : n = j - HeadSize(Msg)
  OBVIOUS
<1>5. Station(Msg.content, pc, n, d)
  BY <1>3, <1>4
<1>6. n \in Nat
  BY <1>5 DEF Station
<1> QED BY <1>1, <1>2, <1>3, <1>4, <1>5, <1>6, WhichMessage

\* One more piece of data.
LEMMA MoreData ==
  ASSUME NEW d \in Nat, NEW k
  PROVE  Append(Datas(k, d), Part("data", k)) = Datas(k, d + 1)
<1>1. /\ DOMAIN Datas(k, d) = 1..d /\ DOMAIN Datas(k, d + 1) = 1 .. d + 1
      /\ \A i \in 1..d : Datas(k, d)[i] = Part("data", k)
      /\ \A i \in 1 .. d + 1 : Datas(k, d + 1)[i] = Part("data", k)
  BY DEF Datas
<1>2. Datas(k, d) \in Seq({Part("data", k)}) /\ Datas(k, d + 1) \in Seq({Part("data", k)})
  <2>1. \A v : \A e \in Nat : [i \in 1..e |-> v] \in Seq({v})
    OBVIOUS
  <2> QED BY <2>1 DEF Datas
<1>3. Len(Datas(k, d)) = d /\ Len(Datas(k, d + 1)) = d + 1
  BY <1>1, <1>2
<1> DEFINE t == Append(Datas(k, d), Part("data", k))
<1>4. t \in Seq({Part("data", k)}) /\ Len(t) = d + 1
      /\ \A i \in 1 .. d + 1 : t[i] = Part("data", k)
  BY <1>1, <1>2, <1>3
<1> HIDE DEF t
<1>5. t = Datas(k, d + 1)
  BY <1>1, <1>2, <1>3, <1>4
<1> QED BY <1>5 DEF t

\* What keeping, or skipping, a part leaves.
LEMMA KeptIs ==
  ASSUME cur \in Locals
  PROVE  /\ Kept.of = cur.of /\ Kept.heads = cur.heads /\ Kept.reader = cur.reader
         /\ Kept.left = cur.left - Piece /\ Kept.body = Append(cur.body, Here)
         /\ Skipped.of = cur.of /\ Skipped.heads = cur.heads /\ Skipped.left = cur.left - Piece
         /\ \A s : Status(s).of = cur.of /\ Status(s).reader = cur.reader
BY DEF Locals, Kept, Skipped, Status

\* A read that fails leaves no handler with content, unless it reads by itself.
LEMMA NotGotOn ==
  ASSUME Typed, pc \in Following, NEW c, c.of = cur.of, c.reader = cur.reader
  PROVE  /\ NotGot \notin Following /\ Got \notin Following
         /\ Dry(NotGot, c) => Onward /\ Told
         /\ Read(NotGot, c) => Told
<1>1. NotGot \notin Following /\ Got \notin Following
  BY DEF NotGot, Got, Following
<1>2. ASSUME pc' = NotGot, cur' = c PROVE Told
  BY <1>2 DEF Told, NotGot
<1>3. Dry(NotGot, c) => Onward
  BY <1>1, DryOn
<1> QED BY <1>1, <1>2, <1>3 DEF Dry, Read

\* Each piece of data is the next one of the content, and after the last one of it or of a
\* chunk the worker goes on.
LEMMA DataOn ==
  ASSUME Typed, Followed, Honest(Msg), Data
  PROVE  Onward /\ Told
<1> DEFINE p == IF Kept.left > 0 THEN "data" ELSE IF Has("chunked") THEN "crlf" ELSE Got
<1>1. pc = "data" /\ pc \in Following /\ cur \in Locals /\ cur.left > 0
  BY DEF Data, Following, Typed, Fits
<1>2. CASE Dry(NotGot, Status(400))
  BY <1>1, <1>2, KeptIs, NotGotOn
<1>3. CASE Read(p, Kept)
  <2>1. pos < Len(wire)
    BY <1>3, CompleteIs DEF Read, Typed
  <2>2. PICK j \in Nat : At(j)
    BY <1>1, <2>1 DEF Followed, Broken
  <2> DEFINE x == Msg.content
  <2>3. PICK n \in Nat, d \in 0..2 :
          /\ n = j - HeadSize(Msg) /\ Station(x, "data", n, d)
          /\ cur.body = Datas(cur.of, d) /\ cur.left = Total(x) - d
    BY <1>1, <2>2, InContent
  <2>4. /\ Framing(HeadsOf(Msg), Msg.method) \in {"length", "chunked"} /\ AsSent(cur.heads, Msg)
    BY <1>1, <2>2, InContent
  <2>5. /\ n < Len(x) /\ x[n + 1] = "data" /\ d < Total(x)
        /\ d + 1 < Total(x) => Station(x, "data", n + 1, d + 1)
        /\ d + 1 = Total(x) => \/ x \in {OneChunk, TwoPieces} /\ Station(x, "crlf", n + 1, d + 1)
                               \/ x \in {<<"data">>, <<"data", "data">>} /\ n + 1 = Len(x)
    BY <2>3, StationNext
  <2>6. /\ j < Size(cur.of) /\ (j + 1) - HeadSize(Msg) = n + 1
        /\ Parts(Msg, cur.of)[j + 1] = Part("data", cur.of)
        /\ n + 1 = Len(x) => j + 1 = Size(cur.of)
    BY <1>1, <2>3, <2>5, ContentPart
  <2>7. Total(x) \in 0..2 /\ d \in Nat /\ d + 1 \in Nat
    BY DEF Total
  <2>8. Kept.of = cur.of /\ Kept.heads = cur.heads /\ Kept.left = cur.left - Piece
        /\ Kept.body = Append(cur.body, Here)
    BY <1>1, KeptIs
  <2>9. ASSUME Here = Parts(Msg, cur.of)[j + 1]
        PROVE  /\ Kept.left = Total(x) - (d + 1) /\ Kept.body = Datas(Kept.of, d + 1)
    <3>1. Here = Part("data", cur.of) /\ Piece = 1
      BY <2>6, <2>9 DEF Piece, Part
    <3>2. Kept.body = Datas(cur.of, d + 1)
      BY <2>3, <2>7, <2>8, <3>1, MoreData
    <3> QED BY <2>3, <2>7, <2>8, <3>1, <3>2
  <2>10. ASSUME Cut(cur.of, pos + 1) PROVE p = "data"
    <3>1. Piece = 0 /\ cur.left \in 0..2
      BY <1>1, <2>10, CutPart DEF Piece, Locals
    <3> QED BY <1>1, <2>8, <3>1
  <2>11. ASSUME Here = Parts(Msg, cur.of)[j + 1], d + 1 < Total(x)
         PROVE  p = "data" /\ Where("data", Kept, Msg, j + 1)
    <3>1. Kept.left > 0 /\ d + 1 \in 0..2
      BY <2>7, <2>9, <2>11
    <3>2. \E e \in 0..2 : /\ Station(x, "data", (j + 1) - HeadSize(Msg), e)
                          /\ Kept.body = Datas(Kept.of, e) /\ Kept.left = Total(x) - e
      BY <2>5, <2>6, <2>9, <2>11, <3>1
    <3> QED BY <2>4, <2>8, <3>1, <3>2 DEF Where
  <2>12. ASSUME Here = Parts(Msg, cur.of)[j + 1], ~(d + 1 < Total(x))
         PROVE  /\ ~(Kept.left > 0) /\ Kept.body = Datas(cur.of, Total(x))
                /\ \/ p = "crlf" /\ Where("crlf", Kept, Msg, j + 1)
                   \/ p = Got /\ j + 1 = Size(cur.of)
    <3>1. d + 1 = Total(x) /\ ~(Kept.left > 0) /\ d + 1 \in 0..2 /\ Kept.body = Datas(cur.of, Total(x))
      BY <2>5, <2>7, <2>8, <2>9, <2>12
    <3>2. Has("chunked") <=> "chunked" \in HeadsOf(Msg)
      BY <2>4, PlainFraming DEF Has
    <3>3. CASE x \in {OneChunk, TwoPieces} /\ Station(x, "crlf", n + 1, d + 1)
      <4>1. Has("chunked")
        <5>1. OneChunk # <<"data">> /\ OneChunk # <<"data", "data">>
              /\ TwoPieces # <<"data">> /\ TwoPieces # <<"data", "data">>
          BY DEF OneChunk, TwoPieces
        <5> QED BY <2>4, <3>2, <3>3, <5>1, HonestFraming
      <4>2. \E e \in 0..2 : /\ Station(x, "crlf", (j + 1) - HeadSize(Msg), e)
                            /\ Kept.body = Datas(Kept.of, e)
        BY <2>6, <2>9, <2>12, <3>1, <3>3
      <4> QED BY <2>4, <2>8, <3>1, <4>1, <4>2 DEF Where
    <3>4. CASE x \in {<<"data">>, <<"data", "data">>} /\ n + 1 = Len(x)
      <4>1. ~Has("chunked")
        <5>1. OneChunk # <<"data">> /\ OneChunk # <<"data", "data">>
              /\ TwoPieces # <<"data">> /\ TwoPieces # <<"data", "data">>
          BY DEF OneChunk, TwoPieces
        <5> QED BY <2>4, <3>2, <3>4, <5>1, HonestFraming
      <4> QED BY <2>6, <3>1, <3>4, <4>1
    <3> QED BY <2>5, <3>1, <3>3, <3>4
  <2>13. Here = Parts(Msg, cur.of)[j + 1] \/ Cut(cur.of, pos + 1)
    BY <1>1, <2>1, <2>2, <2>6, NextPart DEF At
  <2>14. Got \notin Following /\ "data" \in Following /\ "data" \in Reading
         /\ "crlf" \in Following /\ Got \in {"handler", "dispatch"}
    BY DEF Got, Following, Reading
  <2> HIDE DEF p, x
  <2>15. Onward
    BY <1>1, <1>3, <2>2, <2>6, <2>8, <2>10, <2>11, <2>12, <2>14, ReadOn
  <2>16. Told
    <3>1. pc' = p /\ cur' = Kept
      BY <1>3 DEF Read
    <3> QED BY <2>10, <2>11, <2>12, <2>13, <2>14, <3>1 DEF Told, x
  <2> QED BY <2>15, <2>16
<1> QED BY <1>2, <1>3 DEF Data

\* Content that is too large is skipped to its end.
LEMMA SkipOn ==
  ASSUME Typed, Followed, Honest(Msg), Skip
  PROVE  Onward /\ Told
<1> DEFINE p == IF Skipped.left > 0 THEN "skip" ELSE NotGot
           x == Msg.content
<1>1. pc = "skip" /\ pc \in Following /\ cur \in Locals /\ cur.left > 0
  BY DEF Skip, Following, Typed, Fits
<1>2. /\ NotGot \notin Following /\ "skip" \in Following /\ "skip" \in Reading
      /\ Skipped.of = cur.of /\ Skipped.heads = cur.heads /\ Skipped.left = cur.left - Piece
      /\ Status(413).of = cur.of /\ Status(413).reader = cur.reader
      /\ Skipped.reader = cur.reader
  BY <1>1, KeptIs DEF NotGot, Following, Reading, Locals, Skipped
<1>3. CASE Dry(NotGot, Status(413))
  BY <1>1, <1>2, <1>3, NotGotOn
<1>4. CASE Read(p, Skipped)
  <2>1. pos < Len(wire)
    BY <1>4, CompleteIs DEF Read, Typed
  <2>2. PICK j \in Nat : At(j)
    BY <1>1, <2>1 DEF Followed, Broken
  <2>3. /\ Framing(HeadsOf(Msg), Msg.method) = "length" /\ cur.heads = HeadsOf(Msg)
        /\ j - HeadSize(Msg) \in 0 .. Len(x) - 1 /\ cur.left = Len(x) - (j - HeadSize(Msg))
    BY <1>1, <2>2 DEF At, Where
  <2>4. PICK n : n = j - HeadSize(Msg)
    OBVIOUS
  <2>5. Len(x) \in Nat /\ Msg \in Messages /\ cur.of \in Nat /\ Size(cur.of) \in Nat
    BY <1>1, WhichMessage, PartsAre
  <2>6. n \in Nat /\ n < Len(x)
    BY <2>3, <2>4, <2>5
  <2>7. /\ j < Size(cur.of) /\ (j + 1) - HeadSize(Msg) = n + 1
        /\ Parts(Msg, cur.of)[j + 1] = Part(x[n + 1], cur.of)
        /\ n + 1 = Len(x) => j + 1 = Size(cur.of)
    BY <1>1, <2>4, <2>6, ContentPart
  <2>8. ASSUME Here = Parts(Msg, cur.of)[j + 1] PROVE Skipped.left = Len(x) - (n + 1)
    <3>1. x = <<"data">> \/ x = <<"data", "data">>
      BY <2>3, HonestFraming
    <3>2. x[n + 1] = "data"
      BY <2>6, <3>1
    <3>3. Piece = 1
      BY <2>7, <2>8, <3>2 DEF Piece, Part
    <3> QED BY <1>2, <2>3, <2>4, <2>5, <2>6, <3>3
  <2>9. ASSUME Here = Parts(Msg, cur.of)[j + 1], Skipped.left > 0
        PROVE  Where("skip", Skipped, Msg, j + 1)
    <3>1. n + 1 \in 0 .. Len(x) - 1
      BY <2>5, <2>6, <2>8, <2>9
    <3> QED BY <1>2, <2>3, <2>7, <2>8, <2>9, <3>1 DEF Where
  <2>10. ASSUME Here = Parts(Msg, cur.of)[j + 1], ~(Skipped.left > 0)
         PROVE  j + 1 = Size(cur.of)
    BY <2>5, <2>6, <2>7, <2>8, <2>10
  <2>11. (p = "skip" /\ Skipped.left > 0) \/ (p = NotGot /\ ~(Skipped.left > 0))
    OBVIOUS
  <2> HIDE DEF p, x
  <2>12. Onward
    BY <1>1, <1>2, <1>4, <2>2, <2>7, <2>9, <2>10, <2>11, ReadOn
  <2>13. Told
    BY <1>1, <1>2, <1>4, <2>11, NotGotOn DEF Told, Read
  <2> QED BY <2>12, <2>13
<1> QED BY <1>3, <1>4 DEF Skip

\* A chunk's size and the blank line after its data lead on,
LEMMA ChunkOn ==
  ASSUME Typed, Followed, Honest(Msg), Chunk, pc \in {"size", "crlf"}
  PROVE  Onward /\ Told
<1> DEFINE x == Msg.content
           S(k) == [cur EXCEPT !.left = k]
<1>1. pc \in Following /\ cur \in Locals
  BY DEF Following, Typed, Fits
<1>2. /\ NotGot \notin Following
      /\ Status(400).of = cur.of /\ Status(400).reader = cur.reader
  BY <1>1, KeptIs DEF NotGot, Following
<1>3. CASE Dry(NotGot, Status(400))
  BY <1>1, <1>2, <1>3, NotGotOn
<1>4. CASE ~Dry(NotGot, Status(400))
  <2>1. pos < Len(wire)
    BY <1>4, CompleteIs DEF Chunk, Read, Typed
  <2>2. PICK j \in Nat : At(j)
    BY <1>1, <2>1 DEF Followed, Broken
  <2>3. PICK n \in Nat, d \in 0..2 :
          /\ n = j - HeadSize(Msg) /\ Station(x, pc, n, d) /\ cur.body = Datas(cur.of, d)
    BY <2>2, InContent
  <2>4. /\ Framing(HeadsOf(Msg), Msg.method) \in {"length", "chunked"} /\ AsSent(cur.heads, Msg)
    BY <2>2, InContent
  <2>5. n < Len(x)
    BY <2>3, StationNext
  <2>6. /\ j < Size(cur.of) /\ (j + 1) - HeadSize(Msg) = n + 1
        /\ Here = Parts(Msg, cur.of)[j + 1] => Here.what = x[n + 1]
    <3>1. /\ j < Size(cur.of) /\ (j + 1) - HeadSize(Msg) = n + 1
          /\ Parts(Msg, cur.of)[j + 1] = Part(x[n + 1], cur.of)
      BY <1>1, <2>3, <2>5, ContentPart
    <3>2. \A w, k : Part(w, k).what = w
      BY DEF Part
    <3> QED BY <3>1, <3>2
  <2>7. Here = Parts(Msg, cur.of)[j + 1] \/ Cut(cur.of, pos + 1)
    BY <1>1, <2>1, <2>2, <2>6, NextPart DEF At
  <2>8. DOMAIN Sizes = {"size0", "size1", "size2"} /\ Sizes["size0"] = 0
        /\ Sizes["size1"] = 1 /\ Sizes["size2"] = 2
    BY DEF Sizes
  <2>9. ASSUME NEW p, NEW c, c.of = cur.of, c.heads = cur.heads, c.body = cur.body,
               p \in {"size", "data", "trailer"},
               Read(p, c), ~Cut(cur.of, pos + 1), Station(x, p, n + 1, d),
               p = "data" => c.left = Total(x) - d
        PROVE  Onward /\ Told
    <3>1. Where(p, c, Msg, j + 1)
      <4>1. \E e \in 0..2 : /\ Station(x, p, (j + 1) - HeadSize(Msg), e)
                            /\ c.body = Datas(c.of, e)
                            /\ p = "data" => c.left = Total(x) - e
        BY <2>3, <2>6, <2>9
      <4>2. p \notin {"headers", "skim", "checks", "expect", "route", "content", "skip"}
        BY <2>9
      <4> HIDE DEF x
      <4> QED BY <2>4, <2>9, <4>1, <4>2 DEF Where, x
    <3>2. p \in Following
      BY <2>9 DEF Following
    <3>3. Onward
      BY <1>1, <2>2, <2>6, <2>9, <3>1, <3>2, ReadOn
    <3>4. Told
      BY <2>9 DEF Read, Told
    <3> QED BY <3>3, <3>4
  <2>10. ASSUME Read(NotGot, Status(400)), Here # Parts(Msg, cur.of)[j + 1] PROVE Onward /\ Told
    <3>1. Onward
      BY <1>1, <1>2, <2>2, <2>6, <2>10, ReadOn
    <3> QED BY <1>1, <1>2, <2>10, <3>1, NotGotOn
  <2>11. CASE pc = "size"
    <3>1. /\ x[n + 1] \in DOMAIN Sizes
          /\ \/ x[n + 1] = "size0" /\ Station(x, "trailer", n + 1, d)
             \/ x[n + 1] = "size1" /\ Station(x, "data", n + 1, d) /\ Total(x) - d = 1
             \/ x[n + 1] = "size2" /\ Station(x, "data", n + 1, d) /\ Total(x) - d = 2
      BY <2>3, <2>8, <2>11, StationNext
    <3>2. CASE ~Ahead(DOMAIN Sizes) /\ Read(NotGot, Status(400))
      <4>1. Here # Parts(Msg, cur.of)[j + 1]
        BY <2>1, <2>6, <3>1, <3>2 DEF Ahead
      <4> QED BY <2>10, <3>2, <4>1
    <3>3. CASE /\ Ahead(DOMAIN Sizes)
               /\ Read(IF Sizes[Here.what] = 0 THEN "trailer" ELSE "data", S(Sizes[Here.what]))
      <4>1. ~Cut(cur.of, pos + 1)
        BY <2>8, <3>3, CutPart DEF Ahead
      <4>2. Here.what = x[n + 1]
        BY <2>6, <2>7, <4>1
      <4>3. \A k : S(k).of = cur.of /\ S(k).heads = cur.heads /\ S(k).body = cur.body
                   /\ S(k).left = k
        BY <1>1 DEF Locals
      <4> HIDE DEF S
      <4>4. CASE Here.what = "size0" /\ Station(x, "trailer", n + 1, d)
        <5>1. Read("trailer", S(0))
          BY <2>8, <3>3, <4>4
        <5> QED BY <2>9, <4>1, <4>3, <4>4, <5>1
      <4>5. CASE Here.what = "size1" /\ Station(x, "data", n + 1, d) /\ Total(x) - d = 1
        <5>1. Read("data", S(1))
          BY <2>8, <3>3, <4>5
        <5> QED BY <2>9, <4>1, <4>3, <4>5, <5>1
      <4>6. CASE Here.what = "size2" /\ Station(x, "data", n + 1, d) /\ Total(x) - d = 2
        <5>1. Read("data", S(2))
          BY <2>8, <3>3, <4>6
        <5> QED BY <2>9, <4>1, <4>3, <4>6, <5>1
      <4> QED BY <3>1, <4>2, <4>4, <4>5, <4>6
    <3> QED BY <1>4, <2>11, <3>2, <3>3 DEF Chunk
  <2>12. CASE pc = "crlf"
    <3>1. x[n + 1] = "blank" /\ Station(x, "size", n + 1, d)
      BY <2>3, <2>12, StationNext
    <3>2. CASE Ahead({"blank"}) /\ Read("size", cur)
      <4>1. ~Cut(cur.of, pos + 1)
        BY <3>2, CutPart DEF Ahead
      <4> QED BY <2>9, <3>1, <3>2, <4>1
    <3>3. CASE ~Ahead({"blank"}) /\ Read(NotGot, Status(400))
      <4>1. Here # Parts(Msg, cur.of)[j + 1]
        BY <2>1, <2>6, <3>1, <3>3 DEF Ahead
      <4> QED BY <2>10, <3>3, <4>1
    <3> QED BY <1>4, <2>12, <3>2, <3>3 DEF Chunk
  <2> QED BY <2>11, <2>12
<1> QED BY <1>3, <1>4

\* and the trailers end with a blank line, which ends the content.
LEMMA TrailerOn ==
  ASSUME Typed, Followed, Honest(Msg), Chunk, pc = "trailer"
  PROVE  Onward /\ Told
<1> DEFINE x == Msg.content
           c == [Add(Here.what) EXCEPT !.late = @ \/ (Here.what = "close" /\ ~Has("close"))]
<1>1. pc \in Following /\ cur \in Locals
  BY DEF Following, Typed, Fits
<1>2. /\ NotGot \notin Following /\ Got \notin Following
      /\ Status(400).of = cur.of /\ Status(400).reader = cur.reader
  BY <1>1, KeptIs DEF NotGot, Got, Following
<1>3. CASE Dry(NotGot, Status(400))
  BY <1>1, <1>2, <1>3, NotGotOn
<1>4. CASE ~Dry(NotGot, Status(400))
  <2>1. pos < Len(wire)
    BY <1>4, CompleteIs DEF Chunk, Read, Typed
  <2>2. PICK j \in Nat : At(j)
    BY <1>1, <2>1 DEF Followed, Broken
  <2>3. PICK n \in Nat, d \in 0..2 :
          /\ n = j - HeadSize(Msg) /\ Station(x, "trailer", n, d) /\ cur.body = Datas(cur.of, d)
    BY <2>2, InContent
  <2>4. /\ Framing(HeadsOf(Msg), Msg.method) \in {"length", "chunked"} /\ AsSent(cur.heads, Msg)
    BY <2>2, InContent
  <2>5. /\ n < Len(x) /\ d = Total(x)
        /\ \/ x[n + 1] = "blank" /\ n + 1 = Len(x)
           \/ x[n + 1] = "plain" /\ Station(x, "trailer", n + 1, d)
    BY <2>3, StationNext
  <2>6. /\ j < Size(cur.of) /\ (j + 1) - HeadSize(Msg) = n + 1
        /\ n + 1 = Len(x) => j + 1 = Size(cur.of)
        /\ Here = Parts(Msg, cur.of)[j + 1] => Here.what = x[n + 1]
    <3>1. /\ j < Size(cur.of) /\ (j + 1) - HeadSize(Msg) = n + 1
          /\ n + 1 = Len(x) => j + 1 = Size(cur.of)
          /\ Parts(Msg, cur.of)[j + 1] = Part(x[n + 1], cur.of)
      BY <1>1, <2>3, <2>5, ContentPart
    <3>2. \A w, k : Part(w, k).what = w
      BY DEF Part
    <3> QED BY <3>1, <3>2
  <2>7. Here = Parts(Msg, cur.of)[j + 1] \/ Cut(cur.of, pos + 1)
    BY <1>1, <2>1, <2>2, <2>6, NextPart DEF At
  <2>8. CASE Ahead({"oversized"}) /\ Read(NotGot, Status(400))
    <3>1. Here # Parts(Msg, cur.of)[j + 1]
      BY <2>5, <2>6, <2>8 DEF Ahead
    <3>2. Onward
      BY <1>1, <1>2, <2>2, <2>6, <2>8, <3>1, ReadOn
    <3> QED BY <1>1, <1>2, <2>8, <3>2, NotGotOn
  <2>9. CASE Ahead({"blank"}) /\ Read(Got, cur)
    <3>1. ~Cut(cur.of, pos + 1)
      BY <2>9, CutPart DEF Ahead
    <3>2. n + 1 = Len(x)
      BY <2>5, <2>6, <2>7, <2>9, <3>1 DEF Ahead
    <3>3. Onward
      BY <1>1, <1>2, <2>2, <2>6, <2>9, <3>2, ReadOn
    <3>4. Told
      BY <2>3, <2>5, <2>9 DEF Told, Read
    <3> QED BY <3>3, <3>4
  <2>10. CASE ~Ahead({"oversized", "blank"}) /\ Read("trailer", c)
    <3>1. c.of = cur.of /\ c.heads = cur.heads \cup {Here.what} /\ c.body = cur.body
      BY <1>1 DEF Locals, Add
    <3> HIDE DEF c
    <3>2. "trailer" \in Following /\ "trailer" \in Reading
      BY DEF Following, Reading
    <3>3. ASSUME Here = Parts(Msg, cur.of)[j + 1] PROVE Where("trailer", c, Msg, j + 1)
      <4>1. Here.what = "plain" /\ Station(x, "trailer", n + 1, d)
        BY <2>1, <2>5, <2>6, <2>10, <3>3 DEF Ahead
      <4>2. AsSent(c.heads, Msg)
        BY <2>4, <3>1, <4>1 DEF AsSent
      <4>3. \E e \in 0..2 : /\ Station(x, "trailer", (j + 1) - HeadSize(Msg), e)
                            /\ c.body = Datas(c.of, e)
        BY <2>3, <2>6, <3>1, <4>1
      <4> QED BY <2>4, <4>2, <4>3 DEF Where
    <3>4. Onward
      BY <1>1, <2>2, <2>6, <2>10, <3>1, <3>2, <3>3, ReadOn
    <3>5. Told
      BY <2>10 DEF Told, Read
    <3> QED BY <3>4, <3>5
  <2> QED BY <1>4, <2>8, <2>9, <2>10 DEF Chunk
<1> QED BY <1>3, <1>4

-----------------------------------------------------------------------------
(***************************************************************************)
(* What the client and the network do to where the messages are.           *)
(***************************************************************************)
\* The client has more to send only when nothing is pending; the new message begins where
\* the wire ends.
LEMMA PlacedSend ==
  ASSUME Typed, Send, NEW k \in 1..sent, NEW b, Placed(k, b)
  PROVE  Placed(k, b)'
<1>1. /\ ~eof /\ pending = << >> /\ sent' = sent + 1 /\ UNCHANGED <<script, wire, eof>>
  BY DEF Send
<1>2. k \in Nat /\ sent \in Nat /\ Size(k) \in Nat /\ Len(wire) \in Nat /\ Len(pending) = 0
      /\ k < sent' /\ k <= sent
  BY <1>1, ScriptType DEF Typed
<1>3. Size(k)' = Size(k)
  BY <1>1 DEF Size
<1>4. \A j \in 1..Size(k) : b + j <= Len(wire) => wire[b + j] = Parts(script[k], k)[j]
  BY <1>1 DEF Placed, Cut
<1>5. b \in 0..Len(wire) /\ b + Size(k) <= Len(wire)
  <2>1. CASE k < sent
    BY <2>1 DEF Placed
  <2>2. CASE k = sent
    BY <1>1, <1>2, <2>2 DEF Placed
  <2> QED BY <1>2, <2>1, <2>2 DEF Placed
<1>6. \A i \in 1..Len(wire) : wire[i].of = k => i - b \in 1..Size(k)
  BY DEF Placed
<1> QED BY <1>1, <1>2, <1>3, <1>4, <1>5, <1>6 DEF Placed

\* A message that is begun has its place at the end of the wire, and all of it is to come.
LEMMA PlacedNew ==
  ASSUME Typed, Send
  PROVE  /\ Placed(sent, Len(wire))' /\ Coming' /\ sent' = sent + 1
         /\ Len(wire)' \in Nat /\ Len(wire)' = Len(wire)
<1>1. /\ sent' = sent + 1 /\ UNCHANGED <<script, wire, eof>>
      /\ sent < Len(script) /\ pending' = Parts(script[sent'], sent')
  BY DEF Send
<1>2. /\ sent \in Nat /\ sent' \in Nat /\ sent' \in 1..Len(script) /\ script \in Seq(Messages)
      /\ Len(wire) \in Nat /\ \A i \in 1..Len(wire) : wire[i].of \in 1..sent
  BY <1>1, ConnectionAssumption DEF Typed
<1>3. script[sent'] \in Messages
  BY <1>2
<1>4. Size(sent)' = Len(pending') /\ Len(pending') \in Nat
  <2>1. pending' \in Seq(Pieces)
    BY <1>1, <1>2, <1>3, PartsType
  <2> QED BY <1>1, <2>1 DEF Size
<1>5. Placed(sent, Len(wire))'
  BY <1>1, <1>2, <1>4 DEF Placed
<1>6. Coming'
  BY <1>1, <1>4 DEF Coming
<1> QED BY <1>1, <1>2, <1>5, <1>6

\* What comes next on the wire is the next part of the last message, or a cut part of it.
LEMMA PlacedMore ==
  ASSUME Typed, Coming, NEW k \in 1..sent, NEW b, Placed(k, b),
         ~eof, pending # << >>, UNCHANGED <<script, sent>>, NEW w, wire' = Append(wire, w),
         \/ w = Head(pending) /\ pending' = Tail(pending) /\ eof' = eof
         \/ w = Part("cut", sent) /\ pending' = pending /\ eof' = TRUE
  PROVE  Placed(k, b)'
<1> DEFINE l == Len(wire)
           q == Len(pending)
<1>1. /\ k \in Nat /\ sent \in Nat /\ Size(k) \in Nat /\ l \in Nat /\ k <= sent
      /\ wire \in Seq(Pieces) /\ pending \in Seq(Pieces) /\ q \in Nat /\ q >= 1
      /\ sent \in 1..sent /\ Size(sent) \in Nat /\ script[sent] \in Messages
  <2>1. k \in Nat /\ sent \in Nat /\ Size(k) \in Nat
    BY ScriptType
  <2>2. sent \in 1..sent /\ k <= sent
    BY <2>1
  <2>3. Size(sent) \in Nat /\ script[sent] \in Messages
    BY <2>2, ScriptType
  <2>4. wire \in Seq(Pieces) /\ pending \in Seq(Pieces)
    BY DEF Typed
  <2>5. q \in Nat /\ q >= 1 /\ l \in Nat
    BY <2>4
  <2> QED BY <2>1, <2>2, <2>3, <2>4, <2>5
<1>2. Size(k)' = Size(k)
  BY DEF Size
<1>3. \A j \in 1..Size(k) : b + j <= l => wire[b + j] = Parts(script[k], k)[j]
  BY DEF Placed, Cut
<1>4. /\ b \in 0..l /\ (k < sent => b + Size(k) <= l) /\ (k = sent => b + Size(k) = l + q)
      /\ \A i \in 1..l : wire[i].of = k => i - b \in 1..Size(k)
  BY DEF Placed
<1>5. q <= Size(sent) /\ Head(pending) = Parts(script[sent], sent)[Size(sent) - q + 1]
  <2>1. 1 \in 1..q /\ Head(pending) = pending[1]
    BY <1>1
  <2> QED BY <1>1, <2>1 DEF Coming
<1>6. w.of = sent
  <2>1. Head(pending).of = sent
    <3>1. Size(sent) - q + 1 \in 1..Size(sent)
      BY <1>1, <1>5
    <3>2. PICK i \in 1..Size(sent) : i = Size(sent) - q + 1
      BY <3>1
    <3>3. Parts(script[sent], sent)[i].of = sent
      BY <1>1, <3>2, PartsType DEF Size
    <3> QED BY <1>5, <3>2, <3>3
  <2> QED BY <2>1 DEF Part
<1>7. /\ Len(wire') = l + 1 /\ wire'[l + 1] = w /\ \A i \in 1..l : wire'[i] = wire[i]
      /\ Len(pending') = q - 1 \/ (Len(pending') = q /\ eof')
  <2>1. Len(Tail(pending)) = q - 1 /\ Head(pending) \in Pieces
    BY <1>1
  <2>2. w \in Pieces
    <3>1. "cut" \in Words
      BY DEF Words
    <3>2. Part("cut", sent) \in Pieces
      BY <1>1, <3>1 DEF Part, Pieces
    <3> QED BY <2>1, <3>2
  <2>3. Len(wire') = l + 1 /\ wire'[l + 1] = w /\ \A i \in 1..l : wire'[i] = wire[i]
    <3>1. wire \in Seq(Pieces) /\ w \in Pieces /\ wire' = Append(wire, w)
      BY SMTT(30), <1>1, <2>2
    <3> QED BY <3>1
  <2>4. Len(pending') = q - 1 \/ (Len(pending') = q /\ eof')
    BY <2>1
  <2> QED BY <2>3, <2>4
<1> HIDE DEF l, q
<1>8. \A i \in 1 .. l + 1 : wire'[i].of = k => i - b \in 1..Size(k)
  <2> SUFFICES ASSUME NEW i \in 1 .. l + 1, wire'[i].of = k PROVE i - b \in 1..Size(k)
    OBVIOUS
  <2>1. CASE i \in 1..l
    BY <1>4, <1>7, <2>1
  <2>2. CASE i = l + 1
    <3>1. k = sent
      BY <1>6, <1>7, <2>2
    <3> QED BY <1>1, <1>4, <2>2, <3>1
  <2> QED BY <1>1, <2>1, <2>2
<1>9. \A j \in 1..Size(k) : b + j <= l + 1 =>
        wire'[b + j] = Parts(script[k], k)[j] \/ Cut(k, b + j)'
  <2> SUFFICES ASSUME NEW j \in 1..Size(k), b + j <= l + 1
               PROVE  wire'[b + j] = Parts(script[k], k)[j] \/ Cut(k, b + j)'
    OBVIOUS
  <2>1. CASE b + j <= l
    <3>1. b + j \in 1..l
      BY <1>1, <1>4, <2>1
    <3> QED BY <1>3, <1>7, <2>1, <3>1
  <2>2. CASE b + j = l + 1
    <3>1. k = sent /\ j = Size(sent) - q + 1
      BY <1>1, <1>4, <2>2
    <3>2. w = Head(pending) => w = Parts(script[k], k)[j]
      BY <1>5, <3>1
    <3>3. w = Part("cut", sent) /\ eof' = TRUE => Cut(k, b + j)'
      BY <1>7, <2>2, <3>1 DEF Cut
    <3> QED BY <1>7, <2>2, <3>2, <3>3
  <2>3. b + j \in Int /\ l + 1 \in Int
    BY <1>1, <1>4
  <2>4. \A x, y \in Int : x <= y + 1 => x <= y \/ x = y + 1
    OBVIOUS
  <2>5. l \in Int /\ b + j <= l + 1
    BY <1>1
  <2> QED BY <2>1, <2>2, <2>3, <2>4, <2>5
<1>10. /\ b \in 0 .. l + 1 /\ (k < sent => b + Size(k) <= l + 1)
       /\ k = sent => /\ l + 1 <= b + Size(k) /\ b + Size(k) <= (l + 1) + Len(pending')
                      /\ ~eof' => b + Size(k) = (l + 1) + Len(pending')
  BY SMTT(30), <1>1, <1>4, <1>7
<1> QED BY <1>2, <1>7, <1>8, <1>9, <1>10 DEF Placed

\* A close without a cut part changes nothing of it.
LEMMA PlacedEof ==
  ASSUME Typed, NEW k \in 1..sent, NEW b, Placed(k, b), ~eof, eof' = TRUE,
         UNCHANGED <<script, sent, pending, wire>>
  PROVE  Placed(k, b)'
<1>1. Size(k)' = Size(k) /\ Size(k) \in Nat /\ Len(wire) \in Nat /\ Len(pending) \in Nat
  BY ScriptType DEF Size, Typed
<1>2. \A j \in 1..Size(k) : b + j <= Len(wire) => wire[b + j] = Parts(script[k], k)[j]
  BY DEF Placed, Cut
<1> QED BY <1>1, <1>2 DEF Placed

\* Together: a message that has been begun stays where it is.
LEMMA PlacedOutside ==
  ASSUME Typed, Coming, Send \/ Arrive \/ Hangup \/ Stop, NEW k \in 1..sent, NEW b, Placed(k, b)
  PROVE  Placed(k, b)'
<1>1. CASE Arrive
  BY <1>1, PlacedMore DEF Arrive
<1>2. CASE Hangup
  BY <1>2, PlacedMore, PlacedEof DEF Hangup
<1>3. CASE Stop
  <2>1. Held
    BY <1>3 DEF Stop, Held, clientVars
  <2> QED BY <2>1, PlacedHeld
<1> QED BY <1>1, <1>2, <1>3, PlacedSend

-----------------------------------------------------------------------------
(***************************************************************************)
(* A handler is given whole content: the invariant, step by step.          *)
(***************************************************************************)
\* On a fresh connection nothing has been sent and nothing is followed.
LEMMA InitWhole == Init => WholeInv
<1> SUFFICES ASSUME Init PROVE WholeInv
  OBVIOUS
<1>1. sent = 0 /\ pc = "loop" /\ cur = NoRequest
  BY DEF Init
<1>2. EachPlaced /\ Coming
  BY <1>1 DEF EachPlaced, Coming
<1>3. Fresh /\ Followed /\ Given
  BY <1>1 DEF Fresh, Followed, Given, Following, NoRequest
<1> QED BY <1>2, <1>3 DEF WholeInv

\* A step that sends nothing leaves all messages where they are.
LEMMA PlacesHeld == ASSUME Held, EachPlaced, Coming PROVE EachPlaced' /\ Coming'
<1>1. sent' = sent
  BY DEF Held
<1>2. ASSUME NEW k \in 1..sent' PROVE \E b \in Nat : Placed(k, b)'
  <2>1. PICK b \in Nat : Placed(k, b)
    BY <1>1, <1>2 DEF EachPlaced
  <2> QED BY <2>1, PlacedHeld
<1>3. Coming'
  BY DEF Coming, Held, Size
<1> QED BY <1>2, <1>3 DEF EachPlaced

\* Client and network disturb no request that is being read.
LEMMA OutsideWhole ==
  ASSUME Typed, WholeInv, Send \/ Arrive \/ Hangup \/ Stop
  PROVE  WholeInv'
<1>1. pc' = pc /\ cur' = cur /\ pos' = pos /\ script' = script /\ Msg' = Msg
  BY DEF Send, Arrive, Hangup, Stop, streamVars, clientVars, Msg
<1>2. EachPlaced /\ Coming /\ Fresh /\ Followed /\ Given
  BY DEF WholeInv
<1>3. EachPlaced' /\ Coming'
  <2>1. CASE Send
    <3>1. /\ Placed(sent, Len(wire))' /\ Coming' /\ sent' = sent + 1 /\ sent \in Nat
          /\ Len(wire)' \in Nat
      BY <2>1, PlacedNew, ConnectionAssumption DEF Typed
    <3>2. ASSUME NEW k \in 1..sent' PROVE \E b \in Nat : Placed(k, b)'
      <4>1. CASE k \in 1..sent
        <5>1. PICK b \in Nat : Placed(k, b)
          BY <1>2, <4>1 DEF EachPlaced
        <5> QED BY <2>1, <4>1, <5>1, PlacedSend
      <4>2. CASE k = sent'
        <5>1. PICK b \in Nat : b = Len(wire)'
          BY <3>1
        <5>2. Placed(k, b)'
          BY <3>1, <4>2, <5>1
        <5> QED BY <5>2
      <4> QED BY <3>1, <3>2, <4>1, <4>2
    <3> QED BY <3>1, <3>2 DEF EachPlaced
  <2>2. CASE Arrive \/ Hangup \/ Stop
    <3>1. sent' = sent
      BY <2>2 DEF Arrive, Hangup, Stop, clientVars
    <3>2. ASSUME NEW k \in 1..sent' PROVE \E b \in Nat : Placed(k, b)'
      <4>1. PICK b \in Nat : Placed(k, b)
        BY <1>2, <3>1, <3>2 DEF EachPlaced
      <4> QED BY <1>2, <2>2, <3>1, <3>2, <4>1, PlacedOutside
    <3>3. Coming'
      <4>1. CASE Arrive
        <5>1. /\ pending \in Seq(Pieces) /\ pending # << >> /\ pending' = Tail(pending)
              /\ script' = script
          BY <4>1 DEF Arrive, Typed
        <5>2. Len(pending) \in Nat /\ Len(pending') = Len(pending) - 1
              /\ \A i \in 1 .. Len(pending) - 1 : pending'[i] = pending[i + 1]
          BY <5>1
        <5>3. ASSUME sent > 0 PROVE Size(sent) \in Nat
          <6>1. sent \in 1..sent
            BY <5>3, ConnectionAssumption DEF Typed
          <6> QED BY <6>1, ScriptType
        <5>4. ASSUME sent > 0, NEW i \in 1..Len(pending')
              PROVE  /\ i + 1 \in 1..Len(pending)
                     /\ Size(sent) - Len(pending') + i = Size(sent) - Len(pending) + (i + 1)
          BY <5>2, <5>3, <5>4
        <5>5. ASSUME sent > 0, NEW i \in 1..Len(pending')
              PROVE  pending'[i] = Parts(script[sent], sent)[Size(sent) - Len(pending') + i]
          <6>1. pending'[i] = pending[i + 1]
            BY <5>2, <5>5
          <6>2. pending[i + 1] = Parts(script[sent], sent)[Size(sent) - Len(pending) + (i + 1)]
            BY <1>2, <5>4, <5>5 DEF Coming
          <6> QED BY <5>4, <5>5, <6>1, <6>2
        <5>6. sent > 0 => Len(pending') <= Size(sent)
          BY <1>2, <5>2, <5>3 DEF Coming
        <5>7. Size(sent)' = Size(sent)
          BY <3>1, <5>1 DEF Size
        <5> QED BY <3>1, <5>1, <5>5, <5>6, <5>7 DEF Coming
      <4>2. CASE Hangup \/ Stop
        <5>1. UNCHANGED <<script, sent, pending>>
          BY <4>2 DEF Hangup, Stop, clientVars
        <5> QED BY <1>2, <5>1 DEF Coming, Size
      <4> QED BY <2>2, <4>1, <4>2
    <3> QED BY <3>2, <3>3 DEF EachPlaced
  <2> QED BY <2>1, <2>2
<1>4. Fresh' /\ Given'
  BY <1>1, <1>2 DEF Fresh, Given
<1>5. Followed'
  <2> SUFFICES ASSUME pc \in Following, Honest(Msg) PROVE (Broken \/ \E j \in Nat : At(j))'
    BY <1>1 DEF Followed
  <2>1. CASE Broken
    <3>1. Stop
      BY <2>1 DEF Broken, Send, Arrive, Hangup
    <3> QED BY <1>1, <2>1, <3>1 DEF Stop, clientVars, Broken
  <2>2. ASSUME NEW j \in Nat, At(j) PROVE At(j)'
    <3>1. PICK k : k = cur.of
      OBVIOUS
    <3>2. PICK b : b = pos - j
      OBVIOUS
    <3>3. Placed(k, b) /\ Where(pc, cur, Msg, j) /\ k \in 1..sent
      BY <2>2, <3>1, <3>2, WhichMessage DEF At
    <3>4. Placed(k, b)'
      BY <1>2, <3>3, PlacedOutside
    <3>5. Placed(cur.of, pos - j)'
      BY <1>1, <3>1, <3>2, <3>4
    <3>6. Where(pc, cur, Msg, j)'
      BY <1>1, <3>3
    <3> QED BY <3>5, <3>6 DEF At
  <2> QED BY <1>2, <2>1, <2>2 DEF Followed
<1> QED BY <1>3, <1>4, <1>5 DEF WholeInv

\* Between requests there is nothing to be followed, and the next one begins afresh.
LEMMA LoopWhole ==
  ASSUME Typed, WholeInv, Loop \/ Poll \/ GiveUp \/ Done
  PROVE  WholeInv'
<1>1. EachPlaced /\ Coming /\ Fresh /\ Followed /\ Given
  BY DEF WholeInv
<1>2. Held /\ script' = script
  BY DEF Loop, Poll, GiveUp, Done, Held, clientVars, streamVars
<1>3. /\ pc' \in {"loop", "poll", "line", "closed"}
      /\ (pc \in {"loop", "poll"} /\ cur' = cur) \/ cur' = NoRequest
  BY DEF Loop, Poll, GiveUp, Done, streamVars
<1>4. cur' = NoRequest
  BY <1>1, <1>3 DEF Fresh
<1>5. Fresh' /\ Followed' /\ Given'
  BY <1>3, <1>4 DEF Fresh, Followed, Given, Following, NoRequest
<1> QED BY <1>1, <1>2, <1>5, PlacesHeld DEF WholeInv

\* A request line is read only where a message begins, if the message is honest.
LEMMA LineFound ==
  ASSUME Typed, EachPlaced, pc = "line", pos < Len(wire), Here.what \in {"good", "long"},
         Honest(script[Here.of])
  PROVE  /\ Here.of \in 1..sent /\ Placed(Here.of, pos) /\ pos \in Nat
         /\ Here.what = script[Here.of].line
<1> PICK k : k = Here.of
  OBVIOUS
<1>1. k \in 1..sent /\ pos \in Nat /\ Len(wire) \in Nat /\ pos + 1 \in 1..Len(wire)
  BY HereType DEF Typed
<1>2. script[k] \in Messages /\ k \in Nat /\ Size(k) \in Nat
  BY <1>1, ScriptType
<1>3. PICK b \in Nat : Placed(k, b)
  BY <1>1 DEF EachPlaced
<1>4. PICK j : j = (pos + 1) - b
  OBVIOUS
<1>5. j \in 1..Size(k)
  BY <1>1, <1>3, <1>4 DEF Placed, Here
<1>6. b + j = pos + 1 /\ b + j <= Len(wire)
  BY <1>1, <1>4
<1>7. Here = Parts(script[k], k)[j] \/ Cut(k, pos + 1)
  BY <1>3, <1>5, <1>6 DEF Placed, Here
<1>8. Here = Parts(script[k], k)[j]
  <2>1. Cut(k, pos + 1) => Here.what = "cut"
    BY DEF Cut, Here, Part
  <2> QED BY <1>7, <2>1
<1>9. j \in 1..Len(Parts(script[k], k))
  BY <1>5 DEF Size
<1>10. j = 1
  BY <1>2, <1>8, <1>9, HonestParts
<1>11. b = pos
  BY <1>1, <1>4, <1>10
<1>12. Here = Part(script[k].line, k)
  BY <1>2, <1>8, <1>10, PartsAre
<1> QED BY <1>1, <1>3, <1>11, <1>12 DEF Part

\* What the worker knows after a request line.
LEMMA RequestLineWhole ==
  ASSUME Typed, WholeInv, RequestLine
  PROVE  WholeInv'
<1>1. EachPlaced /\ Coming /\ Fresh /\ Followed /\ Given /\ pc = "line" /\ cur = NoRequest
  BY DEF WholeInv, Fresh, RequestLine
<1>2. Held /\ script' = script
  BY DEF RequestLine, Read, Dry, Held, clientVars
<1>3. /\ cur'.heads = {} /\ cur'.body = << >> /\ cur'.reader = FALSE
      /\ pc' \in {"headers", "skim", "error", "failed"}
  <2>1. cur \in Locals /\ cur.heads = {} /\ cur.body = << >> /\ cur.reader = FALSE
    BY <1>1 DEF Typed, Fits, NoRequest
  <2>2. cur'.heads = cur.heads /\ cur'.body = cur.body /\ cur'.reader = cur.reader
    BY ZenonT(40), <2>1 DEF RequestLine, Read, Dry, Locals
  <2>3. pc' \in {"headers", "skim", "error", "failed"}
    BY DEF RequestLine, Read, Dry
  <2> QED BY <2>1, <2>2, <2>3
<1>4. EachPlaced' /\ Coming'
  BY <1>1, <1>2, PlacesHeld
<1>5. Fresh' /\ Given'
  BY <1>3 DEF Fresh, Given
<1>6. ASSUME pc' \in {"headers", "skim"}, Honest(Msg') PROVE At(1)'
  <2>1. /\ pos < Len(wire) /\ pos' = pos + 1 /\ cur'.of = Here.of
        /\ (pc' = "headers" /\ Here.what = "good") \/ (pc' = "skim" /\ Here.what = "long")
    BY <1>1, <1>6 DEF RequestLine, Read, Dry, Ahead, NoRequest
  <2>2. Msg' = script[Here.of]
    BY <1>2, <2>1 DEF Msg
  <2>3. /\ Here.of \in 1..sent /\ Placed(Here.of, pos) /\ pos \in Nat
        /\ Here.what = script[Here.of].line
    BY <1>1, <1>6, <2>1, <2>2, LineFound
  <2> PICK k : k = Here.of
    OBVIOUS
  <2> PICK b : b = pos
    OBVIOUS
  <2>4. Placed(k, b)'
    BY <1>2, <2>3, PlacedHeld
  <2>5. cur'.of = k /\ pos' - 1 = b
    BY <2>1, <2>3
  <2>6. Placed(cur.of, pos - 1)'
    BY <2>4, <2>5
  <2>7. Where(pc, cur, Msg, 1)'
    <3>1. Msg' \in Messages
      BY <2>2, <2>3, ScriptType
    <3>2. 1 \in 1 .. Len(Msg'.heads) + 1
      BY <3>1, PartsAre
    <3>3. {Msg'.heads[i] : i \in 1 .. 1 - 1} = {}
      OBVIOUS
    <3>4. pc' = "skim" => Msg'.line = "long"
      BY <2>1, <2>2, <2>3
    <3>5. Where(pc', cur', Msg', 1)
      BY <1>3, <1>6, <3>2, <3>3, <3>4 DEF Where
    <3> QED BY <3>5
  <2> QED BY <2>6, <2>7 DEF At
<1>7. Followed'
  <2>1. pc' \in Following => pc' \in {"headers", "skim"}
    BY <1>3 DEF Following
  <2> QED BY <1>6, <2>1 DEF Followed
<1> QED BY <1>4, <1>5, <1>7 DEF WholeInv

\* A request stays with its message, and only one whose handler reads by itself is given a
\* reader.
Stay(c) == c.of = cur.of /\ c.reader = cur.reader /\ (cur.status # 100 => c.status # 100)

Stays ==
  /\ Held /\ cur'.of = cur.of /\ pc' \notin {"loop", "poll", "line"}
  /\ cur'.reader = cur.reader \/ Msg.route = "reader"
  /\ cur.status # 100 => cur'.status # 100
  /\ apart => apart'
  /\ pos <= taken => pos' <= taken'

\* A read, a read that fails or a step without one stays, when the locals do.
LEMMA StayStep ==
  ASSUME Typed, NEW p, p \notin {"loop", "poll", "line"}, NEW c, Stay(c),
         Read(p, c) \/ Dry(p, c) \/ Go(p, c)
  PROVE  Stays
<1>1. Held /\ pc' = p /\ cur' = c
  BY DEF Read, Dry, Go, Held, clientVars
<1>4. apart => apart'
  <2>1. apart' = apart \/ apart' = (apart \/ pending # << >>)
    BY DEF Read, Dry, Go
  <2> QED BY <2>1, Zenon
<1>2. pos \in Nat /\ taken \in Nat /\ Len(wire) \in Nat /\ Complete \in Nat
  BY CompleteIs DEF Typed
<1>3. pos <= taken => pos' <= taken'
  BY <1>2 DEF Read, Dry, Go, streamVars
<1> QED BY <1>1, <1>3, <1>4 DEF Stay, Stays

\* The locals that the steps make stay with the message.
LEMMA StayFields ==
  ASSUME cur \in Locals
  PROVE  /\ Stay(cur) /\ Stay(Kept) /\ Stay(Skipped)
         /\ \A s : Stay(Add(s))
         /\ \A s : s # 100 => Stay(Status(s))
BY DEF Locals, Stay, Status, Add, Kept, Skipped

\* Reading a request stays with it.
LEMMA ReadingStays ==
  ASSUME Typed, Header \/ Skim \/ Data \/ Skip \/ Rest \/ Chunk
  PROVE  Stays
<1>1. cur \in Locals
  BY DEF Typed, Fits
<1>2. \A p \in {Got, NotGot, "error", "headers", "checks", "skim", "crlf", "data", "skip", "rest",
               "trailer", "size"} : p \notin {"loop", "poll", "line"}
  BY DEF Got, NotGot
<1>3. CASE Header
  <2>1. Stay([Status(400) EXCEPT !.late = Has("close")])
    BY <1>1 DEF Stay, Locals, Status
  <2> QED BY <1>1, <1>2, <1>3, <2>1, StayStep, StayFields DEF Header
<1>4. CASE Skim
  BY <1>1, <1>2, <1>4, StayStep, StayFields DEF Skim
<1>5. CASE Data
  <2>1. PICK p : p \in {Got, NotGot, "data", "crlf"}
                 /\ (Dry(p, Status(400)) \/ Read(p, Kept))
    BY <1>5 DEF Data
  <2> QED BY <1>1, <1>2, <2>1, StayStep, StayFields
<1>6. CASE Skip
  <2>1. PICK p : p \in {NotGot, "skip"} /\ (Dry(p, Status(413)) \/ Read(p, Skipped))
    BY <1>6 DEF Skip
  <2> QED BY <1>1, <1>2, <2>1, StayStep, StayFields
<1>7. CASE Rest
  <2>1. Stay([cur EXCEPT !.body = Append(@, Here)])
    BY <1>1 DEF Stay, Locals
  <2> QED BY <1>1, <1>2, <1>7, <2>1, StayStep, StayFields DEF Rest
<1>8. CASE Chunk
  <2> DEFINE t == [Add(Here.what) EXCEPT !.late = @ \/ (Here.what = "close" /\ ~Has("close"))]
  <2>1. \A n : Stay([cur EXCEPT !.left = n])
    BY <1>1 DEF Stay, Locals
  <2>2. Stay(t)
    BY <1>1 DEF Stay, Locals, Add
  <2>3. \/ \E p \in {Got, NotGot, "size"} :
              Dry(p, Status(400)) \/ Read(p, Status(400)) \/ Read(p, cur)
        \/ \E n : Read(IF n = 0 THEN "trailer" ELSE "data", [cur EXCEPT !.left = n])
        \/ Read("trailer", t)
    <3>1. \/ \E p \in {Got, NotGot, "size"} :
                Dry(p, Status(400)) \/ Read(p, Status(400)) \/ Read(p, cur)
          \/ Read(IF Sizes[Here.what] = 0 THEN "trailer" ELSE "data",
                  [cur EXCEPT !.left = Sizes[Here.what]])
          \/ Read("trailer", t)
      BY <1>8, Zenon DEF Chunk
    <3> QED BY <3>1, Zenon
  <2> HIDE DEF t
  <2>4. ASSUME NEW n, Read(IF n = 0 THEN "trailer" ELSE "data", [cur EXCEPT !.left = n])
        PROVE  Stays
    <3>1. PICK p \in {"trailer", "data"} : Read(p, [cur EXCEPT !.left = n])
      BY <2>4
    <3> QED BY <1>2, <2>1, <3>1, StayStep
  <2>5. ASSUME NEW p \in {Got, NotGot, "size"},
               Dry(p, Status(400)) \/ Read(p, Status(400)) \/ Read(p, cur)
        PROVE  Stays
    <3>1. Stay(cur) /\ Stay(Status(400))
      BY <1>1, StayFields
    <3> QED BY <1>2, <2>5, <3>1, StayStep
  <2>6. CASE Read("trailer", t)
    BY <1>2, <2>2, <2>6, StayStep
  <2> QED BY <2>3, <2>4, <2>5, <2>6
<1> QED BY <1>3, <1>4, <1>5, <1>6, <1>7, <1>8

\* So does routing it.
LEMMA RoutingStays ==
  ASSUME Typed, Checks \/ Content \/ Dispatch \/ Handler \/ Routed \/ Route
  PROVE  Stays
<1>1. cur \in Locals
  BY DEF Typed, Fits
<1>2. \A p \in {Got, NotGot, "error", "expect", "route", "size", "rest", "data", "skip", "handler",
               "routed", "reply", "content", "dispatch"} : p \notin {"loop", "poll", "line"}
  BY DEF Got, NotGot
<1>3. CASE Checks
  <2>1. /\ Stay([cur EXCEPT !.close = Closing])
        /\ Stay([[cur EXCEPT !.close = Closing] EXCEPT !.status = 416])
    BY <1>1 DEF Stay, Locals
  <2>2. \E p \in {"error", "expect", "route"} :
          \/ Go(p, [cur EXCEPT !.close = Closing])
          \/ Go(p, [[cur EXCEPT !.close = Closing] EXCEPT !.status = 416])
    BY <1>3 DEF Checks
  <2> QED BY <1>2, <2>1, <2>2, StayStep
<1>4. CASE Content
  <2>1. Stay([cur EXCEPT !.left = Length])
    BY <1>1 DEF Stay, Locals
  <2>2. \E p \in {Got, NotGot, "size", "rest", "data", "skip"} :
          \/ Go(p, cur) \/ Go(p, Status(400)) \/ Go(p, Status(415))
          \/ Go(p, [cur EXCEPT !.left = Length])
    BY <1>4 DEF Content
  <2> QED BY <1>1, <1>2, <2>1, <2>2, StayStep, StayFields
<1>5. CASE Dispatch
  <2>1. \/ Go("error", Status(400)) \/ Go("error", Status(404))
        \/ \E p \in {"handler", "error"} : Go(p, cur)
    BY <1>5 DEF Dispatch
  <2> QED BY <1>1, <1>2, <2>1, StayStep, StayFields
<1>6. CASE Handler
  <2>1. /\ Stay([cur EXCEPT !.content = Msg.answer])
        /\ Stay([[cur EXCEPT !.content = Msg.answer] EXCEPT !.status = 500])
    BY <1>1 DEF Stay, Locals
  <2>2. \/ Go("routed", [cur EXCEPT !.content = Msg.answer])
        \/ Go("error", [[cur EXCEPT !.content = Msg.answer] EXCEPT !.status = 500])
    BY <1>6 DEF Handler
  <2> QED BY <1>2, <2>1, <2>2, StayStep
<1>7. CASE Routed
  <2>1. /\ \A s : (cur.status # 100 => s # 100) => Stay([cur EXCEPT !.status = s])
        /\ Stay([cur EXCEPT !.content = "empty", !.status = 416])
    BY <1>1 DEF Stay, Locals
  <2>2. \/ \E s : (cur.status # 100 => s # 100) /\ Go("reply", [cur EXCEPT !.status = s])
        \/ Go("error", [cur EXCEPT !.content = "empty", !.status = 416])
    <3> DEFINE s == IF cur.status # 0 THEN cur.status
                    ELSE IF Has("range") \/ Has("outrange") THEN 206 ELSE 200
    <3>1. \/ Go("reply", [cur EXCEPT !.status = s])
          \/ Go("error", [cur EXCEPT !.content = "empty", !.status = 416])
      BY <1>7 DEF Routed
    <3>2. cur.status # 100 => s # 100
      OBVIOUS
    <3> HIDE DEF s
    <3> QED BY <3>1, <3>2
  <2> QED BY <1>2, <2>1, <2>2, StayStep
<1>8. CASE Route
  <2>1. Stay([cur EXCEPT !.content = "sized"])
    BY <1>1 DEF Stay, Locals
  <2>2. \/ \E p \in {"handler", "content", "dispatch"} : Go(p, cur)
        \/ Go("routed", [cur EXCEPT !.content = "sized"])
        \/ Msg.route = "reader" /\ Go("content", [cur EXCEPT !.reader = TRUE])
    BY <1>8 DEF Route, HasReader
  <2>3. CASE Msg.route = "reader" /\ Go("content", [cur EXCEPT !.reader = TRUE])
    <3>1. /\ [cur EXCEPT !.reader = TRUE].of = cur.of
          /\ [cur EXCEPT !.reader = TRUE].status = cur.status
      BY <1>1 DEF Locals
    <3>2. /\ Held /\ pc' = "content" /\ cur'.of = cur.of /\ cur'.status = cur.status
          /\ apart' = apart /\ pos' = pos /\ taken' = taken
      BY <2>3, <3>1 DEF Go, Held, clientVars, streamVars
    <3> QED BY <2>3, <3>2 DEF Stays
  <2> QED BY <1>1, <1>2, <2>1, <2>2, <2>3, StayStep, StayFields
<1> QED BY <1>3, <1>4, <1>5, <1>6, <1>7, <1>8

\* So does answering it.
LEMMA AnsweringStays ==
  ASSUME Typed, Expect \/ Reply \/ Body
  PROVE  Stays
<1>1. cur \in Locals
  BY DEF Typed, Fits
<1>2. \A n : Stay([cur EXCEPT !.left = n])
  BY <1>1 DEF Stay, Locals
<1>3. CASE Expect
  <2>1. /\ \A e \in ExpectAnswers : e.status # 100 /\ Stay(Status(e.status))
        /\ Stay(cur)
    BY <1>1, StayFields, ConnectionAssumption
  <2>2. \/ \E e \in ExpectAnswers : Go("error", Status(e.status))
        \/ Go("closed", cur)
        \/ \E e \in ExpectAnswers : /\ pc' = "route" /\ cur' = Status(e.status)
                                    /\ UNCHANGED <<clientVars, apart, streamVars>>
    BY <1>3 DEF Expect
  <2>3. ASSUME NEW e \in ExpectAnswers, pc' = "route", cur' = Status(e.status),
               UNCHANGED <<clientVars, apart, streamVars>>
        PROVE  Stays
    BY <2>1, <2>3 DEF Stays, Stay, Held, clientVars, streamVars
  <2> QED BY <2>1, <2>2, <2>3, StayStep
<1>4. CASE Reply
  <2>1. /\ pc' \in {"done", "body"} /\ UNCHANGED <<clientVars, apart, streamVars>>
        /\ \E n : cur' = [cur EXCEPT !.left = n]
    BY <1>4 DEF Reply
  <2> QED BY <1>2, <2>1 DEF Stays, Stay, Held, clientVars, streamVars
<1>5. CASE Body
  <2>1. \/ \E w : \E p \in {"done", "failed"} : Ends(p, w)
        \/ Go("body", [cur EXCEPT !.left = @ - 1])
    BY <1>5 DEF Body, Sized, Chunks, Endless
  <2>2. ASSUME NEW p \in {"done", "failed"}, NEW w, Ends(p, w) PROVE Stays
    BY <2>2 DEF Ends, Stays, Held, clientVars, streamVars
  <2>3. Stay([cur EXCEPT !.left = @ - 1])
    BY <1>1 DEF Stay, Locals
  <2> QED BY <2>1, <2>2, <2>3, StayStep
<1> QED BY <1>3, <1>4, <1>5

\* A request that is read has not been routed yet.
LEMMA FollowOn ==
  ASSUME Typed, Followed, Honest(Msg), pc \in Following, Process \/ Expect
  PROVE  Onward /\ (Data \/ Skip \/ Chunk => Told)
<1>1. Header \/ Skim \/ Checks \/ Expect \/ Route \/ Content \/ Data \/ Skip \/ Chunk
  BY DEF Process, Following, RequestLine, Rest, Dispatch, Handler, Routed
<1>2. Header \/ Skim \/ Checks \/ Expect \/ Route \/ Content => ~(Data \/ Skip \/ Chunk)
  BY DEF Header, Skim, Checks, Expect, Route, Content, Data, Skip, Chunk
<1>3. CASE Chunk
  <2>1. pc \in {"size", "crlf"} \/ pc = "trailer"
    BY <1>3 DEF Chunk
  <2> QED BY <1>3, <2>1, ChunkOn, TrailerOn
<1> QED BY <1>1, <1>2, <1>3, HeaderOn, SkimOn, ChecksOn, ExpectOn, RouteOn, ContentOn, DataOn,
           SkipOn

\* The content that a handler is called for has been read as its headers say.
LEMMA ContentGiven ==
  ASSUME Typed, Followed, Given, Stays, Process, ~RequestLine,
         pc' \in {"dispatch", "handler"}, Msg.route = "handler", ExpectContent(Msg), Honest(Msg),
         Framing(cur'.heads, Msg.method) \in {"length", "chunked"}
  PROVE  cur'.body = Datas(cur.of, Total(Msg.content))
<1>1. ~cur.reader /\ ~cur'.reader /\ cur \in Locals
  BY DEF Given, Stays, Typed, Fits, Locals
<1>2. Got = "dispatch" /\ NotGot = "error"
  BY <1>1 DEF Got, NotGot
<1>3. CASE Data \/ Skip \/ Chunk
  <2>1. pc \in Following
    BY <1>3 DEF Following, Data, Skip, Chunk
  <2> QED BY <1>1, <1>3, <2>1, FollowOn DEF Told
<1>4. CASE Header \/ Skim \/ Checks \/ Handler \/ Routed
  BY <1>4 DEF Header, Skim, Checks, Handler, Routed, Read, Dry, Go
<1>5. CASE Route
  <2>1. ~HasReader(Msg) /\ Msg.route # "early" /\ ~IsFile(Msg)
    BY DEF HasReader, IsFile
  <2>2. Go("content", cur)
    BY <1>5, <2>1 DEF Route
  <2> QED BY <2>2 DEF Go
<1>6. CASE Content
  <2>1. Framing(cur.heads, Msg.method) = "ignored" /\ cur' = cur
    BY <1>2, <1>6 DEF Content, Go
  <2> QED BY <2>1
<1>7. CASE Rest
  <2>1. Framing(cur.heads, Msg.method) = "rest" /\ cur'.heads = cur.heads
    BY <1>1, <1>7 DEF Rest, Given, Read, Dry, Locals
  <2> QED BY <2>1
<1>8. CASE Dispatch
  <2>1. pc = "dispatch" /\ pc' = "handler" /\ cur' = cur
    BY <1>8 DEF Dispatch, Go
  <2> QED BY <2>1 DEF Given
<1> QED BY <1>3, <1>4, <1>5, <1>6, <1>7, <1>8 DEF Process

\* A step of a request's processing keeps what is known of it.
LEMMA ProcessWhole ==
  ASSUME Typed, WholeInv, Process \/ Expect, ~RequestLine
  PROVE  WholeInv'
<1>1. EachPlaced /\ Coming /\ Fresh /\ Followed /\ Given
  BY DEF WholeInv
<1>2. Stays /\ Held
  BY ReadingStays, RoutingStays, AnsweringStays DEF Process, Stays
<1>3. cur'.of = cur.of /\ Msg' = Msg
  BY <1>2 DEF Stays, Held, Msg
<1>4. EachPlaced' /\ Coming' /\ Fresh'
  BY <1>1, <1>2, PlacesHeld DEF Stays, Fresh
<1>5. Followed'
  <2> SUFFICES ASSUME pc' \in Following, Honest(Msg) PROVE (Broken \/ \E j \in Nat : At(j))'
    BY <1>3 DEF Followed
  <2>1. pc \in Following
    BY DEF Process, Following, RequestLine, Header, Skim, Checks, Expect, Route, Content, Data, Skip, Rest,
       Chunk, Dispatch, Handler, Routed, Got, NotGot, Read, Dry, Go
  <2> QED BY <1>1, <2>1, FollowOn DEF Onward
<1>6. Given'
  <2>1. cur'.reader => Msg.route = "reader"
    BY <1>1, <1>2 DEF Given, Stays
  <2>2. pc' = "rest" => Framing(cur'.heads, Msg.method) = "rest"
    <3>1. pc' = "rest" => Content \/ Rest
      BY DEF Process, RequestLine, Header, Skim, Checks, Expect, Route, Data, Skip, Chunk, Dispatch,
         Handler, Routed, Got, NotGot, Read, Dry, Go
    <3>2. CASE Content
      BY <3>2 DEF Content, Go, Got, NotGot
    <3>3. CASE Rest
      <4>1. cur \in Locals
        BY DEF Typed, Fits
      <4>2. cur'.heads = cur.heads /\ pc = "rest"
        BY <3>3, <4>1 DEF Rest, Read, Dry, Locals
      <4> QED BY <1>1, <4>2 DEF Given
    <3> QED BY <3>1, <3>2, <3>3
  <2>3. /\ pc' \in {"dispatch", "handler"} /\ Msg.route = "handler" /\ ExpectContent(Msg) /\ Honest(Msg)
        /\ Framing(cur'.heads, Msg.method) \in {"length", "chunked"}
        => cur'.body = Datas(cur.of, Total(Msg.content))
    <3>1. pc' \in {"dispatch", "handler"} => Process
      BY DEF Expect, Go
    <3> QED BY <1>1, <1>2, <3>1, ContentGiven
  <2> QED BY <1>3, <2>1, <2>2, <2>3 DEF Given
<1> QED BY <1>4, <1>5, <1>6 DEF WholeInv

\* Nor does writing the response disturb anything.
LEMMA ReplyWhole ==
  ASSUME Typed, WholeInv, Reply \/ Body
  PROVE  WholeInv'
<1>1. EachPlaced /\ Coming /\ Given
  BY DEF WholeInv
<1>2. Stays /\ Held
  BY AnsweringStays DEF Stays
<1>3. cur'.of = cur.of /\ Msg' = Msg /\ (cur'.reader => Msg.route = "reader")
  BY <1>1, <1>2 DEF Stays, Held, Msg, Given
<1>4. pc' \in {"done", "body", "failed"}
  BY DEF Reply, Body, Sized, Chunks, Endless, Ends, Go
<1>5. Fresh' /\ Followed' /\ Given'
  BY <1>3, <1>4 DEF Fresh, Followed, Given, Following
<1> QED BY <1>1, <1>2, <1>5, PlacesHeld DEF WholeInv

\* Together: every step keeps the invariant.
LEMMA NextWhole == ASSUME Typed, WholeInv, [Next]_vars PROVE WholeInv'
<1>1. CASE UNCHANGED vars
  <2>1. Held /\ pc' = pc /\ cur' = cur /\ pos' = pos /\ Msg' = Msg
    BY <1>1 DEF vars, clientVars, streamVars, Held, Msg
  <2>2. EachPlaced' /\ Coming'
    BY <2>1, PlacesHeld DEF WholeInv
  <2>3. Fresh' /\ Given'
    BY <2>1 DEF WholeInv, Fresh, Given
  <2>4. Followed'
    <3> SUFFICES ASSUME pc \in Following, Honest(Msg) PROVE (Broken \/ \E j \in Nat : At(j))'
      BY <2>1 DEF Followed
    <3>1. Broken => Broken'
      BY <2>1 DEF Broken, Held
    <3>2. ASSUME NEW j \in Nat, At(j) PROVE At(j)'
      <4>1. /\ cur'.of = cur.of /\ pos \in Nat /\ pos' - j = pos - j
            /\ Placed(cur.of, pos - j) /\ Where(pc', cur', Msg, j)
        BY <2>1, <3>2 DEF At, Typed
      <4> QED BY <2>1, <4>1, AtKept
    <3> QED BY <3>1, <3>2 DEF WholeInv, Followed
  <2> QED BY <2>2, <2>3, <2>4 DEF WholeInv
<1>2. CASE Process \/ Expect
  BY <1>2, RequestLineWhole, ProcessWhole
<1> QED BY <1>1, <1>2, OutsideWhole, LoopWhole, ReplyWhole DEF Next, Worker, Process

-----------------------------------------------------------------------------
\* What is known of the messages on the wire and of the one being read holds in every state.
THEOREM ReadingFollowed == Spec => []WholeInv
<1>1. Init => WholeInv
  BY InitWhole
<1>2. IInv /\ WholeInv /\ [Next]_vars => WholeInv'
  BY NextWhole DEF IInv
<1> QED BY <1>1, <1>2, Invariance, PTL DEF Spec

\* A handler that is called with content whose length was announced is given all of it and
\* nothing else, however its parts arrive, whoever else is served, and whether the client
\* waits or closes.
THEOREM ContentIsWhole == Spec => []WholeContent
<1>1. IInv /\ WholeInv => WholeContent
  <2> SUFFICES ASSUME IInv, WholeInv, pc = "handler", Msg.route = "handler", ExpectContent(Msg),
                      Honest(Msg), Framing(cur.heads, Msg.method) \in {"length", "chunked"}
               PROVE  cur.body = [i \in 1..DataIn(Msg) |-> Part("data", cur.of)]
    BY DEF WholeContent
  <2>1. cur.body = Datas(cur.of, Total(Msg.content))
    BY DEF WholeInv, Given
  <2>2. DataIn(Msg) = Total(Msg.content)
    BY HonestContent, TotalIsData
  <2> QED BY <2>1, <2>2 DEF Datas
<1> QED BY <1>1, ReadingFollowed, Invariance, PTL

-----------------------------------------------------------------------------
(***************************************************************************)
(* Where a response ends.  Until a handler has been called nothing is set  *)
(* as content, and an error that has some comes from a handler that threw: *)
(* that is where content is sent without its length.                       *)
(***************************************************************************)
Unset(p, c) ==
  /\ p \notin {"routed", "error", "reply", "body", "done", "failed", "closed"} => c.content = "empty"
  /\ p = "error" => c.content = "empty" \/ script[c.of].throws

Delimits(a) ==
  a.framing # "none" \/ Bodiless(a) \/ ~a.head \/ a.content = "endless" \/ script[a.of].throws

FramedInv == Unset(pc, cur) /\ \A i \in 1..Len(answers) : Delimits(answers[i])

\* The locals that the steps make before the handler is called have the content of those they
\* come from.
Same(c) == c.content = cur.content

LEMMA SameContent ==
  ASSUME cur \in Locals
  PROVE  /\ Same(cur) /\ Same(Kept) /\ Same(Skipped)
         /\ \A s : Same(Status(s)) /\ Same(Add(s)) /\ Same([cur EXCEPT !.left = s])
BY DEF Locals, Same, Kept, Skipped, Status, Add

\* So reading a request, or its headers, sets no content.
LEMMA ReadingSetsNone ==
  ASSUME Typed, RequestLine \/ Header \/ Skim \/ Checks \/ Expect \/ Content \/ Data \/ Skip \/ Rest
                  \/ Chunk \/ Dispatch
  PROVE  Same(cur')
<1>1. cur \in Locals
  BY DEF Typed, Fits
<1>2. ASSUME NEW p, NEW c, Same(c), Read(p, c) \/ Dry(p, c) \/ Go(p, c) PROVE Same(cur')
  BY <1>2 DEF Read, Dry, Go, Same
<1>3. CASE RequestLine
  <2>1. /\ Same([cur EXCEPT !.of = Here.of])
        /\ \A s : Same([cur EXCEPT !.of = Here.of, !.status = s])
    BY <1>1 DEF Same, Locals
  <2>2. \/ Dry("failed", cur) \/ Read("headers", [cur EXCEPT !.of = Here.of])
        \/ Read("skim", [cur EXCEPT !.of = Here.of, !.status = 414])
        \/ Read("error", [cur EXCEPT !.of = Here.of, !.status = 400])
    BY <1>3, Zenon DEF RequestLine
  <2> DEFINE c1 == [cur EXCEPT !.of = Here.of]
             c2 == [cur EXCEPT !.of = Here.of, !.status = 414]
             c3 == [cur EXCEPT !.of = Here.of, !.status = 400]
  <2>3. Same(cur) /\ Same(c1) /\ Same(c2) /\ Same(c3)
    BY <1>1, <2>1, SameContent
  <2>4. Dry("failed", cur) \/ Read("headers", c1) \/ Read("skim", c2) \/ Read("error", c3)
    BY <2>2
  <2> HIDE DEF c1, c2, c3
  <2> QED BY <1>2, <2>3, <2>4
<1>4. CASE Header
  <2>1. Same([Status(400) EXCEPT !.late = Has("close")])
    BY <1>1 DEF Same, Locals, Status
  <2> QED BY <1>1, <1>2, <1>4, <2>1, SameContent DEF Header
<1>5. CASE Skim \/ Dispatch
  <2>1. \E p : \/ Dry(p, cur) \/ Read(p, cur) \/ Go(p, cur)
              \/ Go(p, Status(400)) \/ Go(p, Status(404))
    BY <1>5 DEF Skim, Dispatch
  <2> QED BY <1>1, <1>2, <2>1, SameContent
<1>6. CASE Checks
  <2>1. /\ Same([cur EXCEPT !.close = Closing])
        /\ Same([[cur EXCEPT !.close = Closing] EXCEPT !.status = 416])
    BY <1>1 DEF Same, Locals
  <2>2. \E p : \/ Go(p, [cur EXCEPT !.close = Closing])
              \/ Go(p, [[cur EXCEPT !.close = Closing] EXCEPT !.status = 416])
    BY <1>6 DEF Checks
  <2> QED BY <1>2, <2>1, <2>2
<1>7. CASE Expect
  <2>1. /\ Same(cur) /\ \A s : Same(Status(s))
    BY <1>1, SameContent
  <2>2. \/ Go("closed", cur) \/ \E s : Go("error", Status(s)) \/ cur' = Status(s)
    BY <1>7 DEF Expect
  <2> QED BY <1>2, <2>1, <2>2
<1>8. CASE Content
  <2>1. Same([cur EXCEPT !.left = Length])
    BY <1>1 DEF Same, Locals
  <2>2. \E p : \/ Go(p, cur) \/ Go(p, Status(400)) \/ Go(p, Status(415))
              \/ Go(p, [cur EXCEPT !.left = Length])
    BY <1>8 DEF Content
  <2> QED BY <1>1, <1>2, <2>1, <2>2, SameContent
<1>9. CASE Chunk
  <2> DEFINE t == [Add(Here.what) EXCEPT !.late = @ \/ (Here.what = "close" /\ ~Has("close"))]
             d(n) == [cur EXCEPT !.left = n]
  <2>1. Same(t) /\ \A n : Same(d(n))
    BY <1>1 DEF Locals, Add, Same
  <2>2. \/ \E p : Dry(p, Status(400)) \/ Read(p, Status(400)) \/ Read(p, cur) \/ Read(p, t)
        \/ \E p, n : Read(p, d(n))
    BY <1>9, Zenon DEF Chunk
  <2> HIDE DEF t, d
  <2> QED BY <1>1, <1>2, <2>1, <2>2, SameContent
<1>10. CASE Data \/ Skip \/ Rest
  <2>1. Same([cur EXCEPT !.body = Append(@, Here)])
    BY <1>1 DEF Same, Locals
  <2>2. \E p : \/ Dry(p, Status(400)) \/ Dry(p, Status(413)) \/ Dry(p, cur)
              \/ Read(p, Kept) \/ Read(p, Skipped)
              \/ Read(p, [cur EXCEPT !.body = Append(@, Here)])
    BY <1>10 DEF Data, Skip, Rest
  <2> QED BY <1>1, <1>2, <2>1, <2>2, SameContent
<1> QED BY <1>3, <1>4, <1>5, <1>6, <1>7, <1>8, <1>9, <1>10

\* A step that answers nothing leaves content to a handler, or to a file.
LEMMA ProcessUnset ==
  ASSUME Typed, FramedInv, Process \/ Expect
  PROVE  Unset(pc, cur)'
<1>1. script' = script /\ cur \in Locals /\ Unset(pc, cur)
  BY ReadingStays, RoutingStays, AnsweringStays
     DEF Process, Stays, Held, Typed, Fits, FramedInv, RequestLine, Read, Dry, clientVars
<1>2. CASE RequestLine \/ Header \/ Skim \/ Checks \/ Expect \/ Content \/ Data \/ Skip \/ Rest
             \/ Chunk \/ Dispatch
  <2>1. cur'.content = cur.content
    BY <1>2, ReadingSetsNone DEF Same
  <2>2. pc \notin {"routed", "error", "reply", "body", "done", "failed", "closed"}
    BY <1>2 DEF RequestLine, Header, Skim, Checks, Expect, Content, Data, Skip, Rest, Chunk, Dispatch
  <2> QED BY <1>1, <2>1, <2>2 DEF Unset
<1>3. CASE Route
  <2>1. pc = "route" /\ cur.content = "empty"
    BY <1>1, <1>3 DEF Route, Unset
  <2>2. [cur EXCEPT !.reader = TRUE].content = cur.content
    BY <1>1 DEF Locals
  <2>3. pc' = "routed" \/ (pc' # "error" /\ cur'.content = cur.content)
    BY <1>3, <2>2 DEF Route, Go
  <2> QED BY <2>1, <2>3 DEF Unset
<1>4. CASE Handler
  <2> DEFINE c == [cur EXCEPT !.content = Msg.answer]
  <2>1. \/ pc' = "routed"
        \/ pc' = "error" /\ Msg.throws /\ cur' = [c EXCEPT !.status = 500]
    BY <1>4 DEF Handler, Go
  <2>2. [c EXCEPT !.status = 500].of = cur.of
    BY <1>1 DEF Locals
  <2> QED BY <1>1, <2>1, <2>2 DEF Unset, Msg
<1>5. CASE Routed
  <2>1. [cur EXCEPT !.content = "empty", !.status = 416].content = "empty"
    BY <1>1 DEF Locals
  <2>2. pc' = "reply" \/ (pc' = "error" /\ cur'.content = "empty")
    BY <1>5, <2>1 DEF Routed, Go
  <2> QED BY <2>2 DEF Unset
<1> QED BY <1>2, <1>3, <1>4, <1>5 DEF Process

\* A response is made as its content has been set.
LEMMA ReplyFramed ==
  ASSUME IInv, FramedInv, Reply
  PROVE  FramedInv'
<1> DEFINE bare == cur.content = "empty" \/ Msg.method = "HEAD"
           A(ok) == [of |-> cur.of, status |-> cur.status, close |-> count = 1 \/ Has("close"),
                     late |-> cur.late, head |-> ok, content |-> cur.content,
                     framing |-> Delimited, whole |-> bare]
<1>1. PICK ok \in BOOLEAN : answers' = Append(answers, A(ok))
  BY DEF Reply
<1>2. /\ A(ok).of = cur.of /\ A(ok).content = cur.content /\ A(ok).framing = Delimited
  OBVIOUS
<1>3. PICK a : a = A(ok)
  OBVIOUS
<1> HIDE DEF A, bare
<1>4. pc \in {"error", "reply"} /\ cur.content \in Contents
  BY DEF Reply, IInv, Typed, Fits, Locals
<1>5. Delimits(a)
  BY <1>2, <1>3, <1>4 DEF FramedInv, Unset, Delimits, Delimited, Contents, Bodiless
<1>6. script' = script /\ pc' \in {"done", "body"}
  BY DEF Reply, clientVars
<1>7. answers \in Seq(Responses) /\ answers' \in Seq(Responses) /\ answers' = Append(answers, a)
  BY <1>1, <1>3, ReplyKeeps DEF IInv, Typed
<1>8. /\ Len(answers') = Len(answers) + 1 /\ Len(answers) \in Nat
      /\ \A i \in 1..Len(answers) : answers'[i] = answers[i]
      /\ answers'[Len(answers) + 1] = a
  BY <1>7
<1>9. ASSUME NEW i \in 1..Len(answers') PROVE Delimits(answers[i])'
  <2>1. i \in 1..Len(answers) \/ i = Len(answers) + 1
    BY <1>8, <1>9
  <2>2. Delimits(answers'[i])
    BY <1>5, <1>8, <2>1 DEF FramedInv
  <2> QED BY <1>6, <2>2 DEF Delimits, Bodiless
<1> QED BY <1>6, <1>9 DEF FramedInv, Unset

\* Writing it, to the end or not, changes nothing of what it says.
LEMMA BodyFramed ==
  ASSUME IInv, FramedInv, Body
  PROVE  FramedInv'
<1>1. script' = script /\ pc' \in {"body", "done", "failed"}
  BY DEF Body, Sized, Chunks, Endless, Ends, Go, clientVars
<1>2. answers \in Seq(Responses) /\ Len(answers) \in Nat
  BY DEF IInv, Typed
<1>3. \/ answers' = answers
      \/ \E w : answers' = [answers EXCEPT ![Len(answers)].whole = w]
  BY DEF Body, Sized, Chunks, Endless, Ends, Go
<1>4. ASSUME NEW i \in 1..Len(answers)
      PROVE  /\ Len(answers') = Len(answers)
             /\ answers'[i].of = answers[i].of /\ answers'[i].framing = answers[i].framing
             /\ answers'[i].content = answers[i].content /\ answers'[i].head = answers[i].head
  <2>1. answers[i] \in Responses
    BY <1>2
  <2>2. ASSUME NEW w, answers' = [answers EXCEPT ![Len(answers)].whole = w]
        PROVE  answers'[i] \in {answers[i], [answers[i] EXCEPT !.whole = w]}
               /\ Len(answers') = Len(answers)
    <3>1. DOMAIN answers = 1..Len(answers)
      BY <1>2
    <3>2. PICK r : r = [answers[Len(answers)] EXCEPT !.whole = w]
      OBVIOUS
    <3>3. answers' = [answers EXCEPT ![Len(answers)] = r]
      BY <2>2, <3>2
    <3>4. Len(answers') = Len(answers)
      BY <1>2, <3>3
    <3>5. CASE i = Len(answers)
      <4>1. answers'[i] = r /\ r = [answers[i] EXCEPT !.whole = w]
        BY <3>1, <3>2, <3>3, <3>5
      <4> QED BY <3>4, <4>1
    <3>6. CASE i # Len(answers)
      <4>1. answers'[i] = answers[i]
        BY <3>1, <3>3, <3>6
      <4> QED BY <3>4, <4>1
    <3> QED BY <3>5, <3>6
  <2>3. \A w : LET a == [answers[i] EXCEPT !.whole = w]
               IN  /\ a.of = answers[i].of /\ a.framing = answers[i].framing
                   /\ a.content = answers[i].content /\ a.head = answers[i].head
    BY <2>1 DEF Responses
  <2>4. CASE answers' = answers
    BY <2>4
  <2>5. ASSUME NEW w, answers' = [answers EXCEPT ![Len(answers)].whole = w]
        PROVE  /\ Len(answers') = Len(answers)
               /\ answers'[i].of = answers[i].of /\ answers'[i].framing = answers[i].framing
               /\ answers'[i].content = answers[i].content /\ answers'[i].head = answers[i].head
    <3>1. PICK a : a = [answers[i] EXCEPT !.whole = w]
      OBVIOUS
    <3>2. /\ a.of = answers[i].of /\ a.framing = answers[i].framing
          /\ a.content = answers[i].content /\ a.head = answers[i].head
      BY <2>3, <3>1
    <3>3. answers'[i] \in {answers[i], a} /\ Len(answers') = Len(answers)
      BY <2>2, <2>5, <3>1
    <3> QED BY <3>2, <3>3
  <2> QED BY <1>3, <2>4, <2>5
<1>5. Len(answers') = Len(answers)
  BY <1>2, <1>3
<1>6. ASSUME NEW i \in 1..Len(answers') PROVE Delimits(answers[i])'
  <2>1. i \in 1..Len(answers) /\ Delimits(answers[i])
    BY <1>5 DEF FramedInv
  <2> QED BY <1>1, <1>4, <2>1 DEF Delimits, Bodiless
<1> QED BY <1>1, <1>6 DEF FramedInv, Unset

\* An interim response has no body.
LEMMA ExpectFramed ==
  ASSUME IInv, FramedInv, Expect
  PROVE  FramedInv'
<1>1. Unset(pc, cur)' /\ script' = script
  BY ProcessUnset, AnsweringStays DEF IInv, Stays, Held
<1>2. answers \in Seq(Responses) /\ answers' \in Seq(Responses)
  BY ExpectKeeps DEF IInv, Typed
<1>3. \/ answers' = answers
      \/ \E a : answers' = Append(answers, a) /\ a.framing = "length"
  BY DEF Expect, Go
<1>4. ASSUME NEW i \in 1..Len(answers')
      PROVE  (i \in 1..Len(answers) /\ answers'[i] = answers[i]) \/ answers'[i].framing = "length"
  BY <1>2, <1>3
<1>5. ASSUME NEW i \in 1..Len(answers') PROVE Delimits(answers[i])'
  BY <1>1, <1>4 DEF FramedInv, Delimits, Bodiless
<1> QED BY <1>1, <1>5 DEF FramedInv

\* Together: every step keeps what is known of where responses end.
LEMMA NextFramed == ASSUME IInv, FramedInv, [Next]_vars PROVE FramedInv'
<1>1. ASSUME script' = script, answers' = answers, Unset(pc, cur)' PROVE FramedInv'
  BY <1>1 DEF FramedInv, Delimits, Bodiless
<1>2. CASE Process
  BY <1>1, <1>2, ProcessUnset, ProcessSteps DEF IInv, Processed, Moved
<1>3. CASE Loop \/ Poll \/ GiveUp \/ Done
  <2>1. script' = script /\ answers' = answers
    BY <1>3 DEF Loop, Poll, GiveUp, Done, clientVars
  <2>2. /\ pc' \in {"loop", "poll", "line", "closed"}
        /\ (pc \in {"loop", "poll"} /\ cur' = cur) \/ cur' = NoRequest
    BY <1>3 DEF Loop, Poll, GiveUp, Done
  <2>3. Unset(pc, cur)'
    BY <2>2 DEF FramedInv, Unset, NoRequest
  <2> QED BY <1>1, <2>1, <2>3
<1>4. CASE Send \/ Arrive \/ Hangup \/ Stop \/ UNCHANGED vars
  <2>1. script' = script /\ answers' = answers /\ pc' = pc /\ cur' = cur
    BY <1>4 DEF Send, Arrive, Hangup, Stop, vars, clientVars
  <2>2. Unset(pc, cur)'
    BY <2>1 DEF FramedInv, Unset
  <2> QED BY <1>1, <2>1, <2>2
<1> QED BY <1>2, <1>3, <1>4, ExpectFramed, ReplyFramed, BodyFramed DEF Next, Worker, Process

\* A response is followed by another only when its body has been written to the end and what
\* was written says where that is, unless it is one of the four that the code does not end: an
\* empty piece of a chunked provider, a provider without a length, content of a handler that
\* throws, and a head that could not be written.
THEOREM BodiesEnd == Spec => []NextIsFound
<1>1. Init => FramedInv
  BY DEF Init, FramedInv, Unset, NoRequest
<1>2. IInv /\ FramedInv /\ [Next]_vars => FramedInv'
  BY NextFramed
<1>3. IInv /\ FramedInv => NextIsFound
  <2> SUFFICES ASSUME IInv, FramedInv, NEW i \in 1 .. Len(answers) - 1
               PROVE  (answers[i].whole \/ answers[i].content = "hollow") /\ Delimits(answers[i])
    BY DEF NextIsFound, Delimits
  <2>1. Len(answers) \in Nat /\ i \in 1..Len(answers)
    BY DEF IInv, Typed
  <2> QED BY <2>1 DEF IInv, Found, Fine, FramedInv
<1> QED BY <1>1, <1>2, <1>3, Invariance, PTL DEF Spec

-----------------------------------------------------------------------------
(***************************************************************************)
(* Responses stay in step with the messages.                               *)
(***************************************************************************)
\* The final responses among the first n are finitely many.
LEMMA FinalFinite == ASSUME NEW n \in Nat PROVE IsFiniteSet(Final(n)) /\ Cardinality(Final(n)) \in Nat
<1>1. IsFiniteSet(1..n) /\ Final(n) \subseteq 1..n
  BY FS_Interval DEF Final
<1>2. IsFiniteSet(Final(n))
  BY <1>1, FS_Subset
<1> QED BY <1>2, FS_CardinalityType

\* So the responses that count are a number.
LEMMA AnsweredNat == ASSUME Typed PROVE Answered \in Nat
<1>1. Len(answers) \in Nat
  BY DEF Typed
<1> QED BY <1>1, FinalFinite DEF Answered

\* A response that is begun counts, unless it is a mere 100.
LEMMA FinalMore ==
  ASSUME answers \in Seq(Responses), NEW a \in Responses, answers' = Append(answers, a)
  PROVE  /\ \A n \in 0..Len(answers) : Final(n)' = Final(n)
         /\ Len(answers') = Len(answers) + 1 /\ Len(answers) \in Nat
         /\ \A i \in 1..Len(answers) : answers'[i] = answers[i]
         /\ answers'[Len(answers) + 1] = a
         /\ a.status = 100 => Answered' = Answered
         /\ a.status # 100 => Answered' = Answered + 1
<1> PICK l \in Nat : l = Len(answers)
  OBVIOUS
<1>1. /\ Len(answers') = l + 1 /\ answers'[l + 1] = a
      /\ \A i \in 1..l : answers'[i] = answers[i]
  OBVIOUS
<1>2. ASSUME NEW n \in 0..l PROVE Final(n)' = Final(n)
  <2>1. \A i \in 1..n : i \in 1..l
    OBVIOUS
  <2> QED BY <1>1, <2>1 DEF Final
<1>3. l \in 0..l /\ Final(l)' = Final(l)
  BY <1>2
<1>4. Final(l + 1)' = IF a.status # 100 THEN Final(l) \cup {l + 1} ELSE Final(l)
  <2>1. 1 .. l + 1 = (1..l) \cup {l + 1} /\ l + 1 \notin 1..l
    OBVIOUS
  <2>2. Final(l + 1)' = {i \in 1 .. l + 1 : answers'[i].status # 100}
    BY DEF Final
  <2>3. Final(l) = {i \in 1..l : answers'[i].status # 100}
    BY <1>1 DEF Final
  <2> DEFINE S == {i \in 1 .. l + 1 : answers'[i].status # 100}
             T == {i \in 1..l : answers'[i].status # 100}
  <2>4. CASE a.status # 100
    <3>1. S = T \cup {l + 1}
      BY <1>1, <2>1, <2>4
    <3> QED BY <2>2, <2>3, <2>4, <3>1
  <2>5. CASE a.status = 100
    <3>1. S = T
      BY <1>1, <2>1, <2>5
    <3> QED BY <2>2, <2>3, <2>5, <3>1
  <2> QED BY <2>4, <2>5
<1>5. Answered' = Cardinality(Final(l + 1)') /\ Answered = Cardinality(Final(l))
  BY <1>1 DEF Answered, Final
<1>6. ASSUME a.status # 100 PROVE Cardinality(Final(l + 1)') = Answered + 1
  <2>1. l + 1 \notin Final(l)
    BY DEF Final
  <2>2. Cardinality(Final(l) \cup {l + 1}) = Cardinality(Final(l)) + 1
    BY <2>1, FinalFinite, FS_AddElement
  <2> QED BY <1>4, <1>5, <1>6, <2>2
<1>7. a.status = 100 => Answered' = Answered
  BY <1>4, <1>5
<1>8. a.status # 100 => Answered' = Answered + 1
  BY <1>5, <1>6
<1> QED BY <1>1, <1>2, <1>7, <1>8

\* Whether its body is written makes no difference.
LEMMA FinalEnds ==
  ASSUME answers \in Seq(Responses), answers # << >>, NEW w \in BOOLEAN,
         answers' = [answers EXCEPT ![Len(answers)].whole = w]
  PROVE  /\ \A n \in 0..Len(answers) : Final(n)' = Final(n)
         /\ Answered' = Answered /\ Len(answers') = Len(answers)
         /\ \A i \in 1..Len(answers) : /\ answers'[i].status = answers[i].status
                                       /\ answers'[i].head = answers[i].head
                                       /\ answers'[i].of = answers[i].of
<1> PICK l \in Nat : l = Len(answers)
  OBVIOUS
<1>1. l \in 1..l /\ answers[l] \in Responses
  OBVIOUS
<1> DEFINE a == [answers[l] EXCEPT !.whole = w]
<1>2. a \in Responses /\ a.status = answers[l].status /\ a.head = answers[l].head /\ a.of = answers[l].of
  BY ONLY <1>1, w \in BOOLEAN DEF Responses
<1>3. answers' = [answers EXCEPT ![l] = a]
  OBVIOUS
<1> HIDE DEF a
<1>4. /\ Len(answers') = l /\ answers'[l] = a
      /\ \A i \in 1 .. l - 1 : answers'[i] = answers[i]
  BY <1>1, <1>2, <1>3
<1>5. \A i \in 1..l : /\ answers'[i].status = answers[i].status
                      /\ answers'[i].head = answers[i].head /\ answers'[i].of = answers[i].of
  <2>1. \A i \in 1..l : i \in 1 .. l - 1 \/ i = l
    OBVIOUS
  <2> QED BY <1>2, <1>4, <2>1
<1>6. ASSUME NEW n \in 0..l PROVE Final(n)' = Final(n)
  <2>1. \A i \in 1..n : i \in 1..l
    OBVIOUS
  <2> QED BY <1>5, <2>1 DEF Final
<1>7. Answered' = Answered
  <2>1. Final(l)' = Final(l)
    BY <1>6
  <2> QED BY <1>4, <2>1 DEF Answered, Final
<1> QED BY <1>4, <1>5, <1>6, <1>7

\* A request that has been read to its end has consumed what arrived, unless the client sent
\* more meanwhile.
LEMMA ConsumedNow ==
  ASSUME Typed, EachPlaced', Held, cur'.of = cur.of, cur.of = sent, sent > 0,
         pos' \in 0..Len(wire'), Ended', ~apart'
  PROVE  Consumed'
<1>1. CASE (pos = Len(wire) /\ (eof \/ pending = << >> \/ apart))'
  BY <1>1 DEF Consumed
<1>2. CASE Placed(cur.of, pos - Size(cur.of))'
  <2> PICK k : k = sent'
    OBVIOUS
  <2> PICK b : b = pos' - Size(k)'
    OBVIOUS
  <2>1. cur'.of = k /\ k = sent' /\ k \in 1..sent /\ k = sent
    BY ConnectionAssumption DEF Held, Typed
  <2>2. Placed(k, b)'
    BY <1>2, <2>1
  <2>3. Size(k) \in Nat /\ Size(k)' = Size(k) /\ Len(pending) \in Nat /\ Len(wire) \in Nat
        /\ pending \in Seq(Pieces)
    BY SMTT(30), <2>1, ScriptType DEF Held, Size, Typed
  <2>4. /\ Len(wire) <= b + Size(k) /\ b + Size(k) <= Len(wire) + Len(pending)
        /\ ~eof => b + Size(k) = Len(wire) + Len(pending)
    BY <2>1, <2>2, <2>3 DEF Placed, Held
  <2>5. pos' = b + Size(k) /\ pos' \in 0..Len(wire)
    BY <2>3 DEF Held
  <2>6. pos' = Len(wire) /\ (~eof => Len(pending) = 0)
    BY <2>3, <2>4, <2>5
  <2>7. Len(pending) = 0 => pending = << >>
    BY <2>3
  <2> QED BY <2>6, <2>7 DEF Consumed, Held
<1> QED BY <1>1, <1>2 DEF Ended

\* To a client that waits nothing is new.
LEMMA StillWaits == ASSUME Held, apart => apart', Waits' PROVE Waits
BY DEF Held, Waits, ReadInFull

\* The message that a waiting client's request was read for can be read in full.
LEMMA WaitsRead ==
  ASSUME Typed, Waits, cur.of = sent, sent > 0
  PROVE  ReadInFull(Msg) /\ Honest(Msg)
<1>1. sent \in 1..sent
  BY ConnectionAssumption DEF Typed
<1> QED BY <1>1 DEF Waits, ReadInFull, Msg

\* A step that begins no response leaves those there are numbered.
LEMMA NumberedKept ==
  ASSUME answers' = answers
  PROVE  Answered' = Answered /\ (Numbered => Numbered')
<1>1. \A n : Final(n)' = Final(n)
  BY DEF Final
<1> QED BY <1>1 DEF Answered, Numbered, Final

\* Where the processing of a request takes the worker.
LEMMA ProcessTo ==
  ASSUME IInv, Process
  PROVE  /\ answers' = answers /\ pos' \in 0..Len(wire') /\ Typed'
         /\ pc' \in Processing \cup {"failed"} /\ pc \in Processing
<1>1. Processed /\ pc \in Processing
  BY ProcessSteps
<1>2. IInv'
  BY <1>1, ProcessedKeeps
<1> QED BY <1>1, <1>2 DEF Processed, Moved, IInv, Typed

\* A request that is processed is still the last message, and when it has been read all that
\* arrived is consumed.
LEMMA ProcessStep ==
  ASSUME IInv, WholeInv, WholeInv', StepInv, Process, ~RequestLine
  PROVE  StepInv'
<1>1. Stays /\ Held
  BY ReadingStays, RoutingStays DEF Process, Stays, IInv
<1>2. /\ answers' = answers /\ pos' \in 0..Len(wire') /\ pc' \in Processing \cup {"failed"}
      /\ pc \in Processing /\ Typed
  BY ProcessTo DEF IInv
<1>3. pos' <= taken' /\ cur'.status # 100
  BY <1>1 DEF StepInv, Stays
<1>4. ASSUME Waits' PROVE Numbered' /\ Abreast'
  <2>1. Waits /\ Numbered /\ Abreast
    BY <1>1, <1>4, StillWaits DEF Stays, StepInv
  <2>2. Numbered' /\ Answered' = Answered
    BY <1>2, <2>1, NumberedKept
  <2>3. pc \in Following \cup {"rest", "dispatch", "handler", "routed"}
    BY DEF Process, Following, RequestLine, Header, Skim, Checks, Route, Content, Data, Skip,
       Rest, Chunk, Dispatch, Handler, Routed
  <2>4. Behind /\ cur.of = sent /\ sent' = sent /\ cur'.of = cur.of /\ sent > 0
    <3>1. Behind /\ cur.of = sent
      BY <2>1, <2>3 DEF Abreast
    <3>2. Answered \in Nat
      BY <1>2, AnsweredNat
    <3> QED BY <1>1, <3>1, <3>2 DEF Behind, Stays, Held
  <2>5. Behind' /\ cur'.of = sent'
    BY <2>2, <2>4 DEF Behind
  <2>6. pc' \notin {"loop", "poll", "line", "body", "done"}
    BY <1>1, <1>2 DEF Stays, Processing, Reading
  <2>7. pc' \in {"rest", "dispatch", "handler", "routed", "error", "reply"} => Consumed'
    <3>1. CASE pc \in Following
      <4>1. ReadInFull(Msg) /\ Honest(Msg)
        BY <1>2, <2>1, <2>4, WaitsRead
      <4>2. Onward
        BY <1>2, <3>1, <4>1, FollowOn DEF WholeInv
      <4>3. pc' \in {"rest", "dispatch", "handler", "routed", "error", "reply"} => Ended'
        BY <4>1, <4>2 DEF Onward, Following
      <4>4. ~apart'
        BY <1>4 DEF Waits
      <4> QED BY <1>1, <1>2, <2>4, <4>3, <4>4, ConsumedNow DEF WholeInv
    <3>2. CASE pc \in {"rest", "dispatch", "handler", "routed"}
      <4>1. Consumed
        BY <2>1, <3>2 DEF Abreast
      <4>2. pos' = pos
        <5>1. CASE Rest
          <6>1. pos \in Nat /\ Len(wire) \in Nat /\ ~(pos < Len(wire)) /\ ~(pos < Complete)
            BY <1>2, <4>1, CompleteIs DEF Consumed, Typed
          <6> QED BY <5>1, <6>1 DEF Rest, Read, Dry, streamVars
        <5>2. CASE Dispatch \/ Handler \/ Routed
          BY <5>2 DEF Dispatch, Handler, Routed, Go, streamVars
        <5>3. Rest \/ Dispatch \/ Handler \/ Routed
          BY <3>2 DEF Process, RequestLine, Header, Skim, Checks, Route, Content, Data, Skip, Chunk
        <5> QED BY <5>1, <5>2, <5>3
      <4> QED BY <1>1, <4>1, <4>2 DEF Consumed, Held
    <3> QED BY <2>3, <3>1, <3>2
  <2> QED BY <2>2, <2>5, <2>6, <2>7 DEF Abreast
<1> QED BY <1>3, <1>4 DEF StepInv

\* A request line is read only where a message begins.
LEMMA LineStep ==
  ASSUME IInv, WholeInv, StepInv, RequestLine
  PROVE  StepInv'
<1>1. /\ answers' = answers /\ Typed /\ pc = "line" /\ Held
      /\ pc' \in {"headers", "skim", "error", "failed"}
  BY ProcessTo DEF IInv, Process, RequestLine, Read, Dry, Held, clientVars
<1>2. pos' <= taken'
  <2>1. pos \in Nat /\ taken \in Nat /\ Len(wire) \in Nat /\ Complete \in Nat
    BY <1>1, CompleteIs DEF Typed
  <2> QED BY <2>1 DEF StepInv, RequestLine, Read, Dry, streamVars
<1>3. cur'.status # 100
  <2>1. cur \in Locals /\ cur.status # 100
    BY <1>1 DEF Typed, Fits, StepInv
  <2> DEFINE c == [cur EXCEPT !.of = Here.of]
             d == [cur EXCEPT !.of = Here.of, !.status = 414]
             e == [cur EXCEPT !.of = Here.of, !.status = 400]
  <2>2. c.status # 100 /\ d.status # 100 /\ e.status # 100
    BY <2>1 DEF Locals
  <2>3. cur' \in {cur, c, d, e}
    BY DEF RequestLine, Read, Dry
  <2> HIDE DEF c, d, e
  <2> QED BY <2>1, <2>2, <2>3
<1>4. apart => apart'
  <2>1. apart' = apart \/ apart' = (apart \/ pending # << >>)
    BY DEF RequestLine, Read, Dry
  <2> QED BY <2>1, Zenon
<1>5. ASSUME Waits' PROVE Numbered' /\ Abreast'
  <2>1. Waits /\ Numbered /\ Abreast
    BY <1>1, <1>4, <1>5, StillWaits DEF StepInv
  <2>2. Numbered' /\ Answered' = Answered /\ sent' = sent
    BY <1>1, <2>1, NumberedKept DEF Held
  <2>3. CASE pc' = "failed"
    BY <2>2, <2>3 DEF Abreast, Following
  <2>4. CASE pc' # "failed"
    <3>1. /\ pos < Len(wire) /\ pos' = pos + 1 /\ cur'.of = Here.of
          /\ (pc' = "error" => Here.what \notin {"good", "long"})
      <4>1. cur \in Locals /\ Complete \in Nat /\ Complete <= Len(wire)
            /\ pos \in Nat /\ Len(wire) \in Nat
        BY <1>1, CompleteIs DEF Typed, Fits
      <4>2. PICK p \in {"headers", "skim", "error"} :
              /\ \E c : Read(p, c) /\ c.of = Here.of
              /\ p = "error" => ~Ahead({"good", "long"})
        <5>1. \A v : /\ [cur EXCEPT !.of = Here.of].of = Here.of
                     /\ [cur EXCEPT !.of = Here.of, !.status = v].of = Here.of
          BY <4>1 DEF Locals
        <5>2. ~Dry("failed", cur)
          BY <2>4 DEF Dry
        <5> QED BY <5>1, <5>2, Zenon DEF RequestLine
      <4> QED BY <4>1, <4>2 DEF Read, Ahead
    <3>2. Behind /\ Placed(sent, pos)
      <4>1. pos \in Nat /\ Len(wire) \in Nat
        BY <1>1 DEF Typed
      <4> QED BY <1>1, <2>1, <3>1, <4>1 DEF Abreast, Consumed
    <3>3. sent \in Nat /\ sent > 0 /\ sent \in 1..sent
      <4>1. Answered \in Nat
        BY <1>1, AnsweredNat
      <4> QED BY <3>2, <4>1 DEF Behind
    <3>4. script[sent] \in Messages /\ Size(sent) \in Nat /\ ReadInFull(script[sent])
      BY <1>1, <2>1, <3>3, ScriptType DEF Waits
    <3>5. 1 \in 1..Size(sent) /\ Parts(script[sent], sent)[1] = Part(script[sent].line, sent)
      <4>1. /\ Size(sent) = HeadSize(script[sent]) + Len(script[sent].content)
            /\ Len(script[sent].heads) \in Nat /\ Len(script[sent].content) \in Nat
            /\ Parts(script[sent], sent)[1] = Part(script[sent].line, sent)
        BY <3>3, <3>4, PartsAre DEF Size
      <4>2. HeadSize(script[sent]) = Len(script[sent].heads) + 2
        BY DEF HeadSize
      <4> DEFINE h == Len(script[sent].heads)
                 x == Len(script[sent].content)
      <4>3. Size(sent) = h + 2 + x /\ h \in Nat /\ x \in Nat
        BY <4>1, <4>2
      <4> HIDE DEF h, x
      <4>4. 1 \in 1..Size(sent)
        BY <4>3
      <4> QED BY <4>1, <4>4
    <3>6. Here = Parts(script[sent], sent)[1] \/ Cut(sent, pos + 1)
      <4>1. pos \in Nat /\ Len(wire) \in Nat
        BY <1>1 DEF Typed
      <4>2. pos + 1 <= Len(wire)
        BY <3>1, <4>1
      <4> QED BY <3>2, <3>5, <4>2 DEF Placed, Here
    <3>7. Here.of = sent
      BY <3>5, <3>6 DEF Part, Cut, Here
    <3>8. pc' = "error" => Consumed'
      <4>1. script[sent].line \in {"good", "long"}
        BY <3>4 DEF ReadInFull
      <4>2. pc' = "error" => Cut(sent, pos + 1)
        BY <3>1, <3>5, <3>6, <4>1 DEF Part
      <4> QED BY <1>1, <3>1, <4>2 DEF Cut, Consumed, Held
    <3>9. Behind' /\ cur'.of = sent'
      BY <2>2, <3>1, <3>2, <3>7 DEF Behind
    <3> QED BY <1>1, <2>2, <2>4, <3>8, <3>9 DEF Abreast
  <2> QED BY <2>3, <2>4
<1> QED BY <1>2, <1>3, <1>5 DEF StepInv


\* An answer to Expect is 100 when the client is read in full, and that answers nothing yet.
LEMMA ExpectStep ==
  ASSUME IInv, WholeInv, StepInv, Expect
  PROVE  StepInv'
<1>1. Stays /\ Typed /\ pc = "expect" /\ pc \in Following
  BY AnsweringStays DEF IInv, Expect, Following
<1>2. pos' <= taken' /\ cur'.status # 100
  BY <1>1 DEF StepInv, Stays
<1>3. ASSUME Waits' PROVE Numbered' /\ Abreast'
  <2>1. Waits /\ Numbered /\ Behind /\ cur.of = sent
    BY <1>1, <1>3, StillWaits DEF Stays, StepInv, Abreast
  <2>2. sent > 0
    BY <1>1, <2>1, AnsweredNat DEF Behind
  <2>3. ReadInFull(Msg) /\ Honest(Msg)
    BY <1>1, <2>1, <2>2, WaitsRead
  <2>4. \A e \in ExpectAnswers : e.returned = 100
    <3>1. "expect" \in HeadsOf(Msg)
      BY <1>1, <2>3, HeadRead DEF WholeInv
    <3> QED BY <2>3, <3>1 DEF ReadInFull
  <2> DEFINE a == [of |-> cur.of, status |-> 100, close |-> FALSE, late |-> FALSE,
                   head |-> TRUE, content |-> "empty", framing |-> "length", whole |-> TRUE]
  <2>5. /\ pc' = "route" /\ answers' = Append(answers, a) /\ sent' = sent
        /\ cur'.of = cur.of /\ a.status = 100
    <3>1. cur'.of = cur.of /\ sent' = sent
      BY <1>1 DEF Stays, Held
    <3>2. ASSUME NEW e \in ExpectAnswers PROVE e.returned = 100 /\ e.returned \in {100, 417}
      BY <2>4
    <3>3. PICK e \in ExpectAnswers :
            /\ pc' = "route"
            /\ answers' = Append(answers,
                 [of |-> cur.of, status |-> e.returned, close |-> FALSE, late |-> FALSE,
                  head |-> TRUE, content |-> "empty", framing |-> "length", whole |-> TRUE])
      BY <3>2 DEF Expect
    <3> QED BY <3>1, <3>2, <3>3
  <2>6. a \in Responses /\ answers \in Seq(Responses)
    <3>1. cur.of \in Nat /\ 100 \in Nat /\ "empty" \in Contents
      BY <1>1 DEF Typed, Fits, Locals, Contents
    <3>2. a \in Responses
      BY ONLY <3>1 DEF Responses
    <3> QED BY <1>1, <3>2 DEF Typed
  <2> HIDE DEF a
  <2>7. /\ \A n \in 0..Len(answers) : Final(n)' = Final(n)
        /\ Len(answers') = Len(answers) + 1 /\ Len(answers) \in Nat
        /\ \A i \in 1..Len(answers) : answers'[i] = answers[i]
        /\ answers'[Len(answers) + 1] = a /\ Answered' = Answered
    BY <2>5, <2>6, FinalMore
  <2>8. Numbered'
    <3>1. ASSUME NEW i \in 1..Len(answers'), answers'[i].status # 100, answers'[i].head
          PROVE  answers'[i].of = Cardinality(Final(i)')
      <4>1. i \in 1..Len(answers)
        BY <2>5, <2>7, <3>1
      <4>2. i \in 0..Len(answers)
        BY <2>7, <4>1
      <4> QED BY <2>1, <2>7, <3>1, <4>1, <4>2 DEF Numbered
    <3> QED BY <3>1 DEF Numbered, Final
  <2>9. Abreast'
    BY <2>1, <2>5, <2>7 DEF Abreast, Behind, Following
  <2> QED BY <2>8, <2>9
<1> QED BY <1>2, <1>3 DEF StepInv

\* A final response is given to a message that has been read, and it is the next one.
LEMMA ReplyStep ==
  ASSUME IInv, StepInv, Reply
  PROVE  StepInv'
<1>1. Stays /\ Typed /\ pc \in {"error", "reply"}
  BY AnsweringStays DEF IInv, Reply
<1>2. pos' <= taken' /\ cur'.status # 100
  BY <1>1 DEF StepInv, Stays
<1> DEFINE bare == cur.content = "empty" \/ Msg.method = "HEAD"
           A(ok) == [of |-> cur.of, status |-> cur.status, close |-> count = 1 \/ Has("close"),
                     late |-> cur.late, head |-> ok, content |-> cur.content,
                     framing |-> Delimited, whole |-> bare]
<1>3. PICK ok \in BOOLEAN : answers' = Append(answers, A(ok))
  BY DEF Reply
<1>4. PICK a : a = A(ok)
  OBVIOUS
<1>5. answers' = Append(answers, a) /\ a.of = cur.of /\ a.status = cur.status
  BY <1>3, <1>4
<1> HIDE DEF A, bare
<1>6. /\ sent' = sent /\ pos' = pos /\ Held /\ pc' \in {"done", "body"}
  BY DEF Reply, Held, clientVars, streamVars
<1>7. a \in Responses
  <2>1. Typed'
    BY ReplyKeeps DEF IInv
  <2>2. answers' \in Seq(Responses) /\ answers \in Seq(Responses)
    BY <1>1, <2>1 DEF Typed
  <2>3. Len(answers') = Len(answers) + 1 /\ Len(answers) \in Nat
        /\ answers'[Len(answers) + 1] = a
    BY <1>5, <2>2
  <2>4. Len(answers) + 1 \in 1..Len(answers')
    BY <2>3
  <2>5. answers'[Len(answers) + 1] \in Responses
    BY <2>2, <2>4
  <2> QED BY <2>3, <2>5
<1>8. ASSUME Waits' PROVE Numbered' /\ Abreast'
  <2>1. Waits /\ Numbered /\ Behind /\ cur.of = sent /\ Consumed
    BY <1>1, <1>8, StillWaits DEF Stays, StepInv, Abreast
  <2>2. a.status # 100
    BY <1>5 DEF StepInv
  <2>3. /\ \A n \in 0..Len(answers) : Final(n)' = Final(n)
        /\ Len(answers') = Len(answers) + 1 /\ Len(answers) \in Nat
        /\ \A i \in 1..Len(answers) : answers'[i] = answers[i]
        /\ answers'[Len(answers) + 1] = a /\ Answered' = Answered + 1
    BY <1>1, <1>5, <1>7, <2>2, FinalMore DEF Typed
  <2>4. Answered' = sent
    BY <2>1, <2>3 DEF Behind
  <2>5. Numbered'
    <3>1. ASSUME NEW i \in 1..Len(answers'), answers'[i].status # 100, answers'[i].head
          PROVE  answers'[i].of = Cardinality(Final(i)')
      <4>1. CASE i \in 1..Len(answers)
        <5>1. i \in 0..Len(answers)
          BY <2>3, <4>1
        <5> QED BY <2>1, <2>3, <3>1, <4>1, <5>1 DEF Numbered
      <4>2. CASE i = Len(answers')
        <5>1. Cardinality(Final(i)') = Answered'
          BY <4>2 DEF Answered, Final
        <5>2. answers'[i].of = sent
          BY <1>5, <2>1, <2>3, <4>2
        <5> QED BY <2>4, <5>1, <5>2
      <4>3. i \in 1..Len(answers) \/ i = Len(answers')
        BY <2>3, <3>1
      <4> QED BY <4>1, <4>2, <4>3
    <3> QED BY <3>1 DEF Numbered, Final
  <2>6. Consumed'
    BY <1>6, <2>1 DEF Consumed, Held
  <2> QED BY <1>6, <2>4, <2>5, <2>6 DEF Abreast, Following
<1> QED BY <1>2, <1>8 DEF StepInv

\* The body of a response changes nothing of this.
LEMMA BodyStep ==
  ASSUME IInv, StepInv, Body
  PROVE  StepInv'
<1>1. Stays /\ Typed /\ pc = "body" /\ answers # << >> /\ answers \in Seq(Responses)
  BY AnsweringStays DEF IInv, Body, Typed, Found
<1>2. pos' <= taken' /\ cur'.status # 100
  BY <1>1 DEF StepInv, Stays
<1>3. Held /\ pos' = pos /\ pc' \in {"done", "body", "failed"}
  BY DEF Body, Sized, Chunks, Endless, Ends, Go, Held, clientVars, streamVars
<1>4. ASSUME Waits' PROVE Numbered' /\ Abreast'
  <2>1. Waits /\ Numbered /\ sent = Answered /\ Consumed
    BY <1>1, <1>4, StillWaits DEF Stays, StepInv, Abreast
  <2>2. Numbered' /\ Answered' = Answered
    <3>1. CASE answers' = answers
      BY <2>1, <3>1, NumberedKept
    <3>2. ASSUME NEW w \in BOOLEAN, answers' = [answers EXCEPT ![Len(answers)].whole = w]
          PROVE  Numbered' /\ Answered' = Answered
      <4>1. /\ \A n \in 0..Len(answers) : Final(n)' = Final(n)
            /\ Answered' = Answered /\ Len(answers') = Len(answers)
            /\ \A i \in 1..Len(answers) : /\ answers'[i].status = answers[i].status
                                          /\ answers'[i].head = answers[i].head
                                          /\ answers'[i].of = answers[i].of
        BY <1>1, <3>2, FinalEnds
      <4>2. ASSUME NEW i \in 1..Len(answers'), answers'[i].status # 100, answers'[i].head
            PROVE  answers'[i].of = Cardinality(Final(i)')
        <5>1. i \in 1..Len(answers) /\ i \in 0..Len(answers)
          BY <1>1, <4>1, <4>2
        <5> QED BY <2>1, <4>1, <4>2, <5>1 DEF Numbered
      <4>3. Numbered'
        BY <4>2 DEF Numbered, Final
      <4> QED BY <4>1, <4>3
    <3>3. answers' = answers
          \/ \E w \in BOOLEAN : answers' = [answers EXCEPT ![Len(answers)].whole = w]
      <4>1. CASE Chunks
        <5>1. (cur.content = "chunked") \in BOOLEAN
          OBVIOUS
        <5> QED BY <4>1, <5>1 DEF Chunks, Ends
      <4> QED BY <4>1 DEF Body, Sized, Endless, Ends, Go
    <3> QED BY <3>1, <3>2, <3>3
  <2>3. Consumed'
    BY <1>3, <2>1 DEF Consumed, Held
  <2> QED BY <1>3, <2>1, <2>2, <2>3 DEF Abreast, Following, Held
<1> QED BY <1>2, <1>4 DEF StepInv

\* What a stream has not handed out is lost, but to a client that waits that is nothing.
LEMMA LoopStep ==
  ASSUME IInv, StepInv, Loop \/ Poll \/ GiveUp \/ Done
  PROVE  StepInv'
<1>1. /\ Held /\ answers' = answers /\ apart' = apart /\ taken' = taken
      /\ \/ pos' = pos /\ cur' = cur /\ pc \in {"loop", "poll"}
         \/ pos' = taken /\ cur' = NoRequest /\ pc = "done"
         \/ pos' = taken /\ cur' = NoRequest /\ pc' = "closed"
      /\ pc' \in {"loop", "poll", "line", "closed"}
  BY DEF Loop, Poll, GiveUp, Done, Held, clientVars, streamVars
<1>2. pos \in Nat /\ taken \in Nat /\ Len(wire) \in Nat /\ taken <= Len(wire) /\ pos <= Len(wire)
  BY DEF IInv, Typed
<1>3. pos' <= taken' /\ cur'.status # 100
  BY <1>1, <1>2 DEF StepInv, NoRequest
<1>4. ASSUME Waits' PROVE Numbered' /\ Abreast'
  <2>1. Waits /\ Numbered /\ Abreast
    BY <1>1, <1>4, StillWaits DEF StepInv
  <2>2. Numbered' /\ Answered' = Answered
    BY <1>1, <2>1, NumberedKept
  <2>3. CASE pc' = "closed"
    BY <2>2, <2>3 DEF Abreast, Following
  <2>4. CASE pc \in {"loop", "poll"} /\ pc' # "closed"
    <3>1. (sent = Answered /\ Consumed) \/ (Behind /\ Placed(sent, pos))
      BY <2>1, <2>4 DEF Abreast
    <3>2. CASE sent = Answered /\ Consumed
      <4>1. sent' = Answered' /\ Consumed'
        BY <1>1, <2>2, <2>4, <3>2 DEF Consumed, Held
      <4> QED BY <1>1, <2>2, <2>4, <4>1 DEF Abreast, Following
    <3>3. CASE Behind /\ Placed(sent, pos)
      <4> PICK k : k = sent
        OBVIOUS
      <4> PICK b : b = pos
        OBVIOUS
      <4>1. Placed(k, b)' /\ sent' = k /\ pos' = b
        BY <1>1, <2>4, <3>3, PlacedHeld DEF Held
      <4>2. Placed(sent, pos)' /\ Behind'
        BY <2>2, <3>3, <4>1 DEF Behind
      <4> QED BY <1>1, <2>2, <2>4, <4>2 DEF Abreast, Following
    <3> QED BY <3>1, <3>2, <3>3
  <2>5. CASE pc = "done" /\ pc' # "closed"
    <3>1. sent = Answered /\ Consumed
      BY <2>1, <2>5 DEF Abreast
    <3>2. pos' = Len(wire)
      BY <1>1, <1>2, <2>5, <3>1 DEF Consumed, StepInv
    <3>3. sent' = Answered' /\ Consumed'
      BY <1>1, <2>2, <3>1, <3>2 DEF Consumed, Held
    <3> QED BY <1>1, <2>2, <2>5, <3>3 DEF Abreast, Following
  <2> QED BY <1>1, <2>2, <2>3, <2>4, <2>5
<1> QED BY <1>3, <1>4 DEF StepInv


\* A client that waits begins a message when the last one has been answered, and with
\* nothing on the wire that has not been handed out.
LEMMA OutsideStep ==
  ASSUME IInv, WholeInv, StepInv, Send \/ Arrive \/ Hangup \/ Stop
  PROVE  StepInv'
<1>1. /\ UNCHANGED <<script, pc, pos, taken, cur, answers>> /\ Typed /\ Coming
      /\ pos \in 0..Len(wire) /\ Len(wire) \in Nat
  BY DEF IInv, Typed, WholeInv, Send, Arrive, Hangup, Stop, clientVars, streamVars
<1>2. pos' <= taken' /\ cur'.status # 100
  BY <1>1 DEF StepInv
<1>3. ASSUME Waits' PROVE Numbered' /\ Abreast'
  <2>1. CASE Send
    <3>1. /\ sent' = sent + 1 /\ wire' = wire /\ pending = << >> /\ apart' = FALSE
          /\ sent \in Nat /\ Answered \in Nat
      BY <1>1, <1>3, <2>1, AnsweredNat, ConnectionAssumption DEF Send, Waits, Typed
    <3>2. /\ ~apart /\ ~(Answered < sent) /\ pc \in {"loop", "poll"}
      BY <2>1, <3>1, Zenon DEF Send
    <3>3. Waits
      <4>1. \A i \in 1..sent : i \in 1..sent'
        BY <3>1
      <4> QED BY <1>1, <1>3, <3>2, <4>1 DEF Waits, ReadInFull
    <3>4. Numbered /\ Abreast
      BY <3>3 DEF StepInv
    <3>5. Numbered' /\ Answered' = Answered
      BY <1>1, <3>4, NumberedKept
    <3>6. sent = Answered /\ Consumed
      BY <3>1, <3>2, <3>4 DEF Abreast, Behind
    <3>7. Behind'
      BY <3>1, <3>5, <3>6 DEF Behind
    <3>8. Placed(sent, pos)'
      <4>1. pos' = Len(wire)'
        BY <1>1, <3>1, <3>6 DEF Consumed
      <4> QED BY <1>1, <2>1, <4>1, PlacedNew
    <3> QED BY <1>1, <3>2, <3>5, <3>7, <3>8 DEF Abreast, Following
  <2>2. CASE Arrive \/ Hangup \/ Stop
    <3>1. sent' = sent /\ apart' = apart
      BY <2>2 DEF Arrive, Hangup, Stop, clientVars
    <3>2. Waits
      BY <1>1, <1>3, <3>1 DEF Waits, ReadInFull
    <3>3. Numbered /\ Abreast
      BY <3>2 DEF StepInv
    <3>4. Numbered' /\ Answered' = Answered
      BY <1>1, <3>3, NumberedKept
    <3>5. Consumed => Consumed'
      <4>1. CASE Arrive
        BY <4>1 DEF Arrive, Consumed
      <4>2. CASE Hangup
        BY <1>1, <4>2 DEF Hangup, Consumed
      <4>3. CASE Stop
        BY <4>3 DEF Stop, Consumed, clientVars, streamVars
      <4> QED BY <2>2, <4>1, <4>2, <4>3
    <3>6. Behind => Behind'
      BY <3>1, <3>4 DEF Behind
    <3>7. Behind /\ Placed(sent, pos) => Placed(sent, pos)'
      <4> SUFFICES ASSUME Behind, Placed(sent, pos) PROVE Placed(sent, pos)'
        OBVIOUS
      <4> PICK k : k = sent
        OBVIOUS
      <4> PICK b : b = pos
        OBVIOUS
      <4>1. k \in 1..sent
        BY <1>1, AnsweredNat DEF Behind
      <4>2. Placed(k, b)'
        BY <1>1, <2>2, <4>1, PlacedOutside
      <4> QED BY <1>1, <3>1, <4>2
    <3>8. Abreast'
      BY <1>1, <3>1, <3>3, <3>4, <3>5, <3>6, <3>7 DEF Abreast
    <3> QED BY <3>4, <3>8
  <2> QED BY <2>1, <2>2
<1> QED BY <1>2, <1>3 DEF StepInv

\* At first nothing has been sent and nothing answered.
LEMMA InitStepInv == Init => StepInv
<1> SUFFICES ASSUME Init PROVE StepInv
  OBVIOUS
<1>1. /\ sent = 0 /\ pos = 0 /\ taken = 0 /\ wire = << >> /\ pending = << >> /\ pc = "loop"
      /\ cur = NoRequest /\ answers = << >> /\ Len(answers) = 0 /\ Len(wire) = 0
  BY DEF Init
<1>2. Answered = 0
  <2>1. Final(Len(answers)) = {}
    BY <1>1 DEF Final
  <2> QED BY <2>1, FS_EmptySet DEF Answered
<1>3. Numbered /\ Abreast
  BY <1>1, <1>2 DEF Numbered, Abreast, Consumed, Following
<1> QED BY <1>1, <1>3 DEF StepInv, NoRequest

\* Together: every step keeps client and server in step.
LEMMA NextStep ==
  ASSUME IInv, WholeInv, WholeInv', StepInv, [Next]_vars
  PROVE  StepInv'
<1>1. CASE UNCHANGED vars
  <2>1. /\ Held /\ UNCHANGED <<pc, pos, taken, cur, answers, apart>>
    BY <1>1 DEF vars, clientVars, streamVars, Held
  <2>2. ASSUME Waits' PROVE Numbered' /\ Abreast'
    <3>1. Numbered /\ Abreast
      BY <2>1, <2>2, StillWaits DEF StepInv
    <3>2. Numbered' /\ Answered' = Answered
      BY <2>1, <3>1, NumberedKept
    <3>3. Placed(sent, pos)' <=> Placed(sent, pos)
      <4> PICK k : k = sent
        OBVIOUS
      <4> PICK b : b = pos
        OBVIOUS
      <4>1. Placed(k, b)' <=> Placed(k, b)
        BY <2>1, PlacedHeld
      <4> QED BY <2>1, <4>1 DEF Held
    <3>4. Abreast'
      BY <2>1, <3>1, <3>2, <3>3 DEF Abreast, Behind, Consumed, Held
    <3> QED BY <3>2, <3>4
  <2> QED BY <2>1, <2>2 DEF StepInv
<1> QED BY <1>1, OutsideStep, LoopStep, LineStep, ProcessStep, ExpectStep, ReplyStep, BodyStep
        DEF Next, Worker, Process

-----------------------------------------------------------------------------
\* Who is ahead, and by how much, is known in every state.
THEOREM StepsKept == Spec => []StepInv
<1>1. Init => StepInv
  BY InitStepInv
<1>2. IInv /\ WholeInv /\ WholeInv' /\ StepInv /\ [Next]_vars => StepInv'
  BY NextStep
<1> QED BY <1>1, <1>2, Invariance, ReadingFollowed, PTL DEF Spec

\* Client and server never lose step by themselves: to a client that waits for each response,
\* and whose messages can be read in full, the i-th response answers the i-th message,
\* whatever the routes and handlers do and however the parts arrive.
THEOREM StaysInStep == Spec => []InStep
<1>1. IInv /\ StepInv => InStep
  <2> SUFFICES ASSUME IInv, StepInv, Waits PROVE \A i \in DOMAIN answers :
                 answers[i].status # 100 /\ answers[i].head => answers[i].of = Cardinality(Final(i))
    BY DEF InStep, Waits
  <2>1. DOMAIN answers = 1..Len(answers)
    BY DEF IInv, Typed
  <2> QED BY <2>1 DEF StepInv, Numbered
<1> QED BY <1>1, StepsKept, Invariance, PTL

=============================================================================
