--------------------------- MODULE HttpConnection ---------------------------
(***************************************************************************)
(* One connection of the HTTP library's server, from the worker that takes *)
(* it to the close: process_and_close_socket, process_request and what it  *)
(* calls.  What travels is a sequence of parts: a line, a header, a blank  *)
(* line, the size of a chunk, a piece of content.  The stream of a request *)
(* receives all that has arrived, hands it out part by part, and takes     *)
(* what it has not handed out with it when the request is over.            *)
(***************************************************************************)
EXTENDS Integers, Sequences, FiniteSets

CONSTANTS
  Scripts,        \* the sequences of messages that a client may want to send
  KeepAliveMax,   \* keep_alive_max_count_
  PayloadMax,     \* payload_max_length_, in pieces
  ExpectAnswers   \* what expect_100_continue_handler_ may return, and leave in res.status

\* What a handler may set as content, and what a client may send.  "unending" is
\* whatever is read where it stands, lines, chunks or content, for as long as the
\* client likes: no limit of the server's ends it.
Contents == {"empty", "text", "sized", "chunked", "hollow", "endless"}
Heads    == {"plain", "close", "keep-alive", "expect", "range", "badrange", "outrange",
             "length1", "length2", "chunked", "gzip", "noboundary", "oversized", "unending"}
Words    == Heads \cup {"good", "bad", "long", "blank", "cut", "data", "size0", "size1", "size2"}
Messages == [line    : {"good", "bad", "long"},
             method  : {"GET", "HEAD", "POST", "PUT", "PATCH", "DELETE", "OPTIONS", "CONNECT",
                        "TRACE", "PRI"},
             version : {"1.0", "1.1"},
             route   : {"handler", "reader", "early", "file", "none"},
             answer  : Contents, throws : BOOLEAN, heads : Seq(Heads), content : Seq(Words)]

ASSUME ConnectionAssumption ==
  /\ KeepAliveMax \in Nat \ {0} /\ PayloadMax \in Nat
  /\ Scripts \subseteq Seq(Messages)
  /\ ExpectAnswers \subseteq [returned : Nat, status : Nat \ {100}]

VARIABLES
  script,    \* what the client wants to send
  sent,      \* how many messages of it have been begun
  pending,   \* the parts of the last one that have not arrived yet
  wire,      \* the parts that have arrived
  eof,       \* the client has closed its side
  apart,     \* history: a message was begun before the last one was answered,
             \* or was given up on before all of it had arrived
  stopping,  \* svr_sock_ is INVALID_SOCKET
  pc,        \* where the worker is
  count,     \* count of process_server_socket_core
  begun,     \* history: requests begun
  pos,       \* parts handed out by the streams
  taken,     \* parts received from the kernel
  cur,       \* the locals of process_request
  answers    \* history: the responses begun

clientVars == <<script, sent, pending, wire, eof>>
loopVars   == <<count, begun>>
streamVars == <<pos, taken>>
vars == <<clientVars, apart, stopping, pc, loopVars, streamVars, cur, answers>>

-----------------------------------------------------------------------------
(* A message is a record of its line ("good", "bad" or "long"), method,     *)
(* version, the route of its target, what the handler there sets as content *)
(* and whether it throws then, its headers and the parts of its content.  A *)
(* part remembers the message that it belongs to.                           *)

Part(what, k) == [what |-> what, of |-> k]

Parts(m, k) ==
  LET whats == <<m.line>> \o m.heads \o <<"blank">> \o m.content
  IN  [i \in DOMAIN whats |-> Part(whats[i], k)]

Sizes == [size0 |-> 0, size1 |-> 1, size2 |-> 2]

\* Of the first n responses those that are more than a mere 100.
Final(n) == {i \in 1..n : answers[i].status # 100}
Answered == Cardinality(Final(Len(answers)))

\* status: 0 until it is set.  late: history, a Connection: close of headers that
\* broke off, or of trailers only, where the test for it does not look.
NoRequest == [of |-> 0, heads |-> {}, close |-> FALSE, late |-> FALSE, body |-> << >>,
              left |-> 0, reader |-> FALSE, status |-> 0, content |-> "empty"]

Init ==
  /\ script \in Scripts /\ sent = 0 /\ pending = << >> /\ wire = << >>
  /\ eof = FALSE /\ apart = FALSE
  /\ stopping = FALSE /\ pc = "loop"
  /\ count = KeepAliveMax /\ begun = 0
  /\ pos = 0 /\ taken = 0
  /\ cur = NoRequest
  /\ answers = << >>

-----------------------------------------------------------------------------
(* The client, and stop().                                                 *)

Send ==
  /\ pending = << >> /\ ~eof /\ pc # "closed" /\ sent < Len(script)
  /\ sent' = sent + 1
  /\ pending' = Parts(script[sent'], sent')
  /\ apart' = (apart \/ Answered < sent \/ pc \notin {"loop", "poll"})
  /\ UNCHANGED <<script, wire, eof, stopping, pc, loopVars, streamVars, cur, answers>>

\* The client is still at its last part and will never come to its end.
Unending == wire # << >> /\ wire[Len(wire)].what = "unending" /\ ~eof

Arrive ==
  /\ pending # << >> /\ ~eof /\ ~Unending /\ pc # "closed"
  /\ wire' = Append(wire, Head(pending)) /\ pending' = Tail(pending)
  /\ UNCHANGED <<script, sent, eof, apart, stopping, pc, loopVars, streamVars, cur, answers>>

\* A close may cut a part short.
Hangup ==
  /\ ~eof /\ pc # "closed" /\ eof' = TRUE
  /\ \/ UNCHANGED wire
     \/ pending # << >> /\ wire' = Append(wire, Part("cut", sent))
  /\ UNCHANGED <<script, sent, pending, apart, stopping, pc, loopVars, streamVars, cur, answers>>

Stop ==
  /\ ~stopping /\ pc # "closed" /\ stopping' = TRUE
  /\ UNCHANGED <<clientVars, apart, pc, loopVars, streamVars, cur, answers>>

-----------------------------------------------------------------------------
(* process_server_socket_core, with a new SocketStream for each request.   *)

InKernel == taken < Len(wire)

Loop ==
  /\ pc = "loop" /\ pc' = IF ~stopping /\ count > 0 THEN "poll" ELSE "closed"
  /\ UNCHANGED <<clientVars, apart, stopping, loopVars, streamVars, cur, answers>>

\* keep_alive: something to read comes in time, or not.
Poll ==
  /\ pc = "poll" /\ (InKernel \/ eof) /\ pc' = "line"
  /\ begun' = begun + 1
  /\ UNCHANGED <<clientVars, apart, stopping, count, streamVars, cur, answers>>

GiveUp ==
  /\ pc = "poll" /\ pc' = "closed"
  /\ UNCHANGED <<clientVars, apart, stopping, loopVars, streamVars, cur, answers>>

\* Mutant of Done: connection_closed is not looked at.
DoneKeepsOpen ==
  /\ pc \in {"done", "failed"}
  /\ IF pc = "failed"
     THEN pc' = "closed" /\ UNCHANGED count
     ELSE pc' = "loop" /\ count' = count - 1
  /\ pos' = taken /\ cur' = NoRequest
  /\ UNCHANGED <<clientVars, apart, stopping, begun, taken, answers>>

\* Mutant of Done: the result of the callback is not looked at.
DoneForgetsFailure ==
  /\ pc \in {"done", "failed"}
  /\ IF cur.close
     THEN pc' = "closed" /\ UNCHANGED count
     ELSE pc' = "loop" /\ count' = count - 1
  /\ pos' = taken /\ cur' = NoRequest
  /\ UNCHANGED <<clientVars, apart, stopping, begun, taken, answers>>

\* Mutant of Done: the requests are not counted.
DoneForgetsCount ==
  /\ pc \in {"done", "failed"}
  /\ pc' = IF pc = "failed" \/ cur.close THEN "closed" ELSE "loop"
  /\ pos' = taken /\ cur' = NoRequest
  /\ UNCHANGED <<clientVars, apart, stopping, loopVars, taken, answers>>

\* The callback has returned, true in "done" and false in "failed"; what its
\* stream has received and not handed out is lost.
Done ==
  /\ pc \in {"done", "failed"}
  /\ IF pc = "failed" \/ cur.close
     THEN pc' = "closed" /\ UNCHANGED count
     ELSE pc' = "loop" /\ count' = count - 1
  /\ pos' = taken /\ cur' = NoRequest
  /\ UNCHANGED <<clientVars, apart, stopping, begun, taken, answers>>

-----------------------------------------------------------------------------
(* Reading.  A stream that has handed out all it has receives what the     *)
(* kernel holds; when that is nothing the read fails in the end, because   *)
(* of a timeout or because the client has closed.                          *)

Here == wire[pos + 1]

\* The parts that have arrived to their end.
Complete == IF Unending THEN Len(wire) - 1 ELSE Len(wire)

\* The next part is handed out and cur becomes c.
Read(p, c) ==
  /\ pos < Complete /\ pos' = pos + 1
  /\ taken' = IF pos < taken THEN taken ELSE Complete
  /\ pc' = p /\ cur' = c
  /\ UNCHANGED <<clientVars, apart, stopping, loopVars, answers>>

\* There is no next part.
Dry(p, c) ==
  /\ pos = Len(wire)
  /\ apart' = (apart \/ pending # << >>)
  /\ pc' = p /\ cur' = c
  /\ UNCHANGED <<clientVars, stopping, loopVars, streamVars, answers>>

Go(p, c) ==
  /\ pc' = p /\ cur' = c
  /\ UNCHANGED <<clientVars, apart, stopping, loopVars, streamVars, answers>>

Ahead(whats) == pos < Len(wire) /\ Here.what \in whats
Status(s) == [cur EXCEPT !.status = s]
Add(h) == [cur EXCEPT !.heads = @ \cup {h}]
Has(h) == h \in cur.heads

\* The line is parsed: a line that is too long has its headers skipped, one that
\* is none leaves them where they are.
RequestLine ==
  /\ pc = "line"
  /\ \/ Dry("failed", cur)
     \/ Ahead({"good"}) /\ Read("headers", [cur EXCEPT !.of = Here.of])
     \/ Ahead({"long"}) /\ Read("skim", [cur EXCEPT !.of = Here.of, !.status = 414])
     \/ /\ ~Ahead({"good", "long"})
        /\ Read("error", [cur EXCEPT !.of = Here.of, !.status = 400])

\* Mutant of Header: a read that waits for ever.
HeaderWaits ==
  /\ pc = "headers"
  /\ \/ Ahead({"oversized"}) /\ Read("error", Status(400))
     \/ Ahead({"blank"}) /\ Read("checks", cur)
     \/ ~Ahead({"oversized", "blank"}) /\ Read("headers", Add(Here.what))

\* read_headers, which may fail after a Connection: close.  What is no header
\* does no harm.
Header ==
  /\ pc = "headers"
  /\ \/ Dry("error", [Status(400) EXCEPT !.late = Has("close")])
     \/ Ahead({"oversized"}) /\ Read("error", [Status(400) EXCEPT !.late = Has("close")])
     \/ Ahead({"blank"}) /\ Read("checks", cur)
     \/ ~Ahead({"oversized", "blank"}) /\ Read("headers", Add(Here.what))

Skim ==
  /\ pc = "skim"
  /\ \/ Dry("error", cur)
     \/ Ahead({"oversized", "blank"}) /\ Read("error", cur)
     \/ ~Ahead({"oversized", "blank"}) /\ Read("skim", cur)

-----------------------------------------------------------------------------
Msg == script[cur.of]

Closing == Has("close") \/ (Msg.version = "1.0" /\ ~Has("keep-alive"))

\* After the headers: connection_closed, Range and Expect.
Checks ==
  /\ pc = "checks"
  /\ LET c == [cur EXCEPT !.close = Closing]
     IN  IF Has("badrange") THEN Go("error", [c EXCEPT !.status = 416])
         ELSE Go(IF Has("expect") THEN "expect" ELSE "route", c)

\* 100 and 417 are written at once, and the request goes on with the status that
\* the handler has left.  Any other return ends it with that status; when there is
\* none an assertion ends the program, in a build that has assertions.
Expect ==
  /\ pc = "expect"
  /\ \E a \in ExpectAnswers :
       \/ a.returned \notin {100, 417} /\ Go("error", Status(a.status))
       \/ a.returned \notin {100, 417} /\ a.status = 0 /\ Go("closed", cur)
       \/ /\ a.returned \in {100, 417} /\ pc' = "route" /\ cur' = Status(a.status)
          /\ answers' = Append(answers,
               [of |-> cur.of, status |-> a.returned, close |-> FALSE, late |-> FALSE,
                head |-> TRUE, content |-> "empty", framing |-> "length", whole |-> TRUE])
          /\ UNCHANGED <<clientVars, apart, stopping, loopVars, streamVars>>

ExpectContent(m) == m.method \in {"POST", "PUT", "PATCH", "PRI", "DELETE"}
HasReader(m) == m.route = "reader" /\ m.method \in {"POST", "PUT", "PATCH", "DELETE"}
IsFile(m) == m.route = "file" /\ m.method \in {"GET", "HEAD"}

\* Mutant of Route: content is read only if its length is given.
RouteByLength ==
  /\ pc = "route"
  /\ \/ Msg.route = "early" /\ Go("handler", cur)
     \/ IsFile(Msg) /\ Go("routed", [cur EXCEPT !.content = "sized"])
     \/ /\ HasReader(Msg)
        /\ Go("content", [cur EXCEPT !.reader = TRUE]) \/ Go("handler", cur)
     \/ /\ Msg.route # "early" /\ ~IsFile(Msg) /\ ~HasReader(Msg)
        /\ Go(IF ExpectContent(Msg) /\ Has("length2") THEN "content" ELSE "dispatch", cur)

\* routing: the pre-routing handler answers, or a file; a handler reads the
\* content by itself, if it likes; or the content is read first.
Route ==
  /\ pc = "route"
  /\ \/ Msg.route = "early" /\ Go("handler", cur)
     \/ IsFile(Msg) /\ Go("routed", [cur EXCEPT !.content = "sized"])
     \/ /\ HasReader(Msg)
        /\ Go("content", [cur EXCEPT !.reader = TRUE]) \/ Go("handler", cur)
     \/ /\ Msg.route # "early" /\ ~IsFile(Msg) /\ ~HasReader(Msg)
        /\ Go(IF ExpectContent(Msg) THEN "content" ELSE "dispatch", cur)

-----------------------------------------------------------------------------
(* The content.  A handler that reads by itself goes on when that fails.   *)

Got    == IF cur.reader THEN "handler" ELSE "dispatch"
NotGot == IF cur.reader THEN "handler" ELSE "error"

Length == IF Has("length1") THEN 1 ELSE 2

HasLength(heads) == heads \cap {"length1", "length2"} # {}
IsChunked(heads) == "chunked" \in heads

\* There is no zlib and no brotli in this build: such content is refused.
Encoded(heads) == "gzip" \in heads

\* What read_content_core makes of the headers.
Framing(heads, method) ==
  IF "noboundary" \in heads THEN "noboundary"
  ELSE IF method = "DELETE" /\ ~HasLength(heads) THEN "ignored"
  ELSE IF Encoded(heads) THEN "encoded"
  ELSE IF IsChunked(heads) THEN "chunked"
  ELSE IF HasLength(heads) THEN "length" ELSE "rest"

Content ==
  /\ pc = "content"
  /\ LET f == Framing(cur.heads, Msg.method)
     IN  \/ f = "noboundary" /\ Go(NotGot, Status(400))
         \/ f = "ignored" /\ Go(Got, cur)
         \/ f = "encoded" /\ Go(NotGot, Status(415))
         \/ f = "chunked" /\ Go("size", cur)
         \/ f = "rest" /\ Go("rest", cur)
         \/ f = "length" /\ Go(IF Length > PayloadMax THEN "skip" ELSE "data",
                               [cur EXCEPT !.left = Length])

\* A piece that was cut short does not complete the content.
Piece == IF Here.what \in {"cut", "unending"} THEN 0 ELSE 1
Kept  == [cur EXCEPT !.left = @ - Piece, !.body = Append(@, Here)]

\* Mutant of Data: the end of the stream ends the content.
DataToTheEnd ==
  /\ pc = "data"
  /\ \/ Dry(IF Has("chunked") THEN "crlf" ELSE Got, cur)
     \/ Read(IF Kept.left > 0 THEN "data" ELSE IF Has("chunked") THEN "crlf" ELSE Got, Kept)

\* read_content_with_length, of the whole content or of a chunk.
Data ==
  /\ pc = "data"
  /\ \/ Dry(NotGot, Status(400))
     \/ Read(IF Kept.left > 0 THEN "data" ELSE IF Has("chunked") THEN "crlf" ELSE Got, Kept)

\* skip_content_with_length, of content that is too large.
Skipped == [cur EXCEPT !.left = @ - Piece,
                       !.status = IF cur.left = Piece THEN 413 ELSE @]
Skip ==
  /\ pc = "skip"
  /\ \/ Dry(NotGot, Status(413))
     \/ Read(IF Skipped.left > 0 THEN "skip" ELSE NotGot, Skipped)

\* read_content_without_length.
Rest ==
  /\ pc = "rest"
  /\ Dry(Got, cur) \/ Read("rest", [cur EXCEPT !.body = Append(@, Here)])

\* read_content_chunked.
Chunk ==
  \/ /\ pc = "size"
     /\ \/ Dry(NotGot, Status(400))
        \/ ~Ahead(DOMAIN Sizes) /\ Read(NotGot, Status(400))
        \/ /\ Ahead(DOMAIN Sizes)
           /\ LET n == Sizes[Here.what]
              IN  Read(IF n = 0 THEN "trailer" ELSE "data", [cur EXCEPT !.left = n])
  \/ /\ pc = "crlf"
     /\ \/ Dry(NotGot, Status(400))
        \/ Ahead({"blank"}) /\ Read("size", cur)
        \/ ~Ahead({"blank"}) /\ Read(NotGot, Status(400))
  \/ /\ pc = "trailer"
     /\ \/ Dry(NotGot, Status(400))
        \/ Ahead({"oversized"}) /\ Read(NotGot, Status(400))
        \/ Ahead({"blank"}) /\ Read(Got, cur)
        \/ /\ ~Ahead({"oversized", "blank"})
           /\ Read("trailer", [Add(Here.what) EXCEPT
                                 !.late = @ \/ (Here.what = "close" /\ ~Has("close"))])

-----------------------------------------------------------------------------
(* The handler, and the response.                                          *)

Dispatch ==
  /\ pc = "dispatch"
  /\ \/ Msg.method \in {"CONNECT", "TRACE", "PRI"} /\ Go("error", Status(400))
     \/ /\ Msg.method \notin {"CONNECT", "TRACE", "PRI"}
        /\ IF Msg.route = "handler" THEN Go("handler", cur)
           ELSE Go("error", IF cur.status = 0 THEN Status(404) ELSE cur)

\* The handler returns, or it throws and nobody but process_request catches it.
Handler ==
  /\ pc = "handler"
  /\ LET c == [cur EXCEPT !.content = Msg.answer]
     IN  IF Msg.throws THEN Go("error", [c EXCEPT !.status = 500]) ELSE Go("routed", c)

Routed ==
  /\ pc = "routed"
  /\ LET s == IF cur.status # 0 THEN cur.status
              ELSE IF Has("range") \/ Has("outrange") THEN 206 ELSE 200
     IN  IF Has("outrange") /\ s \in 200..299
         THEN Go("error", [cur EXCEPT !.content = "empty", !.status = 416])
         ELSE Go("reply", [cur EXCEPT !.status = s])

\* is_writable: the client has not closed, as far as the socket can tell, and
\* takes what is sent in time.
Writable == ~eof \/ InKernel

\* Only a response that apply_ranges has seen says how its content is delimited.
Delimited ==
  CASE cur.content = "empty" -> "length"
    [] pc = "error" /\ cur.content # "empty" -> "none"
    [] pc = "reply" /\ cur.content \in {"text", "sized"} -> "length"
    [] pc = "reply" /\ cur.content \in {"chunked", "hollow"} -> "chunked"
    [] pc = "reply" /\ cur.content = "endless" -> "none"

\* Whether the line and the headers could be written makes no difference.
Reply ==
  /\ pc \in {"error", "reply"}
  /\ \E ok \in BOOLEAN :
       LET bare == cur.content = "empty" \/ Msg.method = "HEAD"
       IN  /\ ok => Writable
           /\ answers' = Append(answers,
                [of |-> cur.of, status |-> cur.status, close |-> count = 1 \/ Has("close"),
                 late |-> cur.late, head |-> ok, content |-> cur.content,
                 framing |-> Delimited, whole |-> bare])
           /\ pc' = IF bare THEN "done" ELSE "body"
           /\ cur' = [cur EXCEPT !.left = IF cur.content = "sized" THEN 2 ELSE 1]
           /\ UNCHANGED <<clientVars, apart, stopping, loopVars, streamVars>>

\* Written to the end or not, the body is over.
Ends(p, whole) ==
  /\ pc' = p
  /\ answers' = [answers EXCEPT ![Len(answers)].whole = whole]
  /\ UNCHANGED <<clientVars, apart, stopping, loopVars, streamVars, cur>>

Sized ==
  /\ cur.content = "sized" /\ ~stopping /\ Writable
  /\ \/ cur.left > 1 /\ Go("body", [cur EXCEPT !.left = @ - 1])
     \/ Ends("done", TRUE)

\* A piece of nothing ends the response without its last chunk.
Chunks ==
  /\ cur.content \in {"chunked", "hollow"} /\ ~stopping /\ Writable
  /\ Ends("done", cur.content = "chunked")

Endless == cur.content = "endless" /\ ~stopping /\ Writable /\ Ends("done", TRUE)

\* A write or the provider fails, the body is one piece, or the provider writes
\* it.  A shutdown stops the provider, and that is no failure.
Body ==
  /\ pc = "body"
  /\ \/ Ends("failed", FALSE)
     \/ cur.content = "text" /\ Writable /\ Ends("done", TRUE)
     \/ Sized \/ Chunks \/ Endless
     \/ cur.content # "text" /\ stopping /\ Ends("done", FALSE)

-----------------------------------------------------------------------------
Worker ==
  \/ Loop \/ Poll \/ GiveUp \/ Done
  \/ RequestLine \/ Header \/ Skim \/ Checks \/ Expect \/ Route
  \/ Content \/ Data \/ Skip \/ Rest \/ Chunk
  \/ Dispatch \/ Handler \/ Routed \/ Reply \/ Body

Next == Send \/ Arrive \/ Hangup \/ Stop \/ Worker

Spec == Init /\ [][Next]_vars

\* The worker goes on: reads and writes have timeouts, and the handler returns.
FairSpec == Spec /\ WF_vars(Worker)

-----------------------------------------------------------------------------
Reading == {"line", "headers", "skim", "data", "skip", "rest", "size", "crlf", "trailer"}

TypeOK ==
  /\ script \in Scripts /\ sent \in 0..Len(script)
  /\ eof \in BOOLEAN /\ apart \in BOOLEAN /\ stopping \in BOOLEAN
  /\ pc \in Reading \cup {"loop", "poll", "checks", "expect", "route", "content", "dispatch",
                          "handler", "routed", "error", "reply", "body", "done", "failed",
                          "closed"}
  /\ count \in 0..KeepAliveMax /\ begun \in 0..KeepAliveMax
  /\ pos \in 0..Len(wire) /\ taken \in 0..Len(wire)
  /\ cur.of \in 0..sent /\ cur.left \in 0..2
  /\ cur.status \in {0, 200, 206, 400, 404, 413, 414, 415, 416, 500}
                      \cup {a.status : a \in ExpectAnswers}

(* A message that the server has read to its end when it answers: the line,  *)
(* the headers and the content are in order, and nothing makes the server    *)
(* answer before it has read them.                                           *)
HeadsOf(m) == {m.heads[i] : i \in DOMAIN m.heads}

ChunkedContents == {<<"size1", "data", "blank", "size0", "blank">>,
                    <<"size2", "data", "data", "blank", "size0", "plain", "blank">>}

Honest(m) ==
  IF "chunked" \in HeadsOf(m) THEN m.content \in ChunkedContents
  ELSE m.content = IF "length1" \in HeadsOf(m) THEN <<"data">>
                   ELSE IF "length2" \in HeadsOf(m) THEN <<"data", "data">> ELSE << >>

ReadInFull(m) ==
  /\ m.line = "good" \/ (m.line = "long" /\ m.content = << >>)
  /\ HeadsOf(m) \cap {"oversized", "badrange"} = {}
  /\ "expect" \in HeadsOf(m) => \A a \in ExpectAnswers : a.returned = 100
  /\ Honest(m)
  /\ m.content # << >> => /\ ExpectContent(m) /\ m.route \notin {"early", "reader"}
                         /\ Framing(HeadsOf(m), m.method) \in {"length", "chunked"}

(* Client and server never lose step by themselves: to a client that waits   *)
(* for each response, and whose messages can be read in full, the i-th       *)
(* response answers the i-th message, whatever the routes and handlers do.   *)
(* Both conditions are needed: a stream that has received more than its      *)
(* request takes the rest with it, and what is left unread is taken for the  *)
(* next request line.                                                        *)
InStep ==
  ~apart /\ (\A i \in 1..sent : ReadInFull(script[i])) =>
    \A i \in DOMAIN answers :
      answers[i].status # 100 /\ answers[i].head => answers[i].of = Cardinality(Final(i))

DataIn(m) == Cardinality({i \in DOMAIN m.content : m.content[i] = "data"})

(* A handler that is called with content whose length was announced is given *)
(* all of it and nothing else, even when the client does not wait for its    *)
(* responses or closes in the middle.                                        *)
WholeContent ==
  pc = "handler" /\ Msg.route = "handler" /\ ExpectContent(Msg) /\ Honest(Msg)
      /\ Framing(cur.heads, Msg.method) \in {"length", "chunked"} =>
    cur.body = [i \in 1..DataIn(Msg) |-> Part("data", cur.of)]

(* After a response that announces it the connection is closed.  There are   *)
(* two exceptions, where the response is made from a Connection: close that  *)
(* the test for it has not seen: a 400 for headers that broke off after it,  *)
(* and a response to content that has such a header only in its trailers.    *)
CloseIsLast ==
  \A i \in DOMAIN answers :
    answers[i].close /\ ~answers[i].late => i = Len(answers)

Bodiless(a) == a.content = "empty" \/ script[a.of].method = "HEAD"

(* A client can tell where a response ends before another follows: its body  *)
(* has been written to the end, and what was written says where that is.     *)
(* The code has four exceptions.  A chunked provider that writes an empty    *)
(* piece leaves its body open; a provider without a length is followed by    *)
(* the next response though only a close could end it; the content of a      *)
(* handler that throws after setting it is sent with no length at all; and   *)
(* nobody looks whether the line and the headers could be written.           *)
NextIsFound ==
  \A i \in 1 .. Len(answers) - 1 :
    LET a == answers[i]
    IN  /\ a.whole \/ a.content = "hollow"
        /\ a.framing # "none" \/ Bodiless(a) \/ ~a.head
             \/ a.content = "endless" \/ script[a.of].throws

(* The worker waits for the rest of a part that does not end. *)
HeldUp == Unending /\ pos = Complete /\ pc \in Reading

(* The worker gets free of every connection, unless its client goes on       *)
(* sending what is being read: the timeouts are those of single reads, and   *)
(* nothing limits the header lines, the chunks or the time of a request.     *)
ConnectionEnds == <>(pc = "closed" \/ []HeldUp)

Phase == CASE pc = "loop" -> "taken" [] pc = "poll" -> "idle" [] pc = "closed" -> "closed"
           [] OTHER -> "busy"

Connection == INSTANCE ServedConnection WITH phase <- Phase, served <- begun, stopped <- stopping

(* Seen from outside the connection is one that is served request by         *)
(* request, which is all that ExampleServer knows of it.                     *)
ServesConnection == Connection!Spec
=============================================================================
