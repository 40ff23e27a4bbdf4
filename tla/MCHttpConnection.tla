-------------------------- MODULE MCHttpConnection --------------------------
(* Clients with one message for each way through the server.               *)
EXTENDS HttpConnection

Message(line, method, version, route, heads, content) ==
  [line |-> line, method |-> method, version |-> version, route |-> route,
   answer |-> "text", throws |-> FALSE, heads |-> heads, content |-> content]

Good(method, route, heads, content) == Message("good", method, "1.1", route, heads, content)

Answering(m, answer) == [m EXCEPT !.answer = answer]
Throwing(m, answer) == [m EXCEPT !.answer = answer, !.throws = TRUE]

Get == Good("GET", "handler", << >>, << >>)
Post(heads, content) == Good("POST", "handler", heads, content)

OneChunk == <<"size1", "data", "blank", "size0", "blank">>
LateClose == <<"size1", "data", "blank", "size0", "close", "blank">>

Readable ==
  {Throwing(Get, "text"), Answering(Get, "endless"),
   Good("HEAD", "handler", <<"close">>, << >>),
   Message("good", "GET", "1.0", "none", << >>, << >>),
   Message("good", "GET", "1.0", "file", <<"outrange", "keep-alive">>, << >>),
   Message("long", "GET", "1.1", "none", <<"plain">>, << >>),
   Answering(Post(<<"length1">>, <<"data">>), "sized"),
   Good("PUT", "handler", <<"length2">>, <<"data", "data">>),
   Answering(Post(<<"chunked">>, OneChunk), "hollow"),
   Post(<<"chunked">>, LateClose),
   Answering(Post(<< >>, << >>), "empty")}

Unreadable ==
  {Answering(Good("GET", "handler", <<"length1">>, <<"data">>), "chunked"),
   Good("DELETE", "handler", <<"chunked">>, OneChunk),
   Post(<<"length1", "gzip">>, <<"data">>),
   Post(<<"noboundary", "length1">>, <<"data">>),
   Post(<<"length2">>, <<"data">>),
   Good("POST", "reader", <<"length1", "range">>, <<"data">>),
   Good("POST", "early", <<"length1">>, <<"data">>),
   Post(<<"expect", "length1">>, <<"data">>),
   Good("GET", "handler", <<"close", "oversized">>, << >>),
   Good("GET", "handler", <<"badrange">>, << >>),
   Good("TRACE", "none", << >>, << >>),
   Good("GET", "handler", <<"plain", "unending">>, << >>),
   Post(<<"chunked">>, <<"size1", "data", "blank", "unending">>),
   Message("bad", "GET", "1.1", "none", <<"plain">>, << >>)}

\* Each message before and after a plain one, and a chain of readable ones.
AllScripts == {<<m, Get>> : m \in Readable \cup Unreadable}
                \cup {<<Get, m>> : m \in Readable \cup Unreadable}
                \cup {<<Get, Post(<<"length1">>, <<"data">>), Get>>}
\* What the Expect handler returns, and the status that it has set, or none.
Expectations == {[returned |-> 100, status |-> 0], [returned |-> 417, status |-> 417],
                 [returned |-> 403, status |-> 403], [returned |-> 403, status |-> 0]}
=============================================================================
