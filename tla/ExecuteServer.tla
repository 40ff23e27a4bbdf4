--------------------------- MODULE ExecuteServer ---------------------------
(***************************************************************************)
(* The whole service at once: requests in the pool's queue, workers that   *)
(* parse bodies with one shared Json::Reader, children that outlive their  *)
(* calls, scripts that post to the very server that runs them, and the two *)
(* signals.  One request per connection; the pool, the engine and the      *)
(* connections are those of ThreadPool, PythonEngine and ExampleServer, at *)
(* the grain that their interplay needs.  POSIX.                           *)
(***************************************************************************)
EXTENDS Naturals, Sequences, FiniteSets, Relation

CONSTANTS
  Workers,    \* the threads of the pool, five in main
  Requests,   \* requests, each with a body that names a script of its own
  Posts,      \* <<r, p>>: r's script posts p and waits for the answer
  Hanging     \* the requests whose scripts never end

NoRequest == "no request"
NullBody  == "null"

ASSUME ExecuteAssumption ==
  /\ IsFiniteSet(Workers) /\ Workers # {} /\ IsFiniteSet(Requests)
  /\ Posts \subseteq Requests \X Requests /\ Hanging \subseteq Requests
  /\ NoRequest \notin Requests /\ NullBody \notin Requests

VARIABLES
  main,     \* "serving", "signalled", "draining", "ok", "error" or "crashed"
  queue,    \* connections accepted and not yet taken
  phase,    \* what became of each request
  overlap,  \* history: the requests parsed while this one was
  body,     \* the request whose body a handler got out of the reader
  script,   \* the child of each request: "none", "running" or "ended"
  answer,   \* the status answered, 0 before
  poster    \* the request whose script posted this one

service == <<queue, overlap, body, poster>>
vars == <<main, queue, phase, overlap, body, script, answer, poster>>

Init ==
  /\ main = "serving" /\ queue = << >>
  /\ phase = [r \in Requests |-> "unsent"]
  /\ overlap = [r \in Requests |-> {}]
  /\ body = [r \in Requests |-> NullBody]
  /\ script = [r \in Requests |-> "none"]
  /\ answer = [r \in Requests |-> 0]
  /\ poster = [r \in Requests |-> NoRequest]

In(p)     == {r \in Requests : phase[r] = p}
InHand    == In("parsing") \cup In("parsed") \cup In("waiting")
Over      == main \in {"ok", "error", "crashed"}
Listening == main \in {"serving", "signalled"}
Settled   == In("answered") \cup In("closed")

-----------------------------------------------------------------------------
(* Clients, scripts among them.                                            *)

Queued(r) ==
  /\ Listening /\ phase[r] = "unsent"
  /\ phase' = [phase EXCEPT ![r] = "queued"]
  /\ queue' = Append(queue, r)
  /\ UNCHANGED <<main, overlap, body, script, answer>>

Arrive(r) == r \notin {p[2] : p \in Posts} /\ Queued(r) /\ UNCHANGED poster

Post(r, p) ==
  /\ script[r] = "running" /\ <<body[r], p>> \in Posts
  /\ Queued(p)
  /\ poster' = [poster EXCEPT ![p] = r]

\* A script ends when it has made its post, or found nobody listening, and has
\* an answer to it or has seen the connection close.
End(r) ==
  /\ script[r] = "running"
  /\ \A p \in Requests : /\ <<body[r], p>> \in Posts /\ Listening => phase[p] # "unsent"
                         /\ poster[p] = r => p \in Settled \/ Over
  /\ script' = [script EXCEPT ![r] = "ended"]
  /\ UNCHANGED <<main, phase, answer, service>>

-----------------------------------------------------------------------------
(* The workers.  A worker is free when fewer requests are in hand than     *)
(* there are workers.                                                      *)

Dequeue(r) ==
  /\ ~Over /\ queue # << >> /\ r = Head(queue)
  /\ Cardinality(InHand) < Cardinality(Workers)
  /\ queue' = Tail(queue)

\* The handler begins to parse, with the reader that others may be inside.
BeginParse(r) ==
  /\ Dequeue(r) /\ Listening
  /\ phase' = [phase EXCEPT ![r] = "parsing"]
  /\ overlap' = [q \in Requests |-> CASE q = r -> In("parsing")
                                      [] phase[q] = "parsing" -> overlap[q] \cup {r}
                                      [] OTHER -> overlap[q]]
  /\ UNCHANGED <<main, body, script, answer, poster>>

\* A connection taken after stop() is closed unread.
CloseUnread(r) ==
  /\ Dequeue(r) /\ ~Listening
  /\ phase' = [phase EXCEPT ![r] = "closed"]
  /\ UNCHANGED <<main, overlap, body, script, answer, poster>>

\* Plausible bug: workers leave when stop() is called, with connections queued.
TakeWhileListening(r) == BeginParse(r)

Take(r) == BeginParse(r) \/ CloseUnread(r)

\* The outcome of parses that race is undefined: any of the bodies, or none.
Outcomes(r) == IF overlap[r] = {} THEN {r} ELSE {r, NullBody} \cup overlap[r]

Parsed(r) ==
  /\ ~Over /\ phase[r] = "parsing"
  /\ \E b \in Outcomes(r) : body' = [body EXCEPT ![r] = b]
  /\ phase' = [phase EXCEPT ![r] = "parsed"]
  /\ UNCHANGED <<main, queue, overlap, script, answer, poster>>

ParseCrash(r) ==
  /\ ~Over /\ phase[r] = "parsing" /\ overlap[r] # {}
  /\ main' = "crashed"
  /\ UNCHANGED <<phase, script, answer, service>>

Answered(r, code) ==
  /\ phase' = [phase EXCEPT ![r] = "answered"]
  /\ answer' = [answer EXCEPT ![r] = code]

\* A body that names no file is answered 400, a failed spawn 500.
Refuse(r) ==
  /\ ~Over /\ phase[r] = "parsed"
  /\ Answered(r, IF body[r] = NullBody THEN 400 ELSE 500)
  /\ UNCHANGED <<main, script, service>>

Spawn(r) ==
  /\ ~Over /\ phase[r] = "parsed" /\ body[r] # NullBody
  /\ script' = [script EXCEPT ![r] = "running"]
  /\ phase' = [phase EXCEPT ![r] = "waiting"]
  /\ UNCHANGED <<main, answer, service>>

Wait(r) ==
  /\ ~Over /\ phase[r] = "waiting" /\ script[r] = "ended"
  /\ Answered(r, 200)
  /\ UNCHANGED <<main, script, service>>

-----------------------------------------------------------------------------
(* main and the signals.                                                   *)

\* The first signal clears main's flag; the thread that takes it may be one
\* inside waitpid, which then fails.
Signal ==
  /\ main = "serving" /\ main' = "signalled"
  /\ \/ \E r \in In("waiting") : Answered(r, 500)
     \/ UNCHANGED <<phase, answer>>
  /\ UNCHANGED <<script, service>>

\* The second calls exit(1), whatever the workers are at.
SignalAgain ==
  /\ main \in {"signalled", "draining"} /\ main' = "error"
  /\ UNCHANGED <<phase, script, answer, service>>

Stop ==
  /\ main = "signalled" /\ main' = "draining"
  /\ UNCHANGED <<phase, script, answer, service>>

\* Plausible bug: shutdown() does not wait for the workers.
DrainedAtOnce ==
  /\ main = "draining" /\ queue = << >>
  /\ main' = "ok"
  /\ UNCHANGED <<phase, script, answer, service>>

\* The listening thread ends when the pool has shut down.
Drained ==
  /\ main = "draining" /\ queue = << >> /\ InHand = {}
  /\ main' = "ok"
  /\ UNCHANGED <<phase, script, answer, service>>

Request(r) == Parsed(r) \/ Refuse(r) \/ Spawn(r) \/ Wait(r)

Next == \/ Signal \/ SignalAgain \/ Stop \/ Drained
        \/ \E r \in Requests : \/ Arrive(r) \/ Take(r) \/ Request(r) \/ ParseCrash(r) \/ End(r)
                               \/ \E p \in Requests : Post(r, p)

Spec == Init /\ [][Next]_vars

\* Threads keep running, and so do scripts that are not in Hanging.
FairSpec ==
  /\ Spec
  /\ WF_vars(\E r \in Requests : Take(r)) /\ WF_vars(Stop) /\ WF_vars(Drained)
  /\ \A r \in Requests :
       /\ WF_vars(Request(r)) /\ WF_vars(body[r] \notin Hanging /\ End(r))
       /\ \A p \in Requests : WF_vars(Post(r, p))

-----------------------------------------------------------------------------
Running == {r \in Requests : script[r] = "running"}

(* A server that exits with 0 leaves at most one script behind, the one     *)
(* whose waitpid the first signal interrupted: stop() and join wait for all *)
(* the others.                                                              *)
CleanExitOrphans ==
  main = "ok" => Cardinality(Running) <= 1 /\ \A r \in Running : answer[r] = 500

\* r's script waits for an answer to p.
AwaitsAnswer(r, p) == poster[p] = r /\ script[r] = "running" /\ p \notin Settled

Awaits == TransitiveClosure([r, p \in Requests |-> AwaitsAnswer(r, p)], Requests)

Blocked(r) == r \in Running /\ (body[r] \in Hanging \/ \E p \in Requests : AwaitsAnswer(r, p))

\* A request that waits, however indirectly, for a script that hangs.
Doomed(r) ==
  \E h \in Running :
    body[h] \in Hanging /\ (h = r \/ Awaits[r, h])

(* Every accepted request is answered, or closed by a stop, unless it waits *)
(* for a script that hangs, or the server has run out of threads: all of    *)
(* them wait for scripts that hang or that have posted to this server.      *)
AcceptedIsAnswered ==
  \A r \in Requests :
    phase[r] = "queued" ~>
      \/ r \in Settled \/ Over \/ Doomed(r)
      \/ In("waiting") = InHand /\ Cardinality(InHand) = Cardinality(Workers)
         /\ \A q \in InHand : Blocked(q)

(* The child that a request creates runs the script that the request names. *)
RunsItsOwnScript == \A r \in Requests : script[r] # "none" => body[r] = r
=============================================================================
