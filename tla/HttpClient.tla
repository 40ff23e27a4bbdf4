----------------------------- MODULE HttpClient -----------------------------
(***************************************************************************)
(* ClientImpl: threads share one client and the socket that it keeps       *)
(* between requests.  A send holds request_mutex_ from beginning to end,   *)
(* and socket_mutex_ only while it opens or gives up the socket (each of   *)
(* these is one step); stop takes socket_mutex_ alone.  A redirect to the  *)
(* same server is a send within a send.                                    *)
(***************************************************************************)
EXTENDS Naturals, Sequences, FiniteSets, SequencesExt

CONSTANTS
  Threads,      \* threads that send
  MaxRedirects, \* CPPHTTPLIB_REDIRECT_MAX_COUNT, 20
  MaxSockets    \* bound of the checks: sockets created

NoSocket == 0
NoThread == "no thread"

ASSUME ClientAssumption ==
  /\ IsFiniteSet(Threads) /\ NoThread \notin Threads
  /\ MaxRedirects \in Nat /\ MaxSockets \in Nat

VARIABLES
  keepAlive,   \* keep_alive_
  frames,      \* the sends that each thread is in, the innermost one last
  holder,      \* the thread that holds request_mutex_
  socket,      \* socket_.sock
  created,     \* sockets created so far
  live,        \* those that are open
  shut,        \* those that were shut down
  hungUp,      \* those whose other end the server has closed
  inFlight,    \* socket_requests_in_flight_
  fromThread,  \* socket_requests_are_from_thread_
  shouldClose, \* socket_should_be_closed_when_request_is_done_
  stopAsked    \* history: stop came in a request, and no send has begun since

locked == <<inFlight, fromThread, shouldClose, stopAsked>>
sockets == <<socket, created, live, shut>>
clientVars == <<keepAlive, frames, holder, sockets, hungUp, locked>>

ClientInit ==
  /\ keepAlive \in BOOLEAN
  /\ frames = [t \in Threads |-> << >>] /\ holder = NoThread
  /\ socket = NoSocket /\ created = 0 /\ live = {} /\ shut = {} /\ hungUp = {}
  /\ inFlight = 0 /\ fromThread = NoThread /\ shouldClose = FALSE /\ stopAsked = FALSE

-----------------------------------------------------------------------------
Frame(redirects) == [at |-> "open", redirects |-> redirects, stream |-> NoSocket, ret |-> FALSE]

In(t, at) == frames[t] # << >> /\ Last(frames[t]).at = at

Set(t, frame) == frames' = [frames EXCEPT ![t] = Append(Front(@), frame)]
To(t, at) == Set(t, [Last(frames[t]) EXCEPT !.at = at])
Done(t, ret) == Set(t, [Last(frames[t]) EXCEPT !.at = "done", !.ret = ret])

ShutdownAndClose ==
  /\ socket' = NoSocket /\ live' = live \ {socket}
  /\ shut' = shut \cup ({socket} \ {NoSocket}) /\ UNCHANGED created

Send(t) ==
  /\ frames[t] = << >> /\ holder = NoThread /\ created < MaxSockets
  /\ holder' = t /\ frames' = [frames EXCEPT ![t] = <<Frame(MaxRedirects)>>]
  /\ UNCHANGED <<keepAlive, sockets, hungUp, locked>>

\* A kept socket at whose end something can be read, and that is nothing, is
\* taken for dead.
IsAlive == socket # NoSocket /\ socket \notin shut \cup hungUp

CreateAndConnect ==
  /\ created' = created + 1 /\ socket' = created + 1
  /\ live' = (live \ {socket}) \cup {created + 1}
  /\ shut' = shut \cup ({socket} \ {NoSocket})

\* The first part of send_.  When no connection can be made it returns, before
\* the request counts as in flight.
OpenSocket(t) ==
  /\ In(t, "open")
  /\ shouldClose' = FALSE /\ stopAsked' = FALSE
  /\ \/ /\ \/ IsAlive /\ UNCHANGED sockets
           \/ ~IsAlive /\ CreateAndConnect
        /\ inFlight' = inFlight + 1 /\ fromThread' = t
        /\ Set(t, [Last(frames[t]) EXCEPT !.at = "write", !.stream = socket'])
     \/ /\ ~IsAlive /\ ShutdownAndClose
        /\ Set(t, [Last(frames[t]) EXCEPT !.at = "return"])
        /\ UNCHANGED <<inFlight, fromThread>>
  /\ UNCHANGED <<keepAlive, holder, hungUp>>

WriteRequest(t) ==
  /\ In(t, "write")
  /\ \/ Done(t, FALSE)
     \/ Last(frames[t]).stream \notin shut /\ To(t, "read")
  /\ UNCHANGED <<keepAlive, holder, sockets, hungUp, locked>>

\* A response, which may announce that the connection is closed and may be a
\* redirect that is followed; 100 Continue is passed over.
ReadResponse(t) ==
  /\ In(t, "read")
  /\ \/ Done(t, FALSE)
     \/ /\ Last(frames[t]).stream \notin shut
        /\ \E at \in {"closing", "closing, redirected", "redirected"} : To(t, at)
     \/ Last(frames[t]).stream \notin shut /\ Done(t, TRUE)
  /\ UNCHANGED <<keepAlive, holder, sockets, hungUp, locked>>

CloseAfterResponse(t) ==
  /\ \/ In(t, "closing") /\ Done(t, TRUE)
     \/ In(t, "closing, redirected") /\ To(t, "redirected")
  /\ ShutdownAndClose
  /\ UNCHANGED <<keepAlive, holder, hungUp, locked>>

\* A redirect that is one too many, or leads nowhere; to the server of this
\* client; and to another one, for which there is another client.
Redirect(t) ==
  /\ In(t, "redirected")
  /\ \/ Done(t, FALSE)
     \/ /\ Last(frames[t]).redirects > 0 /\ created < MaxSockets
        /\ frames' = [frames EXCEPT ![t] = Append(@, Frame(Last(@).redirects - 1))]
     \/ Last(frames[t]).redirects > 0 /\ Done(t, TRUE)
  /\ UNCHANGED <<keepAlive, holder, sockets, hungUp, locked>>

\* send returns: to the redirect that it was called for, or to the caller.
Pop(t, ret) ==
  LET below == Front(frames[t]) IN
  /\ frames' = [frames EXCEPT ![t] =
       IF below = << >> THEN << >>
       ELSE Append(Front(below), [Last(below) EXCEPT !.at = "done", !.ret = ret])]
  /\ holder' = IF below = << >> THEN NoThread ELSE holder

ReturnUnsent(t) ==
  /\ In(t, "return") /\ Pop(t, FALSE)
  /\ UNCHANGED <<keepAlive, sockets, hungUp, locked>>

\* The scope_exit of send_.
Finish(t) ==
  /\ In(t, "done") /\ Pop(t, Last(frames[t]).ret)
  /\ inFlight' = inFlight - 1
  /\ fromThread' = IF inFlight = 1 THEN NoThread ELSE fromThread
  /\ IF shouldClose \/ ~keepAlive \/ ~Last(frames[t]).ret
     THEN ShutdownAndClose ELSE UNCHANGED sockets
  /\ UNCHANGED <<keepAlive, hungUp, shouldClose, stopAsked>>

\* Plausible bug: the socket is closed under the thread that uses it.
StopAtOnce == ShutdownAndClose /\ UNCHANGED <<keepAlive, frames, holder, hungUp, locked>>

\* stop, from any thread: under a request in flight the socket is only shut down.
Stop ==
  /\ \/ /\ inFlight > 0
        /\ shut' = shut \cup ({socket} \ {NoSocket})
        /\ shouldClose' = TRUE /\ stopAsked' = TRUE
        /\ UNCHANGED <<socket, created, live, inFlight, fromThread>>
     \/ inFlight = 0 /\ ShutdownAndClose /\ UNCHANGED locked
  /\ UNCHANGED <<keepAlive, frames, holder, hungUp>>

\* The server closes a connection.
HangUp ==
  /\ \E s \in live \ hungUp : hungUp' = hungUp \cup {s}
  /\ UNCHANGED <<keepAlive, frames, holder, sockets, locked>>

ClientNext ==
  \/ \E t \in Threads :
       \/ Send(t) \/ OpenSocket(t) \/ WriteRequest(t) \/ ReadResponse(t)
       \/ CloseAfterResponse(t) \/ Redirect(t) \/ ReturnUnsent(t) \/ Finish(t)
  \/ Stop \/ HangUp

-----------------------------------------------------------------------------
Frames == {f \in Threads \X (1..MaxRedirects + 1) : f[2] \in DOMAIN frames[f[1]]}

Idle == \A t \in Threads : frames[t] = << >>

(* The client has at most one socket, the one it knows of, and while a      *)
(* thread talks over a socket that one is open and the client's: nobody     *)
(* else closes or replaces it, whatever stop, other senders and redirects   *)
(* do.  The asserts about requests in flight hold.  A socket on which stop  *)
(* was called in a request is closed at its end, if no redirect has begun   *)
(* another since; and none is kept without keep-alive.                      *)
ClientOwnsItsSocket ==
  /\ live = {socket} \ {NoSocket}
  /\ \A t \in Threads : In(t, "write") \/ In(t, "read") => Last(frames[t]).stream \in live
  /\ inFlight = Cardinality({f \in Frames : frames[f[1]][f[2]].at \notin {"open", "return"}})
  /\ inFlight > 0 => fromThread = holder
  /\ inFlight = 0 /\ stopAsked => socket = NoSocket
  /\ Idle /\ ~keepAlive => socket = NoSocket
=============================================================================
