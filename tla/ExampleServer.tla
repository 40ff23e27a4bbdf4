--------------------------- MODULE ExampleServer ---------------------------
(***************************************************************************)
(* The life of the example server: main, the listening thread that main    *)
(* starts, the connections the pool's workers serve, and the signals that  *)
(* end it all.  The pool is used as the queue that JobQueue specifies; a   *)
(* request is opaque: it keeps its worker until the engine answers.        *)
(***************************************************************************)
EXTENDS Naturals, Sequences, FiniteSets

CONSTANTS
  Conns,         \* connections clients may make
  PoolSize,      \* 5 in main
  KeepAliveMax,  \* keep_alive_max_count_, 5 by default
  MaxSignals,    \* how many SIGINT or SIGTERM arrive at most
  Ending         \* the connections whose requests the engine answers at last

ASSUME ServerAssumption ==
  /\ PoolSize \in Nat \ {0} /\ KeepAliveMax \in Nat \ {0} /\ MaxSignals \in Nat
  /\ Ending \subseteq Conns

VARIABLES
  main,         \* what main is at
  exit,         \* "alive", "ok" (0), "error" (1), "killed" or "aborted"
  running,      \* main's flag, cleared by the first signal
  terminating,  \* is_terminating
  signals,      \* signals so far
  listener,     \* the thread t
  isRunning,    \* is_running_
  svrSock,      \* svr_sock_: "none", "valid" or "invalid"
  listening,    \* is the descriptor behind it open?
  closes,       \* history: how often its number has been closed
  acceptFailed, \* history: accept failed for good on the open descriptor
  conn,         \* where each connection is
  queue,        \* connections accepted and not yet taken by a worker
  served,       \* requests begun on each connection
  late          \* history: those begun after svr_sock_ became invalid

mainVars     == <<main, running>>
exitVars     == <<exit, terminating, signals>>
listenerVars == <<listener, isRunning, acceptFailed>>
sockVars     == <<svrSock, listening, closes>>
connVars     == <<conn, queue, served, late>>
vars == <<mainVars, exitVars, listenerVars, sockVars, connVars>>

Init ==
  /\ main = "construct" /\ exit = "alive" /\ running = TRUE
  /\ terminating = FALSE /\ signals = 0
  /\ listener = "none" /\ isRunning = FALSE /\ acceptFailed = FALSE
  /\ svrSock = "none" /\ listening = FALSE /\ closes = 0
  /\ conn = [c \in Conns |-> "absent"] /\ queue = << >>
  /\ served = [c \in Conns |-> 0] /\ late = [c \in Conns |-> 0]

-----------------------------------------------------------------------------
(* main                                                                    *)

MainAt(from, to) == exit = "alive" /\ main = from /\ main' = to

\* The constructor of Server loads the engine; what it throws is not caught.
Construct ==
  /\ \/ MainAt("construct", "bind") /\ UNCHANGED exit
     \/ MainAt("construct", "over") /\ exit' = "aborted"
  /\ UNCHANGED <<running, terminating, signals, listenerVars, sockVars, connVars>>

\* bind_to_port binds and listens: from here on clients can connect.
Bind ==
  /\ \/ /\ MainAt("bind", "thread")
        /\ svrSock' = "valid" /\ listening' = TRUE /\ UNCHANGED exit
     \/ /\ MainAt("bind", "over")
        /\ exit' = "error" /\ UNCHANGED <<svrSock, listening>>
  /\ UNCHANGED <<running, terminating, signals, closes, listenerVars, connVars>>

StartThread ==
  /\ MainAt("thread", "handlers")
  /\ listener' = "created"
  /\ UNCHANGED <<running, exitVars, isRunning, acceptFailed, sockVars, connVars>>

InstallHandlers ==
  /\ MainAt("handlers", "loop")
  /\ UNCHANGED <<running, exitVars, listenerVars, sockVars, connVars>>

LeaveLoop ==
  /\ MainAt("loop", "stop") /\ ~running
  /\ UNCHANGED <<running, exitVars, listenerVars, sockVars, connVars>>

\* Mutant of TestRunning: the test is inverted.
TestRunningInverted ==
  /\ MainAt("stop", IF isRunning THEN "join" ELSE "exchange")
  /\ UNCHANGED <<running, exitVars, listenerVars, sockVars, connVars>>

\* stop(): nothing happens unless the listener is in its loop.
TestRunning ==
  /\ MainAt("stop", IF isRunning THEN "exchange" ELSE "join")
  /\ UNCHANGED <<running, exitVars, listenerVars, sockVars, connVars>>

ResetBacklog ==
  conn' = [c \in Conns |-> IF conn[c] = "backlog" THEN "reset" ELSE conn[c]]

\* Mutant of Exchange: the descriptor is read from svr_sock_, which keeps it.
ExchangeKeepsValue ==
  /\ MainAt("exchange", "close")
  /\ UNCHANGED <<running, exitVars, listenerVars, sockVars, connVars>>

\* The atomic exchange of svr_sock_ with INVALID_SOCKET.
Exchange ==
  /\ MainAt("exchange", "close")
  /\ svrSock' = "invalid"
  /\ UNCHANGED <<running, exitVars, listenerVars, listening, closes, connVars>>

CloseSocket ==
  /\ MainAt("close", "join")
  /\ listening' = FALSE /\ closes' = closes + 1
  /\ ResetBacklog
  /\ UNCHANGED <<running, exitVars, listenerVars, svrSock, queue, served, late>>

Join ==
  /\ MainAt("join", "over") /\ listener = "done" /\ exit' = "ok"
  /\ UNCHANGED <<running, terminating, signals, listenerVars, sockVars, connVars>>

Main == Construct \/ Bind \/ StartThread \/ InstallHandlers \/ LeaveLoop
          \/ TestRunning \/ Exchange \/ CloseSocket \/ Join

\* Before the handlers are installed a signal kills; the first after that clears
\* running; any other exits at once, from whatever thread it came to.
Signal ==
  /\ exit = "alive" /\ signals < MaxSignals /\ signals' = signals + 1
  /\ LET early == main \in {"construct", "bind", "thread", "handlers"}
     IN  /\ exit' = IF early THEN "killed" ELSE IF terminating THEN "error" ELSE exit
         /\ running' = (running /\ (early \/ terminating))
         /\ terminating' = (terminating \/ ~early)
  /\ UNCHANGED <<main, listenerVars, sockVars, connVars>>

-----------------------------------------------------------------------------
(* The listening thread: listen_internal.                                  *)

ListenerAt(from, to) == exit = "alive" /\ listener = from /\ listener' = to

EnterLoop ==
  /\ ListenerAt("created", "loop")
  /\ isRunning' = TRUE
  /\ UNCHANGED <<mainVars, exitVars, acceptFailed, sockVars, connVars>>

\* The test at the head of the loop: stop() has not been called, or it has.
TestSocket ==
  /\ ListenerAt("loop", IF svrSock = "valid" THEN "load" ELSE "drain")
  /\ UNCHANGED <<mainVars, exitVars, isRunning, acceptFailed, sockVars, connVars>>

\* svr_sock_ is read once more, for accept; no descriptor has the invalid number.
LoadSocket ==
  /\ ListenerAt("load", IF svrSock = "valid" THEN "call" ELSE "failed")
  /\ UNCHANGED <<mainVars, exitVars, isRunning, acceptFailed, sockVars, connVars>>

\* accept blocks, or the number it is called with has been closed meanwhile: it
\* fails then, even if another file has got the number, none being a listening socket.
CallAccept ==
  /\ ListenerAt("call", IF listening THEN "accepting" ELSE "failed")
  /\ UNCHANGED <<mainVars, exitVars, isRunning, acceptFailed, sockVars, connVars>>

Accept(c) ==
  /\ ListenerAt("accepting", "loop") /\ listening
  /\ conn[c] = "backlog"
  /\ conn' = [conn EXCEPT ![c] = "queued"]
  /\ queue' = Append(queue, c)
  /\ UNCHANGED <<mainVars, exitVars, isRunning, acceptFailed, sockVars, served, late>>

\* EMFILE, EINTR or EAGAIN: the loop goes on.
AcceptRetry ==
  /\ ListenerAt("accepting", "loop")
  /\ UNCHANGED <<mainVars, exitVars, isRunning, acceptFailed, sockVars, connVars>>

\* Any other error: the descriptor has been shut down under the call, or accept
\* has failed by itself.
AcceptFails ==
  /\ ListenerAt("accepting", "failed")
  /\ acceptFailed' = (acceptFailed \/ listening)
  /\ UNCHANGED <<mainVars, exitVars, isRunning, sockVars, connVars>>

\* If svr_sock_ is still valid after an error, the listener closes it ...
TestFailed ==
  /\ ListenerAt("failed", IF svrSock = "valid" THEN "condemned" ELSE "drain")
  /\ UNCHANGED <<mainVars, exitVars, isRunning, acceptFailed, sockVars, connVars>>

\* ... with the number that it finds when it reads it again ...
LoadFailed ==
  /\ ListenerAt("condemned", IF svrSock = "valid" THEN "closing" ELSE "drain")
  /\ UNCHANGED <<mainVars, exitVars, isRunning, acceptFailed, sockVars, connVars>>

\* ... and svr_sock_ keeps its value.
CloseFailed ==
  /\ ListenerAt("closing", "drain")
  /\ listening' = FALSE /\ closes' = closes + 1
  /\ ResetBacklog
  /\ UNCHANGED <<mainVars, exitVars, isRunning, acceptFailed, svrSock, queue, served, late>>

With(states) == {c \in Conns : conn[c] \in states}
InWork == With({"taken", "idle", "busy"})

\* Mutant of Drained: the pool is not joined.
DrainedNot ==
  /\ ListenerAt("drain", "done")
  /\ isRunning' = FALSE
  /\ UNCHANGED <<mainVars, exitVars, acceptFailed, sockVars, connVars>>

\* task_queue->shutdown(): every accepted connection is worked off first.
Drained ==
  /\ ListenerAt("drain", "done") /\ queue = << >> /\ InWork = {}
  /\ isRunning' = FALSE
  /\ UNCHANGED <<mainVars, exitVars, acceptFailed, sockVars, connVars>>

-----------------------------------------------------------------------------
(* A connection: process_server_socket_core, on a worker of the pool.      *)

ConnAt(c, from, to) == /\ exit = "alive" /\ conn[c] = from
                       /\ conn' = [conn EXCEPT ![c] = to]

Connect(c) ==
  /\ ConnAt(c, "absent", "backlog") /\ listening
  /\ UNCHANGED <<mainVars, exitVars, listenerVars, sockVars, queue, served, late>>

\* Mutant of Take: a pool of one thread.
TakeOne(c) ==
  /\ ConnAt(c, "queued", "taken")
  /\ c = Head(queue) /\ queue' = Tail(queue)
  /\ InWork = {}
  /\ UNCHANGED <<mainVars, exitVars, listenerVars, sockVars, served, late>>

Take(c) ==
  /\ ConnAt(c, "queued", "taken")
  /\ c = Head(queue) /\ queue' = Tail(queue)
  /\ Cardinality(InWork) < PoolSize
  /\ UNCHANGED <<mainVars, exitVars, listenerVars, sockVars, served, late>>

\* Mutant of KeepAlive: only the count ends a connection.
KeepAliveForgetsStop(c) ==
  /\ ConnAt(c, "taken", IF served[c] < KeepAliveMax THEN "idle" ELSE "closed")
  /\ UNCHANGED <<mainVars, exitVars, listenerVars, sockVars, queue, served, late>>

\* Mutant of KeepAlive: the count is tested too late by one.
KeepAliveOneMore(c) ==
  /\ ConnAt(c, "taken", IF svrSock # "invalid" /\ served[c] <= KeepAliveMax
                        THEN "idle" ELSE "closed")
  /\ UNCHANGED <<mainVars, exitVars, listenerVars, sockVars, queue, served, late>>

\* The head of the loop; then keep_alive waits for the next request.
KeepAlive(c) ==
  /\ ConnAt(c, "taken", IF svrSock # "invalid" /\ served[c] < KeepAliveMax
                        THEN "idle" ELSE "closed")
  /\ UNCHANGED <<mainVars, exitVars, listenerVars, sockVars, queue, served, late>>

\* Nothing comes in time, or the client has gone.
GiveUp(c) ==
  /\ ConnAt(c, "idle", "closed")
  /\ UNCHANGED <<mainVars, exitVars, listenerVars, sockVars, queue, served, late>>

Request(c) ==
  /\ ConnAt(c, "idle", "busy")
  /\ served' = [served EXCEPT ![c] = @ + 1]
  /\ late' = IF svrSock = "invalid" THEN [late EXCEPT ![c] = @ + 1] ELSE late
  /\ UNCHANGED <<mainVars, exitVars, listenerVars, sockVars, queue>>

\* The response is written; the connection may be closed by it.
Respond(c) ==
  /\ ConnAt(c, "busy", "taken") \/ ConnAt(c, "busy", "closed")
  /\ UNCHANGED <<mainVars, exitVars, listenerVars, sockVars, queue, served, late>>

Next == \/ Main \/ Signal
        \/ EnterLoop \/ TestSocket \/ LoadSocket \/ CallAccept \/ AcceptRetry
        \/ AcceptFails \/ TestFailed \/ LoadFailed \/ CloseFailed \/ Drained
        \/ \E c \in Conns : \/ Accept(c) \/ Connect(c) \/ Take(c) \/ KeepAlive(c)
                            \/ GiveUp(c) \/ Request(c) \/ Respond(c)

Spec == Init /\ [][Next]_vars

\* Threads keep running, a shutdown ends a waiting accept, keep_alive gives up after
\* its time; clients and signals owe nothing, and a request ends only if its
\* connection is in Ending.
FairSpec ==
  /\ Spec
  /\ WF_vars(Main) /\ WF_vars(EnterLoop) /\ WF_vars(TestSocket) /\ WF_vars(LoadSocket)
  /\ WF_vars(CallAccept) /\ WF_vars(~listening /\ AcceptFails) /\ WF_vars(TestFailed)
  /\ WF_vars(LoadFailed) /\ WF_vars(CloseFailed) /\ WF_vars(Drained)
  /\ \A c \in Conns : /\ WF_vars(Take(c)) /\ WF_vars(KeepAlive(c)) /\ WF_vars(GiveUp(c))
                      /\ WF_vars(c \in Ending /\ Respond(c))

-----------------------------------------------------------------------------
TypeOK ==
  /\ main \in {"construct", "bind", "thread", "handlers", "loop", "stop", "exchange",
               "close", "join", "over"}
  /\ exit \in {"alive", "ok", "error", "killed", "aborted"}
  /\ running \in BOOLEAN /\ terminating \in BOOLEAN /\ signals \in 0..MaxSignals
  /\ listener \in {"none", "created", "loop", "load", "call", "accepting", "failed",
                   "condemned", "closing", "drain", "done"}
  /\ isRunning \in BOOLEAN /\ acceptFailed \in BOOLEAN
  /\ svrSock \in {"none", "valid", "invalid"} /\ listening \in BOOLEAN /\ closes \in 0..2
  /\ conn \in [Conns -> {"absent", "backlog", "queued", "taken", "idle", "busy",
                         "closed", "reset"}]
  /\ queue \in Seq(Conns)
  /\ served \in [Conns -> 0..KeepAliveMax] /\ late \in [Conns -> 0..KeepAliveMax]

(* A server that exits with 0 has abandoned nothing: no connection waits in *)
(* the queue, none has a request half done.                                 *)
CleanExitIsDrained ==
  exit = "ok" => queue = << >> /\ With({"backlog", "queued", "taken", "idle", "busy"}) = {}

(* After stop() a kept-alive connection may still have one request served,  *)
(* because the test of svr_sock_ comes before the wait, but never a second. *)
AtMostOneLateRequest == \A c \in Conns : late[c] <= 1

(* The number of the listening descriptor is closed a second time, when it  *)
(* may name another file, only if accept had failed on the open descriptor: *)
(* neither an accept that stop() interrupts closes it again, nor one that   *)
(* is called with the number when stop() has already closed it.             *)
SecondCloseNeedsFailure == closes > 1 => acceptFailed

PhaseOf(c) == CASE conn[c] \in {"absent", "backlog", "queued"} -> "waiting"
                [] conn[c] \in {"taken", "idle", "busy"} -> conn[c]
                [] conn[c] \in {"closed", "reset"} -> "closed"

Connection(c) == INSTANCE ServedConnection
  WITH phase <- PhaseOf(c), served <- served[c], stopped <- (svrSock = "invalid")

(* What this module assumes of a connection is what HttpConnection does:    *)
(* both implement ServedConnection.                                         *)
ServesConnections ==
  /\ \A c \in Conns : Connection(c)!Init
  /\ [][\A c \in Conns : [Connection(c)!Next]_(Connection(c)!vars)]_vars

(* stop() does nothing, and leaves main to wait in join, only if the        *)
(* listening thread has not yet set is_running_ or has come to its end.     *)
StopClosesRunningListener ==
  [][main = "stop" /\ main' = "join" => listener \in {"created", "done"}]_vars

(* A signal that finds the handlers installed and the listening thread past *)
(* the start of its loop ends the process, unless a request that hangs in   *)
(* the engine keeps it.  The thread may also have ended by itself: main     *)
(* ignores that and polls on, but the signal still brings it to an end.     *)
SignalStopsReadyServer ==
  main = "loop" /\ terminating /\ listener \notin {"none", "created"}
    ~> exit # "alive" \/ \E c \in Conns \ Ending : conn[c] = "busy"

(* As long as fewer connections hang in the engine than the pool has        *)
(* threads, every other accepted connection is worked off, or the process   *)
(* ends.                                                                    *)
AcceptedIsWorkedOff ==
  Cardinality(Conns \ Ending) < PoolSize =>
    \A c \in Ending : conn[c] = "queued" ~> conn[c] = "closed" \/ exit # "alive"
=============================================================================
