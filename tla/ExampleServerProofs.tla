------------------------ MODULE ExampleServerProofs ------------------------
(***************************************************************************)
(* Theorems about ExampleServer, for any set of connections, any size of   *)
(* the pool, any limit on keep-alive and any number of signals.            *)
(***************************************************************************)
EXTENDS ExampleServer, TLAPS

(***************************************************************************)
(* The inductive invariant.  None of the safety properties is inductive:   *)
(* that a clean exit abandons nothing needs to know by which way the       *)
(* listening thread came to its end, and why the descriptor's number is    *)
(* closed twice needs to know who has closed it, and what the listener has *)
(* in hand while svr_sock_ changes.                                        *)
(***************************************************************************)

\* The types, with the bounds on counters that hold by themselves.
Typed ==
  /\ main \in {"construct", "bind", "thread", "handlers", "loop", "stop", "exchange",
               "close", "join", "over"}
  /\ exit \in {"alive", "ok", "error", "killed", "aborted"}
  /\ running \in BOOLEAN /\ terminating \in BOOLEAN /\ signals \in 0..MaxSignals
  /\ listener \in {"none", "created", "loop", "load", "call", "accepting", "failed",
                   "condemned", "closing", "drain", "done"}
  /\ isRunning \in BOOLEAN /\ acceptFailed \in BOOLEAN
  /\ svrSock \in {"none", "valid", "invalid"} /\ listening \in BOOLEAN /\ closes \in Nat
  /\ conn \in [Conns -> {"absent", "backlog", "queued", "taken", "idle", "busy",
                         "closed", "reset"}]
  /\ queue \in Seq(Conns)
  /\ served \in [Conns -> Nat] /\ late \in [Conns -> Nat]

\* Where main stands says what has become of svr_sock_ and the thread.
MainKnows ==
  /\ main \in {"construct", "bind"} => svrSock = "none"
  /\ main \in {"thread", "handlers", "loop", "stop", "exchange"} => svrSock = "valid"
  /\ main = "close" => svrSock = "invalid"
  /\ main = "join" => svrSock # "none"
  /\ main \in {"construct", "bind", "thread"} => listener = "none"
  /\ main \in {"handlers", "loop", "stop", "exchange", "close", "join"} => listener # "none"
  /\ exit = "ok" => main = "over" /\ listener = "done"

\* The thread is in its loop while is_running_ is set, and it ends for a reason.
ListenerKnows ==
  /\ listener # "none" => svrSock # "none"
  /\ isRunning <=> listener \notin {"none", "created", "done"}
  /\ acceptFailed => listener \in {"failed", "condemned", "closing", "drain", "done"}
  /\ listener \in {"failed", "drain", "done"} => acceptFailed \/ svrSock = "invalid"
  /\ listener \in {"condemned", "closing"} => acceptFailed

\* stop() has closed the descriptor.
ClosedByStop == main \in {"join", "over"} /\ svrSock = "invalid"

\* Who has closed the descriptor, and what it means for the kernel's backlog.
Descriptor ==
  /\ \/ closes = IF ClosedByStop THEN 1 ELSE 0
     \/ /\ closes = IF ClosedByStop THEN 2 ELSE 1
        /\ acceptFailed /\ listener \in {"drain", "done"}
  /\ listener \in {"drain", "done"} /\ svrSock = "valid" => closes = 1
  /\ listening <=> svrSock # "none" /\ closes = 0
  /\ \A c \in Conns : conn[c] = "backlog" => listening

\* The queue holds the queued connections, each once.
QueueHolds ==
  /\ \A i \in 1..Len(queue) : conn[queue[i]] = "queued"
  /\ \A c \in Conns : conn[c] = "queued" => \E i \in 1..Len(queue) : queue[i] = c
  /\ \A i, j \in 1..Len(queue) : queue[i] = queue[j] => i = j

DoneMeansDrained ==
  listener = "done" => queue = << >> /\ \A c \in Conns : conn[c] \notin {"taken", "idle", "busy"}

\* How many requests a connection may have had at each point.
Counted ==
  \A c \in Conns :
    /\ served[c] <= KeepAliveMax /\ late[c] <= 1
    /\ conn[c] = "idle" => served[c] < KeepAliveMax /\ late[c] = 0
    /\ svrSock # "invalid" => late[c] = 0

IInv == /\ Typed /\ MainKnows /\ ListenerKnows /\ Descriptor
        /\ QueueHolds /\ DoneMeansDrained /\ Counted

-----------------------------------------------------------------------------
\* The invariant holds before main constructs the server.
LEMMA InitIInv == Init => IInv
<1> SUFFICES ASSUME Init PROVE IInv
  OBVIOUS
<1>1. << >> \in Seq(Conns) /\ Len(<< >>) = 0
  OBVIOUS
<1>2. /\ conn \in [Conns -> {"absent", "backlog", "queued", "taken", "idle", "busy",
                              "closed", "reset"}]
      /\ served \in [Conns -> Nat] /\ late \in [Conns -> Nat]
  BY DEF Init
<1>3. signals \in 0..MaxSignals
  BY ServerAssumption DEF Init
<1>4. Typed
  BY <1>1, <1>2, <1>3 DEF Init, Typed
<1> QED
  BY <1>1, <1>4, ServerAssumption
     DEF Init, IInv, MainKnows, ListenerKnows, Descriptor, ClosedByStop, QueueHolds,
         DoneMeansDrained, Counted

\* The steps of the listening thread that leave the descriptor and the queue alone.
Listens == \/ EnterLoop \/ TestSocket \/ LoadSocket \/ CallAccept \/ AcceptRetry
           \/ AcceptFails \/ TestFailed \/ LoadFailed \/ Drained

\* Steps keep the types; that a worker never takes from an empty queue is why the
\* invariant of the queue is needed.
LEMMA NextTyped == Typed /\ QueueHolds /\ [Next]_vars => Typed'
<1> SUFFICES ASSUME Typed, QueueHolds, [Next]_vars PROVE Typed'
  OBVIOUS
<1> USE DEF Typed, mainVars, exitVars, listenerVars, sockVars, connVars
<1>1. CASE Construct \/ StartThread \/ InstallHandlers \/ LeaveLoop \/ TestRunning \/ Join
  BY <1>1 DEF MainAt, Construct, StartThread, InstallHandlers, LeaveLoop, TestRunning, Join
<1>2. CASE Bind \/ Exchange
  BY ZenonT(40), <1>2 DEF MainAt, Bind, Exchange
<1>3. ResetBacklog => conn' \in [Conns -> {"absent", "backlog", "queued", "taken", "idle",
                                           "busy", "closed", "reset"}]
  BY DEF ResetBacklog
<1>4. CASE CloseSocket
  <2>1. conn' \in [Conns -> {"absent", "backlog", "queued", "taken", "idle", "busy", "closed",
                             "reset"}]
    BY <1>3, <1>4 DEF CloseSocket
  <2>2. closes' \in Nat
    BY <1>4 DEF CloseSocket
  <2>3. UNCHANGED <<exit, running, terminating, signals, listener, isRunning, acceptFailed,
                    svrSock, queue, served, late>> /\ main' = "join" /\ listening' = FALSE
    BY <1>4 DEF CloseSocket, MainAt
  <2> QED BY <2>1, <2>2, <2>3
<1>5. CASE CloseFailed
  <2>1. conn' \in [Conns -> {"absent", "backlog", "queued", "taken", "idle", "busy", "closed",
                             "reset"}]
    BY <1>3, <1>5 DEF CloseFailed
  <2>2. closes' \in Nat
    BY <1>5 DEF CloseFailed
  <2>3. UNCHANGED <<exit, running, terminating, signals, main, isRunning, acceptFailed,
                    svrSock, queue, served, late>>
        /\ listener' = "drain" /\ listening' = FALSE
    BY <1>5 DEF CloseFailed, ListenerAt
  <2> QED BY <2>1, <2>2, <2>3
<1>6. CASE Signal
  BY <1>6, ServerAssumption DEF Signal
<1>7. CASE Listens
  <2>1. UNCHANGED <<main, running, exit, terminating, signals, svrSock, listening, closes, conn,
                    queue, served, late>>
    BY <1>7 DEF Listens, EnterLoop, TestSocket, LoadSocket, CallAccept, AcceptRetry, AcceptFails,
                TestFailed, LoadFailed, Drained
  <2>2. /\ isRunning' \in BOOLEAN /\ acceptFailed' \in BOOLEAN
        /\ listener' \in {"loop", "load", "call", "accepting", "failed", "condemned", "closing",
                          "drain", "done"}
    <3>1. CASE EnterLoop \/ TestSocket \/ LoadSocket \/ CallAccept \/ AcceptRetry
      BY <3>1 DEF EnterLoop, TestSocket, LoadSocket, CallAccept, AcceptRetry, ListenerAt
    <3>2. CASE AcceptFails \/ TestFailed \/ LoadFailed \/ Drained
      BY <3>2 DEF AcceptFails, TestFailed, LoadFailed, Drained, ListenerAt
    <3> QED BY <1>7, <3>1, <3>2 DEF Listens
  <2> QED BY <2>1, <2>2
<1>8. ASSUME NEW c \in Conns, Accept(c) PROVE Typed'
  BY <1>8 DEF Accept, ListenerAt
<1>9. ASSUME NEW c \in Conns, Take(c) PROVE Typed'
  <2>1. queue # << >>
    BY <1>9 DEF Take, ConnAt, QueueHolds
  <2>2. Tail(queue) \in Seq(Conns)
    BY <2>1
  <2> QED BY <1>9, <2>2 DEF Take, ConnAt
<1>10. ASSUME NEW c \in Conns, Connect(c) PROVE Typed'
  BY <1>10 DEF Connect, ConnAt
<1>15. ASSUME NEW c \in Conns, GiveUp(c) PROVE Typed'
  BY <1>15 DEF GiveUp, ConnAt
<1>11. ASSUME NEW c \in Conns, KeepAlive(c) PROVE Typed'
  BY <1>11 DEF KeepAlive, ConnAt
<1>12. ASSUME NEW c \in Conns, Respond(c) PROVE Typed'
  <2>1. CASE ConnAt(c, "busy", "taken")
    BY <1>12, <2>1 DEF Respond, ConnAt
  <2>2. CASE ConnAt(c, "busy", "closed")
    BY <1>12, <2>2 DEF Respond, ConnAt
  <2> QED BY <1>12, <2>1, <2>2 DEF Respond
<1>13. ASSUME NEW c \in Conns, Request(c) PROVE Typed'
  BY <1>13 DEF Request, ConnAt
<1>14. CASE UNCHANGED vars
  BY <1>14 DEF vars
<1> QED BY <1>1, <1>2, <1>4, <1>5, <1>6, <1>7, <1>8, <1>9, <1>10, <1>11, <1>12, <1>13, <1>14, <1>15
        DEF Next, Main, Listens

\* What a step of main, of the listening thread or of a connection leaves alone.
ControlVars == <<main, exit, listener, isRunning, acceptFailed, svrSock>>

ConnSteps(c) == \/ Connect(c) \/ Take(c) \/ KeepAlive(c) \/ GiveUp(c) \/ Request(c)
                \/ Respond(c)

\* What happens on a connection leaves main, the thread and the descriptor alone.
LEMMA ConnStepsKeepControl ==
  ASSUME NEW c \in Conns, ConnSteps(c)
  PROVE  UNCHANGED <<ControlVars, listening, closes>> /\ exit = "alive"
BY DEF ConnSteps, ControlVars, Connect, Take, KeepAlive, GiveUp, Request, Respond, ConnAt,
       mainVars, exitVars, listenerVars, sockVars

\* Steps keep what main's and the thread's positions say of each other.
LEMMA NextControl ==
  ASSUME Typed, MainKnows, ListenerKnows, Descriptor, [Next]_vars
  PROVE  MainKnows' /\ ListenerKnows'
<1> USE DEF MainKnows, ListenerKnows, mainVars, exitVars, listenerVars, sockVars, connVars
<1>1. CASE Construct
  BY <1>1 DEF Construct, MainAt
<1>2. CASE Bind
  BY <1>2 DEF Bind, MainAt
<1>3. CASE StartThread
  BY <1>3 DEF StartThread, MainAt
<1>4. CASE InstallHandlers \/ LeaveLoop
  BY <1>4 DEF InstallHandlers, LeaveLoop, MainAt
<1>5. CASE TestRunning
  BY <1>5 DEF TestRunning, MainAt
<1>6. CASE Exchange
  BY <1>6 DEF Exchange, MainAt
<1>7. CASE CloseSocket
  BY <1>7 DEF CloseSocket, MainAt
<1>8. CASE Join
  BY <1>8 DEF Join, MainAt
<1>9. CASE Signal
  <2>1. /\ exit' # "ok"
        /\ UNCHANGED <<main, listener, isRunning, acceptFailed, svrSock>>
    BY <1>9 DEF Signal
  <2> QED BY <2>1
<1>10. CASE EnterLoop \/ TestSocket \/ LoadSocket \/ AcceptRetry
  BY <1>10 DEF EnterLoop, TestSocket, LoadSocket, AcceptRetry, ListenerAt, Typed
<1>11. CASE CallAccept
  <2>1. ~listening => svrSock = "invalid"
    BY <1>11 DEF CallAccept, ListenerAt, Descriptor, ClosedByStop, Typed
  <2> QED BY <1>11, <2>1 DEF CallAccept, ListenerAt
<1>12. CASE AcceptFails
  <2>1. ~listening => svrSock = "invalid"
    BY <1>12 DEF AcceptFails, ListenerAt, Descriptor, ClosedByStop, Typed
  <2> QED BY <1>12, <2>1 DEF AcceptFails, ListenerAt, Typed
<1>13. CASE TestFailed \/ LoadFailed \/ CloseFailed
  BY <1>13 DEF TestFailed, LoadFailed, CloseFailed, ListenerAt
<1>14. CASE Drained
  BY <1>14 DEF Drained, ListenerAt
<1>15. ASSUME NEW c \in Conns, Accept(c) PROVE MainKnows' /\ ListenerKnows'
  BY <1>15 DEF Accept, ListenerAt
<1>16. ASSUME NEW c \in Conns, ConnSteps(c) PROVE MainKnows' /\ ListenerKnows'
  BY <1>16, ConnStepsKeepControl DEF ControlVars
<1>17. CASE UNCHANGED vars
  BY <1>17 DEF vars
<1> QED BY <1>1, <1>2, <1>3, <1>4, <1>5, <1>6, <1>7, <1>8, <1>9, <1>10, <1>11, <1>12, <1>13,
           <1>14, <1>15, <1>16, <1>17 DEF Next, Main, ConnSteps

\* Steps keep the account of who has closed the descriptor.
LEMMA NextDescriptor ==
  ASSUME Typed, MainKnows, ListenerKnows, Descriptor, [Next]_vars
  PROVE  Descriptor'
<1> USE DEF MainKnows, ListenerKnows, Descriptor, ClosedByStop, mainVars, exitVars,
            listenerVars, sockVars, connVars
<1>1. CASE Construct
  BY <1>1 DEF Construct, MainAt
<1>2. CASE Bind
  BY <1>2 DEF Bind, MainAt
<1>3. CASE StartThread \/ InstallHandlers \/ LeaveLoop
  BY <1>3 DEF StartThread, InstallHandlers, LeaveLoop, MainAt
<1>4. CASE TestRunning
  BY <1>4 DEF TestRunning, MainAt
<1>5. CASE Exchange
  BY <1>5 DEF Exchange, MainAt
<1>6. CASE CloseSocket
  BY <1>6 DEF CloseSocket, MainAt, ResetBacklog
<1>7. CASE Join
  BY <1>7 DEF Join, MainAt
<1>8. CASE Signal
  BY <1>8 DEF Signal
<1>9. CASE Listens
  BY <1>9 DEF Listens, EnterLoop, TestSocket, LoadSocket, CallAccept, AcceptRetry, AcceptFails,
              TestFailed, LoadFailed, Drained, ListenerAt
<1>10. CASE CloseFailed
  BY <1>10 DEF CloseFailed, ListenerAt, ResetBacklog, Typed
<1>11. ASSUME NEW c \in Conns, Accept(c) PROVE Descriptor'
  BY <1>11 DEF Accept, ListenerAt, Typed
<1>12. ASSUME NEW c \in Conns, ConnSteps(c) PROVE Descriptor'
  <2>1. UNCHANGED <<main, listener, acceptFailed, svrSock, listening, closes>>
    BY <1>12, ConnStepsKeepControl DEF ControlVars
  <2>2. \A d \in Conns : conn'[d] = "backlog" => conn[d] = "backlog" \/ listening
    <3>1. CASE Connect(c)
      BY <3>1 DEF Connect
    <3>2. CASE Take(c) \/ KeepAlive(c) \/ GiveUp(c)
      BY <3>2 DEF Take, KeepAlive, GiveUp, ConnAt, Typed
    <3>3. CASE Request(c) \/ Respond(c)
      BY <3>3 DEF Request, Respond, ConnAt, Typed
    <3> QED BY <1>12, <3>1, <3>2, <3>3 DEF ConnSteps
  <2> QED BY <2>1, <2>2
<1>13. CASE UNCHANGED vars
  BY <1>13 DEF vars
<1> QED BY <1>1, <1>2, <1>3, <1>4, <1>5, <1>6, <1>7, <1>8, <1>9, <1>10, <1>11, <1>12, <1>13
        DEF Next, Main, Listens, ConnSteps

\* Steps keep the queue and the state of the connections in agreement.
LEMMA NextQueueHolds ==
  ASSUME Typed, QueueHolds, [Next]_vars
  PROVE  QueueHolds'
<1> USE DEF QueueHolds
<1>1. ASSUME UNCHANGED queue,
             \A c \in Conns : conn[c] = "queued" <=> conn'[c] = "queued"
      PROVE  QueueHolds'
  <2>1. queue' = queue /\ \A i \in 1..Len(queue) : queue[i] \in Conns
    BY <1>1 DEF Typed
  <2>2. /\ \A i \in 1..Len(queue) : conn[queue[i]] = "queued"
        /\ \A c \in Conns : conn[c] = "queued" => \E i \in 1..Len(queue) : queue[i] = c
        /\ \A i, j \in 1..Len(queue) : queue[i] = queue[j] => i = j
    OBVIOUS
  <2>3. /\ \A i \in 1..Len(queue) : conn'[queue[i]] = "queued"
        /\ \A c \in Conns : conn'[c] = "queued" => \E i \in 1..Len(queue) : queue[i] = c
    BY <1>1, <2>1, <2>2
  <2> QED BY <2>1, <2>2, <2>3
<1>2. CASE Main \/ Signal
  <2>1. UNCHANGED queue /\ (UNCHANGED conn \/ ResetBacklog)
    BY <1>2 DEF Main, Construct, Bind, StartThread, InstallHandlers, LeaveLoop, TestRunning,
                Exchange, CloseSocket, Join, Signal, connVars
  <2> QED BY <1>1, <2>1 DEF ResetBacklog
<1>3. CASE Listens \/ CloseFailed
  <2>1. UNCHANGED queue /\ (UNCHANGED conn \/ ResetBacklog)
    BY <1>3 DEF Listens, EnterLoop, TestSocket, LoadSocket, CallAccept, AcceptRetry,
                AcceptFails, TestFailed, LoadFailed, CloseFailed, Drained, connVars
  <2> QED BY <1>1, <2>1 DEF ResetBacklog
<1>4. ASSUME NEW c \in Conns, Accept(c) PROVE QueueHolds'
  <2>1. /\ queue' = Append(queue, c) /\ conn' = [conn EXCEPT ![c] = "queued"]
        /\ conn[c] = "backlog"
    BY <1>4 DEF Accept
  <2>2. /\ Len(queue') = Len(queue) + 1 /\ queue'[Len(queue) + 1] = c
        /\ \A i \in 1..Len(queue) : queue'[i] = queue[i] /\ queue[i] # c
        /\ Len(queue) \in Nat
    BY <2>1 DEF Typed
  <2>3. \A i \in 1..Len(queue') : i \in 1..Len(queue) \/ i = Len(queue) + 1
    BY <2>2
  <2>4. \A d \in Conns : conn'[d] = IF d = c THEN "queued" ELSE conn[d]
    BY <2>1 DEF Typed
  <2>5. \A i \in 1..Len(queue') : conn'[queue'[i]] = "queued"
    <3>1. \A i \in 1..Len(queue) : queue[i] \in Conns
      BY DEF Typed
    <3> QED BY <2>2, <2>3, <2>4, <3>1
  <2>6. \A d \in Conns : conn'[d] = "queued" => \E i \in 1..Len(queue') : queue'[i] = d
    <3>1. 1..Len(queue) \subseteq 1..Len(queue') /\ Len(queue) + 1 \in 1..Len(queue')
      BY <2>2
    <3> QED BY <2>2, <2>4, <3>1
  <2>7. \A i, j \in 1..Len(queue') : queue'[i] = queue'[j] => i = j
    BY <2>2, <2>3
  <2> QED BY <2>5, <2>6, <2>7
<1>5. ASSUME NEW c \in Conns, Take(c) PROVE QueueHolds'
  <2>1. /\ queue' = Tail(queue) /\ conn' = [conn EXCEPT ![c] = "taken"]
        /\ conn[c] = "queued" /\ c = Head(queue)
    BY <1>5 DEF Take, ConnAt
  <2>2. queue # << >>
    BY <2>1
  <2>3. /\ Len(queue) \in Nat \ {0} /\ Len(queue') = Len(queue) - 1 /\ c = queue[1]
        /\ \A i \in 1..Len(queue') : queue'[i] = queue[i + 1] /\ i + 1 \in 1..Len(queue)
        /\ \A i \in 1..Len(queue) : queue[i] \in Conns
    BY <2>1, <2>2 DEF Typed
  <2>4. \A i \in 1..Len(queue') : conn'[queue'[i]] = "queued"
    BY <2>1, <2>3 DEF Typed
  <2>5. \A d \in Conns : conn'[d] = "queued" => \E i \in 1..Len(queue') : queue'[i] = d
    <3>1. SUFFICES ASSUME NEW d \in Conns, conn'[d] = "queued"
                   PROVE  \E i \in 1..Len(queue') : queue'[i] = d
      OBVIOUS
    <3>2. d # c /\ conn[d] = "queued"
      BY <2>1, <3>1 DEF Typed
    <3>3. PICK i \in 1..Len(queue) : queue[i] = d
      BY <3>2
    <3>4. i - 1 \in 1..Len(queue') /\ queue'[i - 1] = d
      BY <2>3, <3>2, <3>3
    <3> QED BY <3>4
  <2>6. \A i, j \in 1..Len(queue') : queue'[i] = queue'[j] => i = j
    BY <2>3
  <2> QED BY <2>4, <2>5, <2>6
<1>6. ASSUME NEW c \in Conns, Connect(c) \/ KeepAlive(c) \/ GiveUp(c) \/ Request(c) \/ Respond(c)
      PROVE  QueueHolds'
  <2>1. UNCHANGED queue
    BY <1>6 DEF Connect, KeepAlive, GiveUp, Request, Respond
  <2>2. conn[c] # "queued" /\ \E s \in {"backlog", "idle", "busy", "taken", "closed"} :
          conn' = [conn EXCEPT ![c] = s]
    BY <1>6 DEF Connect, KeepAlive, GiveUp, Request, Respond, ConnAt
  <2> QED BY <1>1, <2>1, <2>2 DEF Typed
<1>7. CASE UNCHANGED vars
  BY <1>1, <1>7 DEF vars, connVars
<1> QED BY <1>2, <1>3, <1>4, <1>5, <1>6, <1>7 DEF Next, Listens

\* Once the thread has drained the pool, no connection gets back to a worker.
LEMMA NextDoneMeansDrained ==
  ASSUME Typed, QueueHolds, DoneMeansDrained, [Next]_vars
  PROVE  DoneMeansDrained'
<1> USE DEF DoneMeansDrained
<1>1. CASE Main \/ Signal
  <2>1. \/ listener' # "done"
        \/ UNCHANGED <<queue, listener>> /\ (UNCHANGED conn \/ ResetBacklog)
    BY <1>1 DEF Main, Construct, Bind, StartThread, InstallHandlers, LeaveLoop,
                TestRunning, Exchange, CloseSocket, Join, Signal, connVars, listenerVars
  <2> QED BY <2>1 DEF ResetBacklog
<1>2. CASE (Listens /\ ~Drained) \/ CloseFailed
  BY <1>2 DEF Listens, EnterLoop, TestSocket, LoadSocket, CallAccept, AcceptRetry, AcceptFails,
              TestFailed, LoadFailed, CloseFailed, ListenerAt
<1>3. CASE Drained
  BY <1>3 DEF Drained, ListenerAt, InWork, With, connVars
<1>4. ASSUME NEW c \in Conns, Accept(c) PROVE DoneMeansDrained'
  BY <1>4 DEF Accept, ListenerAt
<1>5. ASSUME NEW c \in Conns, ConnSteps(c) PROVE DoneMeansDrained'
  <2>1. UNCHANGED listener
    BY <1>5, ConnStepsKeepControl DEF ControlVars
  <2>2. ASSUME listener = "done" PROVE Connect(c)
    <3>1. conn[c] \notin {"queued", "taken", "idle", "busy"}
      BY <2>2 DEF QueueHolds
    <3> QED BY <1>5, <3>1 DEF ConnSteps, Take, KeepAlive, GiveUp, Request, Respond, ConnAt
  <2>3. ASSUME Connect(c)
        PROVE  UNCHANGED queue /\ \A d \in Conns : conn'[d] # conn[d] => conn'[d] = "backlog"
    BY <2>3 DEF Connect, ConnAt, Typed
  <2> QED BY <2>1, <2>2, <2>3
<1>6. CASE UNCHANGED vars
  BY <1>6 DEF vars, connVars, listenerVars
<1> QED BY <1>1, <1>2, <1>3, <1>4, <1>5, <1>6 DEF Next, Listens, ConnSteps

\* Steps keep the bounds on what a connection may still ask.
LEMMA NextCounted ==
  ASSUME Typed, MainKnows, Counted, [Next]_vars
  PROVE  Counted'
<1> USE DEF Counted
<1>1. CASE Main \/ Signal
  <2>1. UNCHANGED <<served, late>> /\ (UNCHANGED conn \/ ResetBacklog)
    BY <1>1 DEF Main, Construct, Bind, StartThread, InstallHandlers, LeaveLoop, TestRunning,
                Exchange, CloseSocket, Join, Signal, connVars
  <2>2. svrSock' # "invalid" => svrSock # "invalid"
    BY <1>1 DEF Main, Construct, Bind, StartThread, InstallHandlers, LeaveLoop, TestRunning,
                Exchange, CloseSocket, Join, Signal, sockVars, MainAt, MainKnows
  <2>3. \A d \in Conns : conn'[d] = "idle" => conn[d] = "idle"
    BY <2>1 DEF ResetBacklog
  <2> QED BY <2>1, <2>2, <2>3
<1>2. CASE Listens \/ CloseFailed
  <2>1. UNCHANGED <<served, late, svrSock>> /\ (UNCHANGED conn \/ ResetBacklog)
    BY <1>2 DEF Listens, EnterLoop, TestSocket, LoadSocket, CallAccept, AcceptRetry,
                AcceptFails, TestFailed, LoadFailed, CloseFailed, Drained, connVars, sockVars
  <2>2. \A d \in Conns : conn'[d] = "idle" => conn[d] = "idle"
    BY <2>1 DEF ResetBacklog
  <2> QED BY <2>1, <2>2
<1>3. ASSUME NEW c \in Conns, Accept(c) PROVE Counted'
  BY <1>3 DEF Accept, Typed, sockVars
<1>4. ASSUME NEW c \in Conns, Connect(c) \/ Take(c) \/ GiveUp(c) \/ Respond(c) PROVE Counted'
  <2>1. UNCHANGED <<served, late, svrSock>>
    BY <1>4 DEF Connect, Take, GiveUp, Respond, sockVars
  <2>2. \A d \in Conns : conn'[d] = "idle" => conn[d] = "idle"
    BY <1>4 DEF Connect, Take, GiveUp, Respond, ConnAt, Typed
  <2> QED BY <2>1, <2>2
<1>5. ASSUME NEW c \in Conns, KeepAlive(c) PROVE Counted'
  BY <1>5 DEF KeepAlive, ConnAt, Typed, sockVars
<1>6. ASSUME NEW c \in Conns, Request(c) PROVE Counted'
  <2>1. UNCHANGED svrSock /\ conn[c] = "idle" /\ conn' = [conn EXCEPT ![c] = "busy"]
        /\ served' = [served EXCEPT ![c] = @ + 1]
    BY <1>6 DEF Request, ConnAt, sockVars
  <2>2. \A d \in Conns : d # c => late'[d] = late[d] /\ served'[d] = served[d]
                                    /\ conn'[d] = conn[d]
    BY <1>6, <2>1 DEF Request, Typed
  <2>3. /\ served'[c] = served[c] + 1 /\ conn'[c] = "busy"
        /\ late'[c] = IF svrSock = "invalid" THEN late[c] + 1 ELSE late[c]
    BY <1>6, <2>1 DEF Request, Typed
  <2>4. served[c] \in Nat /\ late[c] \in Nat /\ KeepAliveMax \in Nat
    BY ServerAssumption DEF Typed
  <2> QED BY <2>1, <2>2, <2>3, <2>4
<1>7. CASE UNCHANGED vars
  BY <1>7 DEF vars, connVars, sockVars
<1> QED BY <1>1, <1>2, <1>3, <1>4, <1>5, <1>6, <1>7 DEF Next, Listens

\* The invariant is inductive.
LEMMA NextIInv == IInv /\ [Next]_vars => IInv'
BY NextTyped, NextControl, NextDescriptor, NextQueueHolds, NextDoneMeansDrained, NextCounted
   DEF IInv

\* The inductive invariant holds in every reachable state.
THEOREM Invariance == Spec => []IInv
BY InitIInv, NextIInv, PTL DEF Spec

-----------------------------------------------------------------------------
(* Every variable keeps its type and its bound: the descriptor is closed    *)
(* twice at most, a connection has KeepAliveMax requests at most.           *)
THEOREM TypeCorrect == Spec => []TypeOK
<1>1. IInv => TypeOK
  <2> SUFFICES ASSUME IInv PROVE TypeOK
    OBVIOUS
  <2>1. closes \in 0..2
    BY DEF IInv, Typed, Descriptor
  <2>2. \A c \in Conns : served[c] \in 0..KeepAliveMax /\ late[c] \in 0..KeepAliveMax
    BY ServerAssumption DEF IInv, Typed, Counted
  <2>3. served \in [Conns -> 0..KeepAliveMax] /\ late \in [Conns -> 0..KeepAliveMax]
    BY <2>2 DEF IInv, Typed
  <2> QED BY <2>1, <2>3 DEF IInv, Typed, TypeOK
<1> QED BY <1>1, Invariance, PTL

(* A server that exits with 0 has worked off every connection it accepted,  *)
(* and none is left in the kernel's backlog: main joins the listening       *)
(* thread, which drains the pool, after stop() or a failed accept has       *)
(* closed the descriptor.                                                   *)
THEOREM CleanExit == Spec => []CleanExitIsDrained
<1>1. IInv => CleanExitIsDrained
  <2> SUFFICES ASSUME IInv, exit = "ok"
               PROVE  /\ queue = << >>
                      /\ With({"backlog", "queued", "taken", "idle", "busy"}) = {}
    BY DEF CleanExitIsDrained
  <2>1. listener = "done" /\ main = "over"
    BY DEF IInv, MainKnows
  <2>2. queue = << >> /\ \A c \in Conns : conn[c] \notin {"queued", "taken", "idle", "busy"}
    BY <2>1 DEF IInv, DoneMeansDrained, QueueHolds
  <2>3. closes # 0
    BY <2>1 DEF IInv, Typed, Descriptor, ListenerKnows, ClosedByStop
  <2>4. \A c \in Conns : conn[c] # "backlog"
    BY <2>3 DEF IInv, Descriptor
  <2> QED BY <2>2, <2>4 DEF With
<1> QED BY <1>1, Invariance, PTL

(* Once svr_sock_ is invalid, each connection has one more request at most: *)
(* the one it may already have been waiting for.                            *)
THEOREM LateRequests == Spec => []AtMostOneLateRequest
<1>1. IInv => AtMostOneLateRequest
  BY DEF IInv, Counted, AtMostOneLateRequest
<1> QED BY <1>1, Invariance, PTL

(* The descriptor's number is closed a second time only if accept had       *)
(* failed on the open descriptor: stop() exchanges svr_sock_ before it      *)
(* closes, so that an error its closing causes finds svr_sock_ invalid.     *)
THEOREM Closings == Spec => []SecondCloseNeedsFailure
<1>1. IInv => SecondCloseNeedsFailure
  BY DEF IInv, Descriptor, ClosedByStop, SecondCloseNeedsFailure
<1> QED BY <1>1, Invariance, PTL

(* stop() passes a listening thread by only before it has begun or after it *)
(* has ended.                                                               *)
THEOREM StopCloses == Spec => StopClosesRunningListener
<1>1. IInv /\ [Next]_vars
      => [main = "stop" /\ main' = "join" => listener \in {"created", "done"}]_vars
  <2> SUFFICES ASSUME IInv, Next, main = "stop", main' = "join"
               PROVE  listener \in {"created", "done"}
    BY DEF vars
  <2>1. TestRunning
    BY DEF Next, Main, Construct, Bind, StartThread, InstallHandlers, LeaveLoop, Exchange,
           CloseSocket, Join, MainAt, Signal, EnterLoop, TestSocket, LoadSocket,
           CallAccept, AcceptRetry, AcceptFails, TestFailed, LoadFailed, CloseFailed,
           Drained, Accept, Connect, Take, KeepAlive, GiveUp, Request, Respond, mainVars
  <2>2. ~isRunning
    BY <2>1 DEF TestRunning, MainAt
  <2> QED BY <2>2 DEF IInv, ListenerKnows, MainKnows, Typed
<1> QED BY <1>1, Invariance, PTL DEF Spec, StopClosesRunningListener

-----------------------------------------------------------------------------
(* Each connection implements ServedConnection.                             *)

\* A connection nobody has made is one that waits, with no request served.
LEMMA InitServes == Init => \A c \in Conns : Connection(c)!Init
<1> SUFFICES ASSUME Init, NEW c \in Conns PROVE Connection(c)!Init
  OBVIOUS
<1> QED BY DEF Init, Connection!Init, PhaseOf

\* Every step of the server is, for each connection, a step of its own or none.
LEMMA NextServes ==
  ASSUME IInv, [Next]_vars, NEW c \in Conns
  PROVE  [Connection(c)!Next]_(Connection(c)!vars)
<1> USE DEF Connection!Next, Connection!vars, Connection!To
<1>1. Typed /\ MainKnows
  BY DEF IInv
<1>2. ASSUME UNCHANGED <<served, svrSock>>, conn'[c] = conn[c]
      PROVE  UNCHANGED (Connection(c)!vars)
  BY <1>2 DEF PhaseOf
<1>3. ASSUME UNCHANGED <<served, svrSock>>, ResetBacklog
      PROVE  Connection(c)!Take \/ UNCHANGED (Connection(c)!vars)
  <2>1. CASE conn[c] = "backlog"
    <3>1. conn'[c] = "reset"
      BY <1>1, <1>3, <2>1 DEF ResetBacklog
    <3> QED BY <1>3, <2>1, <3>1 DEF PhaseOf, Connection!Take
  <2>2. CASE conn[c] # "backlog"
    <3>1. conn'[c] = conn[c]
      BY <1>1, <1>3, <2>2 DEF ResetBacklog
    <3> QED BY <1>2, <1>3, <3>1
  <2> QED BY <2>1, <2>2
<1>4. CASE Main
  <2>1. CASE Bind
    <3>1. svrSock # "invalid" /\ svrSock' # "invalid" /\ UNCHANGED <<conn, served>>
      BY <1>1, <2>1 DEF Bind, MainAt, MainKnows, connVars
    <3> QED BY <3>1 DEF PhaseOf
  <2>2. CASE Exchange
    <3>1. svrSock # "invalid" /\ svrSock' = "invalid" /\ UNCHANGED <<conn, served>>
      BY <1>1, <2>2 DEF Exchange, MainAt, MainKnows, connVars
    <3> QED BY <3>1 DEF PhaseOf, Connection!Stop
  <2>3. CASE CloseSocket
    BY <1>3, <2>3 DEF CloseSocket
  <2>4. CASE Construct \/ StartThread \/ InstallHandlers \/ LeaveLoop \/ TestRunning \/ Join
    BY <1>2, <2>4 DEF Construct, StartThread, InstallHandlers, LeaveLoop, TestRunning, Join,
                      sockVars, connVars
  <2> QED BY <1>4, <2>1, <2>2, <2>3, <2>4 DEF Main
<1>5. CASE Signal \/ Listens
  BY <1>2, <1>5 DEF Signal, Listens, EnterLoop, TestSocket, LoadSocket, CallAccept, AcceptRetry,
                    AcceptFails, TestFailed, LoadFailed, Drained, sockVars, connVars
<1>6. CASE CloseFailed
  BY <1>3, <1>6 DEF CloseFailed
<1>7. ASSUME NEW d \in Conns, d # c, Accept(d) \/ ConnSteps(d)
      PROVE  UNCHANGED (Connection(c)!vars)
  BY <1>1, <1>7 DEF Accept, ConnSteps, Connect, Take, KeepAlive, GiveUp, Request, Respond,
                    ConnAt, sockVars, PhaseOf, Typed
<1>8. CASE Accept(c) \/ Connect(c)
  BY <1>1, <1>8 DEF Accept, Connect, ConnAt, sockVars, PhaseOf, Typed
<1>9. CASE Take(c)
  BY <1>1, <1>9 DEF Take, ConnAt, sockVars, PhaseOf, Typed, Connection!Take
<1>10. CASE KeepAlive(c)
  BY <1>1, <1>10 DEF KeepAlive, ConnAt, sockVars, PhaseOf, Typed, Connection!KeepAlive
<1>11. CASE GiveUp(c)
  BY <1>1, <1>11 DEF GiveUp, ConnAt, sockVars, PhaseOf, Typed, Connection!GiveUp
<1>12. CASE Request(c)
  BY <1>1, <1>12 DEF Request, ConnAt, sockVars, PhaseOf, Typed, Connection!Request
<1>13. CASE Respond(c)
  BY <1>1, <1>13 DEF Respond, ConnAt, sockVars, PhaseOf, Typed, Connection!Respond
<1>14. CASE UNCHANGED vars
  BY <1>2, <1>14 DEF vars, sockVars, connVars
<1> QED BY <1>4, <1>5, <1>6, <1>7, <1>8, <1>9, <1>10, <1>11, <1>12, <1>13, <1>14
        DEF Next, Listens, ConnSteps

(* The server serves each connection as ServedConnection says, which is     *)
(* what HttpConnection implements: stop() is noticed before each wait, and  *)
(* no connection goes beyond its KeepAliveMax requests.                     *)
THEOREM Serves == Spec => ServesConnections
<1>1. IInv /\ [Next]_vars
      => [\A c \in Conns : [Connection(c)!Next]_(Connection(c)!vars)]_vars
  BY NextServes
<1> QED BY <1>1, InitServes, Invariance, PTL DEF Spec, ServesConnections
=============================================================================
