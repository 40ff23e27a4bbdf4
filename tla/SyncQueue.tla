----------------------------- MODULE SyncQueue -----------------------------
(***************************************************************************)
(* Server::SyncQueue, which hands results over to waiting threads: a       *)
(* queue under a mutex with a condition variable.  What happens under the  *)
(* mutex is one step.                                                      *)
(***************************************************************************)
EXTENDS Naturals, Sequences, FiniteSets

CONSTANTS
  Poppers,    \* threads that call WaitAndPop
  MaxResults  \* bound of the checks: results pushed

ASSUME SyncQueueAssumption == IsFiniteSet(Poppers) /\ MaxResults \in Nat

VARIABLES
  results,  \* q, of results numbered in the order of their coming
  pushed,   \* how many have been pushed
  popped,   \* those that were handed over, in order
  popper    \* each thread: "outside", "asleep" in cond.wait, or "awake" in it

queueVars == <<results, pushed, popped, popper>>

QueueInit ==
  /\ results = << >> /\ pushed = 0 /\ popped = << >>
  /\ popper = [c \in Poppers |-> "outside"]

Those(s) == {c \in Poppers : popper[c] = s}

\* Plausible bug: only the first result in an empty queue is announced.
NotifyWhenEmpty ==
  IF results = << >> /\ Those("asleep") # {}
  THEN \E c \in Those("asleep") : popper' = [popper EXCEPT ![c] = "awake"]
  ELSE UNCHANGED popper

NotifyOne ==
  IF Those("asleep") # {}
  THEN \E c \in Those("asleep") : popper' = [popper EXCEPT ![c] = "awake"]
  ELSE UNCHANGED popper

Push ==
  /\ pushed < MaxResults /\ pushed' = pushed + 1
  /\ results' = Append(results, pushed + 1)
  /\ NotifyOne
  /\ UNCHANGED popped

\* A thread comes, or wakes, and finds a result or sleeps on.
WaitAndPop(c) ==
  /\ popper[c] # "asleep"
  /\ \/ /\ results # << >>
        /\ popped' = Append(popped, Head(results)) /\ results' = Tail(results)
        /\ popper' = [popper EXCEPT ![c] = "outside"]
     \/ /\ results = << >>
        /\ popper' = [popper EXCEPT ![c] = "asleep"]
        /\ UNCHANGED <<results, popped>>
  /\ UNCHANGED pushed

WakeSpuriously(c) ==
  /\ popper[c] = "asleep" /\ popper' = [popper EXCEPT ![c] = "awake"]
  /\ UNCHANGED <<results, pushed, popped>>

QueueNext == Push \/ \E c \in Poppers : WaitAndPop(c) \/ WakeSpuriously(c)

(* Every result is handed over once and in order, and while threads sleep   *)
(* there is a waking thread for each result that waits, although threads    *)
(* that come may take it first.                                             *)
ResultsAreHandedOver ==
  /\ popped \o results = [i \in 1..pushed |-> i]
  /\ Those("asleep") # {} => Len(results) <= Cardinality(Those("awake"))
=============================================================================
