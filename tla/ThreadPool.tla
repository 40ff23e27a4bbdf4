----------------------------- MODULE ThreadPool -----------------------------
(***************************************************************************)
(* httplib's ThreadPool, the task queue of the example server: one caller  *)
(* (the listening thread) enqueues jobs and at last shuts the pool down;   *)
(* the workers take the jobs.  A critical section of mutex_ is one step.   *)
(* The condition variable is the set of the waiting workers; a notify_one  *)
(* or notify_all is a step of its own, after the mutex has been released,  *)
(* and a waiting worker may also wake up for no reason.                    *)
(***************************************************************************)
EXTENDS Naturals, Sequences, FiniteSets

CONSTANTS
  Workers,    \* the threads of the pool
  Jobs,       \* what may be enqueued, each at most once
  MaxQueued,  \* max_queued_requests_, 0 for no limit
  Ending,     \* the jobs that are known to return
  Null        \* no job

ASSUME PoolAssumption ==
  /\ IsFiniteSet(Workers) /\ Workers # {}
  /\ MaxQueued \in Nat
  /\ Ending \subseteq Jobs
  /\ Null \notin Jobs

VARIABLES
  jobs,      \* jobs_
  shutdown,  \* shutdown_
  worker,    \* "ready" to lock and look, "waiting", "running" or "exited"
  fn,        \* the job a running worker has taken
  caller,    \* what the listening thread is at
  accepted,  \* history: the jobs enqueue returned true for, in order
  refused,   \* history: the jobs it returned false for
  done       \* history: the jobs that have returned

vars == <<jobs, shutdown, worker, fn, caller, accepted, refused, done>>

In(state) == {w \in Workers : worker[w] = state}
Elements(s) == {s[i] : i \in 1..Len(s)}

Init ==
  /\ jobs = << >> /\ shutdown = FALSE
  /\ worker = [w \in Workers |-> "ready"]
  /\ fn = [w \in Workers |-> Null]
  /\ caller = "open"
  /\ accepted = << >> /\ refused = {} /\ done = {}

-----------------------------------------------------------------------------
(* The caller.                                                             *)

New(j) == j \notin Elements(accepted) \cup refused

Full == MaxQueued > 0 /\ Len(jobs) >= MaxQueued

\* Mutant of Enqueue: notify only when the list was empty.
EnqueueNotifiesOnce(j) ==
  /\ caller = "open" /\ New(j) /\ ~Full
  /\ jobs' = Append(jobs, j)
  /\ accepted' = Append(accepted, j)
  /\ caller' = IF jobs = << >> THEN "notify" ELSE "open"
  /\ UNCHANGED <<shutdown, worker, fn, refused, done>>

\* Mutant of Enqueue: push_front.
EnqueueFront(j) ==
  /\ caller = "open" /\ New(j) /\ ~Full
  /\ jobs' = <<j>> \o jobs
  /\ accepted' = Append(accepted, j)
  /\ caller' = "notify"
  /\ UNCHANGED <<shutdown, worker, fn, refused, done>>

\* Mutant of Enqueue: no notify at all.
EnqueueSilently(j) ==
  /\ caller = "open" /\ New(j) /\ ~Full
  /\ jobs' = Append(jobs, j)
  /\ accepted' = Append(accepted, j)
  /\ UNCHANGED <<caller, shutdown, worker, fn, refused, done>>

Enqueue(j) ==
  /\ caller = "open" /\ New(j) /\ ~Full
  /\ jobs' = Append(jobs, j)
  /\ accepted' = Append(accepted, j)
  /\ caller' = "notify"
  /\ UNCHANGED <<shutdown, worker, fn, refused, done>>

Refuse(j) ==
  /\ caller = "open" /\ New(j) /\ Full
  /\ refused' = refused \cup {j}
  /\ UNCHANGED <<jobs, shutdown, worker, fn, caller, accepted, done>>

NotifyOne ==
  /\ caller = "notify" /\ caller' = "open"
  /\ \/ In("waiting") = {} /\ UNCHANGED worker
     \/ \E w \in In("waiting") : worker' = [worker EXCEPT ![w] = "ready"]
  /\ UNCHANGED <<jobs, shutdown, fn, accepted, refused, done>>

Shutdown ==
  /\ caller = "open" /\ caller' = "notifyAll"
  /\ shutdown' = TRUE
  /\ UNCHANGED <<jobs, worker, fn, accepted, refused, done>>

\* Mutant of NotifyAll: notify_one.
NotifyAllWakesOne ==
  /\ caller = "notifyAll" /\ caller' = "joining"
  /\ \/ In("waiting") = {} /\ UNCHANGED worker
     \/ \E w \in In("waiting") : worker' = [worker EXCEPT ![w] = "ready"]
  /\ UNCHANGED <<jobs, shutdown, fn, accepted, refused, done>>

NotifyAll ==
  /\ caller = "notifyAll" /\ caller' = "joining"
  /\ worker' = [w \in Workers |-> IF worker[w] = "waiting" THEN "ready" ELSE worker[w]]
  /\ UNCHANGED <<jobs, shutdown, fn, accepted, refused, done>>

Join ==
  /\ caller = "joining" /\ caller' = "closed"
  /\ In("exited") = Workers
  /\ UNCHANGED <<jobs, shutdown, worker, fn, accepted, refused, done>>

-----------------------------------------------------------------------------
(* A worker.  A ready worker takes the mutex and tests the predicate of    *)
(* cond_.wait: it goes (back) to sleep, leaves the loop or takes a job.    *)

Sleep(w) ==
  /\ worker[w] = "ready" /\ jobs = << >> /\ ~shutdown
  /\ worker' = [worker EXCEPT ![w] = "waiting"]
  /\ UNCHANGED <<jobs, shutdown, fn, caller, accepted, refused, done>>

\* Mutant of Leave: a shutdown is obeyed at once, queued jobs or not.
LeaveAtOnce(w) ==
  /\ worker[w] = "ready" /\ shutdown
  /\ worker' = [worker EXCEPT ![w] = "exited"]
  /\ UNCHANGED <<jobs, shutdown, fn, caller, accepted, refused, done>>

Leave(w) ==
  /\ worker[w] = "ready" /\ jobs = << >> /\ shutdown
  /\ worker' = [worker EXCEPT ![w] = "exited"]
  /\ UNCHANGED <<jobs, shutdown, fn, caller, accepted, refused, done>>

Take(w) ==
  /\ worker[w] = "ready" /\ jobs # << >>
  /\ worker' = [worker EXCEPT ![w] = "running"]
  /\ fn' = [fn EXCEPT ![w] = Head(jobs)]
  /\ jobs' = Tail(jobs)
  /\ UNCHANGED <<shutdown, caller, accepted, refused, done>>

\* Mutant of Finish: the job is recorded after fn has been cleared.
FinishForgets(w) ==
  /\ worker[w] = "running"
  /\ worker' = [worker EXCEPT ![w] = "ready"]
  /\ fn' = [fn EXCEPT ![w] = Null]
  /\ done' = done \cup {fn'[w]}
  /\ UNCHANGED <<jobs, shutdown, caller, accepted, refused>>

\* fn() returns; the worker is back at the head of its loop.
Finish(w) ==
  /\ worker[w] = "running"
  /\ worker' = [worker EXCEPT ![w] = "ready"]
  /\ fn' = [fn EXCEPT ![w] = Null]
  /\ done' = done \cup {fn[w]}
  /\ UNCHANGED <<jobs, shutdown, caller, accepted, refused>>

SpuriousWakeup(w) ==
  /\ worker[w] = "waiting"
  /\ worker' = [worker EXCEPT ![w] = "ready"]
  /\ UNCHANGED <<jobs, shutdown, fn, caller, accepted, refused, done>>

Next ==
  \/ \E j \in Jobs : Enqueue(j) \/ Refuse(j)
  \/ NotifyOne \/ Shutdown \/ NotifyAll \/ Join
  \/ \E w \in Workers : Sleep(w) \/ Leave(w) \/ Take(w) \/ Finish(w) \/ SpuriousWakeup(w)

Spec == Init /\ [][Next]_vars

\* Threads keep running; the caller need not enqueue or shut down; a job need
\* not return unless it is in Ending; no spurious wakeup need happen.
Look(w) == Sleep(w) \/ Leave(w) \/ Take(w)
FairSpec == /\ Spec
            /\ WF_vars(NotifyOne) /\ WF_vars(NotifyAll) /\ WF_vars(Join)
            /\ \A w \in Workers : /\ WF_vars(Look(w))
                                  /\ WF_vars(fn[w] \in Ending /\ Finish(w))

-----------------------------------------------------------------------------
TypeOK ==
  /\ jobs \in Seq(Jobs) /\ shutdown \in BOOLEAN
  /\ worker \in [Workers -> {"ready", "waiting", "running", "exited"}]
  /\ fn \in [Workers -> Jobs \cup {Null}]
  /\ caller \in {"open", "notify", "notifyAll", "joining", "closed"}
  /\ accepted \in Seq(Jobs) /\ refused \subseteq Jobs /\ done \subseteq Jobs

(* Notifying after the unlock, once per job, is enough: while a worker      *)
(* waits, every queued job has an awake worker coming for it, or a notify   *)
(* that is still to be made.                                                *)
WakeupsCover ==
  In("waiting") # {} =>
    Len(jobs) <= Cardinality(In("ready")) + (IF caller = "notify" THEN 1 ELSE 0)

(* There is never a queued job with all the workers asleep or gone and no   *)
(* notify on its way: the pool cannot strand a job.                         *)
NoStrandedJob ==
  jobs # << >> => caller = "notify" \/ In("ready") \cup In("running") # {}

(* shutdown returns only when every job ever accepted has been run to its   *)
(* end: stopping the server drops no accepted connection.                   *)
DrainedAtClose ==
  caller = "closed" => jobs = << >> /\ Elements(accepted) = done

(* No worker is left waiting once shutdown is joining the threads.          *)
NoSleeperWhenJoining == caller \in {"joining", "closed"} => In("waiting") = {}

Begun == Len(accepted) - Len(jobs)

Queue == INSTANCE JobQueue WITH begun <- Begun, closed <- (caller = "closed")

(* The pool is a queue: accepted jobs begin in order, each once, and the    *)
(* pool closes only when all of them are done.                              *)
ImplementsQueue == Queue!Spec

(* As long as fewer jobs hang than there are workers, every queued job that *)
(* itself returns gets done.                                                *)
EndingJobIsDone ==
  Cardinality(Jobs \ Ending) < Cardinality(Workers) =>
    \A j \in Ending : j \in Elements(jobs) ~> j \in done

(* shutdown returns, unless a job that hangs keeps a worker.                *)
ShutdownReturns ==
  shutdown ~> caller = "closed" \/ \E w \in Workers : fn[w] \in Jobs \ Ending
=============================================================================
