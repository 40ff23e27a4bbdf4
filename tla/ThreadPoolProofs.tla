-------------------------- MODULE ThreadPoolProofs --------------------------
(***************************************************************************)
(* Theorems about ThreadPool, for any sets of workers and jobs and any     *)
(* limit on the queue.                                                     *)
(***************************************************************************)
EXTENDS ThreadPool, FiniteSetTheorems, TLAPS

\* A worker holds a job exactly while it runs one: TypeOK needs this to know
\* that what Finish records is a job.
HoldsJob == \A w \in Workers : (worker[w] = "running") <=> (fn[w] # Null)

Typed == TypeOK /\ HoldsJob

\* At first every variable has its type.
LEMMA InitTyped == Init => Typed
<1> SUFFICES ASSUME Init PROVE Typed
  OBVIOUS
<1>1. << >> \in Seq(Jobs)
  OBVIOUS
<1> QED BY <1>1 DEF Init, Typed, TypeOK, HoldsJob

\* Every step keeps the types.
LEMMA NextTyped == Typed /\ [Next]_vars => Typed'
<1> SUFFICES ASSUME Typed, [Next]_vars PROVE Typed'
  OBVIOUS
<1> USE DEF Typed, TypeOK, HoldsJob
<1>1. ASSUME NEW j \in Jobs, Enqueue(j) PROVE Typed'
  BY <1>1 DEF Enqueue
<1>2. ASSUME NEW j \in Jobs, Refuse(j) PROVE Typed'
  BY <1>2 DEF Refuse
<1>3. CASE NotifyOne
  BY <1>3 DEF NotifyOne, In
<1>4. CASE Shutdown
  BY <1>4 DEF Shutdown
<1>5. CASE NotifyAll
  BY <1>5 DEF NotifyAll
<1>6. CASE Join
  BY <1>6 DEF Join
<1>7. ASSUME NEW w \in Workers, Sleep(w) \/ Leave(w) \/ SpuriousWakeup(w) PROVE Typed'
  BY <1>7 DEF Sleep, Leave, SpuriousWakeup
<1>8. ASSUME NEW w \in Workers, Take(w) PROVE Typed'
  <2>1. Head(jobs) \in Jobs /\ Tail(jobs) \in Seq(Jobs)
    BY <1>8 DEF Take
  <2>2. Head(jobs) # Null
    BY <2>1, PoolAssumption
  <2> QED BY <1>8, <2>1, <2>2 DEF Take
<1>9. ASSUME NEW w \in Workers, Finish(w) PROVE Typed'
  <2>1. fn[w] \in Jobs
    BY <1>9 DEF Finish
  <2> QED BY <1>9, <2>1 DEF Finish
<1>10. CASE UNCHANGED vars
  BY <1>10 DEF vars
<1> QED BY <1>1, <1>2, <1>3, <1>4, <1>5, <1>6, <1>7, <1>8, <1>9, <1>10 DEF Next

(* Every variable keeps its type.                                          *)
THEOREM TypeCorrect == Spec => []TypeOK
<1>1. Typed => TypeOK
  BY DEF Typed
<1> QED BY <1>1, InitTyped, NextTyped, PTL DEF Spec

-----------------------------------------------------------------------------
(***************************************************************************)
(* No job is stranded.  NoStrandedJob is preserved by the worker that goes *)
(* away (Leave) and by the notify that finds nobody waiting only because   *)
(* of when workers leave: after a shutdown, and with the list empty.       *)
(***************************************************************************)
ShutdownPhase == shutdown <=> caller \in {"notifyAll", "joining", "closed"}

ExitedMeansDrained ==
  \A w \in Workers : worker[w] = "exited" => shutdown /\ jobs = << >>

ClosedMeansExited ==
  caller = "closed" => \A w \in Workers : worker[w] = "exited"

Control == /\ Typed
           /\ ShutdownPhase /\ ExitedMeansDrained /\ ClosedMeansExited
           /\ NoStrandedJob /\ NoSleeperWhenJoining

\* At first no worker is asleep in a way that nobody would wake.
LEMMA InitControl == Init => Control
<1> SUFFICES ASSUME Init PROVE Control
  OBVIOUS
<1>1. Typed
  BY InitTyped
<1> QED BY <1>1 DEF Init, Control, ShutdownPhase, ExitedMeansDrained,
                    ClosedMeansExited, NoStrandedJob, NoSleeperWhenJoining

\* No step of a worker or of shutdown loses a wake-up.
LEMMA NextControl == Control /\ [Next]_vars => Control'
<1> SUFFICES ASSUME Control, [Next]_vars PROVE Control'
  OBVIOUS
<1>0. Typed'
  BY NextTyped DEF Control
<1> USE DEF Control, ShutdownPhase, ExitedMeansDrained, ClosedMeansExited,
            NoStrandedJob, NoSleeperWhenJoining, In
<1> USE DEF Typed, TypeOK
<1>1. ASSUME NEW j \in Jobs, Enqueue(j) PROVE Control'
  BY <1>0, <1>1, PoolAssumption DEF Enqueue
<1>2. ASSUME NEW j \in Jobs, Refuse(j) PROVE Control'
  BY <1>0, <1>2 DEF Refuse
<1>3. CASE NotifyOne
  BY <1>0, <1>3, PoolAssumption DEF NotifyOne
<1>4. CASE Shutdown
  BY <1>0, <1>4 DEF Shutdown
<1>5. CASE NotifyAll
  BY <1>0, <1>5 DEF NotifyAll
<1>6. CASE Join
  BY <1>0, <1>6 DEF Join
<1>7. ASSUME NEW w \in Workers, Sleep(w) PROVE Control'
  BY <1>0, <1>7 DEF Sleep
<1>8. ASSUME NEW w \in Workers, Leave(w) PROVE Control'
  BY <1>0, <1>8 DEF Leave
<1>9. ASSUME NEW w \in Workers, SpuriousWakeup(w) PROVE Control'
  BY <1>0, <1>9 DEF SpuriousWakeup
<1>10. ASSUME NEW w \in Workers, Take(w) PROVE Control'
  BY <1>0, <1>10 DEF Take
<1>11. ASSUME NEW w \in Workers, Finish(w) PROVE Control'
  BY <1>0, <1>11 DEF Finish
<1>12. CASE UNCHANGED vars
  BY <1>0, <1>12 DEF vars
<1> QED
  BY <1>1, <1>2, <1>3, <1>4, <1>5, <1>6, <1>7, <1>8, <1>9, <1>10, <1>11, <1>12 DEF Next

\* So none is ever lost.
LEMMA ControlInvariant == Spec => []Control
<1> QED BY InitControl, NextControl, PTL DEF Spec

(* While shutdown joins the workers none of them waits: notify_all, made    *)
(* after the mutex was released, has reached or overtaken every one.        *)
THEOREM NobodySleeps == Spec => []NoSleeperWhenJoining
<1>1. Control => NoSleeperWhenJoining
  BY DEF Control
<1> QED BY <1>1, ControlInvariant, PTL

(* A queued job always has an awake worker or a pending notify.            *)
THEOREM NothingStranded == Spec => []NoStrandedJob
<1>1. Control => NoStrandedJob
  BY DEF Control
<1> QED BY <1>1, ControlInvariant, PTL

-----------------------------------------------------------------------------
(***************************************************************************)
(* Notifies are counted.  Every enqueue owes one, a notify that finds a    *)
(* sleeper pays with a worker that is ready, and a worker that takes a job *)
(* takes it away from both sides.                                          *)
(***************************************************************************)
Owed == IF caller = "notify" THEN 1 ELSE 0

\* The workers in a given state can be counted.
LEMMA InFinite ==
  ASSUME NEW s PROVE IsFiniteSet(In(s)) /\ Cardinality(In(s)) \in Nat
BY PoolAssumption, FS_Subset, FS_CardinalityType DEF In

\* The same after a step.
LEMMA InFiniteNext ==
  ASSUME NEW s PROVE Cardinality(In(s)') \in Nat
BY PoolAssumption, FS_Subset, FS_CardinalityType DEF In

\* One worker more is ready.
LEMMA OneMoreReady ==
  ASSUME Typed, NEW w \in Workers, worker[w] # "ready",
         worker' = [worker EXCEPT ![w] = "ready"]
  PROVE  Cardinality(In("ready")') = Cardinality(In("ready")) + 1
<1>1. In("ready")' = In("ready") \cup {w} /\ w \notin In("ready")
  BY DEF Typed, TypeOK, In
<1> QED BY <1>1, InFinite, FS_AddElement

\* A step that owes or is owed nothing leaves the count alone; the others balance it.
LEMMA NextCovers == Typed /\ WakeupsCover /\ [Next]_vars => WakeupsCover'
<1> SUFFICES ASSUME Typed, WakeupsCover, [Next]_vars PROVE WakeupsCover'
  OBVIOUS
<1>0. /\ jobs \in Seq(Jobs) /\ Len(jobs) \in Nat /\ Cardinality(In("ready")) \in Nat
      /\ Cardinality(In("ready")') \in Nat
      /\ worker \in [Workers -> {"ready", "waiting", "running", "exited"}]
      /\ In("waiting") # {} => Len(jobs) <= Cardinality(In("ready")) + Owed
  BY InFinite, InFiniteNext DEF Typed, TypeOK, WakeupsCover, Owed
<1> SUFFICES ASSUME In("waiting")' # {}
             PROVE  Len(jobs') <= Cardinality(In("ready")') + Owed'
  BY DEF WakeupsCover, Owed
<1>1. ASSUME NEW j \in Jobs, Enqueue(j) PROVE Len(jobs') <= Cardinality(In("ready")') + Owed'
  <2>1. In("ready")' = In("ready") /\ In("waiting")' = In("waiting")
    BY <1>1 DEF Enqueue, In
  <2>2. Len(jobs') = Len(jobs) + 1 /\ Owed = 0 /\ Owed' = 1
    BY <1>0, <1>1 DEF Enqueue, Owed
  <2> QED BY <1>0, <2>1, <2>2
<1>2. CASE NotifyOne
  <2>1. In("waiting") # {}
    BY <1>2 DEF NotifyOne, In
  <2>2. PICK w \in In("waiting") : worker' = [worker EXCEPT ![w] = "ready"]
    BY <1>2, <2>1 DEF NotifyOne
  <2>3. Cardinality(In("ready")') = Cardinality(In("ready")) + 1
    <3>1. w \in Workers /\ worker[w] # "ready"
      BY <2>2 DEF In
    <3> QED BY <2>2, <3>1, OneMoreReady
  <2>4. jobs' = jobs /\ Owed = 1 /\ Owed' = 0
    BY <1>2 DEF NotifyOne, Owed
  <2> QED BY <1>0, <2>1, <2>3, <2>4
<1>3. CASE NotifyAll
  BY <1>0, <1>3 DEF NotifyAll, In
<1>4. ASSUME NEW w \in Workers, Sleep(w) \/ Leave(w)
      PROVE  Len(jobs') <= Cardinality(In("ready")') + Owed'
  <2>1. Len(jobs') = 0 /\ Owed' \in Nat
    BY <1>4 DEF Sleep, Leave, Owed
  <2> QED BY <1>0, <2>1
<1>5. ASSUME NEW w \in Workers, Take(w) PROVE Len(jobs') <= Cardinality(In("ready")') + Owed'
  <2>1. /\ worker[w] = "ready" /\ worker' = [worker EXCEPT ![w] = "running"]
        /\ Len(jobs') = Len(jobs) - 1 /\ Owed' = Owed /\ Owed \in Nat
    BY <1>0, <1>5 DEF Take, Owed
  <2>2. In("ready")' = In("ready") \ {w} /\ w \in In("ready") /\ In("waiting")' = In("waiting")
    BY <1>0, <2>1 DEF In
  <2>3. Cardinality(In("ready")') = Cardinality(In("ready")) - 1
    BY <2>2, InFinite, FS_RemoveElement
  <2> QED BY <1>0, <2>1, <2>2, <2>3
<1>6. ASSUME NEW w \in Workers, Finish(w) \/ SpuriousWakeup(w)
      PROVE  Len(jobs') <= Cardinality(In("ready")') + Owed'
  <2>1. /\ worker[w] # "ready" /\ worker' = [worker EXCEPT ![w] = "ready"]
        /\ jobs' = jobs /\ Owed' = Owed /\ Owed \in Nat
    BY <1>6 DEF Finish, SpuriousWakeup, Owed
  <2>2. In("waiting") # {}
    BY <1>0, <2>1 DEF In
  <2>3. Cardinality(In("ready")') = Cardinality(In("ready")) + 1
    BY <2>1, OneMoreReady
  <2> QED BY <1>0, <2>1, <2>2, <2>3
<1>7. ASSUME \/ \E j \in Jobs : Refuse(j)
             \/ Shutdown \/ Join \/ UNCHANGED vars
      PROVE  Len(jobs') <= Cardinality(In("ready")') + Owed'
  <2>1. /\ jobs' = jobs /\ worker' = worker /\ Owed' = Owed
    BY <1>7 DEF Refuse, Shutdown, Join, vars, Owed
  <2>2. In("ready")' = In("ready") /\ In("waiting")' = In("waiting")
    BY <2>1 DEF In
  <2> QED BY <1>0, <2>1, <2>2
<1> QED BY <1>1, <1>2, <1>3, <1>4, <1>5, <1>6, <1>7 DEF Next

(* While a worker waits, every queued job has a worker of its own that is   *)
(* ready, but for one whose notify is still to be made: one notify for each *)
(* job, after the unlock, is enough for any number of workers.              *)
THEOREM WakeupsSuffice == Spec => []WakeupsCover
<1>1. Init => WakeupsCover
  BY DEF Init, WakeupsCover, In
<1> QED BY <1>1, InitTyped, NextTyped, NextCovers, PTL DEF Spec

-----------------------------------------------------------------------------
(***************************************************************************)
(* Where every job is.  The list is what has not begun of the sequence of  *)
(* accepted jobs; what has begun is done or in the hands of exactly one    *)
(* worker; no job is accepted twice.                                       *)
(***************************************************************************)
Suffix == /\ Begun \in Nat
          /\ \A i \in 1..Len(jobs) : jobs[i] = accepted[Begun + i]

NoRepeat == \A i, k \in 1..Len(accepted) : accepted[i] = accepted[k] => i = k

HasBegun(j) == \E i \in 1..Begun : accepted[i] = j

Placed == /\ \A j \in Jobs : HasBegun(j) <=> j \in done \/ \E w \in Workers : fn[w] = j
          /\ \A w \in Workers : fn[w] \notin done
          /\ \A v, w \in Workers : fn[v] = fn[w] /\ fn[v] # Null => v = w

Data == Suffix /\ NoRepeat /\ Placed

\* At first no job has been accepted.
LEMMA InitData == Init => Data
<1> SUFFICES ASSUME Init PROVE Data
  OBVIOUS
<1>1. Begun = 0 /\ Len(accepted) = 0
  BY DEF Init, Begun
<1>2. \A j \in Jobs : j # Null
  BY PoolAssumption
<1> QED BY <1>1, <1>2 DEF Init, Data, Suffix, NoRepeat, HasBegun, Placed

\* Jobs go from the queue to a worker to those done, in order.
LEMMA NextData == Typed /\ Data /\ [Next]_vars => Data'
<1> SUFFICES ASSUME Typed, Data, [Next]_vars PROVE Data'
  OBVIOUS
<1> USE DEF Typed, TypeOK
<1>1. ASSUME NEW j \in Jobs, Enqueue(j) PROVE Data'
  <2>1. /\ Len(jobs') = Len(jobs) + 1 /\ Len(accepted') = Len(accepted) + 1
        /\ \A i \in 1..Len(jobs) : jobs'[i] = jobs[i]
        /\ \A i \in 1..Len(accepted) : accepted'[i] = accepted[i]
        /\ jobs'[Len(jobs) + 1] = j /\ accepted'[Len(accepted) + 1] = j
        /\ \A i \in 1..Len(accepted) : accepted[i] # j
        /\ UNCHANGED <<fn, done>>
    BY <1>1 DEF Enqueue, New, Elements
  <2>2. Begun \in Nat /\ Begun' = Begun /\ Begun + Len(jobs) = Len(accepted)
    BY <2>1 DEF Begun, Data, Suffix
  <2>3. Suffix'
    <3>1. ASSUME NEW i \in 1..Len(jobs') PROVE jobs'[i] = accepted'[Begun + i]
      <4>1. CASE i \in 1..Len(jobs)
        <5>1. jobs[i] = accepted[Begun + i] /\ Begun + i \in 1..Len(accepted)
          BY <2>2, <4>1 DEF Data, Suffix
        <5> QED BY <2>1, <4>1, <5>1
      <4>2. CASE i = Len(jobs) + 1
        BY <2>1, <2>2, <4>2
      <4> QED BY <2>1, <4>1, <4>2
    <3> QED BY <2>2, <3>1 DEF Suffix
  <2>4. NoRepeat'
    BY <2>1 DEF Data, NoRepeat
  <2>5. \A k \in Jobs : HasBegun(k)' <=> HasBegun(k)
    <3>1. \A i \in 1..Begun : accepted'[i] = accepted[i]
      BY <2>1, <2>2
    <3> QED BY <2>2, <3>1 DEF HasBegun
  <2>6. Placed'
    BY <2>1, <2>5 DEF Data, Placed
  <2> QED BY <2>3, <2>4, <2>6 DEF Data
<1>2. ASSUME NEW w \in Workers, Take(w) PROVE Data'
  <2>1. /\ Len(jobs) > 0 /\ Len(jobs') = Len(jobs) - 1
        /\ \A i \in 1..Len(jobs') : jobs'[i] = jobs[i + 1]
        /\ fn' = [fn EXCEPT ![w] = jobs[1]] /\ fn[w] = Null
        /\ UNCHANGED <<accepted, done>>
    BY <1>2 DEF Take, HoldsJob
  <2>2. /\ Begun \in Nat /\ Begun' = Begun + 1 /\ Begun + Len(jobs) = Len(accepted)
        /\ jobs[1] = accepted[Begun + 1] /\ jobs[1] \in Jobs /\ jobs[1] # Null
    BY <2>1, PoolAssumption DEF Begun, Data, Suffix
  <2>3. Suffix'
    BY <2>1, <2>2 DEF Data, Suffix
  <2>4. NoRepeat'
    BY <2>1 DEF Data, NoRepeat
  <2>5. \A k \in Jobs : HasBegun(k)' <=> HasBegun(k) \/ k = jobs[1]
    BY <2>1, <2>2 DEF HasBegun
  <2>6. ~HasBegun(jobs[1])
    <3>1. Begun + 1 \in 1..Len(accepted) /\ 1..Begun \subseteq 1..Len(accepted)
      BY <2>1, <2>2
    <3>2. \A i \in 1..Begun : accepted[i] # accepted[Begun + 1]
      BY <2>2, <3>1 DEF Data, NoRepeat
    <3> QED BY <2>2, <3>2 DEF HasBegun
  <2>7. jobs[1] \notin done /\ \A v \in Workers : fn[v] # jobs[1]
    BY <2>2, <2>6 DEF Data, Placed
  <2>8. Placed'
    BY <2>1, <2>2, <2>5, <2>7, PoolAssumption DEF Data, Placed
  <2> QED BY <2>3, <2>4, <2>8 DEF Data
<1>3. ASSUME NEW w \in Workers, Finish(w) PROVE Data'
  <2>1. /\ fn[w] \in Jobs /\ fn' = [fn EXCEPT ![w] = Null] /\ done' = done \cup {fn[w]}
        /\ UNCHANGED <<jobs, accepted>>
    BY <1>3 DEF Finish, HoldsJob
  <2>2. Begun' = Begun /\ \A k \in Jobs : HasBegun(k)' <=> HasBegun(k)
    BY <2>1 DEF Begun, HasBegun
  <2>3. Placed'
    BY <2>1, <2>2, PoolAssumption DEF Data, Placed
  <2> QED BY <2>1, <2>2, <2>3 DEF Data, Suffix, NoRepeat
<1>4. ASSUME UNCHANGED <<jobs, accepted, fn, done>> PROVE Data'
  BY <1>4 DEF Data, Suffix, NoRepeat, Placed, HasBegun, Begun
<1> QED
  BY <1>1, <1>2, <1>3, <1>4 DEF Next, Refuse, NotifyOne, Shutdown, NotifyAll, Join,
     Sleep, Leave, SpuriousWakeup, vars

\* Both halves hold in every reachable state.
LEMMA Invariance == Spec => [](Control /\ Data)
<1>1. Control => Typed
  BY DEF Control
<1> QED BY <1>1, InitControl, NextControl, InitData, NextData, PTL DEF Spec

\* When shutdown has returned nothing is left.
LEMMA DrainedFromInvariant == Control /\ Data => DrainedAtClose
<1> SUFFICES ASSUME Control, Data, caller = "closed"
    PROVE  jobs = << >> /\ Elements(accepted) = done
    BY DEF DrainedAtClose
<1> USE DEF Control, Typed, TypeOK
<1>1. \A w \in Workers : worker[w] = "exited" /\ fn[w] = Null
    BY DEF ClosedMeansExited, HoldsJob
<1>2. jobs = << >>
    BY <1>1, PoolAssumption DEF ExitedMeansDrained
<1>3. Begun = Len(accepted)
    BY <1>2 DEF Begun
<1>4. \A j \in Jobs : j \in Elements(accepted) <=> j \in done
    BY <1>1, <1>3, PoolAssumption DEF Elements, Data, Placed, HasBegun
<1>5. Elements(accepted) \subseteq Jobs
    BY DEF Elements
<1> QED BY <1>2, <1>4, <1>5

(* When shutdown returns, every job that was accepted has been done.       *)
THEOREM Drained == Spec => []DrainedAtClose
<1> QED BY DrainedFromInvariant, Invariance, PTL

-----------------------------------------------------------------------------
\* The pool's first states are first states of the queue.
LEMMA InitRefines == Init => Queue!Init
<1> SUFFICES ASSUME Init PROVE Queue!Init
  OBVIOUS
<1>1. Len(accepted) = 0 /\ Begun = 0
  BY DEF Init, Begun
<1> QED BY <1>1 DEF Init, Queue!Init

\* A step of the pool is a step of the queue or leaves it alone.
LEMMA NextRefines ==
  Control /\ Data /\ DrainedAtClose' /\ [Next]_vars => [Queue!Next]_(Queue!vars)
<1> SUFFICES ASSUME Control, Data, DrainedAtClose', [Next]_vars
    PROVE  Queue!Next \/ UNCHANGED Queue!vars
  OBVIOUS
<1> USE DEF Control, Typed, TypeOK
<1>1. ASSUME NEW j \in Jobs, Enqueue(j) PROVE Queue!Next
  <2>1. /\ caller = "open" /\ caller' = "notify" /\ done' = done
        /\ accepted' = Append(accepted, j)
        /\ j \notin {accepted[i] : i \in 1..Len(accepted)}
    BY <1>1 DEF Enqueue, New, Elements
  <2>2. Begun' = Begun
    BY <1>1 DEF Enqueue, Begun
  <2>3. Queue!Accept(j)
    BY <2>1, <2>2 DEF Queue!Accept, Queue!First
  <2> QED BY <2>3 DEF Queue!Next
<1>2. ASSUME NEW w \in Workers, Take(w) PROVE Queue!Next
  <2>1. Len(jobs) > 0 /\ Len(jobs') = Len(jobs) - 1
    BY <1>2 DEF Take
  <2>2. Begun < Len(accepted) /\ Begun' = Begun + 1
    BY <1>2, <2>1 DEF Take, Begun
  <2>3. Queue!Begin
    BY <1>2, <2>2 DEF Take, Queue!Begin
  <2> QED BY <2>3 DEF Queue!Next
<1>3. ASSUME NEW w \in Workers, Finish(w) PROVE Queue!Next
  <2>1. fn[w] \in Jobs /\ fn[w] \notin done /\ HasBegun(fn[w])
    BY <1>3 DEF Finish, HoldsJob, Data, Placed
  <2>2. PICK j \in Jobs : j = fn[w]
    BY <2>1
  <2>3. Queue!Finish(j)
    <3>1. j \in {accepted[i] : i \in 1..Begun} \ done
      BY <2>1, <2>2 DEF HasBegun
    <3>2. Begun' = Begun /\ done' = done \cup {j} /\ UNCHANGED <<accepted, caller>>
      BY <1>3, <2>2 DEF Finish, Begun
    <3> QED BY <3>1, <3>2 DEF Queue!Finish, Queue!First
  <2> QED BY <2>3 DEF Queue!Next
<1>4. CASE Join
  <2>1. Elements(accepted) = done
    BY <1>4 DEF Join, DrainedAtClose, Elements
  <2>2. Queue!Close
    BY <1>4, <2>1 DEF Join, Queue!Close, Queue!First, Elements, Begun
  <2> QED BY <2>2 DEF Queue!Next
<1>5. ASSUME UNCHANGED <<jobs, accepted, done>>,
             (caller' = "closed") = (caller = "closed")
      PROVE  UNCHANGED Queue!vars
  BY <1>5 DEF Queue!vars, Begun
<1>6. CASE UNCHANGED vars
  BY <1>5, <1>6 DEF vars
<1>7. ASSUME \/ \E j \in Jobs : Refuse(j)
             \/ NotifyOne \/ Shutdown \/ NotifyAll
             \/ \E w \in Workers : Sleep(w) \/ Leave(w) \/ SpuriousWakeup(w)
      PROVE  UNCHANGED Queue!vars
  <2>1. UNCHANGED <<jobs, accepted, done>>
    BY <1>7 DEF Refuse, NotifyOne, Shutdown, NotifyAll, Sleep, Leave, SpuriousWakeup
  <2>2. (caller' = "closed") = (caller = "closed")
    BY <1>7 DEF Refuse, NotifyOne, Shutdown, NotifyAll, Sleep, Leave, SpuriousWakeup
  <2> QED BY <1>5, <2>1, <2>2
<1> QED BY <1>1, <1>2, <1>3, <1>4, <1>6, <1>7 DEF Next

(* The pool implements the abstract queue: jobs begin in the order they    *)
(* were accepted, each once, and it closes only when all are done.         *)
THEOREM Refinement == Spec => ImplementsQueue
<1>1. Spec => []DrainedAtClose
  BY Drained
<1> QED
  BY <1>1, InitRefines, NextRefines, Invariance, PTL DEF Spec, Queue!Spec, ImplementsQueue
=============================================================================
