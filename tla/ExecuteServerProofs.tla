------------------------ MODULE ExecuteServerProofs -------------------------
(***************************************************************************)
(* Theorems about ExecuteServer, for any number of workers and requests,   *)
(* and for scripts that post to the server in any pattern.                 *)
(***************************************************************************)
EXTENDS ExecuteServer, FiniteSetTheorems, TLAPS

-----------------------------------------------------------------------------
(***************************************************************************)
(* The inductive invariant.  A child runs for a request only while its     *)
(* handler waits for it, or as a stray: its waitpid was interrupted, the   *)
(* request was answered 500 and nobody waits any more.  The only signal    *)
(* that can do this is the one that ends main's "serving", so that there   *)
(* is at most one stray.                                                   *)
(***************************************************************************)
Phases == {"unsent", "queued", "parsing", "parsed", "waiting", "answered", "closed"}

TypeOK ==
  /\ main \in {"serving", "signalled", "draining", "ok", "error", "crashed"}
  /\ phase \in [Requests -> Phases]
  /\ script \in [Requests -> {"none", "running", "ended"}]
  /\ answer \in [Requests -> {0, 200, 400, 500}]

Stray(r) == phase[r] = "answered" /\ script[r] = "running"

Watched ==
  \A r \in Requests : script[r] = "running" =>
    phase[r] = "waiting" \/ (Stray(r) /\ answer[r] = 500)

OneStray ==
  /\ \A r, q \in Requests : Stray(r) /\ Stray(q) => r = q
  /\ main = "serving" => \A r \in Requests : ~Stray(r)

\* Who is in the queue is in it once, and in nobody's hands.
InLine ==
  /\ queue \in Seq(Requests)
  /\ \A i \in 1..Len(queue) : phase[queue[i]] = "queued"
  /\ \A i, j \in 1..Len(queue) : queue[i] = queue[j] => i = j

Emptied == main = "ok" => InHand = {}

IInv == TypeOK /\ Watched /\ OneStray /\ InLine /\ Emptied

\* The invariant holds when the server has just started.
LEMMA InitIInv == Init => IInv
<1> SUFFICES ASSUME Init PROVE IInv
  OBVIOUS
<1>1. queue = << >> /\ << >> \in Seq(Requests) /\ Len(<< >>) = 0
  BY DEF Init
<1> QED BY <1>1 DEF Init, IInv, TypeOK, Phases, Watched, OneStray, Stray, InLine, Emptied

\* A step that leaves the queue alone leaves those in it alone.
LEMMA InLineKept ==
  ASSUME IInv, queue' = queue,
         \A r \in Requests : phase[r] = "queued" => phase'[r] = "queued"
  PROVE  InLine'
<1>1. queue \in Seq(Requests) /\ \A i \in 1..Len(queue) : phase[queue[i]] = "queued"
  BY DEF IInv, InLine
<1>2. \A i \in 1..Len(queue) : queue[i] \in Requests
  BY <1>1
<1> QED BY <1>1, <1>2 DEF IInv, InLine

\* The head leaves the queue and gets another phase.
LEMMA HeadLeaves ==
  ASSUME IInv, NEW r \in Requests, NEW p \in Phases, Dequeue(r), phase' = [phase EXCEPT ![r] = p]
  PROVE  phase[r] = "queued" /\ InLine'
<1>1. /\ queue \in Seq(Requests) /\ queue # << >> /\ r = queue[1] /\ queue' = Tail(queue)
      /\ phase \in [Requests -> Phases]
  BY DEF Dequeue, IInv, InLine, TypeOK
<1>2. /\ Len(queue) \in Nat /\ 1 \in 1..Len(queue) /\ queue' \in Seq(Requests)
      /\ Len(queue') = Len(queue) - 1
      /\ \A i \in 1..Len(queue') : queue'[i] = queue[i + 1] /\ i + 1 \in 1..Len(queue) /\ i + 1 # 1
  BY <1>1
<1>3. phase[r] = "queued"
  BY <1>1, <1>2 DEF IInv, InLine
<1>4. \A i \in 1..Len(queue') : phase'[queue'[i]] = "queued"
  <2> TAKE i \in 1..Len(queue')
  <2>1. queue[i + 1] # r /\ queue[i + 1] \in Requests /\ phase[queue[i + 1]] = "queued"
    BY <1>1, <1>2 DEF IInv, InLine
  <2> QED BY <1>1, <1>2, <2>1
<1>5. \A i, j \in 1..Len(queue') : queue'[i] = queue'[j] => i = j
  <2> TAKE i, j \in 1..Len(queue')
  <2>1. queue[i + 1] = queue[j + 1] => i + 1 = j + 1
    BY <1>2 DEF IInv, InLine
  <2> QED BY <1>2, <2>1
<1> QED BY <1>2, <1>3, <1>4, <1>5 DEF InLine

\* The tail of the queue is a request that was not in it.
LEMMA TailComes ==
  ASSUME IInv, NEW r \in Requests, Queued(r)
  PROVE  InLine'
<1>1. /\ queue \in Seq(Requests) /\ queue' = Append(queue, r) /\ phase \in [Requests -> Phases]
      /\ phase[r] = "unsent" /\ phase' = [phase EXCEPT ![r] = "queued"]
  BY DEF Queued, IInv, InLine, TypeOK
<1>2. /\ Len(queue) \in Nat /\ queue' \in Seq(Requests) /\ Len(queue') = Len(queue) + 1
      /\ \A i \in 1..Len(queue) : queue'[i] = queue[i] /\ queue[i] \in Requests
      /\ queue'[Len(queue) + 1] = r
  BY <1>1
<1>3. \A i \in 1..Len(queue) : queue[i] # r /\ phase'[queue[i]] = "queued"
  BY <1>1, <1>2 DEF IInv, InLine
<1>4. \A i \in 1..Len(queue') : i \in 1..Len(queue) \/ i = Len(queue) + 1
  BY <1>2
<1>5. \A i \in 1..Len(queue') : phase'[queue'[i]] = "queued"
  <2> TAKE i \in 1..Len(queue')
  <2>1. phase'[r] = "queued"
    BY <1>1
  <2> QED BY <1>2, <1>3, <1>4, <2>1
<1>6. \A i, j \in 1..Len(queue') : queue'[i] = queue'[j] => i = j
  BY <1>2, <1>3, <1>4 DEF IInv, InLine
<1> QED BY <1>2, <1>5, <1>6 DEF InLine

\* Clients and scripts: a request is queued, which it was not before, or a script ends.
LEMMA OutsideKeeps ==
  ASSUME IInv, NEW r \in Requests,
         Arrive(r) \/ End(r) \/ \E p \in Requests : Post(r, p)
  PROVE  IInv'
<1>1. ASSUME NEW q \in Requests, Queued(q) PROVE IInv'
  <2>1. InLine'
    BY <1>1, TailComes
  <2> QED BY <1>1, <2>1
          DEF IInv, TypeOK, Phases, Watched, OneStray, Stray, Emptied, Queued, Listening, InHand, In
<1>2. CASE End(r)
  <2>1. InLine'
    BY <1>2 DEF IInv, InLine, End, service
  <2> QED BY <1>2, <2>1 DEF IInv, TypeOK, Watched, OneStray, Stray, Emptied, End, InHand, In,
                            service
<1> QED BY <1>1, <1>2 DEF Arrive, Post

\* The workers take requests, parse, spawn and answer.
LEMMA WorkersKeep ==
  ASSUME IInv, NEW r \in Requests, Take(r) \/ Request(r) \/ ParseCrash(r)
  PROVE  IInv'
<1> DEFINE Rest == TypeOK /\ Watched /\ OneStray /\ Emptied
<1> USE DEF TypeOK, Phases, Watched, OneStray, Stray, Emptied, InHand, In, Over
<1>1. CASE Take(r)
  <2>1. PICK p \in {"parsing", "closed"} :
          /\ Dequeue(r) /\ phase' = [phase EXCEPT ![r] = p]
          /\ UNCHANGED <<main, script, answer>>
    BY <1>1 DEF Take, BeginParse, CloseUnread
  <2>2. phase[r] = "queued" /\ InLine'
    BY <2>1, HeadLeaves
  <2> QED BY <2>1, <2>2 DEF IInv, Dequeue
<1>2. CASE Parsed(r)
  <2>1. InLine'
    BY <1>2, InLineKept DEF IInv, Parsed
  <2> QED BY <1>2, <2>1 DEF IInv, Parsed
<1>3. CASE Refuse(r)
  <2>1. InLine'
    BY <1>3, InLineKept DEF IInv, Refuse, Answered, service
  <2> QED BY <1>3, <2>1 DEF IInv, Refuse, Answered, service
<1>4. CASE Spawn(r)
  <2>1. InLine'
    BY <1>4, InLineKept DEF IInv, Spawn, service
  <2> QED BY <1>4, <2>1 DEF IInv, Spawn, service
<1>5. CASE Wait(r)
  <2>1. InLine'
    BY <1>5, InLineKept DEF IInv, Wait, Answered, service
  <2> QED BY <1>5, <2>1 DEF IInv, Wait, Answered, service
<1>6. CASE ParseCrash(r)
  <2>1. InLine'
    BY <1>6, InLineKept DEF IInv, ParseCrash, service
  <2> QED BY <1>6, <2>1 DEF IInv, ParseCrash, service
<1> QED BY <1>1, <1>2, <1>3, <1>4, <1>5, <1>6 DEF Request

\* main: the first signal may make one stray, and the pool is drained of the requests in hand.
LEMMA MainKeeps == ASSUME IInv, Signal \/ SignalAgain \/ Stop \/ Drained PROVE IInv'
<1> USE DEF TypeOK, Phases, Watched, OneStray, Stray, Emptied, InHand, In, service
<1>1. CASE Signal
  <2>1. InLine'
    BY <1>1, InLineKept DEF IInv, Signal, Answered
  <2>2. CASE UNCHANGED <<phase, answer>>
    BY <1>1, <2>1, <2>2 DEF IInv, Signal
  <2>3. ASSUME NEW r \in Requests, phase[r] = "waiting", Answered(r, 500) PROVE IInv'
    BY <1>1, <2>1, <2>3 DEF IInv, Signal, Answered
  <2> QED BY <1>1, <2>2, <2>3 DEF Signal
<1>2. CASE SignalAgain
  <2>1. InLine'
    BY <1>2, InLineKept DEF IInv, SignalAgain
  <2> QED BY <1>2, <2>1 DEF IInv, SignalAgain
<1>3. CASE Stop
  <2>1. InLine'
    BY <1>3, InLineKept DEF IInv, Stop
  <2> QED BY <1>3, <2>1 DEF IInv, Stop
<1>4. CASE Drained
  <2>1. InLine'
    BY <1>4, InLineKept DEF IInv, Drained
  <2> QED BY <1>4, <2>1 DEF IInv, Drained
<1> QED BY <1>1, <1>2, <1>3, <1>4

\* No step of main, a worker, a child or a signal breaks the invariant.
LEMMA NextIInv == ASSUME IInv, [Next]_vars PROVE IInv'
<1>1. CASE UNCHANGED vars
  BY <1>1 DEF vars, IInv, TypeOK, Watched, OneStray, Stray, InLine, Emptied, InHand, In
<1> QED BY <1>1, OutsideKeeps, WorkersKeep, MainKeeps DEF Next

-----------------------------------------------------------------------------
\* The inductive invariant holds in every state of the service.
THEOREM Invariance == Spec => []IInv
<1>1. Init => IInv
  BY InitIInv
<1>2. IInv /\ [Next]_vars => IInv'
  BY NextIInv
<1> QED BY <1>1, <1>2, PTL DEF Spec

\* A server that exits with 0 leaves at most one script behind, and its client was told 500,
\* however many workers it has and whatever its scripts post.
THEOREM Orphans == Spec => []CleanExitOrphans
<1>1. IInv => CleanExitOrphans
  <2> SUFFICES ASSUME IInv, main = "ok"
               PROVE  Cardinality(Running) <= 1 /\ \A r \in Running : answer[r] = 500
    BY DEF CleanExitOrphans
  <2>1. \A r \in Running : Stray(r) /\ answer[r] = 500 /\ r \in Requests
    BY DEF IInv, Watched, Emptied, InHand, In, Running
  <2>2. \A r, q \in Running : r = q
    BY <2>1 DEF IInv, OneStray
  <2>3. Cardinality(Running) <= 1
    <3>1. CASE Running = {}
      BY <3>1, FS_EmptySet
    <3>2. ASSUME NEW r \in Running PROVE Cardinality(Running) <= 1
      <4>1. Running = {r}
        BY <2>2
      <4>2. Cardinality({r}) = 1
        BY FS_Singleton
      <4> QED BY <4>1, <4>2
    <3> QED BY <3>1, <3>2
  <2> QED BY <2>1, <2>3
<1> QED BY <1>1, Invariance, PTL

-----------------------------------------------------------------------------
(***************************************************************************)
(* Whose body a handler gets.  Its own, another's that was parsed while    *)
(* its own was, or none; and without a body nothing is spawned.            *)
(***************************************************************************)
Bodies ==
  /\ body \in [Requests -> Requests \cup {NullBody}]
  /\ overlap \in [Requests -> SUBSET Requests]
  /\ \A r \in Requests :
       /\ script[r] # "none" => phase[r] \in {"waiting", "answered"} /\ body[r] # NullBody
       /\ phase[r] \in {"parsed", "waiting", "answered"} =>
            body[r] \in {r, NullBody} \cup overlap[r]

OnlyRacesMix == \A r \in Requests : script[r] # "none" => body[r] \in {r} \cup overlap[r]

\* A request that begins to be parsed joins the overlap of those that are; the others'
\* is what it was.
LEMMA BodiesParsed ==
  ASSUME IInv, Bodies, NEW r \in Requests, Take(r) \/ Parsed(r)
  PROVE  Bodies'
<1>1. /\ phase \in [Requests -> Phases] /\ body \in [Requests -> Requests \cup {NullBody}]
      /\ overlap \in [Requests -> SUBSET Requests]
  BY DEF IInv, TypeOK, Bodies
<1>2. CASE BeginParse(r)
  <2>1. phase[r] = "queued" /\ "parsing" \in Phases
    BY <1>2, HeadLeaves DEF BeginParse, Phases
  <2>2. /\ phase' = [phase EXCEPT ![r] = "parsing"] /\ UNCHANGED <<body, script>>
        /\ overlap' \in [Requests -> SUBSET Requests]
        /\ \A q \in Requests \ {r} : phase[q] # "parsing" => overlap'[q] = overlap[q]
    BY <1>1, <1>2 DEF BeginParse, In
  <2> QED BY <1>1, <2>1, <2>2 DEF Bodies
<1>3. CASE CloseUnread(r)
  <2>1. phase[r] = "queued" /\ "closed" \in Phases
    BY <1>3, HeadLeaves DEF CloseUnread, Phases
  <2>2. phase' = [phase EXCEPT ![r] = "closed"] /\ UNCHANGED <<body, script, overlap>>
    BY <1>3 DEF CloseUnread
  <2> QED BY <1>1, <2>1, <2>2 DEF Bodies
<1>4. CASE Parsed(r)
  <2>1. PICK b \in Outcomes(r) : body' = [body EXCEPT ![r] = b]
    BY <1>4 DEF Parsed
  <2>2. b \in {r, NullBody} \cup overlap[r] /\ b \in Requests \cup {NullBody}
    BY <1>1, <2>1 DEF Outcomes
  <2>3. /\ phase[r] = "parsing" /\ phase' = [phase EXCEPT ![r] = "parsed"]
        /\ UNCHANGED <<overlap, script>>
    BY <1>4 DEF Parsed
  <2> QED BY <1>1, <2>1, <2>2, <2>3 DEF Bodies
<1> QED BY <1>2, <1>3, <1>4 DEF Take

\* Every parse goes on yielding one of the bodies that it overlapped with.
LEMMA NextBodies == ASSUME IInv, Bodies, [Next]_vars PROVE Bodies'
<1>1. /\ phase \in [Requests -> Phases] /\ script \in [Requests -> {"none", "running", "ended"}]
  BY DEF IInv, TypeOK
<1>2. ASSUME UNCHANGED <<body, overlap>>,
             \A r \in Requests :
               /\ script'[r] # "none" =>
                    \/ script[r] # "none" /\ phase'[r] \in {phase[r], "answered"}
                    \/ body[r] # NullBody /\ phase'[r] = "waiting"
               /\ phase'[r] \in {"parsed", "waiting", "answered"} =>
                    phase[r] \in {"parsed", "waiting", "answered"}
      PROVE  Bodies'
  BY <1>2 DEF Bodies
<1>3. ASSUME NEW r \in Requests, Queued(r) PROVE Bodies'
  BY <1>1, <1>2, <1>3 DEF Queued, Bodies
<1>4. ASSUME NEW r \in Requests, Request(r) \/ ParseCrash(r) \/ End(r) PROVE Bodies'
  <2>1. CASE Parsed(r)
    BY <2>1, BodiesParsed
  <2>2. CASE Refuse(r) \/ Wait(r)
    BY <1>1, <1>2, <2>2 DEF Refuse, Wait, Answered, service
  <2>3. CASE Spawn(r)
    BY <1>1, <1>2, <2>3 DEF Spawn, service
  <2>4. CASE ParseCrash(r) \/ End(r)
    BY <1>1, <1>2, <2>4 DEF ParseCrash, End, service
  <2> QED BY <1>4, <2>1, <2>2, <2>3, <2>4 DEF Request
<1>5. CASE Signal
  BY <1>1, <1>2, <1>5 DEF Signal, Answered, In, service
<1>6. CASE SignalAgain \/ Stop \/ Drained \/ UNCHANGED vars
  BY <1>1, <1>2, <1>6 DEF SignalAgain, Stop, Drained, service, vars
<1> QED BY <1>3, <1>4, <1>5, <1>6, BodiesParsed DEF Next, Arrive, Post

\* A child runs the script of another request only if the two bodies were parsed at once:
\* the shared reader is the only thing through which requests meet.
THEOREM RacesMix == Spec => []OnlyRacesMix
<1>1. Init => Bodies
  BY DEF Init, Bodies
<1>2. IInv /\ Bodies /\ [Next]_vars => Bodies'
  BY NextBodies
<1>3. Bodies => OnlyRacesMix
  BY DEF Bodies, OnlyRacesMix
<1> QED BY <1>1, <1>2, <1>3, Invariance, PTL DEF Spec

-----------------------------------------------------------------------------
(***************************************************************************)
(* Who waits for whom.  A request is posted once, by a script that runs,   *)
(* and before it has a script of its own; so the posts make no circle, and *)
(* threads that all wait for posts wait for one that is still in the queue. *)
(***************************************************************************)

\* No more requests are in hand than there are workers.
FitsPool == IsFiniteSet(InHand) /\ Cardinality(InHand) <= Cardinality(Workers)

\* Who has no script has posted nothing, and who was posted was sent.
PostedByScripts ==
  /\ poster \in [Requests -> Requests \cup {NoRequest}]
  /\ \A p \in Requests : poster[p] # NoRequest =>
       phase[p] # "unsent" /\ script[poster[p]] # "none"

\* In any set of requests there is one that posted none of them.
PostsNoCircle ==
  \A X \in SUBSET Requests : X # {} => \E r \in X : \A p \in X : poster[p] # r

\* In any set of requests there is one that waits for none of them.
NobodyWaitsInACircle ==
  \A X \in SUBSET Requests : X # {} => \E r \in X : \A p \in X : ~AwaitsAnswer(r, p)

\* When all that is in hand is blocked though no script hangs, a script waits for a
\* request that is still in the queue.
OnlyTheQueueStarves ==
  InHand # {} /\ (\A q \in InHand : Blocked(q) /\ body[q] \notin Hanging) =>
    \E r \in InHand, p \in In("queued") : AwaitsAnswer(r, p)

\* Only a request whose parsing begins gets into a worker's hands.
LEMMA HandsFill ==
  ASSUME IInv, [Next]_vars
  PROVE  \/ InHand' \subseteq InHand
         \/ /\ Cardinality(InHand) < Cardinality(Workers)
            /\ \E r \in Requests : InHand' \subseteq InHand \cup {r}
<1>1. phase \in [Requests -> Phases]
  BY DEF IInv, TypeOK
<1>2. ASSUME NEW r \in Requests, NEW p \in {"queued", "closed", "answered"},
             phase' = [phase EXCEPT ![r] = p]
      PROVE  InHand' \subseteq InHand
  BY <1>1, <1>2 DEF InHand, In
<1>3. ASSUME NEW r \in Requests, NEW p \in {"parsing", "parsed", "waiting"},
             phase' = [phase EXCEPT ![r] = p]
      PROVE  /\ InHand' \subseteq InHand \cup {r}
             /\ r \in InHand => InHand' \subseteq InHand
  BY <1>1, <1>3 DEF InHand, In
<1>4. ASSUME UNCHANGED phase PROVE InHand' \subseteq InHand
  BY <1>4 DEF InHand, In
<1>5. ASSUME NEW r \in Requests, Queued(r) PROVE InHand' \subseteq InHand
  BY <1>2, <1>5 DEF Queued
<1>6. ASSUME NEW r \in Requests, Parsed(r) \/ Spawn(r) PROVE InHand' \subseteq InHand
  <2>1. r \in InHand
    BY <1>6 DEF Parsed, Spawn, InHand, In
  <2> QED BY <1>3, <1>6, <2>1 DEF Parsed, Spawn
<1>7. ASSUME NEW r \in Requests, Refuse(r) \/ Wait(r) PROVE InHand' \subseteq InHand
  BY <1>2, <1>7 DEF Refuse, Wait, Answered
<1>8. ASSUME NEW r \in Requests, ParseCrash(r) \/ End(r) PROVE InHand' \subseteq InHand
  BY <1>4, <1>8 DEF ParseCrash, End
<1>9. ASSUME NEW r \in Requests, CloseUnread(r) PROVE InHand' \subseteq InHand
  BY <1>2, <1>9 DEF CloseUnread
<1>10. ASSUME NEW r \in Requests, BeginParse(r)
       PROVE  /\ Cardinality(InHand) < Cardinality(Workers)
              /\ InHand' \subseteq InHand \cup {r}
  BY <1>3, <1>10 DEF BeginParse, Dequeue
<1>11. CASE Signal
  BY <1>2, <1>4, <1>11 DEF Signal, Answered, In
<1>12. CASE SignalAgain \/ Stop \/ Drained \/ UNCHANGED vars
  BY <1>4, <1>12 DEF SignalAgain, Stop, Drained, vars
<1>13. CASE \E r \in Requests : Take(r)
  BY <1>9, <1>10, <1>13 DEF Take
<1>14. CASE \E r \in Requests : Request(r) \/ ParseCrash(r) \/ End(r)
  BY <1>6, <1>7, <1>8, <1>14 DEF Request
<1>15. CASE \E r \in Requests : Arrive(r) \/ \E p \in Requests : Post(r, p)
  BY <1>5, <1>15 DEF Arrive, Post
<1> QED BY <1>11, <1>12, <1>13, <1>14, <1>15 DEF Next

\* The pool never has more in hand than it has workers.
LEMMA NextFitsPool == ASSUME IInv, FitsPool, [Next]_vars PROVE FitsPool'
<1> DEFINE now == InHand
           then == InHand'
           workers == Cardinality(Workers)
<1>1. IsFiniteSet(now) /\ Cardinality(now) <= workers
  BY DEF FitsPool
<1>2. Cardinality(now) \in Nat /\ workers \in Nat
  BY <1>1, FS_CardinalityType, ExecuteAssumption
<1>3. ASSUME then \subseteq now PROVE FitsPool'
  <2> HIDE DEF now, then, workers
  <2>1. IsFiniteSet(then) /\ Cardinality(then) <= Cardinality(now) /\ Cardinality(then) \in Nat
    BY <1>1, <1>3, FS_Subset, FS_CardinalityType
  <2>2. IsFiniteSet(then) /\ Cardinality(then) <= workers
    BY <1>1, <1>2, <2>1
  <2> QED BY <2>2 DEF FitsPool, then, workers
<1>4. ASSUME NEW r, Cardinality(now) < workers, then \subseteq now \cup {r} PROVE FitsPool'
  <2> HIDE DEF now, then, workers
  <2> DEFINE more == now \cup {r}
  <2>1. IsFiniteSet(more) /\ Cardinality(more) \in {Cardinality(now), Cardinality(now) + 1}
    BY <1>1, FS_AddElement
  <2> HIDE DEF more
  <2>2. IsFiniteSet(then) /\ Cardinality(then) <= Cardinality(more) /\ Cardinality(then) \in Nat
    BY <1>4, <2>1, FS_Subset, FS_CardinalityType DEF more
  <2>3. IsFiniteSet(then) /\ Cardinality(then) <= workers
    BY <1>2, <1>4, <2>1, <2>2
  <2> QED BY <2>3 DEF FitsPool, then, workers
<1> QED BY <1>3, <1>4, HandsFill

\* However many requests are accepted, the pool has no more in hand than it has workers.
THEOREM PoolIsNotExceeded == Spec => []FitsPool
<1>1. Init => FitsPool
  <2> SUFFICES ASSUME Init PROVE FitsPool
    OBVIOUS
  <2>1. InHand = {}
    BY DEF Init, InHand, In
  <2>2. Cardinality(Workers) \in Nat /\ IsFiniteSet({}) /\ Cardinality({}) = 0
    BY FS_CardinalityType, FS_EmptySet, ExecuteAssumption
  <2> QED BY <2>1, <2>2 DEF FitsPool
<1>2. IInv /\ FitsPool /\ [Next]_vars => FitsPool'
  BY NextFitsPool
<1> QED BY <1>1, <1>2, Invariance, PTL DEF Spec

\* A step posts one request that was not sent before, from a script that runs, or none.
LEMMA PostsOneAtMost ==
  ASSUME IInv, PostedByScripts, [Next]_vars
  PROVE  /\ \/ UNCHANGED poster
            \/ \E r, p \in Requests : /\ script[r] = "running" /\ phase[p] = "unsent"
                                      /\ phase'[p] = "queued"
                                      /\ poster' = [poster EXCEPT ![p] = r]
         /\ \A r \in Requests : /\ script[r] # "none" => script'[r] # "none"
                                /\ phase[r] # "unsent" => phase'[r] # "unsent"
<1>1. /\ phase \in [Requests -> Phases] /\ script \in [Requests -> {"none", "running", "ended"}]
  BY DEF IInv, TypeOK
<1>2. ASSUME NEW r \in Requests, Arrive(r) \/ Take(r)
      PROVE  UNCHANGED <<poster, script>> /\ \E p \in Phases \ {"unsent"} :
               phase' = [phase EXCEPT ![r] = p]
  BY <1>2 DEF Arrive, Queued, Take, BeginParse, CloseUnread, Phases
<1>3. ASSUME NEW r \in Requests, Request(r) \/ ParseCrash(r) \/ End(r)
      PROVE  /\ UNCHANGED poster
             /\ UNCHANGED phase \/ \E p \in Phases \ {"unsent"} : phase' = [phase EXCEPT ![r] = p]
             /\ UNCHANGED script \/ \E t \in {"running", "ended"} : script' = [script EXCEPT ![r] = t]
  BY <1>3 DEF Request, Parsed, Refuse, Spawn, Wait, Answered, ParseCrash, End, service, Phases
<1>4. ASSUME NEW r \in Requests, NEW p \in Requests, Post(r, p)
      PROVE  /\ script[r] = "running" /\ phase[p] = "unsent" /\ UNCHANGED script
             /\ phase' = [phase EXCEPT ![p] = "queued"]
             /\ poster' = [poster EXCEPT ![p] = r]
  BY <1>4 DEF Post, Queued
<1>5. CASE Signal
  <2>1. UNCHANGED <<poster, script>>
    BY <1>5 DEF Signal, service
  <2>2. UNCHANGED phase \/ \E r \in Requests : phase' = [phase EXCEPT ![r] = "answered"]
    BY <1>5 DEF Signal, Answered, In
  <2> QED BY <1>1, <2>1, <2>2
<1>6. CASE SignalAgain \/ Stop \/ Drained \/ UNCHANGED vars
  BY <1>6 DEF SignalAgain, Stop, Drained, service, vars
<1>7. CASE \E r \in Requests : Arrive(r) \/ Take(r)
  BY <1>1, <1>2, <1>7
<1>8. CASE \E r \in Requests : Request(r) \/ ParseCrash(r) \/ End(r)
  BY <1>1, <1>3, <1>8
<1>9. CASE \E r, p \in Requests : Post(r, p)
  BY <1>1, <1>4, <1>9
<1> QED BY <1>5, <1>6, <1>7, <1>8, <1>9 DEF Next

\* A request that is posted has posted nothing yet, so that no circle closes.
LEMMA NextPosts ==
  ASSUME IInv, Bodies, PostedByScripts, PostsNoCircle, [Next]_vars
  PROVE  PostedByScripts' /\ PostsNoCircle'
<1>1. \A r \in Requests : /\ script[r] # "none" => script'[r] # "none"
                          /\ phase[r] # "unsent" => phase'[r] # "unsent"
  BY PostsOneAtMost
<1>2. \A p \in Requests : poster[p] \in Requests \/ poster[p] = NoRequest
  BY DEF PostedByScripts
<1>3. CASE UNCHANGED poster
  <2>1. PostedByScripts'
    BY <1>1, <1>2, <1>3 DEF PostedByScripts
  <2> QED BY <1>3, <2>1 DEF PostsNoCircle
<1>4. ASSUME NEW r \in Requests, NEW p \in Requests,
             script[r] = "running", phase[p] = "unsent", phase'[p] = "queued",
             poster' = [poster EXCEPT ![p] = r]
      PROVE  PostedByScripts' /\ PostsNoCircle'
  <2>1. poster' \in [Requests -> Requests \cup {NoRequest}] /\ poster'[p] = r
        /\ \A q \in Requests \ {p} : poster'[q] = poster[q]
    BY <1>4 DEF PostedByScripts
  <2>2. script'[r] # "none"
    BY <1>1, <1>4
  <2>3. PostedByScripts'
    BY <1>1, <1>2, <1>4, <2>1, <2>2 DEF PostedByScripts
  <2>4. p # r /\ \A q \in Requests : poster'[q] # p
    <3>1. script[p] = "none"
      BY <1>4 DEF Bodies
    <3>2. p # NoRequest
      BY ExecuteAssumption
    <3>3. \A q \in Requests : poster[q] # p
      BY <3>1, <3>2 DEF PostedByScripts
    <3> QED BY <1>4, <2>1, <3>1, <3>3
  <2>5. ASSUME NEW X \in SUBSET Requests, X # {}
        PROVE  \E a \in X : \A q \in X : poster'[q] # a
    <3>1. CASE p \in X
      BY <2>4, <3>1
    <3>2. CASE p \notin X
      <4>1. PICK a \in X : \A q \in X : poster[q] # a
        BY <2>5 DEF PostsNoCircle
      <4> QED BY <2>1, <3>2, <4>1
    <3> QED BY <3>1, <3>2
  <2> QED BY <2>3, <2>5 DEF PostsNoCircle
<1> QED BY <1>3, <1>4, PostsOneAtMost

\* The bodies of a service are its invariant too.
LEMMA BodiesHold == Spec => []Bodies
<1>1. Init => Bodies
  BY DEF Init, Bodies
<1>2. IInv /\ Bodies /\ [Next]_vars => Bodies'
  BY NextBodies
<1> QED BY <1>1, <1>2, Invariance, PTL DEF Spec

\* Whatever scripts post to whom, in every state the posts make no circle.
LEMMA PostsHold == Spec => [](PostedByScripts /\ PostsNoCircle)
<1>1. Init => PostedByScripts /\ PostsNoCircle
  <2> SUFFICES ASSUME Init PROVE PostedByScripts /\ PostsNoCircle
    OBVIOUS
  <2>1. poster = [r \in Requests |-> NoRequest] /\ NoRequest \notin Requests
    BY ExecuteAssumption DEF Init
  <2> QED BY <2>1 DEF PostedByScripts, PostsNoCircle
<1>2. IInv /\ Bodies /\ PostedByScripts /\ PostsNoCircle /\ [Next]_vars
        => PostedByScripts' /\ PostsNoCircle'
  BY NextPosts
<1> QED BY <1>1, <1>2, Invariance, BodiesHold, PTL DEF Spec

\* Requests never wait for each other in a circle, whichever scripts post which requests
\* and whatever bodies the shared reader mixes up.
THEOREM NoCircle == Spec => []NobodyWaitsInACircle
<1>1. PostsNoCircle => NobodyWaitsInACircle
  BY DEF PostsNoCircle, NobodyWaitsInACircle, AwaitsAnswer
<1> QED BY <1>1, PostsHold, PTL

\* When everything in hand is blocked and no script of it hangs, what is missing is a
\* thread: a script waits for a request that no worker has taken yet.
THEOREM Starvation == Spec => []OnlyTheQueueStarves
<1>1. IInv /\ PostedByScripts /\ PostsNoCircle => OnlyTheQueueStarves
  <2> SUFFICES ASSUME IInv, PostedByScripts, PostsNoCircle, InHand # {},
                      \A q \in InHand : Blocked(q) /\ body[q] \notin Hanging
               PROVE  \E r \in InHand, p \in In("queued") : AwaitsAnswer(r, p)
    BY DEF OnlyTheQueueStarves
  <2>1. InHand \in SUBSET Requests
    BY DEF InHand, In
  <2>2. PICK r \in InHand : \A p \in InHand : poster[p] # r
    BY <2>1 DEF PostsNoCircle
  <2>3. PICK p \in Requests : AwaitsAnswer(r, p)
    BY <2>2 DEF Blocked
  <2>4. poster[p] = r /\ r \in Requests /\ p \notin InHand /\ p \notin Settled
    BY <2>1, <2>2, <2>3 DEF AwaitsAnswer
  <2>5. phase[p] # "unsent"
    BY <2>4, ExecuteAssumption DEF PostedByScripts
  <2>6. phase[p] \in Phases
    BY DEF IInv, TypeOK
  <2>7. phase[p] = "queued"
    BY <2>4, <2>5, <2>6 DEF Phases, InHand, Settled, In
  <2> QED BY <2>2, <2>3, <2>7 DEF In
<1> QED BY <1>1, Invariance, PostsHold, PTL

-----------------------------------------------------------------------------
(***************************************************************************)
(* The service implements ExecuteService: what a client is told is the     *)
(* status of its answer.                                                   *)
(***************************************************************************)
Told(status) ==
  CASE status = 200 -> "ok" [] status = 400 -> "bad_request" [] status = 500 -> "error"
    [] OTHER -> "pending"

Promise == INSTANCE ExecuteService WITH answer <- [r \in Requests |-> Told(answer[r])]

KeepsPromise == Promise!Spec

\* A request has a status from when it is answered.
AnsweredOnce == \A r \in Requests : answer[r] # 0 => phase[r] = "answered"

\* A status is given once, to a request that a worker has in hand.
LEMMA NextAnswers == ASSUME IInv, AnsweredOnce, [Next]_vars PROVE AnsweredOnce'
<1>1. /\ phase \in [Requests -> Phases] /\ answer \in [Requests -> {0, 200, 400, 500}]
  BY DEF IInv, TypeOK
<1>2. ASSUME NEW r \in Requests, NEW p \in Phases, UNCHANGED answer, phase[r] # "answered",
             phase' = [phase EXCEPT ![r] = p]
      PROVE  AnsweredOnce'
  BY <1>1, <1>2 DEF AnsweredOnce
<1>3. ASSUME NEW r \in Requests, NEW code, Answered(r, code) PROVE AnsweredOnce'
  BY <1>1, <1>3 DEF AnsweredOnce, Answered
<1>4. ASSUME UNCHANGED <<phase, answer>> PROVE AnsweredOnce'
  BY <1>4 DEF AnsweredOnce
<1>5. ASSUME NEW r \in Requests, Queued(r) \/ Parsed(r) \/ Spawn(r) PROVE AnsweredOnce'
  BY <1>2, <1>5 DEF Queued, Parsed, Spawn, service, Phases
<1>6. ASSUME NEW r \in Requests, Take(r) PROVE AnsweredOnce'
  <2>1. PICK p \in Phases : Dequeue(r) /\ phase' = [phase EXCEPT ![r] = p] /\ UNCHANGED answer
    BY <1>6 DEF Take, BeginParse, CloseUnread, Phases
  <2>2. phase[r] = "queued"
    BY <2>1, HeadLeaves
  <2> QED BY <1>2, <2>1, <2>2
<1>7. ASSUME NEW r \in Requests, Refuse(r) \/ Wait(r) PROVE AnsweredOnce'
  BY <1>3, <1>7 DEF Refuse, Wait
<1>8. CASE Signal
  BY <1>3, <1>4, <1>8 DEF Signal, In
<1>9. CASE SignalAgain \/ Stop \/ Drained \/ UNCHANGED vars
  BY <1>4, <1>9 DEF SignalAgain, Stop, Drained, vars
<1>10. ASSUME NEW r \in Requests, ParseCrash(r) \/ End(r) PROVE AnsweredOnce'
  BY <1>4, <1>10 DEF ParseCrash, End
<1> QED BY <1>5, <1>6, <1>7, <1>8, <1>9, <1>10 DEF Next, Arrive, Post, Request

\* r is given its status, 200 after its script, 400 instead of one.
Gives(r, code) ==
  /\ code \in {200, 400, 500} /\ phase[r] # "answered" /\ UNCHANGED script
  /\ answer' = [answer EXCEPT ![r] = code]
  /\ code = 200 => script[r] = "ended"
  /\ code = 400 => script[r] = "none"

\* Each step is one of ExecuteService, or none of its.
LEMMA NextKeepsPromise ==
  ASSUME IInv, Bodies, AnsweredOnce, [Next]_vars
  PROVE  [Promise!Next]_(Promise!vars)
<1> DEFINE told == [r \in Requests |-> Told(answer[r])]
<1> SUFFICES Promise!Next \/ UNCHANGED <<script, told>>
  BY DEF Promise!vars
<1>1. /\ script \in [Requests -> {"none", "running", "ended"}]
      /\ answer \in [Requests -> {0, 200, 400, 500}]
  BY DEF IInv, TypeOK
<1>2. ASSUME UNCHANGED <<script, answer>> PROVE UNCHANGED <<script, told>>
  BY <1>2
<1>3. ASSUME NEW r \in Requests, NEW code, Gives(r, code) PROVE Promise!Next
  <2>1. answer[r] = 0
    BY <1>1, <1>3 DEF AnsweredOnce, Gives
  <2>2. told[r] = "pending" /\ told' = [told EXCEPT ![r] = Told(code)]
    <3>1. Told(0) = "pending"
      BY DEF Told
    <3>2. \A q \in Requests : answer'[q] = IF q = r THEN code ELSE answer[q]
      BY <1>1, <1>3 DEF Gives
    <3>3. told' = [q \in Requests |-> Told(answer'[q])]
      OBVIOUS
    <3> QED BY <2>1, <3>1, <3>2, <3>3
  <2>3. Told(code) \in Promise!Answers \ {"pending"}
    BY <1>3 DEF Told, Promise!Answers, Gives
  <2>4. /\ Told(code) = "ok" => script[r] = "ended"
        /\ Told(code) \in {"bad_request", "exception"} => script[r] = "none"
    BY <1>3 DEF Told, Gives
  <2>5. Promise!Answer(r, Told(code))
    BY <1>3, <2>2, <2>4 DEF Promise!Answer, Gives
  <2> QED BY <2>3, <2>5 DEF Promise!Next
<1>4. ASSUME NEW r \in Requests, Queued(r) \/ Take(r) \/ Parsed(r) \/ ParseCrash(r)
      PROVE  UNCHANGED <<script, answer>>
  BY <1>4 DEF Queued, Take, BeginParse, CloseUnread, Parsed, ParseCrash
<1>5. ASSUME NEW r \in Requests, Refuse(r) PROVE Promise!Next
  <2>1. phase[r] = "parsed" /\ script[r] = "none"
    BY <1>1, <1>5 DEF Refuse, Bodies
  <2>2. PICK code \in {400, 500} : Answered(r, code) /\ UNCHANGED script
    BY <1>5 DEF Refuse
  <2>3. Gives(r, code)
    BY <2>1, <2>2 DEF Answered, Gives
  <2> QED BY <1>3, <2>3
<1>6. ASSUME NEW r \in Requests, Wait(r) PROVE Promise!Next
  <2>1. Gives(r, 200)
    BY <1>6 DEF Wait, Answered, Gives
  <2> QED BY <1>3, <2>1
<1>7. ASSUME NEW r \in Requests, Spawn(r) PROVE Promise!Next
  <2>1. phase[r] = "parsed" /\ script[r] = "none" /\ UNCHANGED answer
        /\ script' = [script EXCEPT ![r] = "running"]
    BY <1>1, <1>7 DEF Spawn, Bodies
  <2>2. answer[r] = 0
    BY <1>1, <2>1 DEF AnsweredOnce
  <2>3. Promise!Run(r)
    BY <2>1, <2>2 DEF Promise!Run, Told
  <2> QED BY <2>3 DEF Promise!Next
<1>8. ASSUME NEW r \in Requests, End(r) PROVE Promise!Next
  <2>1. Promise!End(r)
    BY <1>8 DEF End, Promise!End
  <2> QED BY <2>1 DEF Promise!Next
<1>9. CASE Signal
  <2>1. CASE UNCHANGED <<phase, answer>>
    BY <1>2, <1>9, <2>1 DEF Signal
  <2>2. ASSUME NEW r \in Requests, phase[r] = "waiting", Answered(r, 500) PROVE Promise!Next
    <3>1. Gives(r, 500)
      BY <1>9, <2>2 DEF Signal, Answered, Gives
    <3> QED BY <1>3, <3>1
  <2> QED BY <1>9, <2>1, <2>2 DEF Signal, In
<1>10. CASE SignalAgain \/ Stop \/ Drained \/ UNCHANGED vars
  BY <1>2, <1>10 DEF SignalAgain, Stop, Drained, vars
<1> QED BY <1>2, <1>4, <1>5, <1>6, <1>7, <1>8, <1>9, <1>10 DEF Next, Arrive, Post, Request

\* With mixed bodies, interrupted waits, stops and crashes, the service keeps what
\* ExecuteService promises: a script is run once at most, a request answered once at most,
\* "ok" said only of a script that has ended, and nothing is run for a refused request.
THEOREM Refinement == Spec => KeepsPromise
<1>1. Init => Promise!Init
  <2> SUFFICES ASSUME Init PROVE Promise!Init
    OBVIOUS
  <2>1. \A r \in Requests : Told(answer[r]) = "pending"
    BY DEF Init, Told
  <2> QED BY <2>1 DEF Init, Promise!Init
<1>2. Init => AnsweredOnce
  BY DEF Init, AnsweredOnce
<1>3. IInv /\ AnsweredOnce /\ [Next]_vars => AnsweredOnce'
  BY NextAnswers
<1>4. IInv /\ Bodies /\ AnsweredOnce /\ [Next]_vars => [Promise!Next]_(Promise!vars)
  BY NextKeepsPromise
<1> QED BY <1>1, <1>2, <1>3, <1>4, Invariance, BodiesHold, PTL
        DEF Spec, Promise!Spec, KeepsPromise
=============================================================================
