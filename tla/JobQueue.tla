------------------------------ MODULE JobQueue ------------------------------
(***************************************************************************)
(* What a task queue promises to the thread that feeds it: accepted jobs   *)
(* begin in the order in which they were accepted, each exactly once, and  *)
(* the queue closes only when every accepted job has been done.            *)
(***************************************************************************)
EXTENDS Naturals, Sequences

CONSTANT Jobs

VARIABLES
  accepted,  \* the jobs accepted, in order
  begun,     \* how many of them have begun
  done,      \* the jobs that have returned
  closed     \* has shutdown returned?

vars == <<accepted, begun, done, closed>>

First(n) == {accepted[i] : i \in 1..n}

Init == accepted = << >> /\ begun = 0 /\ done = {} /\ closed = FALSE

Accept(j) == /\ ~closed /\ j \notin First(Len(accepted))
             /\ accepted' = Append(accepted, j)
             /\ UNCHANGED <<begun, done, closed>>

Begin == /\ begun < Len(accepted)
         /\ begun' = begun + 1
         /\ UNCHANGED <<accepted, done, closed>>

Finish(j) == /\ j \in First(begun) \ done
             /\ done' = done \cup {j}
             /\ UNCHANGED <<accepted, begun, closed>>

Close == /\ ~closed /\ done = First(Len(accepted))
         /\ closed' = TRUE
         /\ UNCHANGED <<accepted, begun, done>>

Next == Begin \/ Close \/ \E j \in Jobs : Accept(j) \/ Finish(j)

Spec == Init /\ [][Next]_vars
=============================================================================
