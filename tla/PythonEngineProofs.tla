------------------------- MODULE PythonEngineProofs -------------------------
(***************************************************************************)
(* Theorems about PythonEngine, for any sets of calls, pids and bodies.    *)
(***************************************************************************)
EXTENDS PythonEngine, FiniteSetTheorems, TLAPS

(* What travels to the child is a well-formed argument vector, on either   *)
(* platform.                                                               *)
LEMMA ArgvType ==
  ASSUME NEW q \in [file : Texts, lib : Texts], NEW beyond \in Beyond
  PROVE  Argv(q, beyond) \in Seq(Texts)
<1>1. /\ ExePath \in Texts /\ <<Flag>> \in Texts
      /\ q.file \in Texts /\ q.lib \in Texts
  <2>1. <<Flag>> \in Texts
    <3>1. Flag \in Words
      BY EngineAssumption
    <3>2. ASSUME NEW S, NEW w \in S PROVE <<w>> \in Seq(S)
      OBVIOUS
    <3> QED BY <3>1, <3>2 DEF Texts
  <2> QED BY <2>1, EngineAssumption
<1>2. PosixArgv(q, beyond) \in Seq(Texts)
  <2>1. beyond \in Seq(Texts)
    BY EngineAssumption
  <2>2. /\ <<ExePath, <<Flag>>, q.file>> \in Seq(Texts)
        /\ <<ExePath, <<Flag>>, q.file, q.lib>> \in Seq(Texts)
    BY <1>1
  <2> QED BY <2>1, <2>2 DEF PosixArgv
<1>3. WindowsArgv(q) \in Seq(Texts)
  <2> DEFINE line == ExePath \o <<Flag>> \o q.file \o q.lib
  <2>1. line \in Texts
    <3>1. \A s, t \in Texts : s \o t \in Texts
      BY DEF Texts
    <3> QED BY <1>1, <3>1
  <2> HIDE DEF line
  <2>2. Len(line) \in Nat /\ \A i \in 1..Len(line) : <<line[i]>> \in Texts
    BY <2>1 DEF Texts
  <2>3. [i \in 1..Len(line) |-> <<line[i]>>] \in Seq(Texts)
    BY <2>2
  <2> QED BY <2>3 DEF line, WindowsArgv
<1> QED BY <1>2, <1>3 DEF Argv

(* What FromJson returns is a request.                                     *)
LEMMA FromJsonType ==
  ASSUME NEW b \in Bodies
  PROVE  FromJson(b) \in [file : Texts, lib : Texts]
BY EngineAssumption DEF FromJson, NoRequest, NoText, Texts, Fields

\* At first every variable has its type.
LEMMA InitTypeOK == Init => TypeOK
BY DEF Init, TypeOK, PcStates, NoRequest, NoText, Texts, NoAnswer, Responses,
       Messages, FreeProc, Processes

\* Every step of a call, a child or the environment keeps the types.
LEMMA NextTypeOK == TypeOK /\ [Next]_vars => TypeOK'
<1> SUFFICES ASSUME TypeOK, [Next]_vars PROVE TypeOK'
  OBVIOUS
<1> USE DEF TypeOK, Goto, PcStates
<1>1. ASSUME NEW r \in Requests, NEW b \in Bodies, Throw(r, b)
      PROVE  TypeOK'
  BY <1>1 DEF Throw
<1>2. ASSUME NEW r \in Requests, NEW b \in Bodies, Reject(r, b)
      PROVE  TypeOK'
  <2>1. [status |-> 400, message |-> "no path"] \in Responses
    BY DEF Responses, Messages
  <2> QED BY <1>2, <2>1, FromJsonType DEF Reject
<1>3. ASSUME NEW r \in Requests, NEW b \in Bodies, Accept(r, b)
      PROVE  TypeOK'
  <2>1. [status |-> 200, message |-> "executing"] \in Responses
    BY DEF Responses, Messages
  <2> QED BY <1>3, <2>1, FromJsonType DEF Accept
<1>4. ASSUME NEW r \in Requests, NEW p \in Pids, SpawnOk(r, p)
      PROVE  TypeOK'
  <2>1. \A beyond \in Beyond :
          [state |-> "running", owner |-> r, argv |-> Argv(req[r], beyond)] \in Processes
    BY ArgvType DEF Processes
  <2> QED BY <1>4, <2>1 DEF SpawnOk
<1>5. ASSUME NEW r \in Requests PROVE Failed(resp[r]) \in Responses
  <2>1. resp[r] \in Responses
    OBVIOUS
  <2>2. resp[r].status \in {0, 200, 400, 500}
    BY <2>1 DEF Responses
  <2> QED BY ZenonT(40), <2>2 DEF Failed, Responses, Messages
<1>6. ASSUME NEW r \in Requests, SpawnFail(r)
      PROVE  TypeOK'
  BY <1>5, <1>6 DEF SpawnFail
<1>7. FreeProc \in Processes
  BY DEF FreeProc, Processes
<1>8. ASSUME NEW r \in Requests, Wait(r)
      PROVE  TypeOK'
  BY <1>7, <1>8 DEF Wait
<1>9. ASSUME NEW r \in Requests, Interrupt(r)
      PROVE  TypeOK'
  BY <1>5, <1>9 DEF Interrupt
<1>10. ASSUME NEW r \in Requests, Reply(r)
       PROVE  TypeOK'
  BY <1>10 DEF Reply
<1>11. ASSUME NEW p \in Pids, Exit(p)
       PROVE  TypeOK'
  BY <1>11 DEF Exit, Processes
<1>12. CASE UNCHANGED vars
  BY <1>12 DEF vars
<1> QED
  BY <1>1, <1>2, <1>3, <1>4, <1>6, <1>8, <1>9, <1>10, <1>11, <1>12 DEF Next, Spawn

(* Every variable keeps its type, whatever the bodies and the platform.    *)
THEOREM TypeCorrect == Spec => []TypeOK
<1> QED BY InitTypeOK, NextTypeOK, PTL DEF Spec

-----------------------------------------------------------------------------
(***************************************************************************)
(* The inductive invariant behind the safety properties.  OkMeansReaped is *)
(* not inductive by itself: that the wait reaps the call's only child      *)
(* needs the table and the pids of the calls to agree in both directions   *)
(* (WaitsForOwnChild, OneChildPerCall), and that a call has no child yet   *)
(* when it spawns needs its pid to be Null until then.                     *)
(***************************************************************************)
NoPidBeforeSpawn == \A r \in Requests :
                       pc[r] \in {"idle", "spawn", "thrown"} => pid[r] = Null

AnswerIsResponse == \A r \in Requests :
                       answer[r] = IF pc[r] = "returned" THEN resp[r] ELSE NoAnswer

ResponseIsRight ==
  \A r \in Requests :
     /\ pc[r] \in {"spawn", "wait"} => resp[r].status = 200
     /\ pc[r] \in {"reply", "returned"} =>
          /\ resp[r].status \in {200, 400, 500}
          /\ resp[r].status = 400 => pid[r] = Null
          /\ ~Windows /\ resp[r].status = 200 => pid[r] # Null /\ Children(r) = {}

IInv == /\ TypeOK
        /\ WaitsForOwnChild
        /\ OneChildPerCall
        /\ NoPidBeforeSpawn
        /\ AnswerIsResponse
        /\ ResponseIsRight

\* The table of processes and the calls' pids agree at first.
LEMMA InitIInv == Init => IInv
<1> SUFFICES ASSUME Init PROVE IInv
  OBVIOUS
<1>1. TypeOK
  BY InitTypeOK
<1> QED
  BY <1>1 DEF Init, IInv, WaitsForOwnChild, OneChildPerCall, NoPidBeforeSpawn,
              AnswerIsResponse, ResponseIsRight, FreeProc

(* While the call is not yet spawned nothing in the table is its own.      *)
LEMMA NoChildBeforeSpawn ==
  ASSUME IInv, NEW r \in Requests, pc[r] \in {"idle", "spawn", "thrown"}
  PROVE  Children(r) = {}
BY EngineAssumption DEF IInv, OneChildPerCall, NoPidBeforeSpawn, Children

\* Every step keeps the table and the calls' pids in agreement.
LEMMA NextIInv == IInv /\ [Next]_vars => IInv'
<1> SUFFICES ASSUME IInv, [Next]_vars PROVE IInv'
  OBVIOUS
<1>0. TypeOK'
  BY NextTypeOK DEF IInv
<1> DEFINE Parts == /\ WaitsForOwnChild' /\ OneChildPerCall' /\ NoPidBeforeSpawn'
                    /\ AnswerIsResponse' /\ ResponseIsRight'
<1> USE DEF IInv, TypeOK, PcStates
<1>1. ASSUME NEW r \in Requests, NEW b \in Bodies, Throw(r, b)
      PROVE  Parts
  BY <1>1 DEF Throw, Goto, WaitsForOwnChild, OneChildPerCall, NoPidBeforeSpawn,
              AnswerIsResponse, ResponseIsRight, Children
<1>2. ASSUME NEW r \in Requests, NEW b \in Bodies, Reject(r, b)
      PROVE  Parts
  <2>1. /\ pc[r] = "idle" /\ pc' = [pc EXCEPT ![r] = "reply"]
        /\ resp' = [resp EXCEPT ![r] = [status |-> 400, message |-> "no path"]]
        /\ UNCHANGED <<pid, answer, proc>>
    BY <1>2 DEF Reject, Goto
  <2>2. resp'[r].status = 400 /\ pc'[r] = "reply" /\ pid'[r] = Null
    BY ZenonT(40), <2>1 DEF NoPidBeforeSpawn
  <2>3. \A s \in Requests \ {r} : pc'[s] = pc[s] /\ resp'[s] = resp[s]
    BY <2>1
  <2>4. \A s \in Requests : Children(s)' = Children(s)
    BY <2>1 DEF Children
  <2>5. ResponseIsRight'
    <3> SUFFICES ASSUME NEW s \in Requests
        PROVE  /\ pc'[s] \in {"spawn", "wait"} => resp'[s].status = 200
               /\ pc'[s] \in {"reply", "returned"} =>
                    /\ resp'[s].status \in {200, 400, 500}
                    /\ resp'[s].status = 400 => pid'[s] = Null
                    /\ ~Windows /\ resp'[s].status = 200 =>
                         pid'[s] # Null /\ Children(s)' = {}
      BY DEF ResponseIsRight
    <3>1. CASE s = r
      BY <2>2, <3>1
    <3>2. CASE s # r
      <4>1. /\ pc'[s] = pc[s] /\ resp'[s] = resp[s] /\ pid'[s] = pid[s]
            /\ Children(s)' = Children(s)
        BY <2>1, <2>3, <2>4, <3>2
      <4> QED BY <4>1 DEF ResponseIsRight
    <3> QED BY <3>1, <3>2
  <2> QED
    BY <2>1, <2>4, <2>5 DEF WaitsForOwnChild, OneChildPerCall, NoPidBeforeSpawn,
                            AnswerIsResponse
<1>3. ASSUME NEW r \in Requests, NEW b \in Bodies, Accept(r, b)
      PROVE  Parts
  BY <1>3 DEF Accept, Goto, WaitsForOwnChild, OneChildPerCall, NoPidBeforeSpawn,
              AnswerIsResponse, ResponseIsRight, Children
<1>4. ASSUME NEW r \in Requests, NEW p \in Pids, SpawnOk(r, p)
      PROVE  Parts
  <2> USE <1>4 DEF SpawnOk, Goto
  <2>1. pid[r] = Null /\ Children(r) = {}
    BY NoChildBeforeSpawn DEF NoPidBeforeSpawn
  <2>2. /\ proc'[p].state = "running" /\ proc'[p].owner = r
        /\ \A q \in Pids \ {p} : proc'[q] = proc[q]
    OBVIOUS
  <2>3. OneChildPerCall'
    BY <2>1, <2>2 DEF OneChildPerCall, Children
  <2>4. WaitsForOwnChild'
    BY <2>2 DEF WaitsForOwnChild, Children, FreeProc
  <2>5. \A s \in Requests \ {r} : Children(s)' = Children(s)
    BY <2>2 DEF Children, FreeProc
  <2>6. ResponseIsRight'
    BY <2>5 DEF ResponseIsRight
  <2> QED BY <2>3, <2>4, <2>6 DEF NoPidBeforeSpawn, AnswerIsResponse
<1>5. ASSUME NEW r \in Requests, SpawnFail(r)
      PROVE  Parts
  <2> USE <1>5 DEF SpawnFail, Goto
  <2>1. resp[r].status = 200 /\ pid[r] = Null
    BY DEF NoPidBeforeSpawn, ResponseIsRight
  <2>2. resp'[r].status = IF Windows THEN 200 ELSE 500
    BY <2>1 DEF Failed
  <2>3. \A s \in Requests : Children(s)' = Children(s)
    BY DEF Children
  <2>4. ResponseIsRight'
    BY <2>1, <2>2, <2>3, EngineAssumption DEF ResponseIsRight
  <2> QED
    BY <2>3, <2>4 DEF WaitsForOwnChild, OneChildPerCall, NoPidBeforeSpawn,
                      AnswerIsResponse
<1>6. ASSUME NEW r \in Requests, Wait(r)
      PROVE  Parts
  <2> USE <1>6 DEF Wait, Goto
  <2>1. /\ pid[r] \in Pids /\ proc[pid[r]].owner = r /\ pid[r] # Null
        /\ \A p \in Pids : proc[p].state # "free" /\ proc[p].owner = r => p = pid[r]
    BY EngineAssumption DEF WaitsForOwnChild, OneChildPerCall, Children
  <2>2. \A p \in Pids : proc'[p] = proc[p] \/ (p = pid[r] /\ proc'[p] = FreeProc)
    BY <2>1
  <2>3. \A s \in Requests \ {r} : Children(s)' = Children(s)
    BY <2>1, <2>2 DEF Children, FreeProc
  <2>4. ~Windows => Children(r)' = {}
    BY <2>1, <2>2 DEF Children, FreeProc
  <2>5. OneChildPerCall'
    BY <2>2 DEF OneChildPerCall, FreeProc
  <2>6. WaitsForOwnChild'
    BY <2>3 DEF WaitsForOwnChild
  <2>7. ResponseIsRight'
    BY <2>1, <2>3, <2>4 DEF ResponseIsRight
  <2> QED BY <2>5, <2>6, <2>7 DEF NoPidBeforeSpawn, AnswerIsResponse
<1>7. ASSUME NEW r \in Requests, Interrupt(r)
      PROVE  Parts
  <2> USE <1>7 DEF Interrupt, Goto
  <2>1. resp'[r].status = 500
    BY DEF Failed
  <2>2. \A s \in Requests : Children(s)' = Children(s)
    BY DEF Children
  <2>3. ResponseIsRight'
    BY <2>1, <2>2 DEF ResponseIsRight
  <2> QED
    BY <2>2, <2>3 DEF WaitsForOwnChild, OneChildPerCall, NoPidBeforeSpawn,
                      AnswerIsResponse
<1>8. ASSUME NEW r \in Requests, Reply(r)
      PROVE  Parts
  <2> USE <1>8 DEF Reply, Goto
  <2>1. \A s \in Requests : Children(s)' = Children(s)
    BY DEF Children
  <2> QED
    BY <2>1 DEF WaitsForOwnChild, OneChildPerCall, NoPidBeforeSpawn,
                AnswerIsResponse, ResponseIsRight
<1>9. ASSUME NEW p \in Pids, Exit(p)
      PROVE  Parts
  <2> USE <1>9 DEF Exit
  <2>1. \A q \in Pids : /\ proc'[q].owner = proc[q].owner
                        /\ proc'[q].state = "free" <=> proc[q].state = "free"
    BY DEF Processes
  <2>2. \A s \in Requests : Children(s)' = Children(s)
    BY <2>1 DEF Children
  <2> QED
    BY <2>1, <2>2 DEF WaitsForOwnChild, OneChildPerCall, NoPidBeforeSpawn,
                      AnswerIsResponse, ResponseIsRight
<1>10. CASE UNCHANGED vars
  BY <1>10 DEF vars, WaitsForOwnChild, OneChildPerCall, NoPidBeforeSpawn,
               AnswerIsResponse, ResponseIsRight, Children
<1> QED
  BY <1>0, <1>1, <1>2, <1>3, <1>4, <1>5, <1>6, <1>7, <1>8, <1>9, <1>10
     DEF Next, Spawn

\* They agree in every reachable state.
LEMMA Invariance == Spec => []IInv
<1> QED BY InitIInv, NextIInv, PTL DEF Spec

(* The pid a call waits on is that of its own child, on every platform.    *)
THEOREM WaitsForOwn == Spec => [](WaitsForOwnChild /\ OneChildPerCall)
<1>1. IInv => WaitsForOwnChild /\ OneChildPerCall
  BY DEF IInv
<1> QED BY <1>1, Invariance, PTL

(* On POSIX, 200 is answered only by a call that created a child and has   *)
(* reaped it.                                                              *)
THEOREM OkIsReaped == Spec => []OkMeansReaped
<1>1. IInv => OkMeansReaped
  BY DEF IInv, OkMeansReaped, AnswerIsResponse, ResponseIsRight, NoAnswer
<1> QED BY <1>1, Invariance, PTL

(* Only the call that created a process frees its entry in the table.      *)
THEOREM OnlyOwnersReap == Spec => ReapedByItsCall
<1> DEFINE Reaped == \A p \in Pids :
              proc[p].state # "free" /\ proc'[p].state = "free" =>
                /\ proc[p].state = "exited"
                /\ pc[proc[p].owner] = "wait" /\ pc'[proc[p].owner] = "reply"
<1>1. IInv /\ [Next]_vars => Reaped \/ UNCHANGED vars
  <2> SUFFICES ASSUME IInv, Next PROVE Reaped
    BY DEF vars
  <2> USE DEF IInv, TypeOK
  <2>1. ASSUME NEW r \in Requests, NEW b \in Bodies,
               Throw(r, b) \/ Reject(r, b) \/ Accept(r, b)
        PROVE  Reaped
    BY <2>1 DEF Throw, Reject, Accept
  <2>2. ASSUME NEW r \in Requests, Spawn(r)
        PROVE  Reaped
    BY <2>2 DEF Spawn, SpawnFail, SpawnOk
  <2>3. ASSUME NEW r \in Requests, Wait(r)
        PROVE  Reaped
    <3>1. pid[r] \in Pids /\ proc[pid[r]].owner = r
      BY <2>3 DEF Wait, Goto, WaitsForOwnChild, Children
    <3> QED BY <2>3, <3>1 DEF Wait, Goto
  <2>4. ASSUME NEW r \in Requests, Interrupt(r) \/ Reply(r)
        PROVE  Reaped
    BY <2>4 DEF Interrupt, Reply
  <2>5. ASSUME NEW p \in Pids, Exit(p)
        PROVE  Reaped
    BY <2>5 DEF Exit, Processes
  <2> QED BY <2>1, <2>2, <2>3, <2>4, <2>5 DEF Next
<1> QED BY <1>1, Invariance, PTL DEF Spec, ReapedByItsCall

-----------------------------------------------------------------------------
(***************************************************************************)
(* Refinement.  Each step either leaves both mapped variables alone or is  *)
(* one step of the abstract service, by the call that takes it.            *)
(***************************************************************************)

(* What the abstract state of call r is at each point of its code.         *)
Abstract(r) ==
  /\ pc[r] \in {"idle", "spawn"} => ScriptOf(r) = "none" /\ AnswerOf(r) = "pending"
  /\ pc[r] = "thrown" => ScriptOf(r) = "none" /\ AnswerOf(r) = "exception"
  /\ pc[r] \in {"wait", "reply"} => AnswerOf(r) = "pending"
  /\ pc[r] = "wait" => ScriptOf(r) = IF proc[pid[r]].state = "running"
                                    THEN "running" ELSE "ended"
  /\ pc[r] = "returned" =>
       /\ resp[r].status = 200 => AnswerOf(r) = "ok"
       /\ resp[r].status = 400 => AnswerOf(r) = "bad_request"
       /\ resp[r].status = 500 => AnswerOf(r) = "error"

\* Every call has a state that the abstract service knows.
LEMMA AbstractState == IInv => \A r \in Requests : Abstract(r)
<1> SUFFICES ASSUME IInv, NEW r \in Requests PROVE Abstract(r)
  OBVIOUS
<1> USE DEF IInv
<1>1. pc[r] \in {"idle", "spawn", "thrown"} => ScriptOf(r) = "none"
  BY DEF NoPidBeforeSpawn, ScriptOf
<1>2. pc[r] # "returned" => answer[r].status = 0
  BY DEF AnswerIsResponse, NoAnswer
<1>3. pc[r] # "returned" /\ pc[r] # "thrown" => AnswerOf(r) = "pending"
  BY <1>2 DEF AnswerOf
<1>4. pc[r] = "thrown" => AnswerOf(r) = "exception"
  BY <1>2 DEF AnswerOf
<1>5. ASSUME pc[r] = "wait"
      PROVE  ScriptOf(r) = IF proc[pid[r]].state = "running" THEN "running" ELSE "ended"
  <2>1. /\ pid[r] \in Children(r) /\ pid[r] # Null
        /\ \A p \in Children(r) : p = pid[r]
    BY <1>5, EngineAssumption DEF WaitsForOwnChild, OneChildPerCall, Children
  <2> QED BY <2>1 DEF ScriptOf
<1>6. ASSUME pc[r] = "returned"
      PROVE  /\ resp[r].status = 200 => AnswerOf(r) = "ok"
             /\ resp[r].status = 400 => AnswerOf(r) = "bad_request"
             /\ resp[r].status = 500 => AnswerOf(r) = "error"
  <2>1. answer[r].status = resp[r].status /\ resp[r].status \in {200, 400, 500}
    BY <1>6 DEF AnswerIsResponse, ResponseIsRight
  <2> QED BY <1>6, <2>1 DEF AnswerOf
<1> QED BY <1>1, <1>3, <1>4, <1>5, <1>6 DEF Abstract

(* A call whose own state and children a step leaves alone has the same    *)
(* abstract state after it.                                                *)
LEMMA Untouched ==
  ASSUME NEW r \in Requests, pc'[r] = pc[r], pid'[r] = pid[r], answer'[r] = answer[r],
         Children(r)' = Children(r),
         \A p \in Children(r) : (proc'[p].state = "running") = (proc[p].state = "running")
  PROVE  ScriptOf(r)' = ScriptOf(r) /\ AnswerOf(r)' = AnswerOf(r)
BY DEF ScriptOf, AnswerOf

\* The engine's first states are first states of the service.
LEMMA InitRefines == Init => Service!Init
<1> SUFFICES ASSUME Init PROVE Service!Init
  OBVIOUS
<1>1. \A r \in Requests : ScriptOf(r) = "none" /\ AnswerOf(r) = "pending"
  BY InitIInv, AbstractState DEF Init, Abstract
<1> QED BY <1>1 DEF Service!Init

\* A step of the engine is a step of the service or leaves it alone.
LEMMA NextRefines ==
  IInv /\ IInv' /\ [Next]_vars /\ ~Windows => [Service!Next]_(Service!vars)
<1> SUFFICES ASSUME IInv, IInv', [Next]_vars, ~Windows
    PROVE  Service!Next \/ UNCHANGED Service!vars
  BY DEF Service!vars
<1>1. \A r \in Requests : Abstract(r)
  BY AbstractState
<1>2. \A r \in Requests : Abstract(r)'
  <2>1. (IInv => \A r \in Requests : Abstract(r))'
    BY AbstractState, PTL
  <2> QED BY <2>1
<1> DEFINE Same(r) == ScriptOf(r)' = ScriptOf(r) /\ AnswerOf(r)' = AnswerOf(r)
<1>3. ASSUME \A r \in Requests : Same(r)
      PROVE  UNCHANGED Service!vars
  BY <1>3 DEF Service!vars
<1>4. ASSUME NEW r \in Requests, \A s \in Requests \ {r} : Same(s),
             AnswerOf(r) = "pending", ScriptOf(r)' = ScriptOf(r),
             AnswerOf(r)' \in Service!Answers \ {"pending"},
             AnswerOf(r)' = "ok" => ScriptOf(r) = "ended",
             AnswerOf(r)' \in {"bad_request", "exception"} => ScriptOf(r) = "none"
      PROVE  Service!Next
  <2>1. Service!Answer(r, AnswerOf(r)')
    BY <1>4 DEF Service!Answer
  <2> QED BY <1>4, <2>1 DEF Service!Next
<1>5. ASSUME proc' = proc, NEW s \in Requests,
             pc'[s] = pc[s], pid'[s] = pid[s], answer'[s] = answer[s]
      PROVE  Same(s)
  BY <1>5, Untouched DEF Children
<1> HIDE DEF Same
<1> USE DEF IInv, TypeOK, PcStates
<1>6. ASSUME NEW r \in Requests, NEW b \in Bodies, Throw(r, b)
      PROVE  Service!Next
  <2>1. /\ pc[r] = "idle" /\ pc'[r] = "thrown"
        /\ \A s \in Requests \ {r} : pc'[s] = pc[s]
        /\ UNCHANGED <<pid, answer, proc>>
    BY <1>6 DEF Throw, Goto
  <2>2. \A s \in Requests \ {r} : Same(s)
    BY <1>5, <2>1
  <2>3. /\ ScriptOf(r) = "none" /\ AnswerOf(r) = "pending"
        /\ ScriptOf(r)' = "none" /\ AnswerOf(r)' = "exception"
    BY <1>1, <1>2, <2>1 DEF Abstract
  <2> QED BY <1>4, <2>2, <2>3 DEF Service!Answers
<1>7. ASSUME NEW r \in Requests, NEW b \in Bodies, Reject(r, b) \/ Accept(r, b)
      PROVE  \A s \in Requests : Same(s)
  <2>1. /\ pc[r] = "idle" /\ pc'[r] \in {"spawn", "reply"}
        /\ \A s \in Requests \ {r} : pc'[s] = pc[s]
        /\ UNCHANGED <<pid, answer, proc>>
    BY ZenonT(40), <1>7 DEF Reject, Accept, Goto
  <2>2. Same(r)
    <3>1. pid[r] = Null /\ ScriptOf(r)' = ScriptOf(r)
      BY <2>1 DEF NoPidBeforeSpawn, ScriptOf
    <3>2. AnswerOf(r) = "pending" /\ AnswerOf(r)' = "pending"
      BY <1>1, <1>2, <2>1 DEF Abstract
    <3> QED BY <3>1, <3>2 DEF Same
  <2> QED BY <1>5, <2>1, <2>2
<1>8. ASSUME NEW r \in Requests, SpawnFail(r)
      PROVE  \A s \in Requests : Same(s)
  <2>1. /\ pc[r] = "spawn" /\ pc'[r] = "reply"
        /\ \A s \in Requests \ {r} : pc'[s] = pc[s]
        /\ UNCHANGED <<pid, answer, proc>>
    BY <1>8 DEF SpawnFail, Goto
  <2>2. Same(r)
    <3>1. pid[r] = Null /\ ScriptOf(r)' = ScriptOf(r)
      BY <2>1 DEF NoPidBeforeSpawn, ScriptOf
    <3>2. AnswerOf(r) = "pending" /\ AnswerOf(r)' = "pending"
      BY <1>1, <1>2, <2>1 DEF Abstract
    <3> QED BY <3>1, <3>2 DEF Same
  <2> QED BY <1>5, <2>1, <2>2
<1>9. ASSUME NEW r \in Requests, NEW p \in Pids, SpawnOk(r, p)
      PROVE  Service!Next
  <2>1. /\ pc[r] = "spawn" /\ pc'[r] = "wait" /\ pid'[r] = p
        /\ \A s \in Requests \ {r} : pc'[s] = pc[s] /\ pid'[s] = pid[s]
        /\ proc[p].state = "free" /\ proc'[p].state = "running" /\ proc'[p].owner = r
        /\ \A q \in Pids \ {p} : proc'[q] = proc[q]
        /\ answer' = answer
    BY <1>9 DEF SpawnOk, Goto, FreeProc
  <2>2. \A s \in Requests \ {r} : Same(s)
    <3>1. \A s \in Requests \ {r} : /\ p \notin Children(s)
                                     /\ Children(s)' = Children(s)
      BY <2>1 DEF Children
    <3> QED BY <2>1, <3>1, Untouched DEF Same, Children
  <2>3. /\ ScriptOf(r) = "none" /\ AnswerOf(r) = "pending"
        /\ ScriptOf(r)' = "running" /\ AnswerOf(r)' = "pending"
    BY <1>1, <1>2, <2>1 DEF Abstract
  <2>4. Service!Run(r)
    BY <2>2, <2>3 DEF Service!Run, Same
  <2> QED BY <2>4 DEF Service!Next
<1>10. ASSUME NEW r \in Requests, Wait(r)
       PROVE  \A s \in Requests : Same(s)
  <2>1. /\ pc[r] = "wait" /\ pc'[r] = "reply"
        /\ \A s \in Requests \ {r} : pc'[s] = pc[s]
        /\ proc[pid[r]].state = "exited" /\ proc' = [proc EXCEPT ![pid[r]] = FreeProc]
        /\ UNCHANGED <<pid, answer>>
    BY <1>10 DEF Wait, Goto
  <2>2. /\ pid[r] \in Pids /\ proc[pid[r]].owner = r /\ pid[r] # Null
        /\ \A p \in Pids : proc[p].state # "free" /\ proc[p].owner = r => p = pid[r]
    BY <2>1, EngineAssumption DEF WaitsForOwnChild, OneChildPerCall, Children
  <2>3. /\ proc'[pid[r]].state = "free"
        /\ \A p \in Pids \ {pid[r]} : proc'[p] = proc[p]
    BY <2>1, <2>2 DEF FreeProc
  <2>4. ASSUME NEW s \in Requests \ {r}
        PROVE  Same(s)
    <3>1. pid[r] \notin Children(s) /\ pid[r] \notin Children(s)'
      BY <2>2, <2>3 DEF Children
    <3>2. \A p \in Pids \ {pid[r]} : p \in Children(s) <=> p \in Children(s)'
      BY <2>3 DEF Children
    <3>3. \A p \in Pids : p \in Children(s) <=> p \in Children(s)'
      BY <3>1, <3>2
    <3>4. Children(s)' = Children(s)
      <4> HIDE DEF IInv, TypeOK
      <4> QED BY <3>3 DEF Children
    <3> QED BY <2>1, <2>3, <3>1, <3>4, Untouched DEF Same, Children
  <2>5. Same(r)
    <3>1. ScriptOf(r) = "ended"
      BY <1>1, <2>1 DEF Abstract
    <3>2. ScriptOf(r)' = "ended"
      BY <2>1, <2>2, <2>3 DEF ScriptOf, Children
    <3>3. AnswerOf(r) = "pending" /\ AnswerOf(r)' = "pending"
      BY <1>1, <1>2, <2>1 DEF Abstract
    <3> QED BY <3>1, <3>2, <3>3 DEF Same
  <2> QED BY <2>4, <2>5
<1>11. ASSUME NEW r \in Requests, Interrupt(r)
       PROVE  \A s \in Requests : Same(s)
  <2>1. /\ pc[r] = "wait" /\ pc'[r] = "reply"
        /\ \A s \in Requests \ {r} : pc'[s] = pc[s]
        /\ UNCHANGED <<pid, answer, proc>>
    BY <1>11 DEF Interrupt, Goto
  <2>2. Same(r)
    <3>1. ScriptOf(r)' = ScriptOf(r)
      BY <2>1 DEF ScriptOf, Children
    <3>2. AnswerOf(r) = "pending" /\ AnswerOf(r)' = "pending"
      BY <1>1, <1>2, <2>1 DEF Abstract
    <3> QED BY <3>1, <3>2 DEF Same
  <2> QED BY <1>5, <2>1, <2>2
<1>12. ASSUME NEW r \in Requests, Reply(r)
       PROVE  Service!Next
  <2>1. /\ pc[r] = "reply" /\ pc'[r] = "returned" /\ resp' = resp
        /\ \A s \in Requests \ {r} : pc'[s] = pc[s] /\ answer'[s] = answer[s]
        /\ UNCHANGED <<pid, proc>>
    BY <1>12 DEF Reply, Goto
  <2>2. \A s \in Requests \ {r} : Same(s)
    BY <1>5, <2>1
  <2>3. AnswerOf(r) = "pending" /\ ScriptOf(r)' = ScriptOf(r)
    BY <1>1, <2>1 DEF Abstract, ScriptOf, Children
  <2>4. /\ resp[r].status \in {200, 400, 500}
        /\ resp[r].status = 400 => ScriptOf(r) = "none"
        /\ resp[r].status = 200 => ScriptOf(r) = "ended"
    BY <2>1 DEF ResponseIsRight, ScriptOf
  <2>5. /\ resp[r].status = 200 => AnswerOf(r)' = "ok"
        /\ resp[r].status = 400 => AnswerOf(r)' = "bad_request"
        /\ resp[r].status = 500 => AnswerOf(r)' = "error"
    BY <1>2, <2>1 DEF Abstract
  <2>6. /\ AnswerOf(r)' \in Service!Answers \ {"pending"}
        /\ AnswerOf(r)' = "ok" => ScriptOf(r) = "ended"
        /\ AnswerOf(r)' \in {"bad_request", "exception"} => ScriptOf(r) = "none"
    BY <2>4, <2>5 DEF Service!Answers
  <2> QED BY <1>4, <2>2, <2>3, <2>6
<1>13. ASSUME NEW p \in Pids, Exit(p)
       PROVE  Service!Next
  <2>1. /\ proc[p].state = "running" /\ proc'[p].state = "exited"
        /\ proc'[p].owner = proc[p].owner
        /\ \A q \in Pids \ {p} : proc'[q] = proc[q]
        /\ UNCHANGED <<pc, pid, answer>>
    BY <1>13 DEF Exit, Processes
  <2>2. proc[p].owner \in Requests
    BY <2>1 DEF OneChildPerCall
  <2>3. PICK r \in Requests : r = proc[p].owner
    BY <2>2
  <2>4. /\ pid[r] = p /\ p # Null
        /\ \A q \in Pids : proc[q].state # "free" /\ proc[q].owner = r => q = p
    BY <2>1, <2>3, EngineAssumption DEF OneChildPerCall
  <2>5. \A s \in Requests : Children(s)' = Children(s)
    BY <2>1 DEF Children
  <2>6. ASSUME NEW s \in Requests \ {r}
        PROVE  Same(s)
    <3>1. p \notin Children(s)
      BY <2>3 DEF Children
    <3> QED BY <2>1, <2>5, <3>1, Untouched DEF Same, Children
  <2>7. /\ ScriptOf(r) = "running" /\ ScriptOf(r)' = "ended"
        /\ AnswerOf(r)' = AnswerOf(r)
    <3>1. p \in Children(r) /\ \A q \in Children(r) : q = p
      BY <2>1, <2>3, <2>4 DEF Children
    <3>2. ScriptOf(r) = "running"
      BY <2>1, <2>4, <3>1 DEF ScriptOf
    <3>3. ScriptOf(r)' = "ended"
      BY <2>1, <2>4, <2>5, <3>1 DEF ScriptOf
    <3>4. AnswerOf(r)' = AnswerOf(r)
      BY <2>1 DEF AnswerOf
    <3> QED BY <3>2, <3>3, <3>4
  <2>8. Service!End(r)
    BY <2>6, <2>7 DEF Service!End, Same
  <2> QED BY <2>8 DEF Service!Next
<1>14. CASE UNCHANGED vars
  BY <1>3, <1>5, <1>14 DEF vars
<1> QED
  BY <1>3, <1>6, <1>7, <1>8, <1>9, <1>10, <1>11, <1>12, <1>13, <1>14 DEF Next, Spawn

(* On POSIX the engine implements the abstract service: scripts run at     *)
(* most once, calls are answered at most once, and "ok" means ended.       *)
THEOREM Refinement == ASSUME ~Windows PROVE Spec => ImplementsService
<1> QED
  BY InitRefines, NextRefines, Invariance, PTL DEF Spec, Service!Spec, ImplementsService

-----------------------------------------------------------------------------
(***************************************************************************)
(* What reaches the child, and what is left behind.  These need more than  *)
(* IInv: where each argument vector in the table came from, and what the   *)
(* message of a response says of the script.                               *)
(***************************************************************************)
Started == {"wait", "reply", "returned"}

ArgvKnown ==
  \A p \in Pids : proc[p].state # "free" =>
     LET r == proc[p].owner
     IN  /\ pc[r] \in Started /\ req[r].file # NoText
         /\ \E beyond \in Beyond : proc[p].argv = Argv(req[r], beyond)

AcceptedNamesFile == \A r \in Requests : pc[r] = "spawn" => req[r].file # NoText

MessageFits(r) ==
  /\ pc[r] \in {"reply", "returned"} /\ resp[r].message = "executing" =>
       /\ pid[r] # Null
       /\ \A p \in Children(r) : proc[p].state = "exited"
  /\ ~Windows /\ resp[r].message = "failed" => resp[r].status = 500

MessageIsRight == \A r \in Requests : MessageFits(r)

More == ArgvKnown /\ AcceptedNamesFile /\ MessageIsRight

\* Nothing is known before the first call.
LEMMA InitMore == Init => More
BY DEF Init, More, ArgvKnown, AcceptedNamesFile, MessageIsRight, MessageFits, FreeProc, NoAnswer

\* What handling a body leaves alone: the table, the pids, and every other call.
LEMMA Handling ==
  ASSUME TypeOK, NEW r \in Requests, NEW b \in Bodies, Throw(r, b) \/ Reject(r, b) \/ Accept(r, b)
  PROVE  /\ pc[r] = "idle" /\ UNCHANGED <<pid, proc>>
         /\ \A s \in Requests \ {r} : pc'[s] = pc[s] /\ req'[s] = req[s] /\ resp'[s] = resp[s]
         /\ pc'[r] = "spawn" => req'[r].file # NoText
         /\ pc'[r] \in {"reply", "returned"} => resp'[r].message = "no path"
         /\ resp'[r] = resp[r] \/ resp'[r].message # "failed"
<1> USE DEF TypeOK, Goto
<1>1. CASE Throw(r, b)
  BY <1>1 DEF Throw
<1>2. CASE Reject(r, b)
  BY <1>2 DEF Reject
<1>3. CASE Accept(r, b)
  BY <1>3 DEF Accept
<1> QED BY <1>1, <1>2, <1>3

\* Each step keeps what is known of the argument vectors: a call's request never
\* changes once its child exists.
LEMMA NextArgvKnown ==
  ASSUME IInv, ArgvKnown, AcceptedNamesFile, [Next]_vars
  PROVE  ArgvKnown' /\ AcceptedNamesFile'
<1>0. TypeOK /\ \A p \in Pids : proc[p].state # "free" => proc[p].owner \in Requests
  BY DEF IInv, OneChildPerCall
<1> USE DEF Started, Goto, ArgvKnown, AcceptedNamesFile
<1>1. ASSUME NEW r \in Requests, NEW b \in Bodies, Throw(r, b) \/ Reject(r, b) \/ Accept(r, b)
      PROVE  ArgvKnown' /\ AcceptedNamesFile'
  <2>1. /\ pc[r] = "idle" /\ UNCHANGED <<pid, proc>>
        /\ \A s \in Requests \ {r} : pc'[s] = pc[s] /\ req'[s] = req[s] /\ resp'[s] = resp[s]
        /\ pc'[r] = "spawn" => req'[r].file # NoText
        /\ pc'[r] \in {"reply", "returned"} => resp'[r].message = "no path"
        /\ resp'[r] = resp[r] \/ resp'[r].message # "failed"
    BY <1>0, <1>1, Handling
  <2> QED BY <1>0, <2>1
<1>2. ASSUME NEW r \in Requests, NEW p \in Pids, SpawnOk(r, p)
      PROVE  ArgvKnown' /\ AcceptedNamesFile'
  BY <1>0, <1>2 DEF TypeOK, SpawnOk, FreeProc
<1>3. ASSUME NEW r \in Requests, SpawnFail(r) \/ Interrupt(r) \/ Reply(r)
      PROVE  ArgvKnown' /\ AcceptedNamesFile'
  BY <1>0, <1>3 DEF TypeOK, SpawnFail, Interrupt, Reply
<1>4. ASSUME NEW r \in Requests, Wait(r)
      PROVE  ArgvKnown' /\ AcceptedNamesFile'
  <2>1. \A p \in Pids : proc'[p] = proc[p] \/ proc'[p].state = "free"
    BY <1>0, <1>4 DEF TypeOK, Wait, FreeProc
  <2>2. /\ pc[r] = "wait" /\ pc'[r] = "reply" /\ UNCHANGED req
        /\ \A s \in Requests \ {r} : pc'[s] = pc[s]
    BY <1>0, <1>4 DEF TypeOK, Wait
  <2> QED BY <1>0, <2>1, <2>2
<1>5. ASSUME NEW p \in Pids, Exit(p)
      PROVE  ArgvKnown' /\ AcceptedNamesFile'
  BY <1>0, <1>5 DEF TypeOK, Exit, Processes
<1>6. CASE UNCHANGED vars
  BY <1>6 DEF vars
<1> QED BY <1>1, <1>2, <1>3, <1>4, <1>5, <1>6 DEF Next, Spawn

\* Each step keeps what the messages say of the scripts.
LEMMA NextMessageIsRight ==
  ASSUME IInv, MessageIsRight, [Next]_vars
  PROVE  MessageIsRight'
<1>0. TypeOK
  BY DEF IInv
<1> USE DEF Goto
<1>1. ASSUME NEW r \in Requests, NEW b \in Bodies, Throw(r, b) \/ Reject(r, b) \/ Accept(r, b)
      PROVE  MessageIsRight'
  <2>1. /\ pc[r] = "idle" /\ UNCHANGED <<pid, proc>>
        /\ \A s \in Requests \ {r} : pc'[s] = pc[s] /\ req'[s] = req[s] /\ resp'[s] = resp[s]
        /\ pc'[r] = "spawn" => req'[r].file # NoText
        /\ pc'[r] \in {"reply", "returned"} => resp'[r].message = "no path"
        /\ resp'[r] = resp[r] \/ resp'[r].message # "failed"
    BY <1>0, <1>1, Handling
  <2>2. \A s \in Requests : Children(s)' = Children(s)
    BY <2>1 DEF Children
  <2>3. MessageFits(r)'
    <3>1. ~(pc'[r] \in {"reply", "returned"} /\ resp'[r].message = "executing")
      BY <2>1
    <3>2. ~Windows /\ resp'[r].message = "failed" => resp'[r].status = 500
      BY <2>1 DEF MessageFits, MessageIsRight
    <3> QED BY <3>1, <3>2 DEF MessageFits
  <2>4. ASSUME NEW s \in Requests \ {r} PROVE MessageFits(s)'
    <3>1. /\ pc'[s] = pc[s] /\ resp'[s] = resp[s] /\ Children(s)' = Children(s)
          /\ MessageFits(s) /\ UNCHANGED <<pid, proc>>
      BY <2>1, <2>2, <2>4 DEF MessageIsRight
    <3> QED BY <3>1 DEF MessageFits
  <2> QED BY <2>3, <2>4 DEF MessageIsRight
<1>2. ASSUME NEW r \in Requests, NEW p \in Pids, SpawnOk(r, p)
      PROVE  MessageIsRight'
  <2>1. \A s \in Requests \ {r} : Children(s)' = Children(s) /\ p \notin Children(s)
    BY <1>0, <1>2 DEF TypeOK, SpawnOk, Children, FreeProc
  <2>2. /\ \A q \in Pids \ {p} : proc'[q] = proc[q]
        /\ \A s \in Requests \ {r} : pc'[s] = pc[s] /\ pid'[s] = pid[s]
        /\ pc'[r] = "wait" /\ UNCHANGED resp
    BY <1>0, <1>2 DEF TypeOK, SpawnOk
  <2> QED BY <2>1, <2>2 DEF Children, MessageIsRight, MessageFits
<1>3. ASSUME NEW r \in Requests, SpawnFail(r) \/ Interrupt(r)
      PROVE  MessageIsRight'
  <2>1. \A s \in Requests : Children(s)' = Children(s) /\ UNCHANGED <<pid, proc>>
    BY <1>0, <1>3 DEF TypeOK, SpawnFail, Interrupt, Children
  <2>2. \A s \in Requests \ {r} : pc'[s] = pc[s] /\ resp'[s] = resp[s]
    BY <1>0, <1>3 DEF TypeOK, SpawnFail, Interrupt
  <2>3. resp'[r].message = "failed" /\ (~Windows => resp'[r].status = 500)
    BY <1>0, <1>3 DEF TypeOK, SpawnFail, Interrupt, Failed
  <2> QED BY <2>1, <2>2, <2>3 DEF MessageIsRight, MessageFits
<1>4. ASSUME NEW r \in Requests, Wait(r)
      PROVE  MessageIsRight'
  <2>1. /\ pid[r] \in Pids /\ pid[r] # Null /\ proc[pid[r]].state = "exited"
        /\ \A p \in Children(r) : p = pid[r]
    BY <1>0, <1>4, EngineAssumption DEF TypeOK, Wait, IInv, WaitsForOwnChild,
                                        OneChildPerCall, Children
  <2>2. \A p \in Pids : proc'[p] = proc[p] \/ proc'[p].state = "free"
    BY <1>0, <1>4 DEF TypeOK, Wait, FreeProc
  <2>3. /\ \A s \in Requests \ {r} : pc'[s] = pc[s]
        /\ UNCHANGED <<pid, resp>>
    BY <1>0, <1>4 DEF TypeOK, Wait
  <2>4. \A s \in Requests : Children(s)' \subseteq Children(s)
    BY <2>2 DEF Children
  <2>5. \A s \in Requests : \A p \in Children(s)' : proc'[p] = proc[p]
    BY <2>2 DEF Children
  <2> QED BY <2>1, <2>3, <2>4, <2>5 DEF MessageIsRight, MessageFits
<1>5. ASSUME NEW r \in Requests, Reply(r)
      PROVE  MessageIsRight'
  BY <1>0, <1>5 DEF TypeOK, Reply, Children, MessageIsRight, MessageFits
<1>6. ASSUME NEW p \in Pids, Exit(p)
      PROVE  MessageIsRight'
  <2>1. /\ proc'[p].state = "exited" /\ \A q \in Pids \ {p} : proc'[q] = proc[q]
        /\ UNCHANGED <<pc, pid, resp>>
    BY <1>0, <1>6 DEF TypeOK, Exit, Processes
  <2>2. \A s \in Requests : Children(s)' = Children(s)
    BY <1>0, <1>6 DEF TypeOK, Exit, Processes, Children
  <2> QED BY <2>1, <2>2 DEF Children, MessageIsRight, MessageFits
<1>7. CASE UNCHANGED vars
  BY <1>7 DEF vars, MessageIsRight, MessageFits, Children
<1> QED BY <1>1, <1>2, <1>3, <1>4, <1>5, <1>6, <1>7 DEF Next, Spawn

\* What a call knows of its child's arguments and end stays true.
LEMMA InvarianceOfMore == Spec => []More
BY InitMore, NextArgvKnown, NextMessageIsRight, Invariance, PTL DEF Spec, More

(* On either platform, a call answered "executing" with 200 did create a    *)
(* child, and that child has ended.                                         *)
THEOREM SuccessIsEnd == Spec => []SuccessMeansEnded
<1>1. IInv /\ More => SuccessMeansEnded
  BY DEF IInv, More, AnswerIsResponse, MessageIsRight, MessageFits, SuccessMeansEnded, NoAnswer
<1> QED BY <1>1, Invariance, InvarianceOfMore, PTL

(* On POSIX every answer that tells of a failure carries an error status:   *)
(* the disagreement on the status is in the Windows branch alone.           *)
THEOREM FailureIsError == ASSUME ~Windows PROVE Spec => []FailureHasErrorStatus
<1>1. IInv /\ More => FailureHasErrorStatus
  BY DEF IInv, More, AnswerIsResponse, MessageIsRight, MessageFits, FailureHasErrorStatus, NoAnswer
<1> QED BY <1>1, Invariance, InvarianceOfMore, PTL

(* What main reads from the vector that POSIX passes on, whatever lies      *)
(* behind its last element.                                                 *)
LEMMA PosixArgvArrives ==
  ASSUME NEW q \in [file : Texts, lib : Texts], NEW beyond \in Beyond
  PROVE  LET argv == PosixArgv(q, beyond)
         IN  /\ RunMode(argv) /\ MainParse(argv).file = q.file
             /\ q.lib # NoText => MainParse(argv).lib = q.lib
<1>1. beyond \in Seq(Texts)
  BY EngineAssumption
<1>2. \A s \in Seq(Texts \cup {<<Flag>>}) :
         /\ Len(s \o beyond) >= Len(s)
         /\ \A i \in 1..Len(s) : (s \o beyond)[i] = s[i]
  BY <1>1
<1>3. <<ExePath, <<Flag>>, q.file>> \in Seq(Texts \cup {<<Flag>>})
      /\ <<ExePath, <<Flag>>, q.file, q.lib>> \in Seq(Texts \cup {<<Flag>>})
  BY EngineAssumption
<1> QED BY <1>2, <1>3 DEF PosixArgv, RunMode, MainParse

(* On POSIX the child of a call is in run mode, runs the file the call      *)
(* names, and uses the library directory if the call names one, whatever    *)
(* memory holds behind the vector.                                          *)
THEOREM NamedArrive == ASSUME ~Windows PROVE Spec => []NamedArgumentsArrive
<1>1. IInv /\ More => NamedArgumentsArrive
  <2> SUFFICES ASSUME IInv, More, NEW p \in Pids, proc[p].state # "free"
               PROVE  LET got == MainParse(proc[p].argv)  asked == req[proc[p].owner]
                      IN  /\ RunMode(proc[p].argv)
                          /\ got.file = asked.file
                          /\ asked.lib # NoText => got.lib = asked.lib
    BY DEF NamedArgumentsArrive
  <2>1. req[proc[p].owner] \in [file : Texts, lib : Texts]
    BY DEF IInv, TypeOK, OneChildPerCall
  <2>2. PICK beyond \in Beyond : proc[p].argv = PosixArgv(req[proc[p].owner], beyond)
    BY DEF More, ArgvKnown, Argv
  <2> QED BY <2>1, <2>2, PosixArgvArrives
<1> QED BY <1>1, Invariance, InvarianceOfMore, PTL

(* The Windows build, as long as no path holds a blank.                     *)
NoBlanks == /\ Len(ExePath) = 1
            /\ \A b \in Bodies : Len(b.file.text) <= 1 /\ Len(b.lib.text) <= 1

OneWord == \A r \in Requests : Len(req[r].file) <= 1 /\ Len(req[r].lib) <= 1

\* A request holds no more words than its body does.
LEMMA InvarianceOfOneWord == ASSUME NoBlanks PROVE Spec => []OneWord
<1>1. Init => OneWord
  BY DEF Init, OneWord, NoRequest, NoText
<1>2. \A b \in Bodies : Len(FromJson(b).file) <= 1 /\ Len(FromJson(b).lib) <= 1
  BY DEF NoBlanks, FromJson, NoRequest, NoText
<1>3. TypeOK /\ OneWord /\ [Next]_vars => OneWord'
  <2> SUFFICES ASSUME TypeOK, OneWord, [Next]_vars PROVE OneWord'
    OBVIOUS
  <2>1. ASSUME NEW r \in Requests, NEW b \in Bodies, Reject(r, b) \/ Accept(r, b)
        PROVE  OneWord'
    <3>1. req' = [req EXCEPT ![r] = FromJson(b)]
      BY <2>1 DEF Reject, Accept
    <3> QED BY <1>2, <3>1 DEF OneWord, TypeOK
  <2>2. ASSUME UNCHANGED req PROVE OneWord'
    BY <2>2 DEF OneWord
  <2>3. \/ \E r \in Requests, b \in Bodies : Reject(r, b) \/ Accept(r, b)
        \/ UNCHANGED req
    BY DEF Next, Throw, Spawn, SpawnFail, SpawnOk, Wait, Interrupt, Reply, Exit, vars
  <2> QED BY <2>1, <2>2, <2>3
<1> QED BY <1>1, <1>3, TypeCorrect, PTL DEF Spec

\* The elements of a concatenation.
LEMMA Concatenation ==
  ASSUME NEW S, NEW s \in Seq(S), NEW t \in Seq(S)
  PROVE  /\ s \o t \in Seq(S) /\ Len(s \o t) = Len(s) + Len(t)
         /\ \A i \in 1..(Len(s) + Len(t)) :
               (s \o t)[i] = IF i <= Len(s) THEN s[i] ELSE t[i - Len(s)]
OBVIOUS

\* What main reads from the line that Windows passes on, when each text is one word.
LEMMA WindowsArgvArrives ==
  ASSUME NEW q \in [file : Texts, lib : Texts], Len(ExePath) = 1,
         Len(q.file) <= 1, q.file # NoText, Len(q.lib) <= 1
  PROVE  RunMode(WindowsArgv(q)) /\ MainParse(WindowsArgv(q)) = q
<1> DEFINE line == ExePath \o <<Flag>> \o q.file \o q.lib
<1>1. /\ ExePath \in Seq(Words) /\ q.file \in Seq(Words) /\ q.lib \in Seq(Words)
      /\ Flag \in Words
  BY EngineAssumption DEF Texts
<1>2. Len(q.file) = 1 /\ q.file = <<q.file[1]>>
  BY <1>1 DEF NoText
<1>3. q.lib = NoText \/ (Len(q.lib) = 1 /\ q.lib = <<q.lib[1]>>)
  BY <1>1 DEF NoText
<1>4. /\ line \in Seq(Words) /\ Len(line) = 3 + Len(q.lib) /\ line[2] = Flag
      /\ line[3] = q.file[1]
      /\ Len(q.lib) = 1 => line[4] = q.lib[1]
  <2> DEFINE head == ExePath \o <<Flag>> \o q.file
  <2>1. <<Flag>> \in Seq(Words) /\ Len(<<Flag>>) = 1 /\ <<Flag>>[1] = Flag
    BY <1>1
  <2>2. /\ ExePath \o <<Flag>> \in Seq(Words) /\ Len(ExePath \o <<Flag>>) = 2
        /\ (ExePath \o <<Flag>>)[2] = Flag
    BY <1>1, <2>1, Concatenation
  <2>3. /\ head \in Seq(Words) /\ Len(head) = 3 /\ head[2] = Flag
        /\ head[3] = q.file[1]
    <3>1. ASSUME NEW u \in Seq(Words), Len(u) = 2
          PROVE  /\ u \o q.file \in Seq(Words) /\ Len(u \o q.file) = 3
                 /\ (u \o q.file)[2] = u[2] /\ (u \o q.file)[3] = q.file[1]
      <4>1. /\ u \o q.file \in Seq(Words) /\ Len(u \o q.file) = Len(u) + Len(q.file)
            /\ \A i \in 1..(Len(u) + Len(q.file)) :
                 (u \o q.file)[i] = IF i <= Len(u) THEN u[i] ELSE q.file[i - Len(u)]
        BY <1>1, Concatenation
      <4> QED BY <1>2, <3>1, <4>1
    <3> QED BY <2>2, <3>1
  <2> HIDE DEF head
  <2>4. line = head \o q.lib
    BY DEF line, head
  <2> HIDE DEF line
  <2>5. Len(q.lib) \in Nat
    BY <1>1
  <2>6. /\ head \o q.lib \in Seq(Words) /\ Len(head \o q.lib) = 3 + Len(q.lib)
        /\ (head \o q.lib)[2] = head[2] /\ (head \o q.lib)[3] = head[3]
        /\ Len(q.lib) = 1 => (head \o q.lib)[4] = q.lib[1]
    <3>1. /\ head \o q.lib \in Seq(Words) /\ Len(head \o q.lib) = Len(head) + Len(q.lib)
          /\ \A i \in 1..(Len(head) + Len(q.lib)) :
               (head \o q.lib)[i] = IF i <= Len(head) THEN head[i] ELSE q.lib[i - Len(head)]
      BY <1>1, <2>3, Concatenation
    <3> QED BY <2>3, <2>5, <3>1
  <2> QED BY <2>3, <2>4, <2>6
<1> HIDE DEF line
<1>5. WindowsArgv(q) = [i \in 1..Len(line) |-> <<line[i]>>]
  BY DEF WindowsArgv, line
<1>6. /\ Len(WindowsArgv(q)) = 3 + Len(q.lib) /\ WindowsArgv(q)[2] = <<Flag>>
      /\ WindowsArgv(q)[3] = q.file
      /\ Len(q.lib) = 1 => WindowsArgv(q)[4] = q.lib
  BY <1>1, <1>2, <1>3, <1>4, <1>5
<1>7. RunMode(WindowsArgv(q))
  BY <1>1, <1>6 DEF RunMode
<1>8. MainParse(WindowsArgv(q)).file = q.file /\ MainParse(WindowsArgv(q)).lib = q.lib
  BY <1>1, <1>3, <1>6 DEF MainParse, NoText
<1> QED BY <1>7, <1>8 DEF MainParse

(* On Windows the child recovers exactly the file and the library directory *)
(* of the request that created it, as long as neither these nor the path of *)
(* the executable hold a blank.                                             *)
THEOREM ChildGets == ASSUME Windows, NoBlanks PROVE Spec => []ChildGetsItsRequest
<1>1. IInv /\ More /\ OneWord => ChildGetsItsRequest
  <2> SUFFICES ASSUME IInv, More, OneWord, NEW p \in Pids, proc[p].state # "free"
               PROVE  /\ RunMode(proc[p].argv)
                      /\ MainParse(proc[p].argv) = req[proc[p].owner]
    BY DEF ChildGetsItsRequest
  <2>1. proc[p].owner \in Requests /\ req[proc[p].owner] \in [file : Texts, lib : Texts]
    BY DEF IInv, TypeOK, OneChildPerCall
  <2>2. /\ proc[p].argv = WindowsArgv(req[proc[p].owner])
        /\ req[proc[p].owner].file # NoText
    BY DEF More, ArgvKnown, Argv
  <2> QED BY <2>1, <2>2, WindowsArgvArrives DEF OneWord, NoBlanks
<1> QED BY <1>1, Invariance, InvarianceOfMore, InvarianceOfOneWord, PTL

-----------------------------------------------------------------------------
(***************************************************************************)
(* What is left in the process table.  The bound is inductive given IInv:  *)
(* a call that goes on without having waited leaves one entry, and only an *)
(* interrupted wait does.                                                  *)
(***************************************************************************)
Few == IsFiniteSet(Abandoned) /\ Cardinality(Abandoned) <= interrupts

\* A step that abandons nothing new keeps the bound.
LEMMA NoMoreAbandoned ==
  ASSUME TypeOK, Few, Abandoned' \subseteq Abandoned, UNCHANGED interrupts
  PROVE  Few'
<1>1. IsFiniteSet(Abandoned') /\ Cardinality(Abandoned') <= Cardinality(Abandoned)
  BY FS_Subset DEF Few
<1>2. Cardinality(Abandoned) \in Nat /\ Cardinality(Abandoned') \in Nat
  BY <1>1, FS_CardinalityType DEF Few
<1> QED BY <1>1, <1>2 DEF Few, TypeOK

\* On POSIX the bound is kept: the interrupted wait is the one step that adds an
\* entry, and it counts.
LEMMA NextFew == ASSUME ~Windows PROVE IInv /\ Few /\ [Next]_vars => Few'
<1> SUFFICES ASSUME IInv, Few, [Next]_vars PROVE Few'
  OBVIOUS
<1>0. TypeOK /\ \A p \in Pids : proc[p].state # "free" => proc[p].owner \in Requests
  BY DEF IInv, OneChildPerCall
<1> USE DEF Goto, Abandoned
<1>1. ASSUME NEW r \in Requests, NEW b \in Bodies, Throw(r, b) \/ Reject(r, b) \/ Accept(r, b)
      PROVE  Few'
  <2>1. UNCHANGED <<proc, interrupts>> /\ pc[r] = "idle"
        /\ \A s \in Requests \ {r} : pc'[s] = pc[s]
    BY <1>0, <1>1 DEF TypeOK, Throw, Reject, Accept
  <2>2. \A p \in Pids : proc[p].state # "free" => proc[p].owner # r
    BY <2>1, EngineAssumption DEF IInv, OneChildPerCall, NoPidBeforeSpawn
  <2>3. Abandoned' \subseteq Abandoned
    BY <1>0, <2>1, <2>2
  <2> QED BY <1>0, <2>1, <2>3, NoMoreAbandoned
<1>2. ASSUME NEW r \in Requests, NEW p \in Pids, SpawnOk(r, p)
      PROVE  Few'
  <2>1. Abandoned' \subseteq Abandoned
    BY <1>0, <1>2 DEF TypeOK, SpawnOk
  <2> QED BY <1>0, <1>2, <2>1, NoMoreAbandoned DEF SpawnOk
<1>3. ASSUME NEW r \in Requests, SpawnFail(r)
      PROVE  Few'
  <2>1. UNCHANGED <<proc, interrupts>> /\ pc[r] = "spawn"
        /\ \A s \in Requests \ {r} : pc'[s] = pc[s]
    BY <1>0, <1>3 DEF TypeOK, SpawnFail
  <2>2. \A p \in Pids : proc[p].state # "free" => proc[p].owner # r
    BY <2>1, EngineAssumption DEF IInv, OneChildPerCall, NoPidBeforeSpawn
  <2>3. Abandoned' \subseteq Abandoned
    BY <1>0, <2>1, <2>2
  <2> QED BY <1>0, <2>1, <2>3, NoMoreAbandoned
<1>4. ASSUME NEW r \in Requests, Wait(r)
      PROVE  Few'
  <2>1. /\ pc[r] = "wait" /\ UNCHANGED interrupts
        /\ proc' = [proc EXCEPT ![pid[r]] = FreeProc]
        /\ \A s \in Requests \ {r} : pc'[s] = pc[s]
    BY <1>0, <1>4 DEF TypeOK, Wait
  <2>2. \A p \in Pids : proc[p].state # "free" /\ proc[p].owner = r => p = pid[r]
    BY DEF IInv, OneChildPerCall
  <2>3. \A p \in Pids : IF p = pid[r] THEN proc'[p].state = "free" ELSE proc'[p] = proc[p]
    BY <1>0, <2>1 DEF TypeOK, FreeProc
  <2>4. Abandoned' \subseteq Abandoned
    BY <1>0, <2>1, <2>2, <2>3
  <2> QED BY <1>0, <2>1, <2>4, NoMoreAbandoned
<1>5. ASSUME NEW r \in Requests, Interrupt(r)
      PROVE  Few'
  <2>1. /\ UNCHANGED proc /\ interrupts' = interrupts + 1
        /\ \A s \in Requests \ {r} : pc'[s] = pc[s]
    BY <1>0, <1>5 DEF TypeOK, Interrupt
  <2>2. \A p \in Pids : proc[p].state # "free" /\ proc[p].owner = r => p = pid[r]
    BY DEF IInv, OneChildPerCall
  <2>3. Abandoned' \subseteq Abandoned \cup {pid[r]}
    BY <1>0, <2>1, <2>2
  <2>4. /\ IsFiniteSet(Abandoned \cup {pid[r]}) /\ Cardinality(Abandoned) \in Nat
        /\ Cardinality(Abandoned \cup {pid[r]}) <= Cardinality(Abandoned) + 1
    <3>1. IsFiniteSet(Abandoned)
      BY DEF Few
    <3>2. Cardinality(Abandoned) \in Nat
      BY <3>1, FS_CardinalityType
    <3> HIDE DEF Abandoned
    <3> QED BY <3>1, <3>2, FS_AddElement
  <2>5. IsFiniteSet(Abandoned') /\ Cardinality(Abandoned') <= Cardinality(Abandoned) + 1
    <3> HIDE DEF Abandoned
    <3>1. IsFiniteSet(Abandoned')
          /\ Cardinality(Abandoned') <= Cardinality(Abandoned \cup {pid[r]})
      BY <2>3, <2>4, FS_Subset
    <3>2. Cardinality(Abandoned') \in Nat /\ Cardinality(Abandoned \cup {pid[r]}) \in Nat
      BY <2>4, <3>1, FS_CardinalityType
    <3> QED BY <2>4, <3>1, <3>2
  <2> HIDE DEF Abandoned
  <2>6. Cardinality(Abandoned) \in Nat /\ Cardinality(Abandoned') \in Nat
    BY <2>4, <2>5, FS_CardinalityType
  <2> QED BY <1>0, <2>1, <2>5, <2>6 DEF Few, TypeOK
<1>6. ASSUME NEW r \in Requests, Reply(r)
      PROVE  Few'
  <2>1. /\ UNCHANGED <<proc, interrupts>> /\ pc[r] = "reply"
        /\ \A s \in Requests \ {r} : pc'[s] = pc[s]
    BY <1>0, <1>6 DEF TypeOK, Reply
  <2>2. Abandoned' \subseteq Abandoned
    BY <1>0, <2>1
  <2> QED BY <1>0, <2>1, <2>2, NoMoreAbandoned
<1>7. ASSUME NEW p \in Pids, Exit(p)
      PROVE  Few'
  <2>1. Abandoned' \subseteq Abandoned
    BY <1>0, <1>7 DEF TypeOK, Exit, Processes
  <2> QED BY <1>0, <1>7, <2>1, NoMoreAbandoned DEF Exit
<1>8. CASE UNCHANGED vars
  <2>1. Abandoned' \subseteq Abandoned
    BY <1>8 DEF vars
  <2> QED BY <1>0, <1>8, <2>1, NoMoreAbandoned DEF vars
<1> QED BY <1>1, <1>2, <1>3, <1>4, <1>5, <1>6, <1>7, <1>8 DEF Next, Spawn

(* On POSIX the entries left behind in the process table are at most as     *)
(* many as the waits a signal has interrupted, however many calls are made. *)
THEOREM LeaksAreInterrupts == Spec => []LeaksOnlyByInterrupt
<1>1. ASSUME ~Windows PROVE Spec => []Few
  <2>1. Init => Few
    <3>1. Init => Abandoned = {} /\ interrupts = 0
      BY DEF Init, Abandoned, FreeProc
    <3> HIDE DEF Abandoned
    <3> QED BY <3>1, FS_EmptySet DEF Few
  <2> QED BY <1>1, <2>1, NextFew, Invariance, PTL DEF Spec
<1>2. Few => LeaksOnlyByInterrupt
  BY DEF Few, LeaksOnlyByInterrupt
<1>3. Windows => LeaksOnlyByInterrupt
  BY DEF LeaksOnlyByInterrupt
<1>4. CASE Windows
  BY <1>3, <1>4, PTL
<1>5. CASE ~Windows
  BY <1>1, <1>2, <1>5, PTL
<1> QED BY <1>4, <1>5
=============================================================================
