---------------------------- MODULE PythonEngine ----------------------------
(***************************************************************************)
(* PythonEngine::HandlePythonFileExecutionRequest, called by several       *)
(* server threads at once, together with the part of the operating system  *)
(* it uses: the process table behind posix_spawn / waitpid, or             *)
(* CreateProcessW / WaitForSingleObject in a Windows build.  The engine    *)
(* object has no state of its own; everything that matters is local to a   *)
(* call or in the process table.                                           *)
(*                                                                         *)
(* A text (a path) is a sequence of words: what a blank separates, which   *)
(* is all that the Windows command line tells apart.  The empty text is    *)
(* << >>.                                                                  *)
(***************************************************************************)
EXTENDS Naturals, Sequences, FiniteSets

CONSTANTS
  Requests,       \* calls of the handler, each on a thread of its own
  Pids,           \* process ids of the operating system
  Words,          \* what a blank separates in a text
  Flag,           \* the word --run_python_file
  Bodies,         \* the JSON bodies that calls carry
  Windows,        \* TRUE for the _WIN32 build
  ExePath,        \* the text of getCurrentExecutablePath()
  Beyond,         \* what memory may hold after the last argument (see PosixArgv)
  Ending,         \* the calls whose script is known to end
  MaxInterrupts,  \* how many waits a signal may interrupt
  Null            \* no process, no call

Texts  == Seq(Words)
Fields == [kind : {"text", "composite"}, text : Texts]

ASSUME EngineAssumption ==
  /\ Bodies \subseteq [type : {"null", "object", "other"},
                       file : Fields, lib : Fields]
  /\ Flag \in Words
  /\ Windows \in BOOLEAN
  /\ ExePath \in Texts
  /\ Beyond \subseteq Seq(Texts)
  /\ Ending \subseteq Requests
  /\ MaxInterrupts \in Nat
  /\ Null \notin Requests \cup Pids

VARIABLES
  pc,          \* where each call stands
  req,         \* the parsed PythonFileExecutionRequest of each call
  pid,         \* the local variable pid of each call
  resp,        \* status_resp and json_resp of each call
  answer,      \* what the callback of each call was given
  proc,        \* the process table
  interrupts   \* waits interrupted so far

vars == <<pc, req, pid, resp, answer, proc, interrupts>>

NoText    == << >>
NoRequest == [file |-> NoText, lib |-> NoText]
NoAnswer  == [status |-> 0, message |-> "none"]
FreeProc  == [state |-> "free", owner |-> Null, argv |-> << >>]

-----------------------------------------------------------------------------
(* FromJson.  A body that is missing or does not parse is the null value,  *)
(* whose members all have their default "".  Asking any other non-object   *)
(* for a member throws, and so does asString on an array or an object.     *)

Throws(b) == \/ b.type = "other"
             \/ b.type = "object" /\ "composite" \in {b.file.kind, b.lib.kind}

FromJson(b) == IF b.type = "object"
               THEN [file |-> b.file.text, lib |-> b.lib.text]
               ELSE NoRequest

-----------------------------------------------------------------------------
(* How the request travels to the child.  POSIX passes an argument vector  *)
(* which the engine does not end with a null pointer: the child's argv goes *)
(* on with whatever the heap holds after the last element, up to the first *)
(* null (a word that is no address makes the spawn fail).  Windows passes  *)
(* one unquoted line, which the child's C runtime splits again at blanks.  *)

\* Mutant of PosixArgv: the library directory goes first.
PosixArgvSwapped(q, beyond) ==
  <<ExePath, <<Flag>>>> \o (IF q.lib = NoText THEN << >> ELSE <<q.lib>>)
    \o <<q.file>> \o beyond

PosixArgv(q, beyond) ==
  IF q.lib = NoText THEN <<ExePath, <<Flag>>, q.file>> \o beyond
                    ELSE <<ExePath, <<Flag>>, q.file, q.lib>> \o beyond

\* Mutant of WindowsArgv: the flag is left out of the line.
WindowsArgvNoFlag(q) == LET line == ExePath \o q.file \o q.lib
                        IN  [i \in 1..Len(line) |-> <<line[i]>>]

WindowsArgv(q) == LET line == ExePath \o <<Flag>> \o q.file \o q.lib
                  IN  [i \in 1..Len(line) |-> <<line[i]>>]

Argv(q, beyond) == IF Windows THEN WindowsArgv(q) ELSE PosixArgv(q, beyond)

\* What main makes of it: argv[1] selects the run mode, argv[2] is the file
\* and argv[3], when it is there, the library directory.
RunMode(argv)   == Len(argv) > 1 /\ argv[2] = <<Flag>>
MainParse(argv) == [file |-> argv[3],
                    lib  |-> IF Len(argv) > 3 THEN argv[4] ELSE NoText]

-----------------------------------------------------------------------------
Init ==
  /\ pc = [r \in Requests |-> "idle"]
  /\ req = [r \in Requests |-> NoRequest]
  /\ pid = [r \in Requests |-> Null]
  /\ resp = [r \in Requests |-> NoAnswer]
  /\ answer = [r \in Requests |-> NoAnswer]
  /\ proc = [p \in Pids |-> FreeProc]
  /\ interrupts = 0

Goto(r, from, to) == pc[r] = from /\ pc' = [pc EXCEPT ![r] = to]

\* FromJson throws: the exception leaves the handler, no callback is made.
Throw(r, b) ==
  /\ Throws(b)
  /\ Goto(r, "idle", "thrown")
  /\ UNCHANGED <<req, pid, resp, answer, proc, interrupts>>

\* No file path: the early return with 400.
Reject(r, b) ==
  /\ ~Throws(b) /\ FromJson(b).file = NoText
  /\ Goto(r, "idle", "reply")
  /\ req' = [req EXCEPT ![r] = FromJson(b)]
  /\ resp' = [resp EXCEPT ![r] = [status |-> 400, message |-> "no path"]]
  /\ UNCHANGED <<pid, answer, proc, interrupts>>

\* The response is prepared as a success before anything has been tried.
Accept(r, b) ==
  /\ ~Throws(b) /\ FromJson(b).file # NoText
  /\ Goto(r, "idle", "spawn")
  /\ req' = [req EXCEPT ![r] = FromJson(b)]
  /\ resp' = [resp EXCEPT ![r] = [status |-> 200, message |-> "executing"]]
  /\ UNCHANGED <<pid, answer, proc, interrupts>>

\* Mutant of SpawnOk: pid is a member of the engine, shared by its calls.
SpawnSharedPid(r, p) ==
  /\ Goto(r, "spawn", "wait")
  /\ proc[p] = FreeProc
  /\ \E beyond \in Beyond :
       proc' = [proc EXCEPT ![p] = [state |-> "running", owner |-> r,
                                    argv |-> Argv(req[r], beyond)]]
  /\ pid' = [q \in Requests |-> p]
  /\ UNCHANGED <<req, resp, answer, interrupts>>

SpawnOk(r, p) ==
  /\ Goto(r, "spawn", "wait")
  /\ proc[p] = FreeProc
  /\ \E beyond \in Beyond :
       proc' = [proc EXCEPT ![p] = [state |-> "running", owner |-> r,
                                    argv |-> Argv(req[r], beyond)]]
  /\ pid' = [pid EXCEPT ![r] = p]
  /\ UNCHANGED <<req, resp, answer, interrupts>>

\* Mutants of Failed: the Windows branch everywhere; a mistyped status.
FailedKeepsStatus(old) == [status |-> old.status, message |-> "failed"]
FailedMistyped(old)    == [status |-> 50, message |-> "failed"]

\* POSIX turns a failure into 500; the Windows branch changes the message only.
Failed(old) == [status |-> IF Windows THEN old.status ELSE 500, message |-> "failed"]

SpawnFail(r) ==
  /\ Goto(r, "spawn", "reply")
  /\ resp' = [resp EXCEPT ![r] = Failed(resp[r])]
  /\ UNCHANGED <<req, pid, answer, proc, interrupts>>

Spawn(r) == SpawnFail(r) \/ \E p \in Pids : SpawnOk(r, p)

\* The child ends, however it ends: stat_loc is never looked at.
Exit(p) ==
  /\ proc[p].state = "running"
  /\ proc' = [proc EXCEPT ![p].state = "exited"]
  /\ UNCHANGED <<pc, req, pid, resp, answer, interrupts>>

\* Mutant of Wait: waitpid(-1), any child will do.
WaitAnyChild(r) ==
  /\ Goto(r, "wait", "reply")
  /\ \E p \in Pids : /\ proc[p].state = "exited"
                     /\ proc' = [proc EXCEPT ![p] = FreeProc]
  /\ UNCHANGED <<req, pid, resp, answer, interrupts>>

\* Mutant of Wait: WNOHANG, a child still running is not waited for.
WaitNoHang(r) ==
  /\ Goto(r, "wait", "reply")
  /\ proc' = IF proc[pid[r]].state = "running" THEN proc
             ELSE [proc EXCEPT ![pid[r]] = FreeProc]
  /\ UNCHANGED <<req, pid, resp, answer, interrupts>>

\* waitpid(pid) reaps the child.  WaitForSingleObject does not, and the process
\* handle is never closed, so on Windows the entry stays.
Wait(r) ==
  /\ Goto(r, "wait", "reply")
  /\ proc[pid[r]].state = "exited"
  /\ proc' = IF Windows THEN proc ELSE [proc EXCEPT ![pid[r]] = FreeProc]
  /\ UNCHANGED <<req, pid, resp, answer, interrupts>>

\* Mutant of Interrupt: the result of waitpid is ignored.
InterruptIgnored(r) ==
  /\ Goto(r, "wait", "reply")
  /\ ~Windows /\ interrupts < MaxInterrupts
  /\ proc[pid[r]].state = "running"
  /\ interrupts' = interrupts + 1
  /\ UNCHANGED <<req, pid, resp, answer, proc>>

\* The server installs its handlers without SA_RESTART: a signal taken by a
\* waiting thread makes waitpid return -1 while the child goes on.
Interrupt(r) ==
  /\ Goto(r, "wait", "reply")
  /\ ~Windows /\ interrupts < MaxInterrupts
  /\ proc[pid[r]].state = "running"
  /\ interrupts' = interrupts + 1
  /\ resp' = [resp EXCEPT ![r] = Failed(resp[r])]
  /\ UNCHANGED <<req, pid, answer, proc>>

Reply(r) ==
  /\ Goto(r, "reply", "returned")
  /\ answer' = [answer EXCEPT ![r] = resp[r]]
  /\ UNCHANGED <<req, pid, resp, proc, interrupts>>

Next ==
  \/ \E r \in Requests :
       \/ \E b \in Bodies : Throw(r, b) \/ Reject(r, b) \/ Accept(r, b)
       \/ Spawn(r) \/ Wait(r) \/ Interrupt(r) \/ Reply(r)
  \/ \E p \in Pids : Exit(p)

Spec == Init /\ [][Next]_vars

\* The threads of the server keep running; a script is only assumed to end
\* when its call is in Ending.
EndsOnItsOwn(p) == proc[p].owner \in Ending /\ Exit(p)

FairSpec == /\ Spec
            /\ \A r \in Requests : /\ WF_vars(Spawn(r))
                                   /\ WF_vars(Wait(r))
                                   /\ WF_vars(Reply(r))
            /\ \A p \in Pids : WF_vars(EndsOnItsOwn(p))

-----------------------------------------------------------------------------
PcStates  == {"idle", "spawn", "wait", "reply", "returned", "thrown"}
Messages  == {"none", "no path", "executing", "failed"}
Responses == [status : {0, 200, 400, 500}, message : Messages]
Processes == [state : {"free", "running", "exited"},
              owner : Requests \cup {Null}, argv : Seq(Texts)]

TypeOK ==
  /\ pc \in [Requests -> PcStates]
  /\ req \in [Requests -> [file : Texts, lib : Texts]]
  /\ pid \in [Requests -> Pids \cup {Null}]
  /\ resp \in [Requests -> Responses]
  /\ answer \in [Requests -> Responses]
  /\ proc \in [Pids -> Processes]
  /\ interrupts \in Nat

Children(r) == {p \in Pids : proc[p].state # "free" /\ proc[p].owner = r}

(* A POSIX call answered with 200 did create a child, the child has ended,  *)
(* and the call itself has reaped it: no zombie and no running script is    *)
(* left behind a success (waitpid before the callback).                     *)
OkMeansReaped ==
  \A r \in Requests :
     ~Windows /\ answer[r].status = 200 => pid[r] # Null /\ Children(r) = {}

(* On either platform, a call answered "executing" with 200 did create a    *)
(* child and that child has ended by the time of the answer.                *)
SuccessMeansEnded ==
  \A r \in Requests :
     answer[r] = [status |-> 200, message |-> "executing"] =>
       pid[r] # Null /\ \A p \in Children(r) : proc[p].state = "exited"

(* The process a call waits for is its own: a pid that was reaped and given *)
(* to another call's child is never waited for through a stale variable.    *)
WaitsForOwnChild ==
  \A r \in Requests :
     pc[r] = "wait" => pid[r] \in Pids /\ pid[r] \in Children(r)

(* A call has at most one child, and knows its pid.                         *)
OneChildPerCall ==
  \A p \in Pids : proc[p].state # "free" => /\ proc[p].owner \in Requests
                                            /\ pid[proc[p].owner] = p

(* On POSIX nothing but an interrupted wait leaves an entry in the process  *)
(* table behind: at most one per interrupt, whatever the number of calls.   *)
Abandoned == {p \in Pids : /\ proc[p].state # "free"
                           /\ pc[proc[p].owner] \in {"reply", "returned"}}
LeaksOnlyByInterrupt == ~Windows => Cardinality(Abandoned) <= interrupts

(* The child's main recovers exactly the file and the library directory of  *)
(* the request that created it.                                             *)
ChildGetsItsRequest ==
  \A p \in Pids : proc[p].state # "free" =>
     /\ RunMode(proc[p].argv)
     /\ MainParse(proc[p].argv) = req[proc[p].owner]

(* Whatever follows the argument vector in memory, the child is in run mode, *)
(* runs the file of its call, and uses the library directory if one is named. *)
NamedArgumentsArrive ==
  \A p \in Pids : proc[p].state # "free" =>
     LET got == MainParse(proc[p].argv)  asked == req[proc[p].owner]
     IN  /\ RunMode(proc[p].argv)
         /\ got.file = asked.file
         /\ asked.lib # NoText => got.lib = asked.lib

(* A request that names no library directory has its script run with the    *)
(* default one, which the child chooses when main finds no argv[3].         *)
DefaultLibraryWhenNoneNamed ==
  \A p \in Pids :
     proc[p].state # "free" /\ req[proc[p].owner].lib = NoText =>
       MainParse(proc[p].argv).lib = NoText

(* An entry leaves the process table only when the call that created it     *)
(* waits for it and the process has ended.                                  *)
ReapedByItsCall ==
  [][\A p \in Pids :
       proc[p].state # "free" /\ proc'[p].state = "free" =>
         /\ proc[p].state = "exited"
         /\ pc[proc[p].owner] = "wait" /\ pc'[proc[p].owner] = "reply"]_vars

(* An answer whose message says that the execution failed carries an error  *)
(* status.                                                                  *)
FailureHasErrorStatus ==
  \A r \in Requests : answer[r].message = "failed" => answer[r].status >= 400

(* A call whose script ends returns, however many other scripts hang, and   *)
(* whatever happens to pids and signals.                                    *)
EndingCallReturns ==
  \A r \in Ending : pc[r] = "spawn" ~> pc[r] = "returned"

-----------------------------------------------------------------------------
(* The abstract service this engine implements on POSIX.                    *)

ScriptOf(r) == IF pid[r] = Null THEN "none"
               ELSE IF \E p \in Children(r) : proc[p].state = "running"
               THEN "running" ELSE "ended"

AnswerOf(r) == CASE pc[r] = "thrown"       -> "exception"
                 [] answer[r].status = 0   /\ pc[r] # "thrown" -> "pending"
                 [] answer[r].status = 200 -> "ok"
                 [] answer[r].status = 400 -> "bad_request"
                 [] answer[r].status = 500 -> "error"

Service == INSTANCE ExecuteService
             WITH script <- [r \in Requests |-> ScriptOf(r)],
                  answer <- [r \in Requests |-> AnswerOf(r)]

(* A call runs its script at most once, is answered at most once, "ok" only *)
(* after the script has ended and a refusal only if none ever started.      *)
ImplementsService == Service!Spec
=============================================================================
