--------------------------- MODULE ExecuteService ---------------------------
(***************************************************************************)
(* What an execution engine promises about one call of                     *)
(* HandlePythonFileExecutionRequest, without processes, pids or the order  *)
(* of its steps: a call runs its script at most once, it is answered at    *)
(* most once, "ok" is said only of a script that has ended, and a call     *)
(* refused as a bad request (or by an exception) never runs anything.      *)
(***************************************************************************)
CONSTANT Requests

VARIABLES
  script,   \* how far the script of each call has come
  answer    \* what the caller of each call was told

vars == <<script, answer>>

ScriptStates == {"none", "running", "ended"}
Answers      == {"pending", "ok", "bad_request", "error", "exception"}

TypeOK == /\ script \in [Requests -> ScriptStates]
          /\ answer \in [Requests -> Answers]

Init == /\ script = [r \in Requests |-> "none"]
        /\ answer = [r \in Requests |-> "pending"]

Run(r) == /\ answer[r] = "pending" /\ script[r] = "none"
          /\ script' = [script EXCEPT ![r] = "running"]
          /\ UNCHANGED answer

\* A script ends on its own, whether or not its caller still waits for it.
End(r) == /\ script[r] = "running"
          /\ script' = [script EXCEPT ![r] = "ended"]
          /\ UNCHANGED answer

Answer(r, a) == /\ answer[r] = "pending"
                /\ a = "ok" => script[r] = "ended"
                /\ a \in {"bad_request", "exception"} => script[r] = "none"
                /\ answer' = [answer EXCEPT ![r] = a]
                /\ UNCHANGED script

Next == \E r \in Requests :
           \/ Run(r)
           \/ End(r)
           \/ \E a \in Answers \ {"pending"} : Answer(r, a)

Spec == Init /\ [][Next]_vars
=============================================================================
