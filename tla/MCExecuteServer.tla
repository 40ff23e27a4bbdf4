-------------------------- MODULE MCExecuteServer --------------------------
(* Two threads; a script that posts, one that is posted to, one that hangs. *)
EXTENDS ExecuteServer, TLC

CONSTANTS w1, w2, caller, callee, endless

OnePost == {<<caller, callee>>}
=============================================================================
