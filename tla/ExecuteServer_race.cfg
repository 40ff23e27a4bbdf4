\* The server may stop, and its clients may be left waiting.
SPECIFICATION Spec
CONSTANTS
  w1 = w1  w2 = w2
  caller = caller  callee = callee  endless = endless
  Workers = {w1, w2}
  Requests = {caller, callee, endless}
  Posts <- OnePost
  Hanging = {endless}
CHECK_DEADLOCK FALSE
INVARIANT RunsItsOwnScript
