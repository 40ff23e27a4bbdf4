-------------------------- MODULE MCPythonRuntime --------------------------
(* Every circumstance, with at most one function missing from the library.  *)
EXTENDS PythonRuntime

Symbols == Checked \cup Unchecked

AllWorlds ==
  [windows : BOOLEAN, engine : BOOLEAN, named : BOOLEAN, dir : {"missing", "other", "python"},
   loads : BOOLEAN, symbols : {Symbols \ {f} : f \in Symbols} \cup {Symbols},
   sysPath : BOOLEAN, file : BOOLEAN, script : {"ends", "raises", "exits", "hangs"}]
=============================================================================
