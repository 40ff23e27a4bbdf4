--------------------------- MODULE MCPythonEngine ---------------------------
(* Small instances of PythonEngine: bodies of every kind the handler tells  *)
(* apart, paths with and without a blank.                                   *)
EXTENDS PythonEngine, TLC

TheFlag  == "--run_python_file"
TheWords == {TheFlag, "server", "my", "a.py", "b.py", "lib", "stale"}

Text(words) == [kind |-> "text", text |-> words]
Composite   == [kind |-> "composite", text |-> NoText]
Body(f, l)  == [type |-> "object", file |-> f, lib |-> l]

Unparsed == [type |-> "null", file |-> Text(NoText), lib |-> Text(NoText)]
AnArray  == [type |-> "other", file |-> Text(NoText), lib |-> Text(NoText)]

PlainBodies ==
  {Unparsed, AnArray, Body(Text(<<"a.py">>), Composite),
   Body(Text(NoText), Text(<<"lib">>)),
   Body(Text(<<"a.py">>), Text(NoText)), Body(Text(<<"b.py">>), Text(<<"lib">>))}

\* Paths with blanks as well.
SpacedBodies == PlainBodies \cup {Body(Text(<<"my", "a.py">>), Text(<<"my", "lib">>))}

\* One body for each way through the handler: refused, thrown out, with and
\* without a library, and with blanks.
MixedBodies ==
  {Unparsed, Body(Text(<<"a.py">>), Composite), Body(Text(<<"a.py">>), Text(NoText)),
   Body(Text(<<"my", "a.py">>), Text(<<"lib">>))}

PlainExe  == <<"server">>

\* A null pointer after the last argument, by chance; or a stale text.
JustNull    == {<< >>}
NullOrStale == {<< >>, <<<<"stale">>>>}

Calls == Permutations(Requests \ Ending) \cup Permutations(Pids)
=============================================================================
