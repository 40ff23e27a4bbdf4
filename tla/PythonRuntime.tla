--------------------------- MODULE PythonRuntime ---------------------------
(***************************************************************************)
(* The child process, started with --run_python_file: main builds Server,  *)
(* which loads the engine's library, calls ExecutePythonFile in it and     *)
(* returns, so that Server is destroyed again.  What the process meets     *)
(* (the library directory, the symbols of the Python library, the file,    *)
(* the script) is the record world, fixed from the start.                  *)
(***************************************************************************)
EXTENDS Naturals, Sequences, SequencesExt

CONSTANT Worlds     \* the circumstances to consider

\* The functions ExecutePythonFile needs and checks, and those that
\* ClearAndSetPythonSysPath needs and does not check.
Checked   == {"Initialize", "Finalize", "ErrPrint", "RunString", "RunFile"}
Unchecked == {"GetObject", "Insert", "FromString", "SetSlice", "ListSize"}

ASSUME RuntimeAssumption ==
  Worlds \subseteq
       [windows : BOOLEAN,                       \* the _WIN32 build
        engine  : BOOLEAN,                       \* the engine's library loads
        named   : BOOLEAN,                       \* argv[3] is there
        dir     : {"missing", "other", "python"},\* what the directory holds
        loads   : BOOLEAN,                       \* dlopen succeeds
        symbols : SUBSET (Checked \cup Unchecked),
        sysPath : BOOLEAN,                       \* sys.path exists
        file    : BOOLEAN,                       \* fopen succeeds
        script  : {"ends", "raises", "exits", "hangs"}]

VARIABLES
  world,
  pc,        \* the next thing the process does
  exit,      \* "alive", or how the process ended
  handler,   \* is SIGINT's handler installed?
  engineLib, \* dylib_: "none", "loaded" or "unloaded"
  engine,    \* engine_: "none", "live" or "deleted"
  pyLib,     \* py_dl: "none", "loaded" or "unloaded"
  interp,    \* the interpreter: "none", "up" or "down"
  file,      \* "none", "open" or "closed"
  sysPath    \* sys.path, as a sequence of directories

vars == <<world, pc, exit, handler, engineLib, engine, pyLib, interp, file, sysPath>>

Own == <<"own">>   \* what Py_Initialize puts there

Init ==
  /\ world \in Worlds /\ pc = "construct" /\ exit = "alive" /\ handler = FALSE
  /\ engineLib = "none" /\ engine = "none"
  /\ pyLib = "none" /\ interp = "none" /\ file = "none" /\ sysPath = << >>

At(from, to) == exit = "alive" /\ pc = from /\ pc' = to
End(from, how) == At(from, "over") /\ exit' = how

-----------------------------------------------------------------------------
(* Server::Server.  A library that does not load throws through main.      *)
Construct ==
  /\ \/ /\ world.engine /\ At("construct", "handler")
        /\ engineLib' = "loaded" /\ engine' = "live" /\ UNCHANGED exit
     \/ ~world.engine /\ End("construct", "aborted") /\ UNCHANGED <<engineLib, engine>>
  /\ UNCHANGED <<world, handler, pyLib, interp, file, sysPath>>

InstallHandler ==
  /\ At("handler", "find") /\ handler' = TRUE
  /\ UNCHANGED <<world, exit, engineLib, engine, pyLib, interp, file, sysPath>>

\* directory_iterator throws on a directory that cannot be read; a directory
\* without the library only ends the call.
FindPythonDynamicLib ==
  /\ \/ world.dir = "missing" /\ End("find", "aborted")
     \/ world.dir = "other" /\ At("find", "destroy") /\ UNCHANGED exit
     \/ world.dir = "python" /\ At("find", "load") /\ UNCHANGED exit
  /\ UNCHANGED <<world, handler, engineLib, engine, pyLib, interp, file, sysPath>>

LoadLibrary ==
  /\ \/ world.loads /\ At("load", "bind") /\ pyLib' = "loaded"
     \/ ~world.loads /\ At("load", "destroy") /\ UNCHANGED pyLib
  /\ UNCHANGED <<world, exit, handler, engineLib, engine, interp, file, sysPath>>

\* Mutant of BindFunctions: nothing is checked before Py_Initialize is called.
BindFunctionsUnchecked ==
  /\ IF "Initialize" \in world.symbols
     THEN At("bind", "initialize") /\ UNCHANGED exit
     ELSE End("bind", "segv")
  /\ UNCHANGED <<world, handler, engineLib, engine, pyLib, interp, file, sysPath>>

BindFunctions ==
  /\ \/ /\ Checked \subseteq world.symbols
        /\ At("bind", "initialize") /\ UNCHANGED pyLib
     \/ /\ ~(Checked \subseteq world.symbols)
        /\ At("bind", "destroy") /\ pyLib' = "unloaded"
  /\ UNCHANGED <<world, exit, handler, engineLib, engine, interp, file, sysPath>>

Initialize ==
  /\ At("initialize", IF world.named THEN "open" ELSE "path")
  /\ interp' = "up" /\ sysPath' = Own
  /\ UNCHANGED <<world, exit, handler, engineLib, engine, pyLib, file>>

\* The default library's directories, "home" for the library directory itself.
LibDirs(windows) == IF windows THEN <<"home", "DLLs", "Lib", "Lib/site-packages">>
                               ELSE <<"lib/python", "lib/python/lib-dynload",
                                      "lib/python/site-packages">>

\* Mutant of Inserted: each directory is appended.
Appended(dirs) ==
  LET path[n \in 0..Len(dirs)] == IF n = 0 THEN << >> ELSE Append(path[n-1], dirs[n])
  IN  path[Len(dirs)]

\* Each directory is inserted at index 0 of the list, which was emptied first:
\* path[n] is sys.path after the first n insertions.
Inserted(dirs) ==
  LET path[n \in 0..Len(dirs)] == IF n = 0 THEN << >> ELSE <<dirs[n]>> \o path[n-1]
  IN  path[Len(dirs)]

\* A missing function is called all the same, and a missing sys.path is handed to
\* PyList_Size before it is tested.  That function of the Python library looks at
\* the type of what it is given, which a null pointer has none of: the process
\* crashes either way.
ClearAndSetPythonSysPath ==
  /\ \/ /\ Unchecked \subseteq world.symbols /\ world.sysPath
        /\ At("path", "open") /\ sysPath' = Inserted(LibDirs(world.windows)) /\ UNCHANGED exit
     \/ /\ ~(Unchecked \subseteq world.symbols /\ world.sysPath)
        /\ End("path", "segv") /\ UNCHANGED sysPath
  /\ UNCHANGED <<world, handler, engineLib, engine, pyLib, interp, file>>

OpenFile ==
  /\ \/ world.file /\ At("open", "run") /\ file' = "open"
     \/ ~world.file /\ At("open", "finalize") /\ UNCHANGED file
  /\ UNCHANGED <<world, exit, handler, engineLib, engine, pyLib, interp, sysPath>>

\* A script that calls sys.exit finalizes the interpreter and ends the process
\* from inside it; one that raises is reported and then treated like any other.
RunFile ==
  /\ \/ /\ world.script \in {"ends", "raises"}
        /\ At("run", "close") /\ UNCHANGED <<exit, interp>>
     \/ /\ world.script = "exits"
        /\ End("run", "script") /\ interp' = "down"
  /\ UNCHANGED <<world, handler, engineLib, engine, pyLib, file, sysPath>>

\* Mutant of CloseFile: a script that raised is left open.
CloseFileOnSuccess ==
  /\ At("close", "finalize")
  /\ file' = IF world.script = "raises" THEN file ELSE "closed"
  /\ UNCHANGED <<world, exit, handler, engineLib, engine, pyLib, interp, sysPath>>

CloseFile ==
  /\ At("close", "finalize") /\ file' = "closed"
  /\ UNCHANGED <<world, exit, handler, engineLib, engine, pyLib, interp, sysPath>>

Finalize ==
  /\ At("finalize", "free") /\ interp' = "down"
  /\ UNCHANGED <<world, exit, handler, engineLib, engine, pyLib, file, sysPath>>

FreeLibrary ==
  /\ At("free", "destroy") /\ pyLib' = "unloaded"
  /\ UNCHANGED <<world, exit, handler, engineLib, engine, interp, file, sysPath>>

\* Mutant of DeleteEngine: dylib_ is destroyed first.
DeleteEngineLast ==
  /\ At("destroy", "unload") /\ engineLib' = "unloaded"
  /\ UNCHANGED <<world, exit, handler, engine, pyLib, interp, file, sysPath>>

\* ~Server deletes the engine; its member dylib_ is destroyed after that.
DeleteEngine ==
  /\ At("destroy", "unload") /\ engine' = "deleted"
  /\ UNCHANGED <<world, exit, handler, engineLib, pyLib, interp, file, sysPath>>

UnloadEngine ==
  /\ At("unload", "return") /\ engineLib' = "unloaded"
  /\ UNCHANGED <<world, exit, handler, engine, pyLib, interp, file, sysPath>>

Return ==
  /\ End("return", "ok")
  /\ UNCHANGED <<world, handler, engineLib, engine, pyLib, interp, file, sysPath>>

\* SIGINT: the handler aborts; without it the process is killed.  The handler is
\* code of the engine's library and stays installed when that is unloaded.
Interrupt ==
  /\ exit = "alive"
  /\ exit' = IF ~handler THEN "killed"
             ELSE IF engineLib = "loaded" THEN "aborted" ELSE "segv"
  /\ UNCHANGED <<world, pc, handler, engineLib, engine, pyLib, interp, file, sysPath>>

Next == \/ Construct \/ InstallHandler \/ FindPythonDynamicLib \/ LoadLibrary
        \/ BindFunctions \/ Initialize \/ ClearAndSetPythonSysPath \/ OpenFile
        \/ RunFile \/ CloseFile \/ Finalize \/ FreeLibrary
        \/ DeleteEngine \/ UnloadEngine \/ Return \/ Interrupt

Spec == Init /\ [][Next]_vars

-----------------------------------------------------------------------------
Dirs == {"own"} \cup ToSet(LibDirs(TRUE)) \cup ToSet(LibDirs(FALSE))

TypeOK ==
  /\ world \in Worlds
  /\ pc \in {"construct", "handler", "find", "load", "bind", "initialize", "path", "open",
             "run", "close", "finalize", "free", "destroy", "unload",
             "return", "over"}
  /\ exit \in {"alive", "ok", "script", "aborted", "killed", "segv"}
  /\ handler \in BOOLEAN
  /\ engineLib \in {"none", "loaded", "unloaded"} /\ engine \in {"none", "live", "deleted"}
  /\ pyLib \in {"none", "loaded", "unloaded"} /\ interp \in {"none", "up", "down"}
  /\ file \in {"none", "open", "closed"}
  /\ sysPath \in Seq(Dirs)

(* Whatever fails on the way, a child whose main returns has closed the     *)
(* file, finalized the interpreter, released the Python library and deleted *)
(* the engine before unloading it.  A child that ends otherwise releases    *)
(* nothing: SIGINT aborts it wherever it is.                                *)
BalancedAtReturn ==
  exit = "ok" => /\ file # "open" /\ interp # "up" /\ pyLib # "loaded"
                 /\ engine = "deleted" /\ engineLib = "unloaded"

(* Things are used only inside what they need: the open file inside the     *)
(* interpreter, the interpreter inside its library, and the engine (whose   *)
(* code all of ExecutePythonFile is) inside the engine's library.           *)
NestedLifetimes ==
  /\ file = "open" /\ exit # "script" => interp = "up"
  /\ interp = "up" => pyLib = "loaded"
  /\ engine = "live" => engineLib = "loaded"
  /\ pyLib = "loaded" => engine = "live"

(* The script sees the default library's directories and nothing else,      *)
(* site-packages before the standard library, when no library directory was *)
(* named, and the interpreter's own path when one was.                      *)
ScriptSeesItsLibrary ==
  pc = "run" =>
    sysPath = IF world.named THEN Own
              ELSE IF world.windows
              THEN <<"Lib/site-packages", "Lib", "DLLs", "home">>
              ELSE <<"lib/python/site-packages", "lib/python/lib-dynload", "lib/python">>

(* With a library directory of the caller's choice no function that the     *)
(* library lacks is ever called: the unchecked calls are all on the default *)
(* path.  The one other crash is a SIGINT after the engine's library, which *)
(* holds the handler, has been unloaded.                                    *)
CrashOnlyOnDefaultPath == exit = "segv" => ~world.named \/ engineLib = "unloaded"
=============================================================================
