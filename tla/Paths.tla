------------------------------- MODULE Paths -------------------------------
(***************************************************************************)
(* The paths that a child is started with and looks for its library by:    *)
(* getCurrentExecutablePath and GetDirectoryPathFromFilePath.  A path is a *)
(* sequence of characters.                                                 *)
(***************************************************************************)
EXTENDS Naturals, Sequences, FiniteSetsExt, SequencesExt

CONSTANT BufferSize  \* PATH_MAX or MAX_PATH

ASSUME PathsAssumption == BufferSize \in Nat \ {0}

Slashes == {"/", "\\"}

\* What the program learns of its own path.  readlink cuts off what does not
\* fit, and a full buffer counts as a failure; the Windows call cuts it off too,
\* but only the result zero does.
CurrentExecutablePath(path, windows, fails) ==
  CASE fails -> << >>
    [] ~fails /\ Len(path) < BufferSize -> path
    [] ~fails /\ Len(path) >= BufferSize /\ windows -> SubSeq(path, 1, BufferSize - 1)
    [] ~fails /\ Len(path) >= BufferSize /\ ~windows -> << >>

\* Up to the last slash of either kind; without one, the working directory.
GetDirectoryPathFromFilePath(path) ==
  LET At == {i \in DOMAIN path : path[i] \in Slashes}
  IN  IF At = {} THEN <<".", "/">> ELSE SubSeq(path, 1, Max(At))

(* On POSIX a program knows its own path or, if that is too long or cannot  *)
(* be read, none; the directory that it looks for its library in is the one *)
(* that the program is in, and without a path the working directory.  On    *)
(* Windows a path that is too long gives the beginning of it.               *)
ProgramIsFound(path) ==
  \A windows, fails \in BOOLEAN :
    LET known == CurrentExecutablePath(path, windows, fails)
        dir   == GetDirectoryPathFromFilePath(known)
        name  == SubSeq(known, Len(dir) + 1, Len(known))
    IN  /\ IsPrefix(known, path)
        /\ known \notin {path, << >>} => windows /\ Len(path) >= BufferSize
        /\ known # << >> /\ dir # <<".", "/">> =>
             dir \o name = known /\ Last(dir) \in Slashes
        /\ ToSet(name) \cap Slashes = {}
=============================================================================
