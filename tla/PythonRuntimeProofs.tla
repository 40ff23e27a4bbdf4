------------------------ MODULE PythonRuntimeProofs ------------------------
(***************************************************************************)
(* Theorems about PythonRuntime, for any set of circumstances.             *)
(***************************************************************************)
EXTENDS PythonRuntime, TLAPS, WellFoundedInduction

(***************************************************************************)
(* What sys.path is made of.  A recursive function is the chosen function  *)
(* that satisfies its equation: that one does has to be shown by naming it *)
(* (all), and that it is this one by induction on the index.  Induction is *)
(* stated for a set of numbers, of which the least absentee is considered. *)
(***************************************************************************)

\* A set of numbers with 0 and the successor of each of its members has them all.
LEMMA Induction ==
  ASSUME NEW T \in SUBSET Nat, 0 \in T, \A n \in T : n + 1 \in T
  PROVE  T = Nat
<1> DEFINE less == OpToRel(<, Nat)
           rest == Nat \ T
<1> SUFFICES ASSUME rest # {} PROVE FALSE
  OBVIOUS
<1>1. IsWellFoundedOn(less, Nat)
  BY NatLessThanWellFounded DEF less
<1>2. PICK k \in rest : \A j \in rest : ~(<<j, k>> \in less)
  <2> HIDE DEF less
  <2> QED BY <1>1, WFMin
<1>3. k - 1 \in Nat
  OBVIOUS
<1>4. k - 1 \notin rest
  <2> SUFFICES ASSUME k - 1 \in rest PROVE FALSE
    OBVIOUS
  <2>1. <<k - 1, k>> \in less
    BY <1>3 DEF OpToRel
  <2> QED BY <1>2, <2>1
<1> QED BY <1>3, <1>4

\* Inserting each directory at the front reverses the list, whatever is in it.
LEMMA InsertedReverses ==
  ASSUME NEW S, NEW dirs \in Seq(S)
  PROVE  Inserted(dirs) = [i \in 1..Len(dirs) |-> dirs[Len(dirs) + 1 - i]]
<1> DEFINE N == Len(dirs)
           rev(n) == [i \in 1..n |-> dirs[n + 1 - i]]
           step(p) == [n \in 0..N |-> IF n = 0 THEN << >> ELSE <<dirs[n]>> \o p[n-1]]
           all == [n \in 0..N |-> rev(n)]
           path == CHOOSE p : p = step(p)
           T == {n \in Nat : n <= N => path[n] = rev(n)}
<1>1. rev(0) = << >>
  OBVIOUS
<1>2. ASSUME NEW n \in 1..N PROVE rev(n) = <<dirs[n]>> \o rev(n-1)
  <2>1. /\ rev(n-1) \in Seq(S) /\ Len(rev(n-1)) = n - 1 
        /\ <<dirs[n]>> \in Seq(S) /\ Len(<<dirs[n]>>) = 1
    OBVIOUS
  <2> DEFINE r == <<dirs[n]>> \o rev(n-1)
  <2>2. Len(r) = n /\ DOMAIN r = 1..n /\ r = [i \in 1..n |-> r[i]]
    BY <2>1
  <2>3. \A i \in 1..n : r[i] = dirs[n+1-i]
    BY <2>1
  <2> HIDE DEF r
  <2> QED BY <2>2, <2>3
<1>3. all = step(all)
  <2> HIDE DEF rev
  <2> QED BY SMTT(30), <1>1, <1>2
<1>4. path = step(path)
  <2> HIDE DEF all, step
  <2> QED BY <1>3
<1> HIDE DEF path
<1>5. path[0] = << >> /\ \A n \in 1..N : path[n] = <<dirs[n]>> \o path[n-1]
  <2>1. path[0] = << >>
    BY <1>4
  <2>2. ASSUME NEW n \in 1..N PROVE path[n] = <<dirs[n]>> \o path[n-1]
    <3>1. step(path)[n] = <<dirs[n]>> \o path[n-1]
      OBVIOUS
    <3> HIDE DEF step
    <3> QED BY <1>4, <3>1
  <2> QED BY <2>1, <2>2
<1>6. 0 \in T /\ \A n \in T : n + 1 \in T
  <2>1. 0 \in T
    BY <1>1, <1>5
  <2>2. ASSUME NEW n \in 1..N, n - 1 \in T PROVE n \in T
    <3> HIDE DEF rev
    <3>1. path[n-1] = rev(n-1)
      BY <2>2
    <3>2. path[n] = rev(n)
      BY <1>2, <1>5, <3>1
    <3> QED BY <3>2
  <2>3. ASSUME NEW n \in T PROVE n + 1 \in T
    <3> HIDE DEF rev
    <3>1. CASE n + 1 <= N
      <4>1. n + 1 \in 1..N /\ (n + 1) - 1 = n
        BY <3>1
      <4> HIDE DEF T
      <4> QED BY <2>2, <4>1
    <3> QED BY <3>1
  <2> QED BY <2>1, <2>3
<1>7. T = Nat
  <2>1. T \subseteq Nat
    OBVIOUS
  <2> HIDE DEF T
  <2> QED BY <1>6, <2>1, Induction
<1>8. path[N] = rev(N)
  <2> HIDE DEF rev
  <2> QED BY <1>7
<1>9. Inserted(dirs) = path[N]
  BY DEF Inserted, path
<1> QED BY <1>8, <1>9
-----------------------------------------------------------------------------
(***************************************************************************)
(* The inductive invariant.  Neither that resources are balanced when main *)
(* returns nor that their lifetimes nest is inductive: both need to know,  *)
(* for each point the process can be at, what it holds there.  A process   *)
(* that has ended, from wherever it was, does nothing more.                *)
(***************************************************************************)
Typed ==
  /\ world \in Worlds
  /\ exit \in {"alive", "ok", "script", "aborted", "killed", "segv"}
  /\ handler \in BOOLEAN
  /\ engineLib \in {"none", "loaded", "unloaded"} /\ engine \in {"none", "live", "deleted"}
  /\ pyLib \in {"none", "loaded", "unloaded"} /\ interp \in {"none", "up", "down"}
  /\ file \in {"none", "open", "closed"}

\* The points before the library is bound, inside it, inside the interpreter.
Before      == {"construct", "handler", "find", "load"}
InLibrary   == {"bind", "initialize", "path", "open", "run", "close", "finalize", "free"}
Interpreted == {"path", "open", "run", "close", "finalize"}
Leaving     == {"destroy", "unload", "return"}

EngineHeld ==
  /\ pc = "construct" => engineLib = "none" /\ engine = "none"
  /\ pc \in (Before \ {"construct"}) \cup InLibrary \cup {"destroy"} =>
       engineLib = "loaded" /\ engine = "live"
  /\ pc = "unload" => engineLib = "loaded" /\ engine = "deleted"
  /\ pc = "return" => engineLib = "unloaded" /\ engine = "deleted"
  /\ handler => engineLib # "none"

PythonHeld ==
  /\ pc \in Before => pyLib = "none"
  /\ pc \in InLibrary => pyLib = "loaded"
  /\ pc \in Leaving => pyLib # "loaded"
  /\ pc \in Interpreted => interp = "up"
  /\ pc \in Before \cup {"bind", "initialize", "free"} \cup Leaving => interp # "up"
  /\ pc \in {"run", "close"} => file = "open"
  /\ pc \in Before \cup (InLibrary \ {"run", "close"}) \cup Leaving => file # "open"

\* What a script is to see: ScriptSeesItsLibrary, with the path given a name.
RightPath ==
  IF world.named THEN Own
  ELSE IF world.windows
  THEN <<"Lib/site-packages", "Lib", "DLLs", "home">>
  ELSE <<"lib/python/site-packages", "lib/python/lib-dynload", "lib/python">>

PathIsTyped == sysPath \in Seq(Dirs)

PathIsRight ==
  /\ pc = "path" => ~world.named
  /\ pc \in {"open", "run"} => sysPath = RightPath

Ended ==
  /\ pc \in Before \cup InLibrary \cup Leaving \cup {"over"}
  /\ exit \in {"ok", "script"} => pc = "over"
  /\ pc = "over" => exit # "alive" /\ NestedLifetimes
  /\ BalancedAtReturn
  /\ CrashOnlyOnDefaultPath

\* All but the type of sys.path, which is a matter of sequences.
Held == Typed /\ EngineHeld /\ PythonHeld /\ PathIsRight /\ Ended

IInv == Held /\ PathIsTyped

\* The directories of both default libraries are among Dirs.
LEMMA AllDirs ==
  /\ Own \in Seq(Dirs) /\ LibDirs(TRUE) \in Seq(Dirs) /\ LibDirs(FALSE) \in Seq(Dirs)
<1>1. ASSUME NEW S, NEW a \in S, NEW b \in S, NEW c \in S, NEW d \in S
      PROVE  <<a>> \in Seq(S) /\ <<a, b, c>> \in Seq(S) /\ <<a, b, c, d>> \in Seq(S)
  OBVIOUS
<1>2. /\ LibDirs(TRUE) = <<"home", "DLLs", "Lib", "Lib/site-packages">>
      /\ LibDirs(FALSE) = <<"lib/python", "lib/python/lib-dynload", "lib/python/site-packages">>
  BY DEF LibDirs
<1>3. ASSUME NEW a, NEW b, NEW c, NEW d
      PROVE /\ {a, b, c, d} \subseteq ToSet(<<a, b, c, d>>)
            /\ {a, b, c} \subseteq ToSet(<<a, b, c>>)
  BY DEF ToSet
<1>4. /\ {"home", "DLLs", "Lib", "Lib/site-packages"} \subseteq Dirs
      /\ {"lib/python", "lib/python/lib-dynload", "lib/python/site-packages"} \subseteq Dirs
      /\ "own" \in Dirs
  <2>1. /\ {"home", "DLLs", "Lib", "Lib/site-packages"} \subseteq ToSet(LibDirs(TRUE))
        /\ {"lib/python", "lib/python/lib-dynload", "lib/python/site-packages"}
             \subseteq ToSet(LibDirs(FALSE))
    BY <1>2, <1>3
  <2> QED BY <2>1 DEF Dirs
<1>5. LibDirs(TRUE) \in Seq(Dirs)
  <2> HIDE DEF Dirs
  <2> QED BY <1>1, <1>2, <1>4
<1>6. LibDirs(FALSE) \in Seq(Dirs)
  <2> HIDE DEF Dirs
  <2> QED BY <1>1, <1>2, <1>4
<1> QED BY <1>1, <1>4, <1>5, <1>6 DEF Own

\* The default library's directories are inserted in the order the script needs.
LEMMA DefaultPath ==
  /\ Inserted(LibDirs(TRUE)) = <<"Lib/site-packages", "Lib", "DLLs", "home">>
  /\ Inserted(LibDirs(FALSE)) =
       <<"lib/python/site-packages", "lib/python/lib-dynload", "lib/python">>
<1>1. ASSUME NEW s, NEW r, NEW a, NEW b, NEW c, NEW d,
             s = <<a, b, c, d>>, r = [i \in 1..Len(s) |-> s[Len(s) + 1 - i]]
      PROVE  r = <<d, c, b, a>>
  <2>1. Len(s) = 4
    BY <1>1
  <2> QED BY <1>1, <2>1
<1>2. ASSUME NEW s, NEW r, NEW a, NEW b, NEW c,
             s = <<a, b, c>>, r = [i \in 1..Len(s) |-> s[Len(s) + 1 - i]]
      PROVE  r = <<c, b, a>>
  <2>1. Len(s) = 3
    BY <1>2
  <2> QED BY <1>2, <2>1
<1>3. /\ LibDirs(TRUE) = <<"home", "DLLs", "Lib", "Lib/site-packages">>
      /\ LibDirs(FALSE) = <<"lib/python", "lib/python/lib-dynload", "lib/python/site-packages">>
  BY DEF LibDirs
<1>4. Inserted(LibDirs(TRUE)) = <<"Lib/site-packages", "Lib", "DLLs", "home">>
  <2> DEFINE s == LibDirs(TRUE)
  <2>1. Inserted(s) = [i \in 1..Len(s) |-> s[Len(s) + 1 - i]]
    BY AllDirs, InsertedReverses
  <2>2. s = <<"home", "DLLs", "Lib", "Lib/site-packages">>
    BY <1>3
  <2> HIDE DEF s
  <2>3. Inserted(s) = <<"Lib/site-packages", "Lib", "DLLs", "home">>
    BY <1>1, <2>1, <2>2
  <2> QED BY <2>3 DEF s
<1>5. Inserted(LibDirs(FALSE)) =
        <<"lib/python/site-packages", "lib/python/lib-dynload", "lib/python">>
  <2> DEFINE s == LibDirs(FALSE)
  <2>1. Inserted(s) = [i \in 1..Len(s) |-> s[Len(s) + 1 - i]]
    BY AllDirs, InsertedReverses
  <2>2. s = <<"lib/python", "lib/python/lib-dynload", "lib/python/site-packages">>
    BY <1>3
  <2> HIDE DEF s
  <2>3. Inserted(s) =
          <<"lib/python/site-packages", "lib/python/lib-dynload", "lib/python">>
    BY <1>2, <2>1, <2>2
  <2> QED BY <2>3 DEF s
<1> QED BY <1>4, <1>5

\* Reversing keeps a path of Dirs one.
LEMMA PathsOfDirs ==
  /\ Own \in Seq(Dirs)
  /\ \A windows \in BOOLEAN : Inserted(LibDirs(windows)) \in Seq(Dirs)
<1>1. ASSUME NEW dirs \in Seq(Dirs)
      PROVE  [i \in 1..Len(dirs) |-> dirs[Len(dirs) + 1 - i]] \in Seq(Dirs)
  <2> HIDE DEF Dirs
  <2> QED OBVIOUS
<1>2. Inserted(LibDirs(TRUE)) \in Seq(Dirs)
  BY <1>1, AllDirs, InsertedReverses
<1>3. Inserted(LibDirs(FALSE)) \in Seq(Dirs)
  BY <1>1, AllDirs, InsertedReverses
<1> QED BY <1>2, <1>3, AllDirs

\* Nothing is held before the first step.
LEMMA InitIInv == Init => IInv
<1>1. Init => Held
  BY DEF Init, Held, Typed, EngineHeld, PythonHeld, PathIsRight, Ended, Before, InLibrary,
       Interpreted, Leaving, NestedLifetimes, BalancedAtReturn, CrashOnlyOnDefaultPath
<1>2. Init => PathIsTyped
  <2> HIDE DEF Dirs
  <2> QED BY DEF Init, PathIsTyped
<1> QED BY <1>1, <1>2 DEF IInv

\* sys.path changes in two steps, and keeps its type in them.
LEMMA NextPathIsTyped == PathIsTyped /\ [Next]_vars => PathIsTyped'
<1> SUFFICES ASSUME PathIsTyped, [Next]_vars PROVE PathIsTyped'
  OBVIOUS
<1> USE DEF PathIsTyped
<1>1. CASE Initialize
  BY <1>1, PathsOfDirs DEF Initialize
<1>2. CASE ClearAndSetPythonSysPath
  <2>1. LibDirs(world.windows) \in {LibDirs(TRUE), LibDirs(FALSE)}
    BY DEF LibDirs
  <2> QED BY <1>2, <2>1, PathsOfDirs DEF ClearAndSetPythonSysPath
<1>3. CASE UNCHANGED sysPath
  BY <1>3
<1>4. Initialize \/ ClearAndSetPythonSysPath \/ UNCHANGED sysPath
  BY DEF Next, vars, Construct, InstallHandler, FindPythonDynamicLib, LoadLibrary,
         BindFunctions, OpenFile, RunFile, CloseFile, Finalize, FreeLibrary, DeleteEngine,
         UnloadEngine, Return, Interrupt
<1> QED BY <1>1, <1>2, <1>3, <1>4

\* Each step takes the process from what it holds at one point to what it holds
\* at the next.
LEMMA NextHeld == Held /\ [Next]_vars => Held'
<1> SUFFICES ASSUME Held, [Next]_vars PROVE Held'
  OBVIOUS
<1> USE DEF Held, Typed, EngineHeld, PythonHeld, PathIsRight, Ended, Before, InLibrary,
            Interpreted, Leaving, NestedLifetimes, BalancedAtReturn, CrashOnlyOnDefaultPath,
            At, End
<1>1. CASE Construct
  BY <1>1 DEF Construct
<1>2. CASE InstallHandler
  BY <1>2 DEF InstallHandler
<1>3. CASE FindPythonDynamicLib
  BY <1>3 DEF FindPythonDynamicLib
<1>4. CASE LoadLibrary
  BY <1>4 DEF LoadLibrary
<1>5. CASE BindFunctions
  BY <1>5 DEF BindFunctions
<1>6. CASE Initialize
  BY <1>6 DEF Initialize, RightPath
<1>7. CASE ClearAndSetPythonSysPath
  <2>1. world.windows \in BOOLEAN
    BY RuntimeAssumption
  <2>2. pc = "path" /\ exit = "alive" /\ ~world.named
    BY <1>7 DEF ClearAndSetPythonSysPath
  <2>3. CASE pc' = "open"
    <3>1. /\ sysPath' = Inserted(LibDirs(world.windows))
          /\ UNCHANGED <<world, exit, handler, engineLib, engine, pyLib, interp, file>>
      BY <1>7, <2>3 DEF ClearAndSetPythonSysPath
    <3>2. sysPath' = RightPath'
      BY <2>1, <2>2, <3>1, DefaultPath DEF RightPath
    <3> QED BY <2>2, <2>3, <3>1, <3>2
  <2>4. CASE pc' = "over"
    BY <1>7, <2>2, <2>4 DEF ClearAndSetPythonSysPath
  <2> QED BY <1>7, <2>3, <2>4 DEF ClearAndSetPythonSysPath
<1>8. CASE OpenFile
  BY <1>8 DEF OpenFile, RightPath
<1>9. CASE RunFile
  BY <1>9 DEF RunFile, RightPath
<1>10. CASE CloseFile
  BY <1>10 DEF CloseFile
<1>11. CASE Finalize
  BY <1>11 DEF Finalize
<1>12. CASE FreeLibrary
  BY <1>12 DEF FreeLibrary
<1>13. CASE DeleteEngine
  BY <1>13 DEF DeleteEngine
<1>14. CASE UnloadEngine
  BY <1>14 DEF UnloadEngine
<1>15. CASE Return
  BY <1>15 DEF Return
<1>16. CASE Interrupt
  BY <1>16 DEF Interrupt, RightPath
<1>17. CASE UNCHANGED vars
  BY <1>17 DEF vars, RightPath
<1> QED BY <1>1, <1>2, <1>3, <1>4, <1>5, <1>6, <1>7, <1>8, <1>9, <1>10, <1>11, <1>12, <1>13,
           <1>14, <1>15, <1>16, <1>17 DEF Next

\* The inductive invariant holds in every reachable state.
THEOREM Invariance == Spec => []IInv
<1>1. IInv /\ [Next]_vars => IInv'
  BY NextHeld, NextPathIsTyped DEF IInv
<1> QED BY <1>1, InitIInv, PTL DEF Spec

-----------------------------------------------------------------------------
(* Whatever fails on the way, a child whose main returns has closed the     *)
(* file, finalized the interpreter, released the Python library, and        *)
(* deleted the engine before unloading it.                                  *)
THEOREM Balanced == Spec => []BalancedAtReturn
<1>1. IInv => BalancedAtReturn
  BY DEF IInv, Held, Ended
<1> QED BY <1>1, Invariance, PTL

(* The open file lies inside the interpreter, the interpreter inside its    *)
(* library, and everything inside the engine and its library, at every      *)
(* point and however the process ends.                                      *)
THEOREM Nested == Spec => []NestedLifetimes
<1>1. IInv => NestedLifetimes
  <2> SUFFICES ASSUME IInv PROVE NestedLifetimes
    OBVIOUS
  <2> USE DEF IInv, Held, EngineHeld, PythonHeld, Ended, Before, InLibrary, Interpreted, Leaving
  <2>1. CASE pc = "over"
    BY <2>1
  <2>2. CASE pc # "over"
    BY <2>2 DEF NestedLifetimes
  <2> QED BY <2>1, <2>2
<1> QED BY <1>1, Invariance, PTL

(* The process crashes only where it looks for the default library, or when *)
(* SIGINT comes after the engine's library has been unloaded.               *)
THEOREM Crashes == Spec => []CrashOnlyOnDefaultPath
<1>1. IInv => CrashOnlyOnDefaultPath
  BY DEF IInv, Held, Ended
<1> QED BY <1>1, Invariance, PTL

(* What the script sees is its library: the default one's directories and   *)
(* nothing else, site-packages before the standard library, or, when a      *)
(* library directory was named, the interpreter's own path.                 *)
THEOREM SeesLibrary == Spec => []ScriptSeesItsLibrary
<1>1. IInv => ScriptSeesItsLibrary
  BY DEF IInv, Held, PathIsRight, RightPath, ScriptSeesItsLibrary
<1> QED BY <1>1, Invariance, PTL

(* Every variable keeps its type, sys.path included: whatever the process   *)
(* meets, the path holds only the interpreter's own entry and directories   *)
(* of the library.                                                          *)
THEOREM Typing == Spec => []TypeOK
<1>1. IInv => TypeOK
  BY DEF IInv, Held, PathIsTyped, Typed, Ended, TypeOK, Before, InLibrary, Leaving
<1> QED BY <1>1, Invariance, PTL
=============================================================================
