------------------------------ MODULE FileMap ------------------------------
(***************************************************************************)
(* The class mmap through which a file is served: it is opened once, read  *)
(* while the response is written, and closed with the last reference that  *)
(* the content provider holds.                                             *)
(***************************************************************************)
EXTENDS Naturals

CONSTANT FileSizes  \* sizes of files

ASSUME FileMapAssumption == FileSizes \subseteq Nat

VARIABLES
  build,    \* "posix" or "windows"
  at,       \* "open", "size", "map", "view", "opened", "failed" or "destroyed"
  file,     \* fd_ or hFile_: is it open?
  mapping,  \* hMapping_, on Windows: does it exist?
  addr,     \* addr_: "null", "mapped", or "MAP_FAILED"
  size      \* size_

fileVars == <<build, at, file, mapping, addr, size>>

FileInit ==
  /\ build \in {"posix", "windows"}
  /\ at = "open" /\ file = FALSE /\ mapping = FALSE /\ addr = "null" /\ size = 0

Closed == file' = FALSE /\ mapping' = FALSE /\ addr' = "null" /\ size' = 0

OpenFile ==
  /\ at = "open"
  /\ \/ at' = "size" /\ file' = TRUE
     \/ at' = "failed" /\ UNCHANGED file
  /\ UNCHANGED <<mapping, addr, size>>

\* When the size cannot be had, Windows leaves the file to the destructor.
AskSize ==
  /\ at = "size"
  /\ \/ at' = "map" /\ size' \in FileSizes /\ UNCHANGED <<file, mapping, addr>>
     \/ at' = "failed" /\ build = "posix" /\ Closed
     \/ at' = "failed" /\ build = "windows" /\ UNCHANGED <<file, mapping, addr, size>>

\* POSIX reports failure as MAP_FAILED, which the test for a null pointer lets
\* pass; an empty file always fails.
MapPosix ==
  /\ at = "map" /\ build = "posix" /\ at' = "opened"
  /\ addr' \in (IF size = 0 THEN {"MAP_FAILED"} ELSE {"mapped", "MAP_FAILED"})
  /\ UNCHANGED <<file, mapping, size>>

MapWindows ==
  /\ at = "map" /\ build = "windows"
  /\ \/ at' = "view" /\ size > 0 /\ mapping' = TRUE /\ UNCHANGED <<file, addr, size>>
     \/ at' = "failed" /\ Closed

ViewWindows ==
  /\ at = "view"
  /\ \/ at' = "opened" /\ addr' = "mapped" /\ UNCHANGED <<file, mapping, size>>
     \/ at' = "failed" /\ Closed

DestroyMap == at \in {"opened", "failed"} /\ at' = "destroyed" /\ Closed

FileNext ==
  /\ OpenFile \/ AskSize \/ MapPosix \/ MapWindows \/ ViewWindows \/ DestroyMap
  /\ UNCHANGED build

(* A file is never left open or mapped, whichever call has failed: neither  *)
(* when it is dropped nor, once open failed, before, except that Windows    *)
(* leaves a file whose size it could not have to the destructor.            *)
FilesBalanced ==
  /\ at = "destroyed" => ~file /\ ~mapping /\ addr = "null"
  /\ at = "failed" => ~mapping /\ addr = "null" /\ (file => build = "windows")
=============================================================================
