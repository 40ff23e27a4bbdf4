------------------------------- MODULE Dylib -------------------------------
(***************************************************************************)
(* The class dylib: objects that hold the handle of a loaded library, can  *)
(* be moved but not copied, and close it when they are destroyed.          *)
(***************************************************************************)
EXTENDS Naturals, FiniteSets

CONSTANTS
  Objects,   \* variables of type dylib
  Libraries, \* library files
  Symbols,   \* Symbols[l], the names that library l defines
  MaxRefs    \* bound of the checks: how often a library is opened at once

NoObject == "no object"   \* not constructed, or destroyed
Null     == "null"        \* constructed, and moved from

ASSUME DylibAssumption ==
  /\ IsFiniteSet(Objects) /\ DOMAIN Symbols = Libraries /\ MaxRefs \in Nat
  /\ NoObject \notin Libraries /\ Null \notin Libraries

VARIABLES
  handle,  \* m_handle of each object
  refs     \* how often the system has each library open

dylibVars == <<handle, refs>>

DylibInit == handle = [o \in Objects |-> NoObject] /\ refs = [l \in Libraries |-> 0]

Alive(o) == handle[o] # NoObject

\* The constructor opens the library.  When that fails it throws, and there is
\* no object.
Load(o, l) ==
  /\ ~Alive(o) /\ refs[l] < MaxRefs
  /\ handle' = [handle EXCEPT ![o] = l]
  /\ refs' = [refs EXCEPT ![l] = @ + 1]

LoadFails(o) == ~Alive(o) /\ UNCHANGED dylibVars

\* Plausible bug: the other object keeps its handle.
Shared(o, p) == handle' = [handle EXCEPT ![o] = handle[p]]

Swapped(o, p) == handle' = [handle EXCEPT ![o] = handle[p], ![p] = handle[o]]

MoveConstruct(o, p) ==
  /\ ~Alive(o) /\ Alive(p)
  /\ handle' = [handle EXCEPT ![o] = handle[p], ![p] = Null]
  /\ UNCHANGED refs

\* The other object takes what this one held, and will close it.
MoveAssign(o, p) == Alive(o) /\ Alive(p) /\ Swapped(o, p) /\ UNCHANGED refs

Destroy(o) ==
  /\ Alive(o)
  /\ handle' = [handle EXCEPT ![o] = NoObject]
  /\ refs' = IF handle[o] = Null THEN refs ELSE [refs EXCEPT ![handle[o]] = @ - 1]

DylibNext ==
  \E o \in Objects : \/ \E l \in Libraries : Load(o, l)
                     \/ LoadFails(o) \/ Destroy(o)
                     \/ \E p \in Objects : MoveConstruct(o, p) \/ MoveAssign(o, p)

\* get_symbol, and has_symbol, which answers without throwing.
GetSymbol(o, s) ==
  CASE handle[o] = Null -> "logic_error"
    [] handle[o] # Null /\ s \notin Symbols[handle[o]] -> "symbol_error"
    [] handle[o] # Null /\ s \in Symbols[handle[o]] -> "found"

HasSymbol(o, s) == handle[o] # Null /\ s \in Symbols[handle[o]]

(* However libraries are loaded, moved and dropped, each is open exactly as *)
(* often as there are objects that will close it; and a symbol is only      *)
(* found in a library that is open.                                         *)
HandlesBalanced ==
  /\ \A l \in Libraries : refs[l] = Cardinality({o \in Objects : handle[o] = l})
  /\ \A o \in Objects : Alive(o) =>
       \A s \in UNION {Symbols[l] : l \in Libraries} :
         /\ GetSymbol(o, s) = "found" <=> HasSymbol(o, s)
         /\ HasSymbol(o, s) => refs[handle[o]] > 0
=============================================================================
