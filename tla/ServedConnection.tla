-------------------------- MODULE ServedConnection --------------------------
(***************************************************************************)
(* What the server's worker promises about one connection, seen from       *)
(* outside: requests are served one after the other, KeepAliveMax at most, *)
(* and stop() is noticed before the wait for the next one.                 *)
(***************************************************************************)
EXTENDS Naturals

CONSTANT KeepAliveMax

VARIABLES
  phase,    \* "waiting" for a worker, "taken", "idle", "busy" or "closed"
  served,   \* requests begun
  stopped   \* stop() has been called

vars == <<phase, served, stopped>>

Init == phase \in {"waiting", "taken"} /\ served = 0 /\ stopped = FALSE

To(from, to) == phase = from /\ phase' = to

Take      == (To("waiting", "taken") \/ To("waiting", "closed")) /\ UNCHANGED <<served, stopped>>
KeepAlive == /\ To("taken", IF ~stopped /\ served < KeepAliveMax THEN "idle" ELSE "closed")
             /\ UNCHANGED <<served, stopped>>
GiveUp    == To("idle", "closed") /\ UNCHANGED <<served, stopped>>
Request   == To("idle", "busy") /\ served' = served + 1 /\ UNCHANGED stopped
Respond   == (To("busy", "taken") \/ To("busy", "closed")) /\ UNCHANGED <<served, stopped>>
Stop      == ~stopped /\ stopped' = TRUE /\ UNCHANGED <<phase, served>>

Next == Take \/ KeepAlive \/ GiveUp \/ Request \/ Respond \/ Stop

Spec == Init /\ [][Next]_vars
=============================================================================
