----------------------------- MODULE PathCache ------------------------------
(***************************************************************************)
(* What a file cache promises: a map from paths to data, each item visible *)
(* from the moment it is given until its time to live is over, it is taken,*)
(* invalidated or renamed.  Nothing comes back by itself.                  *)
(***************************************************************************)
EXTENDS Integers

CONSTANTS Path, Data, TTL, None, MaxTime

VARIABLES
    view,       \* [Path -> [data, mod_time] or None]: what a peek would see
    held,       \* the path whose entry the caller holds, or None
    now

vars == <<view, held, now>>

Hidden(p) == [view EXCEPT ![p] = None]

Shown(v, p, d) == [v EXCEPT ![p] = [data |-> d, mod_time |-> now]]

Init == view = [p \in Path |-> None] /\ held = None /\ now = 0

Take(p) ==
    held = None /\ held' = p /\ view' = Hidden(p) /\ UNCHANGED now

Give(d) ==
    held # None /\ held' = None /\ view' = Shown(view, held, d) /\ UNCHANGED now

Drop ==
    held # None /\ held' = None /\ UNCHANGED <<view, now>>

Invalidate(p) ==
    held = None /\ view' = Hidden(p) /\ UNCHANGED <<held, now>>

Rename(p, q) ==
    /\ held = None
    /\ view[p] # None
    /\ view' = Shown(Hidden(p), q, view[p].data)
    /\ UNCHANGED <<held, now>>

Clear ==
    held = None /\ view' = [p \in Path |-> None] /\ UNCHANGED <<held, now>>

\* Time passes, and what has outlived TTL disappears.
Tick ==
    /\ now' = now + 1
    /\ view' = [p \in Path |->
                  IF view[p] # None /\ view[p].mod_time + TTL < now' THEN None
                  ELSE view[p]]
    /\ UNCHANGED held

Next ==
    \/ \E p \in Path : Take(p) \/ Invalidate(p) \/ \E q \in Path : Rename(p, q)
    \/ \E d \in Data : Give(d)
    \/ Drop
    \/ Clear
    \/ Tick

Spec == Init /\ [][Next]_vars
=============================================================================
