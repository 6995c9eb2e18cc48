--------------------------- MODULE ControlledRunway ---------------------------
(***************************************************************************)
(* What the airport simulator promises about its single runway, without    *)
(* threads, mutexes or condition variables.  Planes stand in one line per  *)
(* kind of request.  The tower opens the runway for one kind at a time;    *)
(* while it is open, the head of that kind's line may use it, nobody else  *)
(* may, and the plane leaves its line when the tower closes the runway.    *)
(* Module Airport is shown to implement this specification.                *)
(***************************************************************************)
EXTENDS Naturals, Sequences

CONSTANTS Kinds,      \* the kinds of request a plane may make
          Planes,     \* the planes
          KindOf,     \* the kind of request each plane makes, in [Planes -> Kinds]
          Nobody      \* neither a kind nor a plane

VARIABLES line,       \* the planes that asked for the runway, first come first
          permit,     \* the kind the runway is open for, or Nobody
          user        \* the plane on the runway, or Nobody

vars == <<line, permit, user>>

Init ==
    /\ line = [k \in Kinds |-> <<>>]
    /\ permit = Nobody
    /\ user = Nobody

\* A plane that stands in no line asks for the runway.
Request(p) ==
    /\ \A i \in 1..Len(line[KindOf[p]]) : line[KindOf[p]][i] # p
    /\ line' = [line EXCEPT ![KindOf[p]] = Append(@, p)]
    /\ UNCHANGED <<permit, user>>

\* The tower opens the runway for a kind somebody is waiting for.
Open(k) ==
    /\ permit = Nobody
    /\ line[k] # <<>>
    /\ permit' = k
    /\ UNCHANGED <<line, user>>

\* The head of the permitted line takes the runway.
Use(p) ==
    /\ permit = KindOf[p]
    /\ user = Nobody
    /\ line[permit] # <<>> /\ Head(line[permit]) = p
    /\ user' = p
    /\ UNCHANGED <<line, permit>>

\* The tower closes the runway; a plane that used it leaves its line.
Close ==
    /\ permit # Nobody
    /\ permit' = Nobody
    /\ user' = Nobody
    /\ line' = IF user = Nobody THEN line ELSE [line EXCEPT ![permit] = Tail(@)]

Next ==
    \/ \E p \in Planes : Request(p) \/ Use(p)
    \/ \E k \in Kinds : Open(k)
    \/ Close

Spec == Init /\ [][Next]_vars
===============================================================================
