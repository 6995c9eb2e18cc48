------------------------------ MODULE MCAirport ------------------------------
(***************************************************************************)
(* Instances of the airport for TLC.  Planes are model values, and planes  *)
(* of one kind are interchangeable in the runs that check no liveness.     *)
(***************************************************************************)
EXTENDS Airport, TLC

Symmetry == Permutations(LandingPlanes) \cup Permutations(DepartingPlanes)
            \cup Permutations(EmergencyPlanes)

\* The behaviours in which main has initialised the mutexes before the tower's thread
\* first runs: a refutation among them owes nothing to that race.
LateTower == Init /\ [][Next /\ (main \in Kinds => UNCHANGED tower)]_vars

==============================================================================
