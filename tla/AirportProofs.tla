---------------------------- MODULE AirportProofs ----------------------------
(***************************************************************************)
(* Theorems about module Airport, for every set of planes and every limit  *)
(* on the ground queue.                                                    *)
(***************************************************************************)
EXTENDS Airport, TLAPS

-----------------------------------------------------------------------------
(* Facts about the constant operators. *)

\* KindOf and Serves give a queue to every plane and to every granting function.
LEMMA QueuesServed ==
    /\ KindOf \in [Planes -> Kinds]
    /\ Serves \in [Grants -> Kinds]
    /\ Grants = {"let_emergencies", "let_landings", "let_one_to_land",
                 "let_one_to_take_off", "let_taking_offs"}
    /\ Top \notin Grants
    /\ \A f \in Grants : Serves[f] = "emergency" <=> f = "let_emergencies"
    /\ \A f \in Grants : Serves[f] = "landing" <=> f \in {"let_landings", "let_one_to_land"}
BY DEF KindOf, Kinds, Serves, Grants, Top

-----------------------------------------------------------------------------
(* Type correctness. *)

LEMMA TypeInit == Init => TypeOK
BY QueuesServed, AirportConstants DEF Init, TypeOK, Kinds, Top

LEMMA TypeStep == TypeOK /\ [Next]_vars => TypeOK'
<1> SUFFICES ASSUME TypeOK, [Next]_vars PROVE TypeOK'
  OBVIOUS
<1> USE QueuesServed
<1>1. CASE UNCHANGED vars
  BY <1>1 DEF vars, TypeOK
<1>2. CASE Main
  <2>1. CASE InitMutex
    BY <2>1 DEF InitMutex, AfterInit, Unlock, TypeOK, Kinds
  <2>2. ASSUME NEW p \in Planes, create_plane(p) \/ create_emergency_plane(p)
        PROVE  TypeOK'
    <3>1. Start(p) /\ main' \in {main, "second", "loop"}
      BY <2>2 DEF create_plane, create_emergency_plane
    <3> QED
      BY <3>1, AirportConstants DEF Start, TypeOK
  <2>3. CASE Finish
    BY <2>3 DEF Finish, TypeOK
  <2> QED
    BY <1>2, <2>1, <2>2, <2>3 DEF Main
<1>3. ASSUME NEW p \in Planes, Plane(p) PROVE TypeOK'
  <2> KindOf[p] \in Kinds
    OBVIOUS
  <2>1. CASE WriteSlot(p)
    BY <2>1 DEF WriteSlot, Lock, TypeOK, Mutexes
  <2>2. CASE MoveEnd(p)
    BY <2>2, AirportConstants DEF MoveEnd, TypeOK
  <2>3. CASE UnlockQueue(p)
    BY <2>3 DEF UnlockQueue, Unlock, TypeOK
  <2>4. CASE Wait(p) \/ SpuriousWakeup(p)
    BY <2>4 DEF Wait, SpuriousWakeup, TypeOK
  <2>5. CASE Resume(p)
    BY <2>5 DEF Resume, Lock, TypeOK, Mutexes
  <2>6. CASE TestFront(p)
    <3>1. main' \in {main, "crashed"}
      BY <2>6 DEF TestFront, Dereference
    <3>2. completed' \in [Planes -> BOOLEAN]
      BY <2>6 DEF TestFront, TypeOK
    <3>3. pc'[p] \in {"idle", "waiting"} /\ pc' = [pc EXCEPT ![p] = pc'[p]]
      BY <2>6 DEF TestFront, TypeOK
    <3> QED
      BY <2>6, <3>1, <3>2, <3>3 DEF TestFront, Unlock, TypeOK
  <2> QED
    BY <1>3, <2>1, <2>2, <2>3, <2>4, <2>5, <2>6 DEF Plane
<1>4. CASE Tower
  <2>1. CASE check_notifications
    BY <2>1 DEF check_notifications, GoTo, Step, TypeOK
  <2>2. CASE Retest
    BY <2>2 DEF Retest, Choose, Step, TypeOK
  <2>3. ASSUME NEW f \in Grants,
               \/ Enter(f) \/ Release(f) \/ Broadcast(f) \/ WakeUp(f)
               \/ Remove(f) \/ UnlockRemoved(f) \/ Exit(f)
        PROVE  TypeOK'
    <3> Guards(f) \subseteq Mutexes /\ Serves[f] \in Kinds /\ Serves[f] \in Mutexes
      BY DEF Guards, Mutexes, Kinds
    <3>1. CASE Enter(f)
      <4>1. \E m \in Mutexes : locked' = locked \cup {m}
        <5>1. {Serves[f], "landing", "takingOff"} \subseteq Mutexes
          BY DEF Mutexes, Kinds
        <5> QED
          BY <3>1, <5>1 DEF Enter, Lock
      <4>2. tower' \in {[tower EXCEPT !.at = x] : x \in {"release", "exit", "second"}}
        BY <3>1 DEF Enter, Choose, Step
      <4>3. locked' \subseteq Mutexes
        BY <4>1 DEF TypeOK
      <4> QED
        BY <3>1, <4>2, <4>3 DEF Enter, TypeOK
    <3>2. CASE Release(f)
      BY <3>2 DEF Release, GoTo, Step, Unlock, TypeOK
    <3>3. CASE Broadcast(f)
      <4>1. passed' \in [{"landing", "emergency"} -> Nat]
        BY <3>3 DEF Broadcast, Overtaken, TypeOK
      <4> QED
        BY <3>3, <4>1 DEF Broadcast, Step, TypeOK
    <3>4. CASE WakeUp(f)
      BY <3>4 DEF WakeUp, Step, TypeOK
    <3>5. CASE Remove(f)
      <4>1. queue' \in [Kinds -> Seq(Planes \cup {NoPlane})]
        BY <3>5 DEF Remove, FrontDefined, TypeOK
      <4>2. main' \in {main, "crashed"}
        BY <3>5 DEF Remove, Dereference
      <4> QED
        BY <3>5, <4>1, <4>2 DEF Remove, Lock, Step, TypeOK
    <3>6. CASE UnlockRemoved(f)
      <4>1. \/ Step("retest") \/ Step("exit") \/ GoTo("let_one_to_land", "enter", Top)
        BY <3>6, Zenon DEF UnlockRemoved
      <4> QED
        BY <3>6, <4>1 DEF UnlockRemoved, GoTo, Step, Unlock, TypeOK
    <3>7. CASE Exit(f)
      <4>1. \E g \in Grants \cup {Top}, at \in {"enter", "broadcast", "loop"} : GoTo(g, at, Top)
        BY <3>7 DEF Exit, TypeOK
      <4>2. PICK g \in Grants \cup {Top}, at \in {"enter", "broadcast", "loop"} :
                 tower' = [fn |-> g, at |-> at, caller |-> Top]
        BY <4>1 DEF GoTo
      <4>3. tower' \in [fn : Grants \cup {Top},
                       at : {"loop", "done", "enter", "second", "release", "broadcast",
                             "sleep", "remove", "unlock", "retest", "exit"},
                       caller : Grants \cup {Top}]
        BY <4>2
      <4> QED
        BY <3>7, <4>3 DEF Exit, Unlock, TypeOK
    <3> QED
      BY <2>3, <3>1, <3>2, <3>3, <3>4, <3>5, <3>6, <3>7
  <2> QED
    BY <1>4, <2>1, <2>2, <2>3 DEF Tower
<1>5. CASE report_planes
  <2> DEFINE k == ReportOrder[reporter \div 2 + 1]
  <2>1. reporter \in {0, 2, 4} => k \in Mutexes
    BY DEF ReportOrder, Mutexes, Kinds
  <2>2. (reporter \in {0, 2, 4} /\ Lock(k)) \/ Unlock({k})
    BY <1>5 DEF report_planes
  <2>3. locked' \subseteq Mutexes
    <3> HIDE DEF k
    <3> QED
      BY <2>1, <2>2 DEF Lock, Unlock, TypeOK
  <2> QED
    BY <1>5, <2>3 DEF report_planes, TypeOK
<1> QED
  BY <1>1, <1>2, <1>3, <1>4, <1>5 DEF Next, Ended

\* Every variable keeps its type, whatever the threads do.
THEOREM TypeCorrect == Spec => []TypeOK
<1>1. Init => TypeOK
  BY TypeInit
<1>2. TypeOK /\ [Next]_vars => TypeOK'
  BY TypeStep
<1> QED
  BY <1>1, <1>2, PTL DEF Spec

-----------------------------------------------------------------------------
(* Who goes first.  passed counts the grants a waiting plane has seen go to *)
(* others, so its bound depends on where the tower is.                      *)

\* Only the tower shortens a queue, and only by removing the front of the one it serves.
LEMMA QueueSteps ==
    ASSUME TypeOK, [Next]_vars, NEW k \in Kinds
    PROVE  \/ queue'[k] = queue[k]
           \/ \E p \in Planes : MoveEnd(p) /\ queue'[k] = Append(queue[k], tail[k])
           \/ \E f \in Grants : Remove(f) /\ Serves[f] = k
<1> USE QueuesServed
<1>1. CASE UNCHANGED vars
  BY <1>1 DEF vars
<1>2. CASE Main
  BY <1>2 DEF Main, InitMutex, create_plane, create_emergency_plane, Start, Finish
<1>3. ASSUME NEW p \in Planes, Plane(p)
      PROVE  queue'[k] = queue[k] \/ (MoveEnd(p) /\ queue'[k] = Append(queue[k], tail[k]))
  BY <1>3 DEF Plane, WriteSlot, MoveEnd, UnlockQueue, Wait, SpuriousWakeup, Resume, TestFront,
              TypeOK
<1>4. CASE Tower
  <2>1. ASSUME NEW f \in Grants, Remove(f), Serves[f] # k PROVE queue'[k] = queue[k]
    BY <2>1 DEF Remove, TypeOK
  <2> QED
    BY <1>4, <2>1 DEF Tower, check_notifications, Retest, Enter, Release, Broadcast, WakeUp,
                      UnlockRemoved, Exit
<1>5. CASE report_planes
  BY <1>5 DEF report_planes
<1> QED
  BY <1>1, <1>2, <1>3, <1>4, <1>5 DEF Next, Ended

\* What the functions test when they look for somebody to serve.
LEMMA LandingsWanted ==
    /\ Wanted("let_landings") <=>
          Len(queue["takingOff"]) < GroundLimit /\ Len(queue["landing"]) # 0
    /\ Wanted("let_one_to_land") <=> Len(queue["landing"]) # 0
    /\ Wanted("let_one_to_take_off") <=>
          Len(queue["takingOff"]) # 0 /\ Len(queue["takingOff"]) < GroundLimit
    /\ Wanted("let_taking_offs") <=> Len(queue["takingOff"]) >= GroundLimit
    /\ Wanted("let_emergencies") <=> Len(queue["emergency"]) # 0
BY DEF Wanted

\* Outside the tower's steps, tower and passed stand still.
LEMMA TowerSteps ==
    ASSUME [Next]_vars PROVE Tower \/ UNCHANGED <<tower, passed>>
<1> USE DEF vars
<1>1. ASSUME Main PROVE UNCHANGED <<tower, passed>>
  BY <1>1 DEF Main, InitMutex, create_plane, create_emergency_plane, Start, Finish
<1>2. ASSUME NEW p \in Planes, Plane(p) PROVE UNCHANGED <<tower, passed>>
  BY <1>2 DEF Plane, WriteSlot, MoveEnd, UnlockQueue, Wait, SpuriousWakeup, Resume, TestFront
<1> QED
  BY <1>1, <1>2 DEF Next, Ended, report_planes

\* The test of let_emergencies: with an emergency waiting it does not return.
EmergencyFirst ==
    /\ passed["emergency"] \in {0, 1}
    /\ passed["emergency"] = 1 =>
          /\ queue["emergency"] # <<>>
          /\ tower.fn = "let_emergencies" =>
                tower.at \notin {"sleep", "remove", "unlock", "retest", "exit"}
          /\ tower.fn # "let_emergencies" => tower.at # "broadcast"

LEMMA EmergencyFirstStep == TypeOK /\ EmergencyFirst /\ [Next]_vars => EmergencyFirst'
<1> SUFFICES ASSUME TypeOK, EmergencyFirst, [Next]_vars PROVE EmergencyFirst'
  OBVIOUS
<1> USE QueuesServed
<1>1. ASSUME queue["emergency"] # <<>>,
             ~ \E f \in Grants : Remove(f) /\ f = "let_emergencies"
      PROVE  queue'["emergency"] # <<>>
  <2>1. "emergency" \in Kinds
    BY DEF Kinds
  <2>2. \/ queue'["emergency"] = queue["emergency"]
        \/ queue'["emergency"] = Append(queue["emergency"], tail["emergency"])
    BY <1>1, <2>1, QueueSteps
  <2>3. queue["emergency"] \in Seq(Planes \cup {NoPlane})
        /\ tail["emergency"] \in Planes \cup {NoPlane}
    BY <2>1 DEF TypeOK
  <2> QED
    BY <1>1, <2>2, <2>3
<1>2. CASE UNCHANGED <<tower, passed>>
  <2>1. passed["emergency"] = 1 => ~ \E f \in Grants : Remove(f) /\ f = "let_emergencies"
    BY DEF EmergencyFirst, Remove
  <2> QED
    BY <1>1, <1>2, <2>1 DEF EmergencyFirst
<1>3. CASE Tower
  <2>1. CASE check_notifications
    BY <2>1, <1>1 DEF check_notifications, GoTo, Step, EmergencyFirst, TypeOK, Remove, Top
  <2>2. CASE Retest
    BY <2>2 DEF Retest, Choose, Step, EmergencyFirst, TypeOK
  <2>3. ASSUME NEW f \in Grants, Enter(f) PROVE EmergencyFirst'
    <3>1. UNCHANGED <<queue, passed>> /\ tower.fn = f
      BY <2>3 DEF Enter
    <3>2. CASE tower' = [tower EXCEPT !.at = "second"] \/ tower' = [tower EXCEPT !.at = "release"]
      BY <3>1, <3>2 DEF EmergencyFirst, TypeOK
    <3>3. CASE Choose(f) /\ tower' = [tower EXCEPT !.at = "exit"]
      <4>1. f = "let_emergencies" => queue["emergency"] = <<>>
        <5>1. f = "let_emergencies" => ~Wanted(f)
          BY <3>3 DEF Choose, Step, TypeOK
        <5> QED
          BY <5>1 DEF Wanted, TypeOK, Kinds
      <4> QED
        BY <3>1, <3>3, <4>1 DEF EmergencyFirst, TypeOK
    <3> QED
      BY <2>3, <3>2, <3>3 DEF Enter, Choose, Step
  <2>4. ASSUME NEW f \in Grants, Release(f) PROVE EmergencyFirst'
    BY <2>4 DEF Release, GoTo, Step, EmergencyFirst, TypeOK
  <2>5. ASSUME NEW f \in Grants, Broadcast(f) PROVE EmergencyFirst'
    <3>1. /\ UNCHANGED queue /\ tower.fn = f /\ tower.at = "broadcast"
          /\ tower' = [tower EXCEPT !.at = "sleep"]
      BY <2>5 DEF Broadcast, Step
    <3>2. passed'["emergency"] = IF f = "let_emergencies" \/ queue["emergency"] = <<>>
                                 THEN 0 ELSE passed["emergency"] + 1
      BY <2>5 DEF Broadcast, Overtaken
    <3> QED
      BY <3>1, <3>2 DEF EmergencyFirst, TypeOK
  <2>6. ASSUME NEW f \in Grants, WakeUp(f) PROVE EmergencyFirst'
    BY <2>6 DEF WakeUp, Step, EmergencyFirst, TypeOK
  <2>7. ASSUME NEW f \in Grants, Remove(f) PROVE EmergencyFirst'
    <3>1. /\ UNCHANGED passed /\ tower.fn = f /\ tower.at = "remove"
          /\ tower'.fn = f /\ tower'.at \in {"second", "unlock"}
      BY <2>7 DEF Remove, Step, TypeOK
    <3>2. CASE passed["emergency"] = 1
      <4>1. f # "let_emergencies"
        BY <3>1, <3>2 DEF EmergencyFirst
      <4>2. ~ \E g \in Grants : Remove(g) /\ g = "let_emergencies"
        BY <3>1, <4>1 DEF Remove
      <4> QED
        BY <1>1, <3>1, <3>2, <4>1, <4>2 DEF EmergencyFirst
    <3> QED
      BY <3>1, <3>2 DEF EmergencyFirst
  <2>8. ASSUME NEW f \in Grants, UnlockRemoved(f) PROVE EmergencyFirst'
    <3>1. /\ UNCHANGED <<queue, passed>> /\ tower.fn = f /\ tower.at = "unlock"
          /\ \/ f = "let_emergencies" /\ Step("retest")
             \/ f # "let_emergencies" /\ Step("exit")
             \/ f # "let_emergencies" /\ GoTo("let_one_to_land", "enter", Top)
      BY <2>8 DEF UnlockRemoved
    <3> QED
      BY <3>1 DEF Step, GoTo, EmergencyFirst, TypeOK
  <2>9. ASSUME NEW f \in Grants, Exit(f) PROVE EmergencyFirst'
    <3>1. /\ UNCHANGED <<queue, passed>> /\ tower.fn = f /\ tower.at = "exit"
          /\ \/ f = "let_emergencies" /\ GoTo(tower.caller, "broadcast", Top)
             \/ \E g \in Grants \cup {Top}, at \in {"enter", "loop"} : GoTo(g, at, Top)
      BY <2>9 DEF Exit
    <3> QED
      BY <3>1 DEF GoTo, EmergencyFirst, TypeOK
  <2> QED
    BY <1>3, <2>1, <2>2, <2>3, <2>4, <2>5, <2>6, <2>7, <2>8, <2>9 DEF Tower
<1> QED
  BY <1>2, <1>3, TowerSteps

\* A waiting emergency is overtaken by at most one grant.
THEOREM EmergencySoon == Spec => []EmergencyOvertakenOnce
<1>1. Init => TypeOK /\ EmergencyFirst
  BY TypeInit DEF Init, EmergencyFirst
<1>2. (TypeOK /\ EmergencyFirst) /\ [Next]_vars => (TypeOK /\ EmergencyFirst)'
  BY TypeStep, EmergencyFirstStep
<1>3. EmergencyFirst => EmergencyOvertakenOnce
  BY DEF EmergencyFirst, EmergencyOvertakenOnce
<1> QED
  BY <1>1, <1>2, <1>3, PTL DEF Spec

\* Where the tower may be once two departures have passed a waiting landing plane: it
\* is on its way to let_one_to_land.
MayBeTwo ==
    \/ tower.fn = "let_taking_offs" /\ tower.at \in {"sleep", "remove", "unlock"}
    \/ tower.fn = "let_one_to_land" /\ tower.at \in {"enter", "release", "broadcast"}
    \/ tower.fn = "let_emergencies" /\ tower.caller = "let_one_to_land"

\* Where it has just served the landing planes, or found none before a departure.
MustBeZero ==
    \/ tower.fn = "let_one_to_take_off" /\ tower.at \in {"release", "broadcast"}
    \/ tower.fn = "let_emergencies" /\ tower.caller = "let_one_to_take_off"
    \/ tower.fn \in {"let_landings", "let_one_to_land"} /\ tower.at \in {"sleep", "remove"}
    \/ tower.fn = "let_one_to_land" /\ tower.at \in {"unlock", "exit"}

\* let_landings left its loop, so either nobody lands or the ground queue is full; it
\* stays full until the tower serves it, so let_one_to_take_off will not.
LeftLandings == \/ tower.fn = "let_landings" /\ tower.at = "exit"
                \/ tower.fn = "let_one_to_take_off" /\ tower.at = "enter"

LandingFavoured ==
    /\ passed["landing"] \in 0..2
    /\ passed["landing"] > 0 => queue["landing"] # <<>>
    /\ passed["landing"] = 2 => MayBeTwo
    /\ MustBeZero => passed["landing"] = 0
    /\ LeftLandings /\ passed["landing"] > 0 => Len(queue["takingOff"]) >= GroundLimit
    /\ tower.fn = "let_landings" => tower.at # "unlock"

\* A queue the tower does not shorten in this step keeps its planes.
LEMMA QueueGrows ==
    ASSUME TypeOK, [Next]_vars, NEW k \in Kinds, ~ \E f \in Grants : Remove(f) /\ Serves[f] = k
    PROVE  /\ queue[k] # <<>> => queue'[k] # <<>>
           /\ Len(queue'[k]) >= Len(queue[k])
<1>1. \/ queue'[k] = queue[k]
      \/ queue'[k] = Append(queue[k], tail[k])
  BY QueueSteps
<1>2. queue[k] \in Seq(Planes \cup {NoPlane}) /\ tail[k] \in Planes \cup {NoPlane}
  BY DEF TypeOK
<1> QED
  BY <1>1, <1>2

LEMMA LandingFavouredStep == TypeOK /\ LandingFavoured /\ [Next]_vars => LandingFavoured'
<1> SUFFICES ASSUME TypeOK, LandingFavoured, [Next]_vars PROVE LandingFavoured'
  OBVIOUS
<1> USE QueuesServed
<1> DEFINE Landings == {"let_landings", "let_one_to_land"}
<1>1. "landing" \in Kinds /\ "takingOff" \in Kinds
  BY DEF Kinds
<1>2. Len(queue["takingOff"]) \in Nat /\ Len(queue'["takingOff"]) \in Nat
      /\ (Len(queue["landing"]) = 0 <=> queue["landing"] = <<>>)
  BY <1>1, TypeStep DEF TypeOK
<1>3. GroundLimit \in Nat \ {0}
  BY AirportConstants
<1>4. ASSUME tower.at # "remove" PROVE ~ \E f \in Grants : Remove(f)
  BY <1>4 DEF Remove
<1>5. CASE UNCHANGED <<tower, passed>>
  <2>1. ~ \E f \in Grants : Remove(f)
    <3>1. ASSUME NEW f \in Grants, Remove(f) PROVE FALSE
      <4>1. tower.at = "remove" /\ tower'.at \in {"second", "unlock"}
        BY <3>1 DEF Remove, Step, TypeOK
      <4> QED
        BY <1>5, <4>1
    <3> QED
      BY <3>1
  <2> QED
    BY <1>1, <1>2, <1>3, <1>5, <2>1, QueueGrows
       DEF LandingFavoured, MayBeTwo, MustBeZero, LeftLandings
<1>6. CASE Tower
  <2>1. CASE check_notifications
    <3>1. /\ UNCHANGED <<queue, passed>> /\ tower.fn = Top
          /\ \/ tower' = [tower EXCEPT !.at = "done"]
             \/ tower' = [fn |-> "let_emergencies", at |-> "enter", caller |-> Top]
      BY <2>1 DEF check_notifications, GoTo, Step
    <3> QED
      BY <3>1 DEF LandingFavoured, MayBeTwo, MustBeZero, LeftLandings, TypeOK, Top
  <2>2. CASE Retest
    BY <2>2 DEF Retest, Choose, Step, LandingFavoured, MayBeTwo, MustBeZero, LeftLandings, TypeOK
  <2>3. ASSUME NEW f \in Grants, Enter(f) PROVE LandingFavoured'
    <3>1. UNCHANGED <<queue, passed>> /\ tower.fn = f /\ tower.at \in {"enter", "second"}
      BY <2>3 DEF Enter
    <3>2. CASE f = "let_landings" /\ tower' = [tower EXCEPT !.at = "second"]
      BY <3>1, <3>2 DEF LandingFavoured, MayBeTwo, MustBeZero, LeftLandings, TypeOK
    <3>3. CASE Wanted(f) /\ tower' = [tower EXCEPT !.at = "release"]
      <4>1. f = "let_one_to_take_off" => passed["landing"] = 0
        <5>1. f = "let_one_to_take_off" => tower.at = "enter"
          BY <2>3 DEF Enter
        <5> QED
          BY <1>2, <1>3, <3>1, <3>3, <5>1 DEF Wanted, LandingFavoured, LeftLandings
      <4> QED
        BY <3>1, <3>3, <4>1 DEF LandingFavoured, MayBeTwo, MustBeZero, LeftLandings, TypeOK
    <3>4. CASE ~Wanted(f) /\ tower' = [tower EXCEPT !.at = "exit"]
      <4>1. f \in Landings =>
               \/ queue["landing"] = <<>>
               \/ f = "let_landings" /\ Len(queue["takingOff"]) >= GroundLimit
        <5>1. CASE f = "let_landings"
          BY <1>2, <1>3, <3>4, <5>1, LandingsWanted
        <5>2. CASE f = "let_one_to_land"
          BY <1>2, <3>4, <5>2, LandingsWanted
        <5> QED
          BY <5>1, <5>2
      <4> QED
        BY <3>1, <3>4, <4>1 DEF LandingFavoured, MayBeTwo, MustBeZero, LeftLandings, TypeOK
    <3> QED
      BY <2>3, <3>2, <3>3, <3>4 DEF Enter, Choose, Step
  <2>4. ASSUME NEW f \in Grants, Release(f) PROVE LandingFavoured'
    BY <2>4 DEF Release, GoTo, Step, LandingFavoured, MayBeTwo, MustBeZero, LeftLandings, TypeOK
  <2>5. ASSUME NEW f \in Grants, Broadcast(f) PROVE LandingFavoured'
    <3>1. /\ UNCHANGED queue /\ tower.fn = f /\ tower.at = "broadcast"
          /\ tower' = [tower EXCEPT !.at = "sleep"]
      BY <2>5 DEF Broadcast, Step
    <3>2. passed'["landing"] = IF f \in Landings \/ queue["landing"] = <<>> THEN 0
                               ELSE IF f = "let_emergencies" THEN passed["landing"]
                               ELSE passed["landing"] + 1
      BY <2>5 DEF Broadcast, Overtaken, Serves
    <3> QED
      BY <3>1, <3>2 DEF LandingFavoured, MayBeTwo, MustBeZero, LeftLandings, TypeOK
  <2>6. ASSUME NEW f \in Grants, WakeUp(f) PROVE LandingFavoured'
    BY <2>6 DEF WakeUp, Step, LandingFavoured, MayBeTwo, MustBeZero, LeftLandings, TypeOK
  <2>7. ASSUME NEW f \in Grants, Remove(f) PROVE LandingFavoured'
    <3>1. /\ UNCHANGED passed /\ tower.fn = f /\ tower.at = "remove"
          /\ tower' = [tower EXCEPT !.at = IF f = "let_landings" THEN "second" ELSE "unlock"]
      BY <2>7 DEF Remove, Step
    <3>2. passed["landing"] > 0 => queue'["landing"] # <<>>
      <4> SUFFICES ASSUME passed["landing"] > 0 PROVE queue'["landing"] # <<>>
        OBVIOUS
      <4>1. f \notin Landings
        BY <3>1 DEF LandingFavoured, MustBeZero
      <4>2. ~ \E g \in Grants : Remove(g) /\ Serves[g] = "landing"
        BY <3>1, <4>1 DEF Remove
      <4> QED
        BY <1>1, <4>2, QueueGrows DEF LandingFavoured
    <3> QED
      BY <3>1, <3>2 DEF LandingFavoured, MayBeTwo, MustBeZero, LeftLandings, TypeOK
  <2>8. ASSUME NEW f \in Grants, UnlockRemoved(f) PROVE LandingFavoured'
    <3>1. /\ UNCHANGED <<queue, passed>> /\ tower.fn = f /\ tower.at = "unlock"
          /\ \/ f = "let_emergencies" /\ Step("retest")
             \/ f = "let_taking_offs" /\ GoTo("let_one_to_land", "enter", Top)
             \/ f \notin {"let_emergencies", "let_taking_offs"} /\ Step("exit")
      BY <2>8 DEF UnlockRemoved
    <3> QED
      BY <3>1 DEF Step, GoTo, LandingFavoured, MayBeTwo, MustBeZero, LeftLandings, TypeOK
  <2>9. ASSUME NEW f \in Grants, Exit(f) PROVE LandingFavoured'
    <3>1. /\ UNCHANGED <<queue, passed>> /\ tower.fn = f /\ tower.at = "exit"
          /\ \/ f = "let_emergencies" /\ GoTo("let_landings", "enter", Top) /\ tower.caller = Top
             \/ f = "let_emergencies" /\ GoTo(tower.caller, "broadcast", Top)
             \/ f = "let_landings" /\ GoTo("let_one_to_take_off", "enter", Top)
             \/ f \in {"let_one_to_take_off", "let_one_to_land"}
                /\ GoTo("let_taking_offs", "enter", Top)
             \/ f = "let_taking_offs" /\ GoTo(Top, "loop", Top)
      BY <2>9 DEF Exit
    <3> QED
      BY <3>1 DEF GoTo, LandingFavoured, MayBeTwo, MustBeZero, LeftLandings, TypeOK, Top
  <2> QED
    BY <1>6, <2>1, <2>2, <2>3, <2>4, <2>5, <2>6, <2>7, <2>8, <2>9 DEF Tower
<1> QED
  BY <1>5, <1>6, TowerSteps

\* A waiting landing plane is overtaken by at most two departures.
THEOREM LandingSoon == Spec => []LandingOvertakenTwice
<1>1. Init => TypeOK /\ LandingFavoured
  BY TypeInit DEF Init, LandingFavoured, MayBeTwo, MustBeZero, LeftLandings, Top
<1>2. (TypeOK /\ LandingFavoured) /\ [Next]_vars => (TypeOK /\ LandingFavoured)'
  BY TypeStep, LandingFavouredStep
<1>3. LandingFavoured => LandingOvertakenTwice
  BY DEF LandingFavoured, LandingOvertakenTwice
<1> QED
  BY <1>1, <1>2, <1>3, PTL DEF Spec

-----------------------------------------------------------------------------
(* The queues hold together: no request is lost, no plane is served out of  *)
(* turn, and front() is never called on an empty queue.                     *)

\* From its test to its removal, the tower serves a queue that is not empty; so is the
\* queue of the function let_emergencies returns to.
ServedNotEmpty ==
    /\ tower.caller # "let_emergencies"
    /\ \A f \in Grants :
          /\ tower.fn = f /\ tower.at \in {"release", "broadcast", "sleep", "remove"}
                => queue[Serves[f]] # <<>>
          /\ tower.fn = "let_emergencies" /\ tower.caller = f => queue[Serves[f]] # <<>>

LEMMA ServedNotEmptyStep == TypeOK /\ ServedNotEmpty /\ [Next]_vars => ServedNotEmpty'
<1> SUFFICES ASSUME TypeOK, ServedNotEmpty, [Next]_vars PROVE ServedNotEmpty'
  OBVIOUS
<1> USE QueuesServed
<1>1. ASSUME NEW f \in Grants, queue[Serves[f]] # <<>>, queue'[Serves[f]] = <<>>
      PROVE  \E g \in Grants : Remove(g) /\ Serves[g] = Serves[f]
  BY <1>1, QueueGrows
<1>2. ASSUME NEW g \in Grants, Remove(g)
      PROVE  tower.fn = g /\ tower.at = "remove" /\ tower'.at \in {"second", "unlock"}
             /\ tower'.fn = g /\ tower'.caller = tower.caller
  BY <1>2 DEF Remove, Step, TypeOK
<1>3. CASE \E g \in Grants : Remove(g)
  BY <1>1, <1>2, <1>3 DEF ServedNotEmpty
<1>4. CASE ~ \E g \in Grants : Remove(g)
  <2>1. \A f \in Grants : queue[Serves[f]] # <<>> => queue'[Serves[f]] # <<>>
    BY <1>1, <1>4
  <2>2. CASE UNCHANGED <<tower, passed>>
    BY <2>1, <2>2 DEF ServedNotEmpty
  <2>3. CASE check_notifications
    <3>1. tower.fn = Top /\ tower.fn \notin Grants /\ tower.caller # "let_emergencies"
      BY <2>3 DEF check_notifications, ServedNotEmpty
    <3>2. \/ tower' = [tower EXCEPT !.at = "done"]
          \/ tower' = [fn |-> "let_emergencies", at |-> "enter", caller |-> Top]
      BY <2>3 DEF check_notifications, GoTo, Step
    <3>3. CASE tower' = [tower EXCEPT !.at = "done"]
      <4>1. tower'.fn = Top /\ tower'.caller = tower.caller
        BY <3>1, <3>3 DEF TypeOK
      <4> QED
        BY <3>1, <4>1 DEF ServedNotEmpty
    <3>4. CASE tower' = [fn |-> "let_emergencies", at |-> "enter", caller |-> Top]
      BY <3>1, <3>4 DEF ServedNotEmpty, Top
    <3> QED
      BY <3>2, <3>3, <3>4
  <2>4. ASSUME NEW f \in Grants, tower.fn = f, Wanted(f), UNCHANGED queue
        PROVE  queue[Serves[f]] # <<>>
    <3>1. \A k \in Kinds : Len(queue[k]) = 0 <=> queue[k] = <<>>
      BY DEF TypeOK
    <3>2. Serves[f] = IF f = "let_emergencies" THEN "emergency"
                      ELSE IF f \in {"let_landings", "let_one_to_land"} THEN "landing"
                      ELSE "takingOff"
      BY DEF Serves
    <3>3. Len(queue["takingOff"]) \in Nat
      BY DEF TypeOK, Kinds
    <3>4. CASE f = "let_landings" \/ f = "let_one_to_land"
      BY <2>4, <3>1, <3>2, <3>4, LandingsWanted
    <3>5. CASE f = "let_one_to_take_off" \/ f = "let_taking_offs"
      BY <2>4, <3>1, <3>2, <3>3, <3>5, LandingsWanted, AirportConstants
    <3>6. CASE f = "let_emergencies"
      BY <2>4, <3>1, <3>2, <3>6, LandingsWanted
    <3> QED
      BY <3>4, <3>5, <3>6
  <2>5. ASSUME NEW f \in Grants, tower.fn = f, UNCHANGED queue, Choose(f) \/ Step("second")
        PROVE  ServedNotEmpty'
    BY <2>4, <2>5 DEF Choose, Step, ServedNotEmpty, TypeOK
  <2>6. ASSUME NEW f \in Grants, Enter(f) \/ (f = "let_emergencies" /\ Retest)
        PROVE  ServedNotEmpty'
    BY <2>5, <2>6 DEF Enter, Retest
  <2>7. ASSUME NEW f \in Grants, Release(f) PROVE ServedNotEmpty'
    BY <2>7 DEF Release, GoTo, Step, ServedNotEmpty, TypeOK
  <2>8. ASSUME NEW f \in Grants, Broadcast(f) \/ WakeUp(f) PROVE ServedNotEmpty'
    BY <2>8 DEF Broadcast, WakeUp, Step, ServedNotEmpty, TypeOK
  <2>9. ASSUME NEW f \in Grants, UnlockRemoved(f) PROVE ServedNotEmpty'
    <3>1. /\ UNCHANGED queue /\ tower.fn = f
          /\ \/ Step("retest") \/ Step("exit")
             \/ GoTo("let_one_to_land", "enter", Top)
      BY <2>9 DEF UnlockRemoved
    <3> QED
      BY <3>1 DEF Step, GoTo, ServedNotEmpty, TypeOK
  <2>10. ASSUME NEW f \in Grants, Exit(f) PROVE ServedNotEmpty'
    <3>1. /\ UNCHANGED queue /\ tower.fn = f
          /\ \/ f = "let_emergencies" /\ tower.caller # Top /\ GoTo(tower.caller, "broadcast", Top)
             \/ \E g \in Grants \cup {Top}, at \in {"enter", "loop"} : GoTo(g, at, Top)
      BY <2>10 DEF Exit
    <3> QED
      BY <3>1 DEF GoTo, ServedNotEmpty, TypeOK
  <2> QED
    BY <1>4, <2>2, <2>3, <2>6, <2>7, <2>8, <2>9, <2>10, TowerSteps DEF Tower
<1> QED
  BY <1>3, <1>4

\* What the next theorems assume of the clock and of malloc: a plane has queued itself
\* before the next one of its kind is created, and fresh memory reads as zero.
Timely == SpacedArrivals /\ FreshFlag = {FALSE}

\* A plane that has queued itself and not used the runway yet.
Queued == {"pushed", "ready", "waiting", "woken", "check"}

\* Slot i of queue k holds a plane of that kind that has queued itself; if its thread
\* has ended, it has completed its action.
SlotOK(k, i) ==
    LET p == queue[k][i]
    IN  p \in Planes /\ KindOf[p] = k /\ (pc[p] \in Queued \/ (pc[p] = "idle" /\ completed[p]))

LineInv ==
    /\ \A k \in Kinds : \A i \in 1..Len(queue[k]) : SlotOK(k, i)
    /\ \A k \in Kinds : \A i, j \in 1..Len(queue[k]) : queue[k][i] = queue[k][j] => i = j
    /\ \A p, q \in Planes : Arriving(p) /\ Arriving(q) /\ KindOf[p] = KindOf[q] => p = q
    /\ \A p \in Planes : pc[p] = "written" => tail[KindOf[p]] = p
    /\ \A p \in Planes : pc[p] # "idle" => ~completed[p]
    /\ WaitingIsQueued
    /\ OnlyFrontCompleted
    /\ NoBadFront

\* A step that moves nobody into or out of a queue and completes nothing.
LEMMA QuietStep ==
    ASSUME TypeOK, LineInv, UNCHANGED <<queue, completed>>,
           \A p \in Planes : \/ pc'[p] = pc[p] /\ (pc[p] = "written" => tail'[KindOf[p]] = p)
                             \/ pc[p] \in Queued /\ pc'[p] \in Queued \ {"pushed"},
           main' # "crashed"
    PROVE  LineInv'
<1> USE QueuesServed
<1>1. (\A k \in Kinds : \A i \in 1..Len(queue[k]) : SlotOK(k, i))'
  BY DEF LineInv, SlotOK, Queued
<1>2. (\A p, q \in Planes : Arriving(p) /\ Arriving(q) /\ KindOf[p] = KindOf[q] => p = q)'
  BY DEF LineInv, Arriving, Queued
<1>3. (\A p \in Planes : pc[p] = "written" => tail[KindOf[p]] = p)'
  BY DEF LineInv, Queued
<1>4. (\A p \in Planes : pc[p] # "idle" => ~completed[p])'
  BY DEF LineInv, Queued
<1>5. WaitingIsQueued'
  BY DEF LineInv, WaitingIsQueued, InQueue, Queued
<1>6. (OnlyFrontCompleted /\ NoBadFront)'
  BY DEF LineInv, OnlyFrontCompleted, NoBadFront
<1> QED
  BY <1>1, <1>2, <1>3, <1>4, <1>5, <1>6 DEF LineInv

\* A waiting plane's queue has a front.
LEMMA FrontThere ==
    ASSUME TypeOK, LineInv, NEW k \in Kinds, queue[k] # <<>>
    PROVE  /\ FrontDefined(k)
           /\ 1 \in 1..Len(queue[k])
           /\ Head(queue[k]) = queue[k][1]
           /\ KindOf[Head(queue[k])] = k
<1>1. queue[k] \in Seq(Planes \cup {NoPlane})
  BY DEF TypeOK
<1>2. 1 \in 1..Len(queue[k]) /\ Head(queue[k]) = queue[k][1]
  BY <1>1
<1>3. SlotOK(k, 1)
  BY <1>2 DEF LineInv
<1> QED
  BY <1>2, <1>3 DEF SlotOK, FrontDefined

LEMMA LineInvMain == ASSUME Timely, TypeOK, LineInv, Main PROVE LineInv'
<1> USE QueuesServed
<1>1. CASE InitMutex \/ Finish
  <2>1. UNCHANGED <<queue, completed, pc, tail>> /\ main' # "crashed"
    BY <1>1 DEF InitMutex, AfterInit, Finish, Kinds
  <2> QED
    BY <2>1, QuietStep DEF LineInv
<1>2. ASSUME NEW p \in Planes, create_plane(p) \/ create_emergency_plane(p) PROVE LineInv'
  <2>1. /\ pc[p] = "idle" /\ ~InQueue(p) /\ UNCHANGED <<queue, tail>>
        /\ \A q \in Planes : KindOf[q] = KindOf[p] => ~Arriving(q)
        /\ pc' = [pc EXCEPT ![p] = "start"]
        /\ completed' = [completed EXCEPT ![p] = FALSE]
    BY <1>2 DEF create_plane, create_emergency_plane, Start, Timely
  <2>2. main' # "crashed"
    BY <1>2 DEF create_plane, create_emergency_plane, LineInv, NoBadFront
  <2>3. \A k \in Kinds : \A i \in 1..Len(queue[k]) : queue[k][i] # p
    BY <2>1 DEF LineInv, SlotOK, InQueue
  <2>4. (\A k \in Kinds : \A i \in 1..Len(queue[k]) : SlotOK(k, i))'
    BY <2>1, <2>3 DEF LineInv, SlotOK, TypeOK
  <2>5. (\A q, r \in Planes : Arriving(q) /\ Arriving(r) /\ KindOf[q] = KindOf[r] => q = r)'
    <3> SUFFICES ASSUME NEW q \in Planes, NEW r \in Planes, Arriving(q)', Arriving(r)',
                        KindOf[q] = KindOf[r]
                 PROVE  q = r
      OBVIOUS
    <3>1. \A o \in Planes : Arriving(o)' => o = p \/ Arriving(o)
      BY <2>1 DEF Arriving, TypeOK
    <3> QED
      BY <2>1, <3>1 DEF LineInv
  <2>6. (\A q \in Planes : pc[q] = "written" => tail[KindOf[q]] = q)'
    BY <2>1 DEF LineInv, TypeOK
  <2>7. (\A q \in Planes : pc[q] # "idle" => ~completed[q])'
    BY <2>1 DEF LineInv, TypeOK
  <2>8. WaitingIsQueued'
    BY <2>1 DEF LineInv, WaitingIsQueued, InQueue, TypeOK
  <2>9. OnlyFrontCompleted'
    BY <2>1 DEF LineInv, OnlyFrontCompleted, TypeOK
  <2> QED
    BY <2>1, <2>2, <2>4, <2>5, <2>6, <2>7, <2>8, <2>9 DEF LineInv, NoBadFront
<1> QED
  BY <1>1, <1>2 DEF Main

LEMMA LineInvPush == ASSUME TypeOK, LineInv, NEW p \in Planes, MoveEnd(p) PROVE LineInv'
<1> USE QueuesServed
<1> DEFINE k == KindOf[p]
<1>1. k \in Kinds /\ tail[k] = p /\ pc[p] = "written"
  BY DEF MoveEnd, LineInv
<1>2. /\ queue' = [queue EXCEPT ![k] = Append(queue[k], p)]
      /\ pc' = [pc EXCEPT ![p] = "pushed"] /\ UNCHANGED <<completed, main>>
      /\ tail' = [tail EXCEPT ![k] = NoPlane]
  BY <1>1 DEF MoveEnd
<1>3. \A j \in Kinds : \A i \in 1..Len(queue[j]) : queue[j][i] # p
  BY <1>1 DEF LineInv, SlotOK, Queued
<1> HIDE DEF k
<1>4. \A j \in Kinds : queue[j] \in Seq(Planes \cup {NoPlane})
  BY DEF TypeOK
<1>5. /\ Len(queue'[k]) = Len(queue[k]) + 1 /\ Len(queue[k]) \in Nat
      /\ \A i \in 1..Len(queue[k]) : queue'[k][i] = queue[k][i]
      /\ queue'[k][Len(queue[k]) + 1] = p
      /\ \A j \in Kinds \ {k} : queue'[j] = queue[j]
  BY <1>1, <1>2, <1>4 DEF TypeOK
<1>6. \A i \in 1..Len(queue'[k]) : i \in 1..Len(queue[k]) \/ i = Len(queue[k]) + 1
  BY <1>5
<1>7. (\A j \in Kinds : \A i \in 1..Len(queue[j]) : SlotOK(j, i))'
  <2> SUFFICES ASSUME NEW j \in Kinds, NEW i \in 1..Len(queue'[j]) PROVE SlotOK(j, i)'
    OBVIOUS
  <2>1. CASE i \in 1..Len(queue[j])
    BY <1>2, <1>3, <1>5, <2>1 DEF LineInv, SlotOK, TypeOK
  <2>2. CASE j = k /\ i = Len(queue[k]) + 1
    BY <1>2, <1>5, <2>2 DEF SlotOK, TypeOK, Queued, k
  <2> QED
    BY <1>5, <1>6, <2>1, <2>2
<1>8. (\A j \in Kinds : \A h, i \in 1..Len(queue[j]) : queue[j][h] = queue[j][i] => h = i)'
  <2> SUFFICES ASSUME NEW j \in Kinds, NEW h \in 1..Len(queue'[j]), NEW i \in 1..Len(queue'[j]),
                      queue'[j][h] = queue'[j][i]
               PROVE  h = i
    OBVIOUS
  <2>1. CASE h \in 1..Len(queue[j]) /\ i \in 1..Len(queue[j])
    BY <1>5, <2>1 DEF LineInv
  <2>2. CASE j = k /\ ~(h \in 1..Len(queue[j]) /\ i \in 1..Len(queue[j]))
    <3>1. \A g \in 1..Len(queue'[k]) : queue'[k][g] = p => g = Len(queue[k]) + 1
      <4> SUFFICES ASSUME NEW g \in 1..Len(queue'[k]), queue'[k][g] = p, g \in 1..Len(queue[k])
                   PROVE  FALSE
        BY <1>6
      <4>1. queue[k][g] = p
        BY <1>5
      <4> QED
        BY <1>1, <1>3, <4>1
    <3>2. h = Len(queue[k]) + 1 \/ i = Len(queue[k]) + 1
      BY <1>6, <2>2
    <3>3. queue'[k][h] = p /\ queue'[k][i] = p
      BY <1>5, <2>2, <3>2
    <3> QED
      BY <2>2, <3>1, <3>3
  <2> QED
    BY <1>5, <2>1, <2>2
<1>9. (\A q, r \in Planes : Arriving(q) /\ Arriving(r) /\ KindOf[q] = KindOf[r] => q = r)'
  <2>1. \A q \in Planes : Arriving(q)' => Arriving(q)
    BY <1>1, <1>2 DEF Arriving, TypeOK
  <2> QED
    BY <2>1 DEF LineInv
<1>10. (\A q \in Planes : pc[q] = "written" => tail[KindOf[q]] = q)'
  <2>1. \A q \in Planes : pc[q] = "written" /\ KindOf[q] = k => q = p
    BY <1>1 DEF LineInv, Arriving, k
  <2>2. \A q \in Planes : pc'[q] = "written" => q # p /\ pc[q] = "written"
    BY <1>2 DEF TypeOK
  <2>3. \A q \in Planes : KindOf[q] # k => tail'[KindOf[q]] = tail[KindOf[q]]
    BY <1>2 DEF TypeOK
  <2> QED
    BY <2>1, <2>2, <2>3 DEF LineInv
<1>11. (\A q \in Planes : pc[q] # "idle" => ~completed[q])'
  BY <1>1, <1>2 DEF LineInv, TypeOK
<1>12. WaitingIsQueued'
  <2> SUFFICES ASSUME NEW q \in Planes, pc'[q] \in Queued PROVE InQueue(q)'
    BY DEF WaitingIsQueued, Queued
  <2>1. CASE q = p
    <3>1. Len(queue[k]) + 1 \in 1..Len(queue'[k])
      BY <1>5
    <3> QED
      BY <1>5, <2>1, <3>1 DEF InQueue, k
  <2>2. CASE q # p
    <3>1. InQueue(q)
      BY <1>2, <2>2 DEF LineInv, WaitingIsQueued, Queued, TypeOK
    <3>2. PICK i \in 1..Len(queue[KindOf[q]]) : queue[KindOf[q]][i] = q
      BY <3>1 DEF InQueue
    <3>3. i \in 1..Len(queue'[KindOf[q]]) /\ queue'[KindOf[q]][i] = q
      BY <1>5, <3>2
    <3> QED
      BY <3>3 DEF InQueue
  <2> QED
    BY <2>1, <2>2
<1>13. OnlyFrontCompleted'
  <2> SUFFICES ASSUME NEW j \in Kinds, NEW i \in 2..Len(queue'[j])
               PROVE  queue'[j][i] \in Planes /\ ~completed[queue'[j][i]]
    BY <1>2 DEF OnlyFrontCompleted
  <2>1. CASE i \in 2..Len(queue[j])
    <3>1. queue[j][i] \in Planes /\ ~completed[queue[j][i]]
      BY <2>1 DEF LineInv, OnlyFrontCompleted
    <3>2. i \in 1..Len(queue[j])
      BY <2>1
    <3> QED
      BY <1>2, <1>5, <3>1, <3>2
  <2>2. CASE j = k /\ i = Len(queue[k]) + 1
    BY <1>1, <1>5, <2>2 DEF LineInv
  <2> QED
    BY <1>5, <2>1, <2>2
<1> QED
  BY <1>2, <1>7, <1>8, <1>9, <1>10, <1>11, <1>12, <1>13 DEF LineInv, NoBadFront

LEMMA LineInvUse == ASSUME TypeOK, LineInv, NEW p \in Planes, TestFront(p) PROVE LineInv'
<1> USE QueuesServed
<1> DEFINE k == KindOf[p]
<1>1. pc[p] = "check" /\ k \in Kinds
  BY DEF TestFront
<1>2. PICK i \in 1..Len(queue[k]) : queue[k][i] = p
  BY <1>1 DEF LineInv, WaitingIsQueued, InQueue
<1>3. queue[k] # <<>>
  BY <1>1, <1>2 DEF TypeOK
<1>4. FrontDefined(k) /\ 1 \in 1..Len(queue[k]) /\ Head(queue[k]) = queue[k][1]
  BY <1>1, <1>3, FrontThere
<1>5. UNCHANGED <<queue, tail, main>>
  BY <1>4 DEF TestFront, Dereference
<1>6. CASE queue[k][1] # p
  <2>1. completed' = completed /\ pc' = [pc EXCEPT ![p] = "waiting"]
    BY <1>4, <1>6 DEF TestFront, TypeOK
  <2> QED
    BY <1>1, <1>5, <2>1, QuietStep DEF LineInv, NoBadFront, Queued, TypeOK
<1>7. CASE queue[k][1] = p
  <2>1. /\ completed' = [completed EXCEPT ![p] = TRUE]
        /\ pc' = [pc EXCEPT ![p] = "idle"]
    BY <1>4, <1>7 DEF TestFront, TypeOK
  <2>2. \A j \in Kinds : \A h \in 2..Len(queue[j]) : queue[j][h] # p
    <3> SUFFICES ASSUME NEW j \in Kinds, NEW h \in 2..Len(queue[j]), queue[j][h] = p
                 PROVE  FALSE
      OBVIOUS
    <3>1. h \in 1..Len(queue[j]) /\ h # 1
      OBVIOUS
    <3>2. j = k
      BY <3>1 DEF LineInv, SlotOK
    <3> QED
      BY <1>1, <1>4, <1>7, <3>1, <3>2 DEF LineInv
  <2> HIDE DEF k
  <2>3. (\A j \in Kinds : \A h \in 1..Len(queue[j]) : SlotOK(j, h))'
    BY <1>5, <2>1 DEF LineInv, SlotOK, TypeOK
  <2>4. (\A q, r \in Planes : Arriving(q) /\ Arriving(r) /\ KindOf[q] = KindOf[r] => q = r)'
    BY <2>1 DEF LineInv, Arriving, TypeOK
  <2>5. (\A q \in Planes : pc[q] = "written" => tail[KindOf[q]] = q)'
    BY <1>5, <2>1 DEF LineInv, TypeOK
  <2>6. (\A q \in Planes : pc[q] # "idle" => ~completed[q])'
    BY <2>1 DEF LineInv, TypeOK
  <2>7. WaitingIsQueued'
    BY <1>5, <2>1 DEF LineInv, WaitingIsQueued, InQueue, TypeOK
  <2>8. OnlyFrontCompleted'
    BY <1>5, <2>1, <2>2 DEF LineInv, OnlyFrontCompleted, TypeOK
  <2> QED
    BY <1>5, <2>3, <2>4, <2>5, <2>6, <2>7, <2>8 DEF LineInv, NoBadFront
<1> QED
  BY <1>6, <1>7

LEMMA LineInvPlane == ASSUME TypeOK, LineInv, NEW p \in Planes, Plane(p) PROVE LineInv'
<1>1. CASE WriteSlot(p)
  <2>1. \A q \in Planes : Arriving(q) /\ KindOf[q] = KindOf[p] => q = p
    BY <1>1 DEF WriteSlot, LineInv, Arriving
  <2>2. /\ UNCHANGED <<queue, completed, main>>
        /\ pc' = [pc EXCEPT ![p] = "written"] /\ tail' = [tail EXCEPT ![KindOf[p]] = p]
        /\ pc[p] = "start"
    BY <1>1 DEF WriteSlot
  <2>3. (\A k \in Kinds : \A i \in 1..Len(queue[k]) : SlotOK(k, i))'
    BY <2>2 DEF LineInv, SlotOK, Queued, TypeOK
  <2>4. (\A q, r \in Planes : Arriving(q) /\ Arriving(r) /\ KindOf[q] = KindOf[r] => q = r)'
    <3>1. \A q \in Planes : Arriving(q)' => Arriving(q)
      BY <2>2 DEF Arriving, TypeOK
    <3> QED
      BY <3>1 DEF LineInv
  <2>5. (\A q \in Planes : pc[q] = "written" => tail[KindOf[q]] = q)'
    <3>1. \A q \in Planes : KindOf[q] \in Kinds
      BY QueuesServed
    <3>2. \A q \in Planes : pc'[q] = "written" /\ KindOf[q] = KindOf[p] => q = p
      BY <2>1, <2>2 DEF Arriving, TypeOK
    <3>3. \A q \in Planes : KindOf[q] # KindOf[p] => tail'[KindOf[q]] = tail[KindOf[q]]
      BY <2>2, <3>1 DEF TypeOK
    <3>4. \A q \in Planes : q # p => pc'[q] = pc[q]
      BY <2>2 DEF TypeOK
    <3>5. tail'[KindOf[p]] = p
      BY <2>2, <3>1 DEF TypeOK
    <3> QED
      BY <3>2, <3>3, <3>4, <3>5 DEF LineInv
  <2>6. (\A q \in Planes : pc[q] # "idle" => ~completed[q])'
    BY <2>2 DEF LineInv, TypeOK
  <2>7. WaitingIsQueued'
    BY <2>2 DEF LineInv, WaitingIsQueued, InQueue, TypeOK
  <2> QED
    BY <2>2, <2>3, <2>4, <2>5, <2>6, <2>7 DEF LineInv, OnlyFrontCompleted, NoBadFront
<1>2. CASE UnlockQueue(p) \/ Wait(p) \/ SpuriousWakeup(p) \/ Resume(p)
  <2>1. /\ UNCHANGED <<queue, tail, completed, main>>
        /\ pc[p] \in Queued
        /\ \E x \in Queued \ {"pushed"} : pc' = [pc EXCEPT ![p] = x]
    BY <1>2 DEF UnlockQueue, Wait, SpuriousWakeup, Resume, Queued
  <2> QED
    BY <2>1, QuietStep DEF LineInv, NoBadFront, TypeOK
<1> QED
  BY <1>1, <1>2, LineInvPush, LineInvUse DEF Plane

LEMMA LineInvRemove ==
    ASSUME TypeOK, LineInv, ServedNotEmpty, NEW f \in Grants, Remove(f)
    PROVE  LineInv'
<1> USE QueuesServed
<1> DEFINE k == Serves[f]
<1>1. k \in Kinds /\ queue[k] # <<>> /\ UNCHANGED <<tail, pc, completed>>
  BY DEF Remove, ServedNotEmpty
<1>2. FrontDefined(k) /\ 1 \in 1..Len(queue[k]) /\ Head(queue[k]) = queue[k][1]
  BY <1>1, FrontThere
<1>3. UNCHANGED main
  BY <1>2 DEF Remove, Dereference
<1>4. CASE ~completed[queue[k][1]]
  <2>1. UNCHANGED queue
    BY <1>2, <1>4 DEF Remove
  <2> QED
    BY <1>1, <1>3, <2>1, QuietStep DEF LineInv, NoBadFront
<1>5. CASE completed[queue[k][1]]
  <2>1. queue' = [queue EXCEPT ![k] = Tail(queue[k])]
    BY <1>2, <1>5 DEF Remove
  <2> HIDE DEF k
  <2>2. queue[k] \in Seq(Planes \cup {NoPlane})
    BY <1>1 DEF TypeOK
  <2>3. /\ Len(queue'[k]) = Len(queue[k]) - 1 /\ Len(queue[k]) \in Nat
        /\ \A i \in 1..Len(queue'[k]) : /\ queue'[k][i] = queue[k][i + 1]
                                        /\ i + 1 \in 1..Len(queue[k])
        /\ \A j \in Kinds \ {k} : queue'[j] = queue[j]
    BY <1>1, <2>1, <2>2 DEF TypeOK
  <2>4. (\A j \in Kinds : \A i \in 1..Len(queue[j]) : SlotOK(j, i))'
    <3> SUFFICES ASSUME NEW j \in Kinds, NEW i \in 1..Len(queue'[j]) PROVE SlotOK(j, i)'
      OBVIOUS
    <3>1. CASE j = k
      <4>1. SlotOK(k, i + 1)
        BY <1>1, <2>3, <3>1 DEF LineInv
      <4> QED
        BY <1>1, <2>3, <3>1, <4>1 DEF SlotOK
    <3>2. CASE j # k
      BY <1>1, <2>3, <3>2 DEF LineInv, SlotOK
    <3> QED
      BY <3>1, <3>2
  <2>5. (\A j \in Kinds : \A h, i \in 1..Len(queue[j]) : queue[j][h] = queue[j][i] => h = i)'
    <3> SUFFICES ASSUME NEW j \in Kinds, NEW h \in 1..Len(queue'[j]), NEW i \in 1..Len(queue'[j]),
                        queue'[j][h] = queue'[j][i]
                 PROVE  h = i
      OBVIOUS
    <3>1. CASE j = k
      <4>1. h + 1 \in 1..Len(queue[k]) /\ i + 1 \in 1..Len(queue[k])
        BY <2>3, <3>1
      <4>2. queue[k][h + 1] = queue[k][i + 1]
        BY <2>3, <3>1
      <4>3. h + 1 = i + 1
        BY <1>1, <4>1, <4>2 DEF LineInv
      <4> QED
        BY <4>3
    <3>2. CASE j # k
      BY <2>3, <3>2 DEF LineInv
    <3> QED
      BY <3>1, <3>2
  <2>6. WaitingIsQueued'
    <3> SUFFICES ASSUME NEW p \in Planes, pc[p] \in Queued PROVE InQueue(p)'
      BY <1>1 DEF WaitingIsQueued, Queued
    <3>1. PICK i \in 1..Len(queue[KindOf[p]]) : queue[KindOf[p]][i] = p
      BY DEF LineInv, WaitingIsQueued, InQueue, Queued
    <3>2. CASE KindOf[p] = k
      <4>1. i # 1
        BY <1>5, <3>1, <3>2 DEF LineInv, Queued
      <4>2. i - 1 \in 1..Len(queue'[k])
        BY <2>3, <3>1, <3>2, <4>1
      <4>3. queue'[k][i - 1] = p
        BY <2>3, <3>1, <3>2, <4>2
      <4> QED
        BY <3>2, <4>2, <4>3 DEF InQueue
    <3>3. CASE KindOf[p] # k
      BY <2>3, <3>1, <3>3 DEF InQueue
    <3> QED
      BY <3>2, <3>3
  <2>7. OnlyFrontCompleted'
    <3> SUFFICES ASSUME NEW j \in Kinds, NEW i \in 2..Len(queue'[j])
                 PROVE  queue'[j][i] \in Planes /\ ~completed[queue'[j][i]]
      BY <1>1 DEF OnlyFrontCompleted
    <3>1. CASE j = k
      <4>1. i + 1 \in 2..Len(queue[k]) /\ queue'[k][i] = queue[k][i + 1]
        BY <2>3, <3>1
      <4> QED
        BY <1>1, <3>1, <4>1 DEF LineInv, OnlyFrontCompleted
    <3>2. CASE j # k
      BY <2>3, <3>2 DEF LineInv, OnlyFrontCompleted
    <3> QED
      BY <3>1, <3>2
  <2> QED
    BY <1>1, <1>3, <2>4, <2>5, <2>6, <2>7 DEF LineInv, Arriving, NoBadFront
<1> QED
  BY <1>4, <1>5

LEMMA LineInvTower == ASSUME TypeOK, LineInv, ServedNotEmpty, Tower PROVE LineInv'
<1>1. CASE \E f \in Grants : Remove(f)
  BY <1>1, LineInvRemove
<1>2. ASSUME NEW f \in Grants, Broadcast(f) PROVE LineInv'
  <2>1. UNCHANGED <<queue, completed, tail, main>>
    BY <1>2 DEF Broadcast
  <2>2. \A p \in Planes : pc'[p] = IF KindOf[p] = Serves[f] /\ pc[p] = "waiting"
                                   THEN "woken" ELSE pc[p]
    BY <1>2 DEF Broadcast
  <2> QED
    BY <2>1, <2>2, QuietStep DEF LineInv, NoBadFront, Queued
<1>3. CASE /\ ~ \E f \in Grants : Remove(f) \/ Broadcast(f)
  <2>1. UNCHANGED <<queue, completed, tail, main, pc>>
    BY <1>3 DEF Tower, check_notifications, Retest, Enter, Release, WakeUp, UnlockRemoved, Exit
  <2> QED
    BY <2>1, QuietStep DEF LineInv, NoBadFront
<1> QED
  BY <1>1, <1>2, <1>3

LEMMA LineInvStep ==
    ASSUME Timely, TypeOK, LineInv, ServedNotEmpty, [Next]_vars PROVE LineInv'
<1>1. CASE UNCHANGED vars \/ report_planes
  <2>1. UNCHANGED <<queue, completed, tail, main, pc>>
    BY <1>1 DEF vars, report_planes
  <2> QED
    BY <2>1, QuietStep DEF LineInv, NoBadFront
<1> QED
  BY <1>1, LineInvMain, LineInvPlane, LineInvTower DEF Next, Ended

LEMMA LineInvInit == Init => LineInv /\ ServedNotEmpty
<1> SUFFICES ASSUME Init PROVE LineInv /\ ServedNotEmpty
  OBVIOUS
<1>1. \A k \in Kinds : queue[k] = <<>> /\ 1..Len(queue[k]) = {} /\ 2..Len(queue[k]) = {}
  BY DEF Init
<1> QED
  BY <1>1, QueuesServed DEF Init, LineInv, ServedNotEmpty, WaitingIsQueued, OnlyFrontCompleted,
                            NoBadFront, Arriving, SlotOK, Top, Kinds

\* With timely arrivals, however the tower, the planes and the reporter interleave and
\* whoever's lock they clear: no request is lost, the runway is used in the order of each
\* queue, and no thread reads the front of an empty queue.
THEOREM LinesHold ==
    ASSUME Timely PROVE Spec => [](WaitingIsQueued /\ OnlyFrontCompleted /\ NoBadFront)
<1> DEFINE Inv == TypeOK /\ ServedNotEmpty /\ LineInv
<1>1. Init => Inv
  BY TypeInit, LineInvInit
<1>2. Inv /\ [Next]_vars => Inv'
  BY TypeStep, ServedNotEmptyStep, LineInvStep
<1>3. Inv => WaitingIsQueued /\ OnlyFrontCompleted /\ NoBadFront
  BY DEF LineInv
<1> QED
  BY <1>1, <1>2, <1>3, PTL DEF Spec

\* With timely arrivals no thread calls front() on an empty queue or reads an unset slot.
THEOREM FrontsAreThere == ASSUME Timely PROVE Spec => []NoBadFront
<1>1. Spec => [](WaitingIsQueued /\ OnlyFrontCompleted /\ NoBadFront)
  BY LinesHold
<1> QED
  BY <1>1, PTL

\* With timely arrivals the runway is used in the order of the queues.
THEOREM ServedInOrder == ASSUME Timely PROVE Spec => []OnlyFrontCompleted
<1>1. Spec => [](WaitingIsQueued /\ OnlyFrontCompleted /\ NoBadFront)
  BY LinesHold
<1> QED
  BY <1>1, PTL

-----------------------------------------------------------------------------
(* One plane on the runway, when woken planes settle within the 2 s sleep.  *)

\* The tower is at one of the places ats of a function that serves p's queue.
Granted(p, ats) ==
    tower.fn \in Grants /\ tower.at \in ats /\ Serves[tower.fn] = KindOf[p]

RunwayInv ==
    \A p \in Planes : /\ pc[p] \in {"woken", "check"} => Granted(p, {"sleep"})
                      /\ OnRunway(p) => Granted(p, {"sleep", "remove"})

\* The plane on the runway is the front of its queue.
LEMMA OnRunwayIsFront ==
    ASSUME TypeOK, LineInv, NEW p \in Planes, OnRunway(p)
    PROVE  /\ queue[KindOf[p]] # <<>>
           /\ Head(queue[KindOf[p]]) = p
           /\ queue[KindOf[p]][1] = p
<1> USE QueuesServed
<1> DEFINE k == KindOf[p]
<1>1. PICK i \in 1..Len(queue[k]) : queue[k][i] = p
  BY DEF OnRunway, InQueue
<1>2. k \in Kinds /\ queue[k] # <<>>
  BY <1>1 DEF TypeOK
<1>3. 1 \in 1..Len(queue[k]) /\ Head(queue[k]) = queue[k][1]
  BY <1>2, FrontThere
<1>4. i = 1
  BY <1>1, <1>2 DEF LineInv, OnlyFrontCompleted, OnRunway
<1> QED
  BY <1>1, <1>2, <1>3, <1>4

LEMMA NoCollision == ASSUME TypeOK, LineInv, RunwayInv PROVE OneOnRunway
<1> SUFFICES ASSUME NEW p \in Planes, NEW q \in Planes, OnRunway(p), OnRunway(q) PROVE p = q
  BY DEF OneOnRunway
<1>1. KindOf[p] = KindOf[q]
  BY DEF RunwayInv, Granted
<1> QED
  BY <1>1, OnRunwayIsFront

\* A step in which the tower stands still, nobody wakes and nobody takes the runway.
LEMMA RunwayQuiet ==
    ASSUME RunwayInv, UNCHANGED tower,
           \A p \in Planes : pc'[p] \in {"woken", "check"} => pc[p] \in {"woken", "check"},
           \A p \in Planes : OnRunway(p)' => OnRunway(p)
    PROVE  RunwayInv'
BY DEF RunwayInv, Granted

LEMMA RunwayPush ==
    ASSUME TypeOK, LineInv, NEW p \in Planes, MoveEnd(p), NEW q \in Planes
    PROVE  OnRunway(q)' <=> OnRunway(q)
<1> USE QueuesServed
<1> DEFINE k == KindOf[p]
<1>1. k \in Kinds /\ tail[k] = p /\ ~completed[p] /\ UNCHANGED completed
  BY DEF MoveEnd, LineInv
<1>2. queue[k] \in Seq(Planes \cup {NoPlane}) /\ KindOf[q] \in Kinds
  BY <1>1 DEF TypeOK
<1>3. CASE KindOf[q] # k
  BY <1>1, <1>2, <1>3 DEF MoveEnd, OnRunway, InQueue, TypeOK
<1>4. CASE KindOf[q] = k
  <2>1. /\ Len(queue'[k]) = Len(queue[k]) + 1 /\ Len(queue[k]) \in Nat
        /\ \A i \in 1..Len(queue[k]) : queue'[k][i] = queue[k][i]
        /\ queue'[k][Len(queue[k]) + 1] = p
    BY <1>1, <1>2 DEF MoveEnd, TypeOK
  <2>2. \A i \in 1..Len(queue'[k]) : i \in 1..Len(queue[k]) \/ queue'[k][i] = p
    BY <2>1
  <2>3. \A i \in 1..Len(queue[k]) : i \in 1..Len(queue'[k])
    BY <2>1
  <2> QED
    BY <1>1, <1>4, <2>1, <2>2, <2>3 DEF OnRunway, InQueue
<1> QED
  BY <1>3, <1>4

LEMMA RunwayClears ==
    ASSUME TypeOK, LineInv, ServedNotEmpty, RunwayInv, NEW f \in Grants, Remove(f),
           NEW p \in Planes
    PROVE  ~OnRunway(p)'
<1> USE QueuesServed
<1> DEFINE k == Serves[f]
<1> SUFFICES ASSUME OnRunway(p)' PROVE FALSE
  OBVIOUS
<1>1. k \in Kinds /\ queue[k] # <<>> /\ UNCHANGED completed
  BY DEF Remove, ServedNotEmpty
<1>2. FrontDefined(k) /\ Head(queue[k]) = queue[k][1]
  BY <1>1, FrontThere
<1>3. queue' = queue \/ (completed[queue[k][1]] /\ queue' = [queue EXCEPT ![k] = Tail(queue[k])])
  BY <1>2 DEF Remove
<1>4. queue[k] \in Seq(Planes \cup {NoPlane})
  BY <1>1 DEF TypeOK
<1> HIDE DEF k
<1>5. \A i \in 1..Len(Tail(queue[k])) :
         Tail(queue[k])[i] = queue[k][i + 1] /\ i + 1 \in 1..Len(queue[k]) /\ i + 1 # 1
  BY <1>1, <1>4
<1>6. OnRunway(p)
  <2>1. completed[p] /\ KindOf[p] \in Kinds
    BY <1>1 DEF OnRunway
  <2>2. PICK i \in 1..Len(queue'[KindOf[p]]) : queue'[KindOf[p]][i] = p
    BY DEF OnRunway, InQueue
  <2>3. CASE queue'[KindOf[p]] = queue[KindOf[p]]
    BY <2>1, <2>2, <2>3 DEF OnRunway, InQueue
  <2>4. CASE KindOf[p] = k /\ queue'[k] = Tail(queue[k])
    <3>1. queue[k][i + 1] = p /\ i + 1 \in 1..Len(queue[k])
      BY <1>5, <2>2, <2>4
    <3> QED
      BY <2>1, <2>4, <3>1 DEF OnRunway, InQueue
  <2> QED
    BY <1>1, <1>3, <2>1, <2>3, <2>4 DEF TypeOK
<1>7. KindOf[p] = k
  BY <1>6 DEF RunwayInv, Granted, Remove, k
<1>8. queue[k][1] = p /\ completed[p]
  BY <1>6, <1>7, OnRunwayIsFront DEF OnRunway
<1>9. queue' = [queue EXCEPT ![k] = Tail(queue[k])]
  BY <1>2, <1>8 DEF Remove, k
<1>10. PICK i \in 1..Len(Tail(queue[k])) : Tail(queue[k])[i] = p
  BY <1>1, <1>7, <1>9 DEF OnRunway, InQueue, TypeOK
<1>11. queue[k][i + 1] = p /\ i + 1 \in 1..Len(queue[k]) /\ i + 1 # 1
  BY <1>5, <1>10
<1>12. 1 \in 1..Len(queue[k])
  BY <1>1, FrontThere
<1> QED
  BY <1>1, <1>8, <1>11, <1>12 DEF LineInv

LEMMA RunwayStep ==
    ASSUME PromptWakeups, TypeOK, LineInv, ServedNotEmpty, RunwayInv, [Next]_vars
    PROVE  RunwayInv'
<1> USE QueuesServed
<1>1. CASE UNCHANGED vars \/ report_planes
  <2>1. UNCHANGED <<queue, completed, pc, tower>>
    BY <1>1 DEF vars, report_planes
  <2> QED
    BY <2>1, RunwayQuiet DEF OnRunway, InQueue
<1>2. CASE Main
  <2>1. UNCHANGED <<queue, tower>>
    BY <1>2 DEF Main, InitMutex, create_plane, create_emergency_plane, Start, Finish
  <2>2. \A q \in Planes : \/ pc'[q] = pc[q] /\ completed'[q] = completed[q]
                          \/ pc'[q] = "start" /\ ~InQueue(q)
    BY <1>2 DEF Main, InitMutex, create_plane, create_emergency_plane, Start, Finish, TypeOK
  <2>3. \A q \in Planes : pc'[q] \in {"woken", "check"} => pc[q] \in {"woken", "check"}
    BY <2>2
  <2>4. \A q \in Planes : OnRunway(q)' => OnRunway(q)
    BY <2>1, <2>2 DEF OnRunway, InQueue
  <2> QED
    BY <2>1, <2>3, <2>4, RunwayQuiet
<1>3. ASSUME NEW p \in Planes, Plane(p) PROVE RunwayInv'
  <2>1. CASE MoveEnd(p)
    <3>1. UNCHANGED tower /\ pc' = [pc EXCEPT ![p] = "pushed"]
      BY <2>1 DEF MoveEnd
    <3>2. \A q \in Planes : OnRunway(q)' => OnRunway(q)
      BY <2>1, RunwayPush
    <3> QED
      BY <3>1, <3>2, RunwayQuiet DEF TypeOK
  <2>2. CASE TestFront(p)
    <3>1. UNCHANGED <<queue, tower>> /\ Granted(p, {"sleep"})
      BY <2>2 DEF TestFront, RunwayInv
    <3>2. \A q \in Planes : /\ pc'[q] \in {"woken", "check"} => pc[q] \in {"woken", "check"}
                            /\ q # p => completed'[q] = completed[q]
      BY <2>2 DEF TestFront, TypeOK
    <3> QED
      BY <3>1, <3>2 DEF RunwayInv, Granted, OnRunway, InQueue
  <2>3. CASE WriteSlot(p) \/ UnlockQueue(p) \/ Wait(p) \/ Resume(p)
    <3>1. UNCHANGED <<queue, completed, tower>>
      BY <2>3 DEF WriteSlot, UnlockQueue, Wait, Resume
    <3>2. \A q \in Planes : pc'[q] \in {"woken", "check"} => pc[q] \in {"woken", "check"}
      BY <2>3 DEF WriteSlot, UnlockQueue, Wait, Resume, TypeOK
    <3> QED
      BY <3>1, <3>2, RunwayQuiet DEF OnRunway, InQueue
  <2> QED
    BY <1>3, <2>1, <2>2, <2>3 DEF Plane, SpuriousWakeup
<1>4. CASE Tower
  <2>1. ASSUME NEW f \in Grants, Broadcast(f) PROVE RunwayInv'
    <3>1. /\ tower.fn = f /\ tower.at = "broadcast" /\ UNCHANGED <<queue, completed>>
          /\ tower' = [tower EXCEPT !.at = "sleep"]
      BY <2>1 DEF Broadcast, Step
    <3>2. \A q \in Planes : pc'[q] = IF KindOf[q] = Serves[f] /\ pc[q] = "waiting"
                                     THEN "woken" ELSE pc[q]
      BY <2>1 DEF Broadcast
    <3> QED
      BY <3>1, <3>2 DEF RunwayInv, Granted, OnRunway, InQueue, TypeOK
  <2>2. ASSUME NEW f \in Grants, WakeUp(f) PROVE RunwayInv'
    <3>1. /\ tower.fn = f /\ tower.at = "sleep" /\ UNCHANGED <<queue, pc, completed>>
          /\ tower' = [tower EXCEPT !.at = "remove"]
          /\ \A q \in Planes : pc[q] \notin {"woken", "check"}
      BY <2>2 DEF WakeUp, Step
    <3> QED
      BY <3>1 DEF RunwayInv, Granted, OnRunway, InQueue, TypeOK
  <2>3. ASSUME NEW f \in Grants, Remove(f) PROVE RunwayInv'
    <3>1. tower.at = "remove" /\ UNCHANGED pc
      BY <2>3 DEF Remove
    <3>2. \A q \in Planes : pc'[q] \notin {"woken", "check"}
      BY <3>1 DEF RunwayInv, Granted
    <3> QED
      BY <2>3, <3>2, RunwayClears DEF RunwayInv
  <2>4. CASE ~ \E f \in Grants : Broadcast(f) \/ WakeUp(f) \/ Remove(f)
    <3>1. UNCHANGED <<queue, pc, completed>> /\ tower.at \notin {"sleep", "remove"}
      BY <1>4, <2>4 DEF Tower, check_notifications, Retest, Enter, Release, UnlockRemoved, Exit
    <3> QED
      BY <3>1 DEF RunwayInv, Granted, OnRunway, InQueue
  <2> QED
    BY <2>1, <2>2, <2>3, <2>4
<1> QED
  BY <1>1, <1>2, <1>3, <1>4 DEF Next, Ended

SafeInv == TypeOK /\ ServedNotEmpty /\ LineInv /\ RunwayInv

LEMMA SafeInvHolds == ASSUME Timely, PromptWakeups PROVE Spec => []SafeInv
<1>1. Init => RunwayInv
  BY DEF Init, RunwayInv, OnRunway
<1>2. Init => SafeInv
  BY <1>1, TypeInit, LineInvInit DEF SafeInv
<1>3. SafeInv /\ [Next]_vars => SafeInv'
  BY TypeStep, ServedNotEmptyStep, LineInvStep, RunwayStep DEF SafeInv
<1> QED
  BY <1>2, <1>3, PTL DEF Spec

\* With timely arrivals and prompt wakeups no two planes are ever on the runway.
THEOREM NoTwoOnRunway == ASSUME Timely, PromptWakeups PROVE Spec => []OneOnRunway
<1>1. SafeInv => OneOnRunway
  BY NoCollision DEF SafeInv
<1> QED
  BY <1>1, SafeInvHolds, PTL

-----------------------------------------------------------------------------
(* The airport implements the controlled runway.                            *)

Permit == IF tower.at \in {"sleep", "remove"} THEN Serves[tower.fn] ELSE NoPlane
User == IF \E p \in Planes : OnRunway(p) THEN CHOOSE p \in Planes : OnRunway(p) ELSE NoPlane

LEMMA UserIs ==
    ASSUME SafeInv, NEW p \in Planes, OnRunway(p)
    PROVE  User = p
<1>1. \A q \in Planes : OnRunway(q) => q = p
  BY NoCollision DEF SafeInv, OneOnRunway
<1> QED
  BY <1>1 DEF User

\* A step in which nobody enters or leaves the runway keeps its user.
LEMMA UserKept ==
    ASSUME \A p \in Planes : OnRunway(p)' <=> OnRunway(p)
    PROVE  User' = User
<1>1. (\E p \in Planes : OnRunway(p))' <=> (\E p \in Planes : OnRunway(p))
  OBVIOUS
<1>2. (CHOOSE p \in Planes : OnRunway(p))' = (CHOOSE p \in Planes : OnRunway(p))
  BY Zenon
<1> QED
  BY <1>1, <1>2 DEF User

LEMMA PermitKept ==
    ASSUME UNCHANGED tower PROVE Permit' = Permit
BY DEF Permit

LEMMA StepsImplement ==
    ASSUME PromptWakeups, Timely, SafeInv, SafeInv', [Next]_vars
    PROVE  [Controlled!Next]_(Controlled!vars)
<1> USE QueuesServed
<1> USE DEF SafeInv
<1>0. SUFFICES [Controlled!Next]_<<queue, Permit, User>>
  BY DEF Controlled!vars, Permit, User
<1>1. CASE UNCHANGED vars \/ report_planes
  <2>1. UNCHANGED <<queue, completed, tower>>
    BY <1>1 DEF vars, report_planes
  <2> QED
    BY <2>1, UserKept, PermitKept DEF OnRunway, InQueue
<1>2. CASE Main
  <2>1. UNCHANGED <<queue, tower>>
    BY <1>2 DEF Main, InitMutex, create_plane, create_emergency_plane, Start, Finish
  <2>2. \A q \in Planes : completed'[q] = completed[q] \/ ~InQueue(q)
    BY <1>2 DEF Main, InitMutex, create_plane, create_emergency_plane, Start, Finish, TypeOK
  <2>3. \A q \in Planes : OnRunway(q)' <=> OnRunway(q)
    BY <2>1, <2>2 DEF OnRunway, InQueue
  <2> QED
    BY <2>1, <2>3, UserKept, PermitKept
<1>3. ASSUME NEW p \in Planes, Plane(p) PROVE [Controlled!Next]_<<queue, Permit, User>>
  <2>1. CASE MoveEnd(p)
    <3>1. Permit' = Permit
      BY <2>1, PermitKept DEF MoveEnd
    <3>2. User' = User
      BY <2>1, RunwayPush, UserKept
    <3>3. \A i \in 1..Len(queue[KindOf[p]]) : queue[KindOf[p]][i] # p
      <4>1. pc[p] = "written" /\ KindOf[p] \in Kinds
        BY <2>1 DEF MoveEnd
      <4> QED
        BY <4>1 DEF LineInv, SlotOK, Queued
    <3>4. queue' = [queue EXCEPT ![KindOf[p]] = Append(queue[KindOf[p]], p)]
      BY <2>1 DEF MoveEnd, LineInv
    <3>5. Controlled!Request(p)
      BY <3>1, <3>2, <3>3, <3>4 DEF Controlled!Request, Permit, User
    <3> QED
      BY <3>5 DEF Controlled!Next
  <2>2. CASE TestFront(p)
    <3> DEFINE k == KindOf[p]
    <3>1. /\ pc[p] = "check" /\ UNCHANGED <<queue, tower>> /\ k \in Kinds
          /\ \A q \in Planes : q # p => completed'[q] = completed[q]
      BY <2>2 DEF TestFront, TypeOK
    <3>2. InQueue(p) /\ ~completed[p]
      BY <3>1 DEF LineInv, WaitingIsQueued
    <3>3. queue[k] # <<>>
      <4>1. PICK i \in 1..Len(queue[k]) : queue[k][i] = p
        BY <3>2 DEF InQueue
      <4> QED
        BY <4>1
    <3>4. CASE completed'[p]
      <4>1. FrontDefined(k) /\ Head(queue[k]) = p
        BY <2>2, <3>2, <3>4 DEF TestFront, TypeOK
      <4>2. \A q \in Planes : ~OnRunway(q)
        <5> SUFFICES ASSUME NEW q \in Planes, OnRunway(q) PROVE FALSE
          OBVIOUS
        <5>1. KindOf[q] = k
          BY <3>1 DEF RunwayInv, Granted
        <5>2. q = p
          BY <4>1, <5>1, OnRunwayIsFront
        <5> QED
          BY <3>2, <5>2 DEF OnRunway
      <4>3. User = NoPlane
        BY <4>2 DEF User
      <4>4. OnRunway(p)'
        BY <3>1, <3>2, <3>4 DEF OnRunway, InQueue
      <4>5. User' = p
        <5>1. \A q \in Planes : OnRunway(q)' => q = p
          BY <3>1, <4>2 DEF OnRunway, InQueue
        <5> QED
          BY <4>4, <5>1 DEF User
      <4>6. Permit = k /\ Permit' = Permit
        BY <3>1, PermitKept DEF RunwayInv, Granted, Permit
      <4>7. Controlled!Use(p)
        BY <3>1, <3>3, <4>1, <4>3, <4>5, <4>6 DEF Controlled!Use, Permit, User
      <4> QED
        BY <4>7 DEF Controlled!Next
    <3>5. CASE ~completed'[p]
      <4>1. \A q \in Planes : OnRunway(q)' <=> OnRunway(q)
        BY <3>1, <3>2, <3>5 DEF OnRunway, InQueue
      <4> QED
        BY <3>1, <4>1, UserKept, PermitKept
    <3> QED
      BY <3>4, <3>5
  <2>3. CASE WriteSlot(p) \/ UnlockQueue(p) \/ Wait(p) \/ Resume(p) \/ SpuriousWakeup(p)
    <3>1. UNCHANGED <<queue, completed, tower>>
      BY <2>3 DEF WriteSlot, UnlockQueue, Wait, Resume, SpuriousWakeup
    <3> QED
      BY <3>1, UserKept, PermitKept DEF OnRunway, InQueue
  <2> QED
    BY <1>3, <2>1, <2>2, <2>3 DEF Plane
<1>4. CASE Tower
  <2>1. ASSUME NEW f \in Grants, Broadcast(f) PROVE [Controlled!Next]_<<queue, Permit, User>>
    <3>1. /\ tower.fn = f /\ tower.at = "broadcast" /\ UNCHANGED <<queue, completed>>
          /\ tower' = [tower EXCEPT !.at = "sleep"]
      BY <2>1 DEF Broadcast, Step
    <3>2. Permit = NoPlane /\ Permit' = Serves[f]
      BY <3>1 DEF Permit, TypeOK
    <3>3. User' = User
      BY <3>1, UserKept DEF OnRunway, InQueue
    <3>4. queue[Serves[f]] # <<>>
      BY <3>1 DEF ServedNotEmpty
    <3>5. Controlled!Open(Serves[f])
      BY <3>1, <3>2, <3>3, <3>4 DEF Controlled!Open, Permit, User
    <3> QED
      BY <3>5 DEF Controlled!Next
  <2>2. ASSUME NEW f \in Grants, WakeUp(f) PROVE [Controlled!Next]_<<queue, Permit, User>>
    <3>1. /\ tower.at = "sleep" /\ UNCHANGED <<queue, completed>>
          /\ tower' = [tower EXCEPT !.at = "remove"]
      BY <2>2 DEF WakeUp, Step
    <3>2. Permit' = Permit
      BY <3>1 DEF Permit, TypeOK
    <3>3. User' = User
      BY <3>1, UserKept DEF OnRunway, InQueue
    <3> QED
      BY <3>1, <3>2, <3>3
  <2>3. ASSUME NEW f \in Grants, Remove(f) PROVE [Controlled!Next]_<<queue, Permit, User>>
    <3> DEFINE k == Serves[f]
    <3>1. /\ tower.fn = f /\ tower.at = "remove" /\ UNCHANGED completed
          /\ tower'.at \in {"second", "unlock"} /\ k \in Kinds /\ queue[k] # <<>>
      BY <2>3 DEF Remove, Step, ServedNotEmpty, TypeOK
    <3>2. Permit = k /\ Permit' = NoPlane /\ Permit # NoPlane
      BY <3>1, AirportConstants DEF Permit, Kinds
    <3>3. User' = NoPlane
      BY <2>3, RunwayClears DEF User
    <3>4. FrontDefined(k) /\ 1 \in 1..Len(queue[k]) /\ Head(queue[k]) = queue[k][1]
          /\ KindOf[Head(queue[k])] = k
      BY <3>1, FrontThere
    <3>5. CASE completed[Head(queue[k])]
      <4>1. Head(queue[k]) \in Planes /\ OnRunway(Head(queue[k]))
        BY <3>4, <3>5 DEF OnRunway, InQueue, FrontDefined
      <4>2. User \in Planes
        BY <4>1, UserIs
      <4>3. queue' = [queue EXCEPT ![k] = Tail(queue[k])]
        BY <2>3, <3>4, <3>5 DEF Remove
      <4>4. User # NoPlane
        BY <4>2, AirportConstants
      <4>5. Controlled!Close
        BY <3>2, <3>3, <4>3, <4>4 DEF Controlled!Close, Permit, User
      <4> QED
        BY <4>5 DEF Controlled!Next
    <3>6. CASE ~completed[Head(queue[k])]
      <4>1. \A q \in Planes : ~OnRunway(q)
        <5> SUFFICES ASSUME NEW q \in Planes, OnRunway(q) PROVE FALSE
          OBVIOUS
        <5>1. KindOf[q] = k
          BY <3>1 DEF RunwayInv, Granted
        <5> QED
          BY <3>6, <5>1, OnRunwayIsFront DEF OnRunway
      <4>2. User = NoPlane
        BY <4>1 DEF User
      <4>3. queue' = queue
        BY <2>3, <3>6 DEF Remove
      <4>4. Controlled!Close
        BY <3>2, <3>3, <4>2, <4>3 DEF Controlled!Close, Permit, User
      <4> QED
        BY <4>4 DEF Controlled!Next
    <3> QED
      BY <3>5, <3>6
  <2>4. CASE ~ \E f \in Grants : Broadcast(f) \/ WakeUp(f) \/ Remove(f)
    <3> DEFINE Closed == UNCHANGED <<queue, completed>> /\ tower.at \notin {"sleep", "remove"}
                         /\ tower'.at \notin {"sleep", "remove"}
    <3>1. Closed
      <4>1. CASE check_notifications
        BY <4>1 DEF check_notifications, GoTo, Step, TypeOK
      <4>2. CASE Retest
        BY <4>2 DEF Retest, Choose, Step, TypeOK
      <4>3. ASSUME NEW f \in Grants, Enter(f) \/ Release(f)
            PROVE  Closed
        BY <4>3 DEF Enter, Release, Choose, GoTo, Step, TypeOK
      <4>4. ASSUME NEW f \in Grants, UnlockRemoved(f) PROVE Closed
        <5>1. /\ UNCHANGED <<queue, completed>> /\ tower.at = "unlock"
              /\ Step("retest") \/ Step("exit") \/ GoTo("let_one_to_land", "enter", Top)
          BY <4>4 DEF UnlockRemoved
        <5> QED
          BY <5>1 DEF Step, GoTo, TypeOK
      <4>5. ASSUME NEW f \in Grants, Exit(f) PROVE Closed
        <5>1. /\ UNCHANGED <<queue, completed>> /\ tower.at = "exit"
              /\ \E g \in Grants \cup {Top}, at \in {"enter", "broadcast", "loop"} : GoTo(g, at, Top)
          BY <4>5 DEF Exit, TypeOK
        <5> QED
          BY <5>1 DEF GoTo
      <4> QED
        BY <1>4, <2>4, <4>1, <4>2, <4>3, <4>4, <4>5 DEF Tower
    <3>2. Permit' = Permit
      BY <3>1 DEF Permit
    <3>3. User' = User
      BY <3>1, UserKept DEF OnRunway, InQueue
    <3> QED
      BY <3>1, <3>2, <3>3
  <2> QED
    BY <2>1, <2>2, <2>3, <2>4
<1> QED
  BY <1>1, <1>2, <1>3, <1>4 DEF Next, Ended

\* With timely arrivals and prompt wakeups every behaviour of the airport is, threads,
\* mutexes and condition variables hidden, a behaviour of the controlled runway.
THEOREM Implements == ASSUME Timely, PromptWakeups PROVE Spec => ControlledSpec
<1>1. Init => Controlled!Init
  BY DEF Init, Controlled!Init, OnRunway
<1>2. SafeInv /\ SafeInv' /\ [Next]_vars => [Controlled!Next]_(Controlled!vars)
  BY StepsImplement
<1> QED
  BY <1>1, <1>2, SafeInvHolds, PTL DEF Spec, ControlledSpec, Controlled!Spec

==============================================================================
