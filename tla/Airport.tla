-------------------------------- MODULE Airport --------------------------------
(***************************************************************************)
(* The air traffic control simulator, src/Project2/airport.cpp: one thread *)
(* per plane, the tower thread, the reporting thread and the main thread,  *)
(* sharing three queues, their mutexes, the runway mutex and one condition *)
(* variable per queue.  One step is a maximal run of statements between    *)
(* two accesses that another thread can observe.  An operator introduced   *)
(* as a fault is no part of Next: it is the definition below it with one   *)
(* plausible mistake, which some property has to notice.                   *)
(***************************************************************************)
EXTENDS Naturals, Sequences, FiniteSets

CONSTANTS
    LandingPlanes,     \* threads running notify_tower_landing
    DepartingPlanes,   \* threads running notify_tower_taking_off
    EmergencyPlanes,   \* threads running notify_emergency
    GroundLimit,       \* the 5 of let_landings, let_one_to_take_off, let_taking_offs
    FreshFlag,         \* what completed_action may read as in fresh malloc memory
    SpacedArrivals,    \* TRUE: a plane queues itself before the next of its kind is created
    PromptWakeups,     \* TRUE: planes wake only on a broadcast, within the 2 s sleep
    Reporting,         \* TRUE: the simulation lasts beyond the nth second
    NoPlane            \* an unset slot of a queue

Planes == LandingPlanes \cup DepartingPlanes \cup EmergencyPlanes

ASSUME AirportConstants ==
    /\ LandingPlanes \cap DepartingPlanes = {}
    /\ EmergencyPlanes \cap (LandingPlanes \cup DepartingPlanes) = {}
    /\ GroundLimit \in Nat \ {0}
    /\ FreshFlag \subseteq BOOLEAN /\ FreshFlag # {}
    /\ SpacedArrivals \in BOOLEAN
    /\ PromptWakeups \in BOOLEAN
    /\ Reporting \in BOOLEAN
    /\ NoPlane \notin Planes \cup {"landing", "takingOff", "emergency"}

VARIABLES
    queue,      \* landing_planes, taking_off_planes, emergency
    tail,       \* the slot one past the end of each queue
    locked,     \* the mutexes whose lock word is set
    pc,         \* where each plane's thread is
    completed,  \* completed_action of each plane
    tower,      \* where the tower's thread is
    reporter,   \* where the reporting thread is
    main,       \* where the main thread is; "exited", "crashed": the process ended
    passed      \* history: grants to others since somebody waits (see Overtaken)

vars == <<queue, tail, locked, pc, completed, tower, reporter, main, passed>>

Kinds == {"landing", "takingOff", "emergency"}
Mutexes == Kinds \cup {"runway"}

KindOf == [p \in Planes |-> IF p \in LandingPlanes THEN "landing"
                            ELSE IF p \in DepartingPlanes THEN "takingOff"
                            ELSE "emergency"]

\* The tower's functions that hand out the runway, and the queue each serves.
Serves == [let_emergencies     |-> "emergency",
           let_landings        |-> "landing",
           let_one_to_land     |-> "landing",
           let_one_to_take_off |-> "takingOff",
           let_taking_offs     |-> "takingOff"]
Grants == DOMAIN Serves

\* The mutexes a function's queue tests hold: let_landings reads both queues.
Guards(f) == IF f = "let_landings" THEN {"landing", "takingOff"} ELSE {Serves[f]}

InQueue(p) == \E i \in 1..Len(queue[KindOf[p]]) : queue[KindOf[p]][i] = p

\* A plane has the runway from setting completed_action until the tower removes it.
OnRunway(p) == completed[p] /\ InQueue(p)

\* front() is a plane: the queue is not empty and its first slot was written.
FrontDefined(k) == queue[k] # <<>> /\ Head(queue[k]) \in Planes

Running == main \notin {"exited", "crashed"}

\* front() on an empty queue or an unset slot: the process dies.
Dereference(k) == main' = IF FrontDefined(k) THEN main ELSE "crashed"

Free(m) == m \notin locked
Lock(m) == Free(m) /\ locked' = locked \cup {m}

\* A default glibc mutex is cleared by whoever unlocks it, owner or not.
Unlock(M) == locked' = locked \ M

Init ==
    /\ queue = [k \in Kinds |-> <<>>]
    /\ tail = [k \in Kinds |-> NoPlane]
    /\ locked = {}
    /\ pc = [p \in Planes |-> "idle"]
    /\ completed = [p \in Planes |-> FALSE]
    /\ tower = [fn |-> "check_notifications", at |-> "loop", caller |-> "check_notifications"]
    /\ reporter = 0
    /\ main = "landing"
    /\ passed = [k \in {"landing", "emergency"} |-> 0]

-----------------------------------------------------------------------------
(* The main thread. *)

\* main creates the tower first and initialises the queue mutexes afterwards, in
\* this order: initialising clears a lock word the tower may have set.
AfterInit == [landing |-> "emergency", emergency |-> "takingOff", takingOff |-> "first"]

InitMutex ==
    /\ main \in Kinds
    /\ Unlock({main})
    /\ main' = AfterInit[main]
    /\ UNCHANGED <<queue, tail, pc, completed, tower, reporter, passed>>

Arriving(p) == pc[p] \in {"start", "written", "pushed"}

\* malloc, pthread_create.  A plane that left may come back: it stands for a new
\* one, whose plane_id is again different from that of every live plane.
Start(p) ==
    /\ pc[p] = "idle" /\ ~InQueue(p)
    /\ SpacedArrivals => \A q \in Planes : KindOf[q] = KindOf[p] => ~Arriving(q)
    /\ pc' = [pc EXCEPT ![p] = "start"]
    /\ \E flag \in FreshFlag : completed' = [completed EXCEPT ![p] = flag]
    /\ UNCHANGED <<queue, tail, locked, tower, reporter, passed>>

\* create_plane(1), create_plane(0), then create_plane(p) every second.  The draw
\* k/100 is compared with > p: 1 never takes off, 0 lands once in a hundred.
create_plane(p) ==
    /\ \/ main = "first" /\ p \in LandingPlanes /\ main' = "second"
       \/ main = "second" /\ p \in LandingPlanes \cup DepartingPlanes /\ main' = "loop"
       \/ main = "loop" /\ p \in LandingPlanes \cup DepartingPlanes /\ main' = "loop"
    /\ Start(p)

\* Every 40 s, so with timely arrivals the previous emergency is over.
create_emergency_plane(p) ==
    /\ main = "loop" /\ p \in EmergencyPlanes
    /\ SpacedArrivals => \A q \in EmergencyPlanes : pc[q] = "idle" /\ ~InQueue(q)
    /\ Start(p)
    /\ UNCHANGED main

\* simulation_finished is set, the log is printed, main returns: every thread ends.
Finish ==
    /\ \/ main = "loop" /\ main' = "finished"
       \/ main = "finished" /\ main' = "exited"
    /\ UNCHANGED <<queue, tail, locked, pc, completed, tower, reporter, passed>>

Main ==
    \/ InitMutex
    \/ \E p \in Planes : create_plane(p) \/ create_emergency_plane(p)
    \/ Finish

-----------------------------------------------------------------------------
(* A plane's thread: notify_tower_landing and its two siblings. *)

\* Fault: one of the three siblings pushes to the queue of another.
WriteSlotOfLanding(p) ==
    /\ pc[p] = "start"
    /\ Lock(KindOf[p])
    /\ tail' = [tail EXCEPT !["landing"] = p]
    /\ pc' = [pc EXCEPT ![p] = "written"]
    /\ UNCHANGED <<queue, completed, tower, reporter, main, passed>>

\* push: the slot past the end is written, then the end moves past it.
WriteSlot(p) ==
    /\ pc[p] = "start"
    /\ Lock(KindOf[p])
    /\ tail' = [tail EXCEPT ![KindOf[p]] = p]
    /\ pc' = [pc EXCEPT ![p] = "written"]
    /\ UNCHANGED <<queue, completed, tower, reporter, main, passed>>

MoveEnd(p) ==
    /\ pc[p] = "written"
    /\ queue' = [queue EXCEPT ![KindOf[p]] = Append(@, tail[KindOf[p]])]
    /\ tail' = [tail EXCEPT ![KindOf[p]] = NoPlane]
    /\ pc' = [pc EXCEPT ![p] = "pushed"]
    /\ UNCHANGED <<locked, completed, tower, reporter, main, passed>>

UnlockQueue(p) ==
    /\ pc[p] = "pushed"
    /\ Unlock({KindOf[p]})
    /\ pc' = [pc EXCEPT ![p] = "ready"]
    /\ UNCHANGED <<queue, tail, completed, tower, reporter, main, passed>>

\* Lock the runway; pthread_cond_wait releases it and waits in one step.
Wait(p) ==
    /\ pc[p] = "ready"
    /\ Free("runway")
    /\ pc' = [pc EXCEPT ![p] = "waiting"]
    /\ UNCHANGED <<queue, tail, locked, completed, tower, reporter, main, passed>>

\* pthread_cond_wait may return without a broadcast.
SpuriousWakeup(p) ==
    /\ ~PromptWakeups
    /\ pc[p] = "waiting"
    /\ pc' = [pc EXCEPT ![p] = "woken"]
    /\ UNCHANGED <<queue, tail, locked, completed, tower, reporter, main, passed>>

\* pthread_cond_wait takes the runway mutex again before it returns.
Resume(p) ==
    /\ pc[p] = "woken"
    /\ Lock("runway")
    /\ pc' = [pc EXCEPT ![p] = "check"]
    /\ UNCHANGED <<queue, tail, completed, tower, reporter, main, passed>>

\* Fault: a woken plane takes the runway without testing that it is first.
TestNothing(p) ==
    /\ pc[p] = "check"
    /\ completed' = [completed EXCEPT ![p] = TRUE]
    /\ pc' = [pc EXCEPT ![p] = "idle"]
    /\ Unlock({"runway"})
    /\ UNCHANGED <<queue, tail, tower, reporter, main, passed>>

\* The while loop: first in the queue, use the runway and end; if not, wait again.
TestFront(p) ==
    LET k == KindOf[p]
        mine == FrontDefined(k) /\ Head(queue[k]) = p
    IN  /\ pc[p] = "check"
        /\ Dereference(k)
        /\ completed' = [completed EXCEPT ![p] = @ \/ mine]
        /\ pc' = [pc EXCEPT ![p] = IF mine THEN "idle" ELSE "waiting"]
        /\ Unlock({"runway"})
        /\ UNCHANGED <<queue, tail, tower, reporter, passed>>

Plane(p) ==
    \/ WriteSlot(p) \/ MoveEnd(p) \/ UnlockQueue(p)
    \/ Wait(p) \/ SpuriousWakeup(p) \/ Resume(p) \/ TestFront(p)

-----------------------------------------------------------------------------
(* The tower's thread.  tower.fn runs; tower.caller is whom let_emergencies *)
(* returns to, every other function having a single caller.                 *)

Top == "check_notifications"
GoTo(f, at, caller) == tower' = [fn |-> f, at |-> at, caller |-> caller]
Step(at) == tower' = [tower EXCEPT !.at = at]

\* The while loop of check_notifications.
check_notifications ==
    /\ tower.fn = Top /\ tower.at = "loop"
    /\ IF main = "finished"
         THEN Step("done") ELSE GoTo("let_emergencies", "enter", Top)
    /\ UNCHANGED <<queue, tail, locked, pc, completed, reporter, main, passed>>

\* Fault: let_taking_offs waits for one plane too many.
WantedOffByOne(f) ==
    LET waiting(k) == Len(queue[k])
    IN  CASE f = "let_emergencies"     -> waiting("emergency") # 0
          [] f = "let_landings"        -> waiting("takingOff") < GroundLimit /\ waiting("landing") # 0
          [] f = "let_one_to_land"     -> waiting("landing") # 0
          [] f = "let_one_to_take_off" -> waiting("takingOff") # 0 /\ waiting("takingOff") < GroundLimit
          [] f = "let_taking_offs"     -> waiting("takingOff") > GroundLimit

\* The condition of each function's while or if.
Wanted(f) ==
    LET waiting(k) == Len(queue[k])
    IN  CASE f = "let_emergencies"     -> waiting("emergency") # 0
          [] f = "let_landings"        -> waiting("takingOff") < GroundLimit /\ waiting("landing") # 0
          [] f = "let_one_to_land"     -> waiting("landing") # 0
          [] f = "let_one_to_take_off" -> waiting("takingOff") # 0 /\ waiting("takingOff") < GroundLimit
          [] f = "let_taking_offs"     -> waiting("takingOff") >= GroundLimit

\* Fault: the runway is handed out without looking at the queue.
ChooseUntested(f) == Step("release")

Choose(f) == Step(IF Wanted(f) THEN "release" ELSE "exit")

\* Lock the queue and test; let_landings first locks the landing queue.
Enter(f) ==
    /\ tower.fn = f
    /\ \/ /\ f # "let_landings" /\ tower.at = "enter"
          /\ Lock(Serves[f]) /\ Choose(f)
       \/ /\ f = "let_landings" /\ tower.at = "enter"
          /\ Lock("landing") /\ Step("second")
       \/ /\ f = "let_landings" /\ tower.at = "second"
          /\ Lock("takingOff") /\ Choose(f)
    /\ UNCHANGED <<queue, tail, pc, completed, reporter, main, passed>>

\* Fault: only the main loop looks for emergencies.
ReleaseStraight(f) ==
    /\ tower.fn = f /\ tower.at = "release"
    /\ Unlock(Guards(f))
    /\ Step("broadcast")
    /\ UNCHANGED <<queue, tail, pc, completed, reporter, main, passed>>

\* Unlock, and let the emergencies go first.
Release(f) ==
    /\ tower.fn = f /\ tower.at = "release"
    /\ Unlock(Guards(f))
    /\ IF f = "let_emergencies" THEN Step("broadcast") ELSE GoTo("let_emergencies", "enter", f)
    /\ UNCHANGED <<queue, tail, pc, completed, reporter, main, passed>>

\* Grants to others a waiting emergency or landing plane has seen go by.
Overtaken(k) ==
    [j \in {"landing", "emergency"} |->
        IF j = k \/ queue[j] = <<>> THEN 0
        ELSE IF j = "emergency" \/ k = "takingOff" THEN passed[j] + 1 ELSE passed[j]]

\* Lock the runway, broadcast, unlock it.
Broadcast(f) ==
    /\ tower.fn = f /\ tower.at = "broadcast"
    /\ Free("runway")
    /\ pc' = [p \in Planes |-> IF KindOf[p] = Serves[f] /\ pc[p] = "waiting"
                               THEN "woken" ELSE pc[p]]
    /\ passed' = Overtaken(Serves[f])
    /\ Step("sleep")
    /\ UNCHANGED <<queue, tail, locked, completed, reporter, main>>

\* Fault: the tower does not give the woken plane its 2 s.
WakeUpEarly(f) ==
    /\ tower.fn = f /\ tower.at = "sleep"
    /\ Step("remove")
    /\ UNCHANGED <<queue, tail, locked, pc, completed, reporter, main, passed>>

\* pthread_sleep(2) ends.
WakeUp(f) ==
    /\ tower.fn = f /\ tower.at = "sleep"
    /\ PromptWakeups => \A p \in Planes : pc[p] \notin {"woken", "check"}
    /\ Step("remove")
    /\ UNCHANGED <<queue, tail, locked, pc, completed, reporter, main, passed>>

\* Fault: the front is popped whether or not it has completed its action.
RemoveAnyway(f) ==
    LET k == Serves[f]
    IN  /\ tower.fn = f /\ tower.at = "remove"
        /\ Lock(k)
        /\ Dereference(k)
        /\ queue' = IF FrontDefined(k) THEN [queue EXCEPT ![k] = Tail(@)] ELSE queue
        /\ Step(IF f = "let_landings" THEN "second" ELSE "unlock")
        /\ UNCHANGED <<tail, pc, completed, reporter, passed>>

\* Lock the queue and pop its front if that plane has completed its action.
Remove(f) ==
    LET k == Serves[f]
    IN  /\ tower.fn = f /\ tower.at = "remove"
        /\ Lock(k)
        /\ Dereference(k)
        /\ queue' = IF FrontDefined(k) /\ completed[Head(queue[k])]
                    THEN [queue EXCEPT ![k] = Tail(@)] ELSE queue
        /\ Step(IF f = "let_landings" THEN "second" ELSE "unlock")
        /\ UNCHANGED <<tail, pc, completed, reporter, passed>>

\* Fault: let_taking_offs forgets the landing planes between two departures.
UnlockRemovedOnly(f) ==
    /\ tower.fn = f /\ tower.at = "unlock"
    /\ Unlock(Guards(f))
    /\ CASE f = "let_emergencies" -> Step("retest")
         [] f = "let_taking_offs" -> Step("enter")
         [] OTHER                 -> Step("exit")
    /\ UNCHANGED <<queue, tail, pc, completed, reporter, main, passed>>

\* The unlock after the removal; only let_taking_offs locks again before it tests.
UnlockRemoved(f) ==
    /\ tower.fn = f /\ tower.at = "unlock"
    /\ Unlock(Guards(f))
    /\ CASE f = "let_emergencies" -> Step("retest")
         [] f = "let_taking_offs" -> GoTo("let_one_to_land", "enter", Top)
         [] OTHER                 -> Step("exit")
    /\ UNCHANGED <<queue, tail, pc, completed, reporter, main, passed>>

\* let_emergencies tests its loop condition again without the mutex.
Retest ==
    /\ tower.fn = "let_emergencies" /\ tower.at = "retest"
    /\ Choose("let_emergencies")
    /\ UNCHANGED <<queue, tail, locked, pc, completed, reporter, main, passed>>

\* The last unlock, whether or not the mutex is still held, and the return.
Exit(f) ==
    /\ tower.fn = f /\ tower.at = "exit"
    /\ Unlock(Guards(f))
    /\ CASE f = "let_emergencies" /\ tower.caller = Top -> GoTo("let_landings", "enter", Top)
         [] f = "let_emergencies" /\ tower.caller # Top -> GoTo(tower.caller, "broadcast", Top)
         [] f = "let_landings"                          -> GoTo("let_one_to_take_off", "enter", Top)
         [] f \in {"let_one_to_take_off", "let_one_to_land"}
                                                        -> GoTo("let_taking_offs", "enter", Top)
         [] f = "let_taking_offs"                       -> GoTo(Top, "loop", Top)
    /\ UNCHANGED <<queue, tail, pc, completed, reporter, main, passed>>

Tower ==
    \/ check_notifications
    \/ Retest
    \/ \E f \in Grants :
          \/ Enter(f) \/ Release(f) \/ Broadcast(f) \/ WakeUp(f)
          \/ Remove(f) \/ UnlockRemoved(f) \/ Exit(f)

-----------------------------------------------------------------------------
(* The reporting thread copies the queues one after the other, each under   *)
(* its mutex: an odd value of reporter is the copy in progress.             *)

ReportOrder == <<"landing", "emergency", "takingOff">>

report_planes ==
    LET k == ReportOrder[reporter \div 2 + 1]
    IN  /\ Reporting
        /\ \/ /\ reporter \in {0, 2, 4} /\ main = "loop"
              /\ Lock(k)
           \/ /\ reporter \in {1, 3, 5}
              /\ Unlock({k})
        /\ reporter' = (reporter + 1) % 6
        /\ UNCHANGED <<queue, tail, pc, completed, tower, main, passed>>

-----------------------------------------------------------------------------
Ended == ~Running /\ UNCHANGED vars

Next ==
    \/ Running /\ (Main \/ Tower \/ report_planes \/ \E p \in Planes : Plane(p))
    \/ Ended

Spec == Init /\ [][Next]_vars

\* Every thread keeps running while the process does.  A mutex goes back and forth
\* between threads, so the tower or a plane that finds it free again and again gets it
\* in the end (strong fairness): nobody else asks for it in a tight loop, the reporter
\* once a second and the planes once each.  The main thread owes nobody another plane.
Fairness ==
    /\ SF_vars(Running /\ Tower)
    /\ WF_vars(Running /\ report_planes)
    /\ \A p \in Planes : SF_vars(Running /\ Plane(p))

FairSpec == Spec /\ Fairness

-----------------------------------------------------------------------------
(* Properties. *)

\* Every variable has its type, and what is pushed to a queue is a plane of its kind.
TypeOK ==
    /\ queue \in [Kinds -> Seq(Planes \cup {NoPlane})]
    /\ tail \in [Kinds -> Planes \cup {NoPlane}]
    /\ \A k \in Kinds : tail[k] \in Planes => KindOf[tail[k]] = k
    /\ locked \subseteq Mutexes
    /\ pc \in [Planes -> {"idle", "start", "written", "pushed", "ready",
                          "waiting", "woken", "check"}]
    /\ completed \in [Planes -> BOOLEAN]
    /\ tower \in [fn : Grants \cup {Top},
                  at : {"loop", "done", "enter", "second", "release", "broadcast", "sleep",
                        "remove", "unlock", "retest", "exit"},
                  caller : Grants \cup {Top}]
    /\ reporter \in 0..5
    /\ main \in Kinds \cup {"first", "second", "loop", "finished", "exited", "crashed"}
    /\ passed \in [{"landing", "emergency"} -> Nat]

\* No thread ever calls front() on an empty queue or reads an unset slot, although
\* the planes test front() without the queue's mutex and the tower tests the
\* emergency queue's size after unlocking it.
NoBadFront == main # "crashed"

\* A request is never lost: from its push until it has used the runway a plane stands
\* in its queue, whatever wakeup it missed (the tower pops only completed planes).
WaitingIsQueued ==
    \A p \in Planes : pc[p] \in {"pushed", "ready", "waiting", "woken", "check"} => InQueue(p)

\* The runway is used in the order of the queues: behind the front of a queue nobody
\* has completed its action, however late a woken thread tests front().
OnlyFrontCompleted ==
    \A k \in Kinds : \A i \in 2..Len(queue[k]) :
        queue[k][i] \in Planes /\ ~completed[queue[k][i]]

\* No collision: between taking the runway and being removed by the tower, 2 s later,
\* a plane has the runway for itself, across all three queues.
OneOnRunway == \A p, q \in Planes : OnRunway(p) /\ OnRunway(q) => p = q

\* An emergency goes first: once it waits, at most one other grant is broadcast, the
\* one the tower had decided on before it looked at the emergency queue.
EmergencyOvertakenOnce == passed["emergency"] <= 1

\* Landing planes are favoured: while one waits, at most two departures are granted
\* before the next landing, even when the ground queue is over its limit.
LandingOvertakenTwice == passed["landing"] <= 2

\* The airport implements the controlled runway.
Controlled == INSTANCE ControlledRunway WITH
    line   <- queue,
    permit <- IF tower.at \in {"sleep", "remove"} THEN Serves[tower.fn] ELSE NoPlane,
    user   <- IF \E p \in Planes : OnRunway(p)
              THEN CHOOSE p \in Planes : OnRunway(p) ELSE NoPlane,
    Nobody <- NoPlane

ControlledSpec == Controlled!Spec

\* The threads between a lock and its unlock of queue k's mutex.  let_emergencies is
\* not counted at its first unlock: it may come there without the mutex.
Inside(k) ==
    {p \in Planes : KindOf[p] = k /\ pc[p] \in {"written", "pushed"}}
    \cup {t \in {"tower"} : \/ tower.fn \in Grants /\ k \in Guards(tower.fn)
                               /\ tower.at = "unlock"
                            \/ tower.fn \in Grants \ {"let_emergencies"}
                               /\ k \in Guards(tower.fn) /\ tower.at = "release"
                            \/ tower.at = "second" /\ k = "landing"}
    \cup {t \in {"reporter"} : reporter \in {1, 3, 5} /\ ReportOrder[reporter \div 2 + 1] = k}

\* A queue's mutex controls the access to the queue: one thread at a time.
QueueMutexExclusion == \A k \in Kinds : \A s, t \in Inside(k) : s = t

\* Once emergencies stop coming, every plane that lands is served: no missed wakeup,
\* no full ground queue and no stream of later planes keeps it in the air forever.
LandingServed ==
    <>[](\A p \in EmergencyPlanes : pc[p] = "idle") =>
        \A p \in LandingPlanes : pc[p] = "ready" ~> (completed[p] \/ ~Running \/ main = "finished")

\* Once emergencies stop coming, a ground queue at its limit is relieved.
GroundRelieved ==
    <>[](\A p \in EmergencyPlanes : pc[p] = "idle") =>
        (Len(queue["takingOff"]) >= GroundLimit
            ~> ((\E p \in DepartingPlanes : OnRunway(p)) \/ ~Running \/ main = "finished"))
===============================================================================
