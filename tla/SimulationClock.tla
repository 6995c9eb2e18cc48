---------------------------- MODULE SimulationClock ----------------------------
(***************************************************************************)
(* When planes are created and queues reported, src/Project2/airport.cpp:  *)
(* run_simulation and report_planes are busy loops that read the clock and *)
(* compare whole seconds for equality.  A second, or an interval, that a   *)
(* loop does not see is lost for good.  An operator introduced as a fault  *)
(* is no part of Next.                                                     *)
(***************************************************************************)
EXTENDS Integers

CONSTANTS
    simulation_time,      \* seconds the simulation lasts, option -s
    n,                    \* the second from which queues are reported, option -n
    EMERGENCY_INTERVAL,   \* seconds between two emergencies, 40 in the code
    MainTurns,            \* times run_simulation reads the clock in a second, at least
    ReporterTurns         \* times report_planes does

ASSUME ClockConstants ==
    /\ simulation_time \in Nat /\ n \in Nat /\ EMERGENCY_INTERVAL \in Nat \ {0}
    /\ MainTurns \in Nat /\ ReporterTurns \in Nat

VARIABLES
    now,                  \* the clock, in seconds since start_time
    main,                 \* where run_simulation is
    current,              \* its current_time
    seconds,              \* the last second a plane was created for
    emergency_counter,    \* when the last emergency was created
    reporter,             \* where report_planes is
    seen,                 \* its current_time
    last_update,          \* the last second it reported, once it waits no more
    reported,             \* history: the seconds it reported
    turns                 \* how often each loop has read the clock in this second

vars == <<now, main, current, seconds, emergency_counter,
          reporter, seen, last_update, reported, turns>>

simulation_finished == main = "finished"

Init ==
    /\ now = 0 /\ main = "read" /\ current = 0 /\ seconds = 0 /\ emergency_counter = 0
    /\ reporter = "wait" /\ seen = 0 /\ last_update = 0 /\ reported = {}
    /\ turns = [main |-> 0, reporter |-> 0]

\* The clock moves on; the bound is one second more than the loops can look at.
Tick ==
    /\ now <= simulation_time
    /\ turns.main >= MainTurns \/ simulation_finished
    /\ turns.reporter >= ReporterTurns
    /\ now' = now + 1
    /\ turns' = [main |-> 0, reporter |-> 0]
    /\ UNCHANGED <<main, current, seconds, emergency_counter,
                   reporter, seen, last_update, reported>>

\* A turn beyond the least number is not counted.
Turned(who, least) == turns' = [turns EXCEPT ![who] = IF @ < least THEN @ + 1 ELSE @]

\* The loop condition of run_simulation, and the reading of the clock.
ReadClock ==
    /\ main = "read"
    /\ IF current < simulation_time
         THEN main' = "act" /\ current' = now /\ Turned("main", MainTurns)
         ELSE main' = "finished" /\ UNCHANGED <<current, turns>>
    /\ UNCHANGED <<now, seconds, emergency_counter, reporter, seen, last_update, reported>>

\* Fault: the second a plane was created for is not counted.
CreateUncounted ==
    /\ main = "act" /\ main' = "read"
    /\ emergency_counter' = IF current - emergency_counter = EMERGENCY_INTERVAL
                            THEN now ELSE emergency_counter
    /\ UNCHANGED <<now, current, seconds, reporter, seen, last_update, reported, turns>>

\* Fault: the time of the emergency is not noted.
CreateUnnoted ==
    /\ main = "act" /\ main' = "read"
    /\ seconds' = IF current - emergency_counter # EMERGENCY_INTERVAL /\ current - seconds = 1
                  THEN seconds + 1 ELSE seconds
    /\ UNCHANGED <<now, current, emergency_counter, reporter, seen, last_update, reported, turns>>

\* Fault: a plane every turn.
CreateEveryTurn ==
    /\ main = "act" /\ main' = "read"
    /\ seconds' = seconds + 1
    /\ UNCHANGED <<now, current, emergency_counter, reporter, seen, last_update, reported, turns>>

\* An emergency if its interval is over, else a plane if a second is; the emergency's
\* time is read again, and may be a later one.
Create ==
    /\ main = "act" /\ main' = "read"
    /\ \/ /\ current - emergency_counter = EMERGENCY_INTERVAL
          /\ emergency_counter' = now
          /\ UNCHANGED seconds
       \/ /\ current - emergency_counter # EMERGENCY_INTERVAL /\ current - seconds = 1
          /\ seconds' = seconds + 1
          /\ UNCHANGED emergency_counter
       \/ /\ current - emergency_counter # EMERGENCY_INTERVAL /\ current - seconds # 1
          /\ UNCHANGED <<seconds, emergency_counter>>
    /\ UNCHANGED <<now, current, reporter, seen, last_update, reported, turns>>

\* report_planes reads the clock until the nth second is there.
AwaitNth ==
    /\ reporter = "wait"
    /\ IF seen < n
         THEN seen' = now /\ Turned("reporter", ReporterTurns)
              /\ UNCHANGED <<reporter, last_update>>
         ELSE last_update' = seen /\ reporter' = "loop" /\ UNCHANGED <<seen, turns>>
    /\ UNCHANGED <<now, main, current, seconds, emergency_counter, reported>>

\* Fault: the second reported is the old one again.
ReportAgain ==
    /\ reporter = "loop" /\ ~simulation_finished
    /\ reported' = IF seen - last_update = 1 THEN reported \cup {seen} ELSE reported
    /\ seen' = now
    /\ Turned("reporter", ReporterTurns)
    /\ UNCHANGED <<now, main, current, seconds, emergency_counter, reporter, last_update>>

\* One turn of its second loop: report if a second has passed, read the clock.
Report ==
    /\ reporter = "loop" /\ ~simulation_finished
    /\ IF seen - last_update = 1
         THEN last_update' = seen /\ reported' = reported \cup {seen}
         ELSE UNCHANGED <<last_update, reported>>
    /\ seen' = now
    /\ Turned("reporter", ReporterTurns)
    /\ UNCHANGED <<now, main, current, seconds, emergency_counter, reporter>>

Next == Tick \/ ReadClock \/ Create \/ AwaitNth \/ Report

Spec == Init /\ [][Next]_vars

-----------------------------------------------------------------------------
(* Properties. *)

\* Every variable has its type, and no loop is ahead of the clock.
TypeOK ==
    /\ now \in 0 .. (simulation_time + 1)
    /\ main \in {"read", "act", "finished"} /\ reporter \in {"wait", "loop"}
    /\ current \in 0 .. now /\ seconds \in 0 .. current /\ emergency_counter \in 0 .. now
    /\ seen \in 0 .. now /\ last_update \in 0 .. seen /\ reported \subseteq 0 .. seen
    /\ turns.main \in 0 .. MainTurns /\ turns.reporter \in 0 .. ReporterTurns

\* No second goes by without its plane, although an emergency takes the turn of a plane:
\* the difference run_simulation compares with 1 never skips it.  Once it did, no plane
\* would ever be created again.
NoSecondMissed == main = "act" => current - seconds <= 1

\* No interval goes by without its emergency, although its start is read anew.
NoEmergencyMissed == main = "act" => current - emergency_counter <= EMERGENCY_INTERVAL

\* Every second from the one after the reporter's first on is reported.  (The first report
\* is that of second n + 1, where airport.cpp:329 says that they start with the nth.)
NoReportMissed ==
    reporter = "loop" => seen - last_update <= 1 /\ (n + 1) .. last_update \subseteq reported
===============================================================================
