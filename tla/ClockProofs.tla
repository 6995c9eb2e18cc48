------------------------------ MODULE ClockProofs ------------------------------
(***************************************************************************)
(* Proofs about SimulationClock: with which numbers of turns a second the  *)
(* busy loops of src/Project2/airport.cpp miss no second and no interval.  *)
(***************************************************************************)
EXTENDS SimulationClock, TLAPS

-----------------------------------------------------------------------------
(* Types. *)

\* TypeOK, and turns has no other fields.
TypeInv ==
    /\ TypeOK
    /\ turns \in [main : 0 .. MainTurns, reporter : 0 .. ReporterTurns]

\* A turn counted is counted for its loop only, and never beyond the least number.
LEMMA Counted ==
    ASSUME TypeInv
    PROVE  /\ Turned("main", MainTurns) =>
                /\ turns' \in [main : 0 .. MainTurns, reporter : 0 .. ReporterTurns]
                /\ turns'.reporter = turns.reporter
                /\ turns'.main >= turns.main
                /\ MainTurns > 0 => turns'.main > 0
                /\ turns.main = 0 => turns'.main <= 1
                /\ turns.main > 0 /\ MainTurns > 1 => turns'.main > 1
           /\ Turned("reporter", ReporterTurns) =>
                /\ turns' \in [main : 0 .. MainTurns, reporter : 0 .. ReporterTurns]
                /\ turns'.main = turns.main
                /\ ReporterTurns > 0 => turns'.reporter > 0
BY ClockConstants DEF TypeInv, Turned

LEMMA InitialTypes == Init => TypeInv
BY ClockConstants DEF Init, TypeInv, TypeOK

LEMMA NextTypes == TypeInv /\ [Next]_vars => TypeInv'
<1> SUFFICES ASSUME TypeInv, [Next]_vars
             PROVE  TypeInv'
  OBVIOUS
<1> USE ClockConstants DEF TypeInv, TypeOK
<1>1. CASE Tick
  BY <1>1 DEF Tick, simulation_finished
<1>2. CASE ReadClock
  BY <1>2, Counted DEF ReadClock
<1>3. CASE Create
  BY <1>3 DEF Create
<1>4. CASE AwaitNth
  BY <1>4, Counted DEF AwaitNth
<1>5. CASE Report
  <2>1. /\ UNCHANGED <<now, main, current, seconds, emergency_counter, reporter>>
        /\ seen' = now
        /\ last_update' \in {last_update, seen} /\ reported' \subseteq reported \cup {seen}
    BY <1>5 DEF Report
  <2>2. reported' \subseteq 0 .. seen'
    BY <2>1
  <2> QED
    BY <1>5, <2>1, <2>2, Counted DEF Report
<1>6. CASE UNCHANGED vars
  BY <1>6 DEF vars
<1> QED
  BY <1>1, <1>2, <1>3, <1>4, <1>5, <1>6 DEF Next

LEMMA Typed == Spec => []TypeInv
<1>1. TypeInv /\ [Next]_vars => TypeInv'
  BY NextTypes
<1> QED
  BY <1>1, InitialTypes, PTL DEF Spec

\* TypeOK of SimulationClock, for every number of turns: no loop is ahead of the clock, no
\* plane is created for a second to come, and nothing is reported before it has begun.
THEOREM TypeCorrect == Spec => []TypeOK
<1>1. TypeInv => TypeOK
  BY DEF TypeInv
<1> QED
  BY <1>1, Typed, PTL

-----------------------------------------------------------------------------
(* run_simulation. *)

\* While the simulation lasts, run_simulation has read the clock in this second or, before
\* its first turn, in the last one.
Recent ==
    main # "finished" => /\ turns.main > 0 => current = now
                         /\ turns.main = 0 => now <= current + 1

\* A turn that has been taken leaves less than an interval to the next emergency.
EmergencyInv ==
    /\ main = "act" => current - emergency_counter <= EMERGENCY_INTERVAL
    /\ main = "read" => current - emergency_counter < EMERGENCY_INTERVAL

LEMMA RecentInductive ==
    ASSUME MainTurns > 0, TypeInv, Recent, [Next]_vars
    PROVE  Recent'
<1> USE ClockConstants DEF TypeInv, TypeOK, Recent
<1>1. CASE Tick
  BY <1>1 DEF Tick, simulation_finished
<1>2. CASE ReadClock
  BY <1>2, Counted DEF ReadClock
<1>3. CASE Create
  BY <1>3 DEF Create
<1>4. CASE AwaitNth
  BY <1>4, Counted DEF AwaitNth
<1>5. CASE Report
  BY <1>5, Counted DEF Report
<1>6. CASE UNCHANGED vars
  BY <1>6 DEF vars
<1> QED
  BY <1>1, <1>2, <1>3, <1>4, <1>5, <1>6 DEF Next

\* NoEmergencyMissed: an emergency is created in every interval if run_simulation reads
\* the clock at least once a second; it does not matter that the start of an interval may
\* be a second later than the one the comparison saw.
THEOREM EmergenciesComeInTime ==
    MainTurns > 0 => (Spec => []NoEmergencyMissed)
<1> SUFFICES ASSUME MainTurns > 0
             PROVE  Spec => []NoEmergencyMissed
  OBVIOUS
<1> DEFINE Inv == TypeInv /\ Recent /\ EmergencyInv
<1>1. Init => Inv
  BY InitialTypes, ClockConstants DEF Init, Recent, EmergencyInv
<1>2. Inv /\ [Next]_vars => Inv'
  <2> SUFFICES ASSUME Inv, [Next]_vars
               PROVE  EmergencyInv'
    BY NextTypes, RecentInductive
  <2> USE ClockConstants DEF TypeInv, TypeOK, EmergencyInv
  <2>1. CASE Tick
    BY <2>1 DEF Tick
  <2>2. CASE ReadClock
    BY <2>2 DEF ReadClock, Recent
  <2>3. CASE Create
    BY <2>3 DEF Create
  <2>4. CASE AwaitNth \/ Report
    BY <2>4 DEF AwaitNth, Report
  <2>5. CASE UNCHANGED vars
    BY <2>5 DEF vars
  <2> QED
    BY <2>1, <2>2, <2>3, <2>4, <2>5 DEF Next
<1>3. Inv => NoEmergencyMissed
  BY DEF EmergencyInv, NoEmergencyMissed
<1> QED
  BY <1>1, <1>2, <1>3, PTL DEF Spec

\* The second turn in a second makes up for the first, which may have been an emergency's:
\* what the first has done, in whichever second the turns are taken.
FirstTaken == seconds = current \/ (seconds = current - 1 /\ emergency_counter >= current)

SecondsInv ==
    /\ main = "act" /\ turns.main = 1 => seconds >= current - 1
    /\ main = "act" /\ turns.main # 1 => FirstTaken
    /\ main = "read" /\ turns.main = 1 => FirstTaken
    /\ main = "read" /\ turns.main # 1 => seconds = current

\* NoSecondMissed: a plane is created for every second if run_simulation reads the clock at
\* least twice a second.  (With once, an emergency takes the turn of a plane for good.)
THEOREM PlanesComeEverySecond ==
    MainTurns > 1 => (Spec => []NoSecondMissed)
<1> SUFFICES ASSUME MainTurns > 1
             PROVE  Spec => []NoSecondMissed
  OBVIOUS
<1> DEFINE Inv == TypeInv /\ Recent /\ SecondsInv
<1>1. Init => Inv
  BY InitialTypes, ClockConstants DEF Init, Recent, SecondsInv
<1>2. Inv /\ [Next]_vars => Inv'
  <2> SUFFICES ASSUME Inv, [Next]_vars
               PROVE  SecondsInv'
    <3> MainTurns > 0
      BY ClockConstants
    <3> QED
      BY NextTypes, RecentInductive
  <2> USE ClockConstants DEF TypeInv, TypeOK, SecondsInv, FirstTaken
  <2>1. CASE Tick
    BY <2>1 DEF Tick, simulation_finished
  <2>2. CASE ReadClock
    BY <2>2, Counted DEF ReadClock, Recent
  <2>3. CASE Create
    BY <2>3 DEF Create, Recent
  <2>4. CASE AwaitNth
    BY <2>4, Counted DEF AwaitNth
  <2>5. CASE Report
    BY <2>5, Counted DEF Report
  <2>6. CASE UNCHANGED vars
    BY <2>6 DEF vars
  <2> QED
    BY <2>1, <2>2, <2>3, <2>4, <2>5, <2>6 DEF Next
<1>3. Inv => NoSecondMissed
  BY ClockConstants DEF TypeInv, TypeOK, SecondsInv, FirstTaken, NoSecondMissed
<1> QED
  BY <1>1, <1>2, <1>3, PTL DEF Spec

-----------------------------------------------------------------------------
(* report_planes. *)

\* report_planes has read the clock in this second or, before its first turn, in the last;
\* it leaves the first loop in the nth second.
ReporterInv ==
    /\ turns.reporter > 0 => seen = now
    /\ turns.reporter = 0 => now <= seen + 1
    /\ reporter = "wait" => seen <= n
    /\ reporter = "loop" => seen <= last_update + 1

\* NoReportMissed: every second from n + 1 on is reported if report_planes reads the clock
\* at least once a second.
THEOREM ReportsComeEverySecond ==
    ReporterTurns > 0 => (Spec => []NoReportMissed)
<1> SUFFICES ASSUME ReporterTurns > 0
             PROVE  Spec => []NoReportMissed
  OBVIOUS
<1> DEFINE Inv == TypeInv /\ ReporterInv /\ NoReportMissed
<1>1. Init => Inv
  BY InitialTypes, ClockConstants DEF Init, ReporterInv, NoReportMissed
<1>2. Inv /\ [Next]_vars => Inv'
  <2> SUFFICES ASSUME Inv, [Next]_vars
               PROVE  (ReporterInv /\ NoReportMissed)'
    BY NextTypes
  <2> USE ClockConstants DEF TypeInv, TypeOK, ReporterInv, NoReportMissed
  <2>1. CASE Tick
    BY <2>1 DEF Tick
  <2>2. CASE ReadClock
    BY <2>2, Counted DEF ReadClock
  <2>3. CASE Create
    BY <2>3 DEF Create
  <2>4. CASE AwaitNth
    <3>1. CASE seen < n
      BY <2>4, <3>1, Counted DEF AwaitNth
    <3>2. CASE ~(seen < n)
      <4>1. last_update' = n /\ seen = n /\ seen' = seen /\ reporter' = "loop"
        BY <2>4, <3>2 DEF AwaitNth
      <4>2. (n + 1) .. last_update' = {}
        BY <4>1
      <4> QED
        BY <2>4, <3>2, <4>1, <4>2 DEF AwaitNth
    <3> QED
      BY <3>1, <3>2
  <2>5. CASE Report
    <3>1. CASE seen - last_update = 1
      <4>1. last_update' = seen /\ seen = last_update + 1 /\ reported' = reported \cup {seen}
        BY <2>5, <3>1 DEF Report
      <4>2. (n + 1) .. last_update' \subseteq (n + 1) .. last_update \cup {seen}
        BY <4>1
      <4>3. (n + 1) .. last_update' \subseteq reported'
        BY <2>5, <4>1, <4>2 DEF Report
      <4> QED
        BY <2>5, <4>1, <4>3, Counted DEF Report
    <3>2. CASE seen - last_update # 1
      <4>1. last_update' = last_update /\ seen = last_update /\ reported' = reported
        BY <2>5, <3>2 DEF Report
      <4> QED
        BY <2>5, <4>1, Counted DEF Report
    <3> QED
      BY <3>1, <3>2
  <2>6. CASE UNCHANGED vars
    BY <2>6 DEF vars
  <2> QED
    BY <2>1, <2>2, <2>3, <2>4, <2>5, <2>6 DEF Next
<1>3. Inv => NoReportMissed
  OBVIOUS
<1> QED
  BY <1>1, <1>2, <1>3, PTL DEF Spec
===============================================================================
